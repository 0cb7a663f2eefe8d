----------------------------- MODULE StopLadder -----------------------------
(***************************************************************************)
(* The price rules of one open position: what a pass of PositionManager    *)
(* does with a fresh price, a radar signal and an AI review.  LONG and     *)
(* SHORT share the definitions through Ahead.                              *)
(*                                                                         *)
(* Prices, distances and quantities are integers; R multiples are counted  *)
(* in twentieths.  Costs are the constant distance Cost between the entry  *)
(* and _net_breakeven_price.  lock_status is abstracted to the values that *)
(* are tested.  How a pass interleaves with other calls, and what orders   *)
(* do, is in PositionLifecycle.                                            *)
(***************************************************************************)
EXTENDS Integers

CONSTANTS
  Entry, Risk, Cost, Tp1, Tp2,   \* entry price, and distances from it
  LiveSides,   \* sides that are opened live, the others on paper
  Prices,      \* the prices quotes may show
  Noises,      \* noise_budget_r, in twentieths of Risk
  Signals,     \* radar evidence a pass may find, as sets of Flags
  Trails,      \* clamped ATR distances of the trailing stop
  Initial,     \* initial quantity
  MaxCrashes   \* bound: process restarts

\* rule_strategy plans: stop at 0.4 % or more, round trip costs 0.18 %, and
\* tp1 and tp2 at 1.15 and 2.1 times the stop distance or further.
ASSUME PlanAssumption ==
  /\ Entry \in Int /\ Prices \subseteq Int
  /\ Risk \in Nat /\ Cost \in Nat \ {0} /\ 4 * Cost < 3 * Risk
  /\ Tp1 \in Nat /\ Tp2 \in Nat /\ Cost < Tp1 /\ Tp1 < Tp2
  /\ Noises \subseteq 4..16
  /\ Trails \subseteq Nat \ {0}
  /\ Initial \in Nat \ {0}
  /\ MaxCrashes \in Nat

VARIABLES
  pos,      \* the Position object
  saved,    \* its row of table positions
  verdict,  \* the rule decision awaiting its AI review, or NoVerdict
  outcome,  \* "open", or the close_reason
  crashes

vars == <<pos, saved, verdict, outcome, crashes>>

Sides == {"LONG", "SHORT"}
Stages == {1, 2}
Locks == {"PLAIN", "RESTORED_STALE", "DEFENSIVE_PARTIAL_REDUCE", "LIVE_FAILED"}
Levels == {"NORMAL", "WATCH", "DEFENSIVE", "EXIT_READY"}
Actions == {"HOLD", "PROTECT", "REDUCE", "EXIT"}
Reasons == {"RESTORED_STALE_RECONCILE", "STOP", "THESIS", "MAX_HOLD_TIMEOUT", "TP2"}

\* live: the orders and protection syncs of the position may fail.
Positions == [live : BOOLEAN, side : Sides, stage : Stages, price : Int, best : Int, stop : Int,
              qty : 1..Initial, realized : Int, rewarded : BOOLEAN,
              noise : 4..16, lock : Locks]
Verdicts == [action : Actions, level : Levels]
NoVerdict == [action |-> "HOLD", level |-> "NONE"]

\* Radar evidence about the position; a signal is the set of its flags.
Flags == {"strong_reverse", "fake_high", "fake_medium", "decayed", "against", "fund_weak"}
NoSignal == {"none"}

\* A strong reverse is confirmed by funds, and the fake risk has one grade.
ASSUME SignalsAssumption ==
  \A f \in Signals :
    \/ f = NoSignal
    \/ /\ f \subseteq Flags
       /\ ~({"strong_reverse", "fund_weak"} \subseteq f)
       /\ ~({"fake_high", "fake_medium"} \subseteq f)

\* A usable review (status ok) with its confidence in percent, or Unavailable;
\* the confidence is looked at for REDUCE and EXIT, alive for EXIT only.
Reviews ==
  {r \in [action : Actions, confidence : {0, 45, 55}, alive : BOOLEAN] :
     /\ r.confidence = 0 \/ r.action \in {"REDUCE", "EXIT"}
     /\ r.alive \/ r.action = "EXIT"}
Unavailable == [action |-> "PROTECT", confidence |-> -1, alive |-> TRUE]

------------------------------------------------------------------------------
(* Prices.                                                                 *)

\* How far price a is ahead of b in favour of the side.
Ahead(side, a, b) == IF side = "LONG" THEN a - b ELSE b - a
At(side, distance) == IF side = "LONG" THEN Entry + distance ELSE Entry - distance
Further(side, a, b) == IF Ahead(side, a, b) > 0 THEN a ELSE b

Breakeven(p) == At(p.side, Cost)
Gain(p) == Ahead(p.side, p.price, Entry)
Net(p) == Ahead(p.side, p.price, Breakeven(p))
Roi(p) == p.realized + p.qty * Net(p)
AdverseAtLeast(p, twentieths) == -20 * Gain(p) >= twentieths * Risk

AtStop(p) == Ahead(p.side, p.price, p.stop) <= 0
AtTp1(p) == Gain(p) >= Tp1
AtTp2(p) == Gain(p) >= Tp2

Max2(a, b) == IF a > b THEN a ELSE b

Opened(side) ==
  [live |-> side \in LiveSides, side |-> side, stage |-> 1, price |-> Entry, best |-> Entry,
   stop |-> At(side, -Risk), qty |-> Initial, realized |-> 0,
   rewarded |-> FALSE, noise |-> 4, lock |-> "PLAIN"]

\* update_position and _refresh_realtime_state; rewarded latches mfe_r >= 0.45.
Marked(p, price, noise) ==
  LET q == [p EXCEPT !.price = price, !.noise = noise,
                     !.best = Further(p.side, price, p.best)]
  IN [q EXCEPT !.rewarded = @ \/ 20 * q.qty * Net(q) >= 9 * Risk * Initial]

------------------------------------------------------------------------------
(* The rule decision.                                                      *)

ThesisInvalidated(p, signal) ==
  LET cut == Max2(11, p.noise)
  IN \/ "strong_reverse" \in signal /\ AdverseAtLeast(p, cut)
     \/ /\ signal \cap {"fake_high", "decayed"} # {} /\ Roi(p) <= 0
        /\ AdverseAtLeast(p, Max2(16, cut))
     \/ /\ {"against", "fund_weak"} \subseteq signal /\ Roi(p) < 0
        /\ AdverseAtLeast(p, cut)

DefenseLevel(p, signal) ==
  IF ThesisInvalidated(p, signal) THEN "EXIT_READY"
  ELSE IF signal = NoSignal THEN "NORMAL"
  ELSE IF AdverseAtLeast(p, Max2(7, p.noise)) \/ "strong_reverse" \in signal THEN "DEFENSIVE"
  ELSE IF \/ -40 * Gain(p) >= Max2(6, p.noise) * Risk
          \/ signal \cap {"decayed", "fake_medium", "against"} # {} THEN "WATCH"
  ELSE "NORMAL"

\* More than 55 % of the initial quantity is left.
NearlyFull(p) == 20 * p.qty > 11 * Initial

DefensiveReduceReady(p, signal) ==
  /\ p.lock # "DEFENSIVE_PARTIAL_REDUCE"
  /\ NearlyFull(p) /\ Roi(p) > 0 /\ p.rewarded
  /\ DefenseLevel(p, signal) = "DEFENSIVE"
  /\ signal \cap {"strong_reverse", "decayed", "fake_medium", "against"} # {}

Rule(p, signal) ==
  [level |-> DefenseLevel(p, signal),
   action |-> IF ThesisInvalidated(p, signal) THEN "EXIT"
              ELSE IF DefensiveReduceReady(p, signal) THEN "REDUCE"
              ELSE IF DefenseLevel(p, signal) \in {"DEFENSIVE", "WATCH"} THEN "PROTECT"
              ELSE "HOLD"]

\* lock_status after position_decision.
Assessed(p, signal) ==
  CASE Rule(p, signal).action = "REDUCE" -> [p EXCEPT !.lock = "DEFENSIVE_PARTIAL_REDUCE"]
    [] Rule(p, signal) = [action |-> "PROTECT", level |-> "DEFENSIVE"] ->
         [p EXCEPT !.lock = "PLAIN"]
    [] OTHER -> p

------------------------------------------------------------------------------
(* The AI review.                                                          *)

ReviewRequired(p, v) ==
  \/ v.action \in {"REDUCE", "EXIT"}
  \/ v.level \in {"WATCH", "DEFENSIVE", "EXIT_READY"}
  \/ AdverseAtLeast(p, 3)

\* Mutant of AiExitAllowed: the noise budget is not looked at.
AiExitAnywhere(p, r) == r.confidence >= 55 /\ ~r.alive

AiExitAllowed(p, r) ==
  AdverseAtLeast(p, Max2(p.noise, 7)) /\ r.confidence >= 55 /\ ~r.alive

AiReduceAllowed(p, r) ==
  /\ NearlyFull(p) /\ r.confidence >= 45
  /\ Roi(p) > 0 \/ 4 * Gain(p) >= Risk \/ p.rewarded

\* _apply_ai_review: the action that is carried out.
Final(p, v, r) ==
  IF r = Unavailable \/ v.action \in {"EXIT", "REDUCE"} THEN v.action
  ELSE IF r.action = "EXIT" /\ AiExitAllowed(p, r) THEN "EXIT"
  ELSE IF r.action = "REDUCE" /\ AiReduceAllowed(p, r) THEN "REDUCE"
  ELSE v.action

\* lock_status after the review was applied.
Reviewed(p, v, r) ==
  IF r.action = "PROTECT" /\ r # Unavailable /\ v.action \in {"HOLD", "PROTECT"}
  THEN [p EXCEPT !.lock = "PLAIN"] ELSE p

------------------------------------------------------------------------------
(* The ladder: soft lock, TP1, trailing stop.                              *)

Reduced(p, k) ==
  [p EXCEPT !.qty = @ - k, !.realized = @ + k * Net(p),
            !.lock = "DEFENSIVE_PARTIAL_REDUCE"]

SoftLockDue(p) ==
  /\ p.stage = 1 /\ 4 * Gain(p) >= 3 * Risk
  /\ Ahead(p.side, Breakeven(p), p.stop) > 0

SoftLocked(p) ==
  IF SoftLockDue(p) THEN [p EXCEPT !.stop = Breakeven(p), !.lock = "PLAIN"] ELSE p

Tp1Stop(p) == Further(p.side, Breakeven(p), At(p.side, Tp1 \div 5))

Tp1Taken(p) ==
  IF p.stage = 1 /\ AtTp1(p)
  THEN [p EXCEPT !.qty = @ - @ \div 2, !.stage = 2, !.lock = "PLAIN",
                 !.realized = @ + (p.qty \div 2) * (Tp1 - Cost),
                 !.stop = Tp1Stop(p)]
  ELSE p

TrailStop(p, d) ==
  Further(p.side, At(p.side, Ahead(p.side, p.best, Entry) - d), Breakeven(p))

\* Mutant of Trailed: the stop follows the price both ways.
TrailedBothWays(p, d) ==
  IF p.stage = 2 THEN [p EXCEPT !.stop = TrailStop(p, d), !.lock = "PLAIN"] ELSE p

\* Mutant of Trailed: the stop is computed from the best price alone.
TrailedFromBest(p, d) ==
  IF p.stage = 2
  THEN [p EXCEPT !.stop = At(p.side, Ahead(p.side, p.best, Entry) - d), !.lock = "PLAIN"]
  ELSE p

Trailed(p, d) ==
  IF p.stage = 2 /\ Ahead(p.side, TrailStop(p, d), p.stop) > 0
  THEN [p EXCEPT !.stop = TrailStop(p, d), !.lock = "PLAIN"] ELSE p

------------------------------------------------------------------------------
(* Steps of a pass.                                                        *)

Idle == verdict = NoVerdict
Returned == verdict' = NoVerdict /\ UNCHANGED crashes

\* registry.add(p) at the end of an iteration.
Save(p) == pos' = p /\ saved' = p /\ Returned /\ UNCHANGED outcome

\* managed_close; a failing live order is recorded and the position stays.
Close(p, reason) ==
  \/ pos' = p /\ outcome' = reason /\ Returned /\ UNCHANGED saved
  \/ p.live /\ Save([p EXCEPT !.lock = "LIVE_FAILED"])

\* A stale quote: NOOP and save.
Skip == outcome = "open" /\ Idle /\ Save(pos)

CloseRestored(price) ==
  LET p == Marked(pos, price, pos.noise)
  IN /\ outcome = "open" /\ Idle
     /\ p.lock = "RESTORED_STALE"
     /\ Close(p, "RESTORED_STALE_RECONCILE")

CloseAtStop(price) ==
  LET p == Marked(pos, price, pos.noise)
  IN /\ outcome = "open" /\ Idle
     /\ p.lock # "RESTORED_STALE" /\ AtStop(p)
     /\ Close(p, "STOP")

Assess(price, noise, signal) ==
  LET p == Marked(pos, price, noise)
  IN /\ outcome = "open" /\ Idle
     /\ p.lock # "RESTORED_STALE" /\ ~AtStop(p)
     /\ pos' = Assessed(p, signal)
     /\ verdict' = Rule(p, signal)
     /\ UNCHANGED <<saved, outcome, crashes>>

\* The reviews that can be applied to the verdict.
ReviewsOf(p, v) ==
  {Unavailable} \cup (IF ReviewRequired(p, v) THEN Reviews ELSE {})

Judging(r, actions) ==
  /\ outcome = "open" /\ ~Idle
  /\ Final(pos, verdict, r) \in actions

JudgeExit(r) ==
  /\ Judging(r, {"EXIT"})
  /\ Close(Reviewed(pos, verdict, r), "THESIS")

\* Mutant of Cuts: the ratio of the review is not clamped to 0.5.
CutsUnclamped(p, v) == IF v.action = "REDUCE" THEN {p.qty \div 4} ELSE 0..p.qty

\* The rule reduces by 0.25, the AI by a ratio between 0.1 and 0.5.
Cuts(p, v) ==
  IF v.action = "REDUCE" THEN {p.qty \div 4}
  ELSE {k \in 0..(p.qty \div 2) : 10 * (k + 1) > p.qty}

JudgeReduce(r) ==
  LET p == Reviewed(pos, verdict, r)
  IN /\ Judging(r, {"REDUCE"})
     /\ \/ \E k \in Cuts(p, verdict) : Save(Reduced(p, k))
        \/ p.live /\ Save([p EXCEPT !.lock = "LIVE_FAILED"])

\* The holding time has run out on a position that shows no profit.
TimeStop(r) ==
  /\ Judging(r, {"HOLD", "PROTECT"})
  /\ Roi(pos) <= 0
  /\ Close(Reviewed(pos, verdict, r), "MAX_HOLD_TIMEOUT")

\* Mutant of JudgeHold: the stop that was just moved is left to the next pass.
JudgeHoldUnchecked(r, d) ==
  LET p == Trailed(Tp1Taken(SoftLocked(Reviewed(pos, verdict, r))), d)
  IN /\ Judging(r, {"HOLD", "PROTECT"})
     /\ IF p.stage = 2 /\ AtTp2(p) THEN Close(p, "TP2") ELSE Save(p)

JudgeHold(r, d) ==
  LET p == Trailed(Tp1Taken(SoftLocked(Reviewed(pos, verdict, r))), d)
  IN /\ Judging(r, {"HOLD", "PROTECT"})
     /\ \/ p.stage = 2 /\ AtTp2(p) /\ Close(p, "TP2")
        \/ p.stage = 2 /\ ~AtTp2(p) /\ AtStop(p) /\ Close(p, "STOP")
        \/ ~(p.stage = 2 /\ (AtTp2(p) \/ AtStop(p))) /\ Save(p)

\* A protection sync raises after the stop moved: nothing is saved.
SyncFails(r, d) ==
  LET locked  == SoftLocked(Reviewed(pos, verdict, r))
      taken   == Tp1Taken(locked)
      trailed == Trailed(taken, d)
  IN /\ pos.live /\ Judging(r, {"HOLD", "PROTECT"})
     /\ \/ SoftLockDue(pos) /\ pos' = locked
        \/ taken # locked /\ pos' = taken
        \/ trailed # taken /\ pos' = trailed
     /\ Returned /\ UNCHANGED <<saved, outcome>>

\* The process dies; the row comes back, RESTORED_STALE when it is old.
Restart ==
  /\ outcome = "open" /\ crashes < MaxCrashes
  /\ \/ pos' = saved
     \/ pos' = [saved EXCEPT !.lock = "RESTORED_STALE"]
  /\ verdict' = NoVerdict
  /\ crashes' = crashes + 1
  /\ UNCHANGED <<saved, outcome>>

Closed == outcome # "open" /\ UNCHANGED vars

Init ==
  /\ \E side \in Sides : pos = Opened(side)
  /\ saved = pos
  /\ verdict = NoVerdict
  /\ outcome = "open"
  /\ crashes = 0

Judge(r) ==
  \/ JudgeExit(r) \/ JudgeReduce(r) \/ TimeStop(r)
  \/ \E d \in Trails : JudgeHold(r, d) \/ SyncFails(r, d)

Next ==
  \/ Skip \/ Restart \/ Closed
  \/ \E price \in Prices :
       \/ CloseRestored(price) \/ CloseAtStop(price)
       \/ \E noise \in Noises, signal \in Signals :
            Assess(price, noise, signal)
  \/ \E r \in ReviewsOf(pos, verdict) : Judge(r)

Spec == Init /\ [][Next]_vars

------------------------------------------------------------------------------
(* Properties.                                                             *)

TypeOK ==
  /\ pos \in Positions /\ saved \in Positions
  /\ verdict \in Verdicts \cup {NoVerdict}
  /\ outcome \in Reasons \cup {"open"}
  /\ crashes \in 0..MaxCrashes

\* After TP1 the stop is never worse than the net breakeven price, in memory
\* and in the row a restart brings back (TP1_PARTIAL_NET_LOCK, ATR_NET_TRAIL).
LockedIn ==
  \A p \in {pos, saved} :
    p.stage = 2 => Ahead(p.side, p.stop, Breakeven(p)) >= 0

\* However reductions by rule and by AI follow each other, with restarts and
\* failed orders between them, 27.5 % of the position is left before TP1 and
\* half of that after it (the 0.55 guards and the 0.5 clamp).
CoreRemains ==
  /\ pos.stage = 1 => 40 * pos.qty > 11 * Initial
  /\ pos.stage = 2 => 80 * pos.qty > 11 * Initial

\* No pass over a paper position ends with the position open and its price at
\* the stop, also when the pass itself has just moved the stop; and no runner
\* is left open at TP2.
PassEndsSafe ==
  ~pos.live /\ outcome = "open" /\ Idle =>
    ~AtStop(pos) /\ (pos.stage = 2 => ~AtTp2(pos))

\* The stop in memory and the stop in the row only ever move in favour of the
\* position; the former falls back to the latter in a restart only.
StopNeverLoosens ==
  [][/\ crashes' = crashes => Ahead(pos.side, pos'.stop, pos.stop) >= 0
     /\ Ahead(pos.side, saved'.stop, saved.stop) >= 0]_vars

\* A position is not closed inside its noise budget while it shows a profit:
\* only the stop, TP2, an adverse move beyond the budget, or a time stop on a
\* position without profit closes it (core rule of position_lifecycle.md).
\* Positions restored as stale are the exception: they are closed unseen.
CoreExitJustified ==
  [][outcome = "open" /\ outcome' \notin {"open", "RESTORED_STALE_RECONCILE"} =>
       \/ AtStop(pos') \/ AtTp2(pos')
       \/ AdverseAtLeast(pos', Max2(7, pos'.noise))
       \/ outcome' = "MAX_HOLD_TIMEOUT" /\ Roi(pos') <= 0]_vars
=============================================================================
