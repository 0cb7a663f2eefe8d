-------------------------- MODULE PerformanceGuard --------------------------
(* The guard that reads the closed trades (trading/performance_guard.py):  *)
(* what it says of a candidate before the model is bid, of the plan that *)
(* comes back minutes later, and how results reach it: the registry's list *)
(* of this process before the rows of the table.  A pair is a symbol with  *)
(* a side.  Other positions close while a candidate waits for its plan.    *)
EXTENDS Integers, FiniteSets, Sequences, Functions

CONSTANTS Pairs,          \* symbol and side
          TradePnls,           \* results of a trade
          MaxCloses, LastHour,   \* bounds
          GuardMaxOpen,   \* settings.max_open_positions
          BlockTrades, RecoveryRows, RecentRows, ReleaseRows, StreakLimit,
          CoolHours,
          NoCandidate

ASSUME GuardAssumption ==
  /\ BlockTrades \in Nat \ {0} /\ StreakLimit \in Nat \ {0}
  /\ MaxCloses \in Nat /\ GuardMaxOpen \in Nat \ {0}

VARIABLES local,    \* results of this process, newest first
          table,    \* results in closed_positions, newest first
          holding,  \* pairs with an open position
          bid,    \* the candidate being carried through
          hour, closes

guardVars == <<local, table, holding, bid, hour, closes>>

(* Score: 0 below the recovery floor, 1 above it, 2 exceptional.  strong:   *)
(* every other measure recovery and a losing streak ask for.                *)
Candidates ==
  [pair : Pairs, score : 0..2, strong : BOOLEAN, lane : {"guarded", "unguarded"}]
    \cup [pair : Pairs, score : {0}, strong : {FALSE}, lane : {"probe"}]

----------------------------------------------------------------------------
(* Results *)

\* Mutant of Listed: rows the process holds are not left out.
ListedTwice == (Range(local) \X {1}) \cup (Range(table) \X {2})

(* The list of this process, then the rows of the table it does not hold.  *)
Listed ==
  (Range(local) \X {1})
    \cup ({r \in Range(table) : \A s \in Range(local) : s.no # r.no} \X {2})

(* Newest close first, in the order of the lists where closes are equal:   *)
(* the place of x among rows.                                              *)
PlaceIn(x, rows) ==
  Cardinality({y \in rows : y[1].no > x[1].no \/ (y[1].no = x[1].no /\ y[2] <= x[2])})
InOrder(rows) == {[place |-> PlaceIn(x, rows), result |-> x[1]] : x \in rows}

(* Reconciled and acceptance closes do not count.                          *)
Counted == InOrder({x \in Listed : ~x[1].excluded})

NewestOf(rows, n) == {x \in rows : Cardinality({y \in rows : y.place < x.place}) < n}

Won(rows)  == Cardinality({x \in rows : x.result.pnl > 0})
Lost(rows) == Cardinality({x \in rows : x.result.pnl < 0})
PnlOf(rows) == SumFunction([x \in rows |-> x.result.pnl])

(* win rate of the decided trades against a percentage; none decided is 0   *)
WinsAtLeast(rows, pct) ==
  IF Won(rows) + Lost(rows) = 0 THEN pct = 0
  ELSE 100 * Won(rows) >= pct * (Won(rows) + Lost(rows))

OfPair(pair) == {x \in Counted : x.result.pair = pair}

----------------------------------------------------------------------------
(* Verdicts *)

LossStreak ==
  LET all == Counted
  IN Cardinality({x \in all : \A y \in all : y.place <= x.place => y.result.pnl < 0})

Recovery ==
  LET all == Counted
      recent == NewestOf(all, RecentRows)
  IN /\ Cardinality(all) >= RecoveryRows
     /\ ~(/\ Cardinality(recent) >= ReleaseRows /\ PnlOf(recent) > 0
          /\ WinsAtLeast(recent, 52))
     /\ \/ PnlOf(all) < 0
        \/ ~WinsAtLeast(all, 45)
        \/ ~WinsAtLeast(recent, 42)

(* A losing pair is blocked until its newest trades recover.                *)
Blocked(pair) ==
  LET rows == OfPair(pair)
      newest == NewestOf(rows, BlockTrades)
  IN /\ Cardinality(rows) >= BlockTrades
     /\ ~(PnlOf(newest) > 0 /\ WinsAtLeast(newest, 50))
     /\ PnlOf(rows) < 0 /\ ~WinsAtLeast(rows, 34)

RecentLoss(pair) ==
  \E x \in NewestOf(OfPair(pair), 1) :
    x.result.pnl < 0 /\ hour - x.result.hour <= CoolHours

(* precheck_candidate: nothing is bid of a history still too short.       *)
Prechecked(c) ==
  \/ c.lane # "guarded"
  \/ Cardinality(Counted) < BlockTrades
  \/ /\ ~Blocked(c.pair)
     /\ RecentLoss(c.pair) => c.score >= 1
     /\ Recovery => c.score >= 1 /\ c.strong

\* Mutant of Approved: the plan is judged like the candidate was.
ApprovedAsPrechecked(c) == c.lane # "guarded" \/ Prechecked(c)

(* evaluate; a paper probe is never evaluated, a paper run with the guard   *)
(* switched off only while in recovery.                                     *)
Approved(c) ==
  \/ c.lane = "probe"
  \/ c.lane = "unguarded" /\ ~Recovery
  \/ /\ ~Blocked(c.pair)
     /\ RecentLoss(c.pair) => c.score = 2
     /\ LossStreak >= StreakLimit => c.score = 2 /\ c.strong
     /\ Recovery => c.score >= 1 /\ c.strong

----------------------------------------------------------------------------
(* Steps *)

(* A free place and no position of the pair, then the precheck.             *)
AskFor ==
  /\ bid = NoCandidate /\ Cardinality(holding) < GuardMaxOpen
  /\ closes < MaxCloses
  /\ \E c \in Candidates :
       /\ c.pair \notin holding /\ Prechecked(c)
       /\ bid' = c
  /\ UNCHANGED <<local, table, holding, hour, closes>>

(* The plan arrives and the position opens, or is rejected.                 *)
PlanArrives ==
  /\ bid # NoCandidate
  /\ bid' = NoCandidate
  /\ holding' = IF Approved(bid) THEN holding \cup {bid.pair} ELSE holding
  /\ UNCHANGED <<local, table, hour, closes>>

(* close_archive: first into the list, then into the table, then the        *)
(* position goes; a failing write leaves it open, to be closed again.       *)
CloseTrade ==
  \E pair \in holding, pnl \in TradePnls, excluded \in BOOLEAN, stored \in BOOLEAN :
    LET row == [no |-> closes, pair |-> pair, pnl |-> pnl, hour |-> hour,
                excluded |-> excluded]
    IN /\ closes < MaxCloses
       /\ local' = <<row>> \o local
       /\ IF stored
          THEN table' = <<row>> \o table /\ holding' = holding \ {pair}
          ELSE UNCHANGED <<table, holding>>
       /\ closes' = closes + 1
       /\ UNCHANGED <<bid, hour>>

HourPasses ==
  /\ hour < LastHour
  /\ hour' = hour + 1
  /\ UNCHANGED <<local, table, holding, bid, closes>>

(* The list of the process is gone, the open positions are restored.        *)
RestartGuard ==
  /\ local # <<>>
  /\ local' = <<>> /\ bid' = NoCandidate
  /\ UNCHANGED <<table, holding, hour, closes>>

GuardInit ==
  /\ local = <<>> /\ table = <<>> /\ holding = {}
  /\ bid = NoCandidate /\ hour = 0 /\ closes = 0

GuardNext == AskFor \/ PlanArrives \/ CloseTrade \/ HourPasses \/ RestartGuard

GuardSpec == GuardInit /\ [][GuardNext]_guardVars

----------------------------------------------------------------------------
(* Properties *)

(* A position the guard approved never opens on a pair whose last counted   *)
(* trade was a recent loss, unless the setup is exceptional, nor on a pair  *)
(* with a blocked history, whatever closed while its plan was awaited       *)
(* (precheck_candidate, evaluate).                                          *)
NoRevenge ==
  [][(bid # NoCandidate /\ bid.lane = "guarded" /\ holding' # holding
      /\ bid' = NoCandidate /\ local' = local)
     => /\ ~Blocked(bid.pair)
        /\ RecentLoss(bid.pair) => bid.score = 2]_guardVars

(* Reconciled and acceptance closes change no verdict, so they can neither  *)
(* stop the trader nor set it free; and neither does a restart when every   *)
(* result reached the table: the list of the process and the table tell the *)
(* same story in the same order (EXCLUDED_CLOSE_REASONS, performance_rows,  *)
(* position_registry.list_closed, _ordered_rows).                           *)
VerdictsStand ==
  [][(\/ closes' # closes /\ Head(local').excluded
      \/ local # <<>> /\ local' = <<>> /\ \A k \in DOMAIN local : local[k] \in Range(table))
     => /\ LossStreak' = LossStreak /\ (Recovery' <=> Recovery)
        /\ \A pair \in Pairs : Blocked(pair)' <=> Blocked(pair)]_guardVars
=============================================================================
