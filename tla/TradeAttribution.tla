-------------------------- MODULE TradeAttribution --------------------------
(***************************************************************************)
(* What the history of closed trades says of a candidate: the attribution  *)
(* of losses (backend/learning/trade_attributor.py) and the guard that     *)
(* turns it into blocks and into candidates for the other direction        *)
(* (learned_risk_guard.py).  A flaw is a loss factor ("wick_high",         *)
(* "volume_weak", ...); the factor it stands against is its absence, so a  *)
(* pattern key is a direction with a set of flaws.  The samples and the    *)
(* audit are cached, each for a time of its own.                           *)
(***************************************************************************)
EXTENDS Integers, FiniteSets, Sequences, Functions

CONSTANTS
  Flaws,       \* loss factors a setup can have
  Gains,       \* net results of a trade, none of them 0
  MaxBook,     \* bound: closed trades
  MinMatched,  \* settings.trade_attribution_min_samples
  MinRule,     \* settings.trade_learning_guard_min_rule_samples
  Slack        \* flaws by which a relaxed match may differ (9 - 7)

ASSUME AttributionAssumption ==
  /\ MaxBook \in Nat /\ MinMatched \in Nat \ {0} /\ MinRule \in Nat /\ Slack \in Nat
  /\ Gains \subseteq Int \ {0}

VARIABLES
  book,    \* closed trades with their radar snapshot, oldest first
  cached,  \* how many of them TradeAttributor._sample_cache holds
  graded   \* the cached audit says can_hard_block_from_learning

attributionVars == <<book, cached, graded>>

Directions == {"LONG", "SHORT"}
Opposite(d) == CHOOSE e \in Directions : e # d
ClosedTrades == [dir : Directions, flaws : SUBSET Flaws, gain : Gains]
(* The same market has other flaws for the other direction.  sure: fund,   *)
(* direction and fake-breakout confirmations of the other direction.       *)
Setups == [dir : Directions, flawsOf : [Directions -> SUBSET Flaws], sure : BOOLEAN]
FlawsOf(s) == s.flawsOf[s.dir]
TurnedRound(s) == [s EXCEPT !.dir = Opposite(s.dir)]

AttributionInit == book = <<>> /\ cached = 0 /\ graded \in BOOLEAN

-----------------------------------------------------------------------------
(* Measures.  A history is the set of places in the book of its trades.    *)

Sampled == 1..cached
Gain(ks) == SumFunctionOnSet([k \in DOMAIN book |-> book[k].gain], ks)
Earning(ks) == {k \in ks : book[k].gain > 0}
Losing(ks) == {k \in ks : book[k].gain < 0}
WinRate(ks, pct) ==
  ks # {} /\ 100 * Cardinality(Earning(ks)) >= pct * Cardinality(ks)
ProfitFactor(ks, pct) ==
  LET lost == -Gain(Losing(ks))
  IN IF lost = 0 THEN Earning(ks) # {} ELSE 100 * Gain(Earning(ks)) >= pct * lost

-----------------------------------------------------------------------------
(* TradeAttributor.evaluate *)

Differ(a, b) == (a \ b) \cup (b \ a)
Within(s, n) ==
  {k \in Sampled : /\ book[k].dir = s.dir
                   /\ Cardinality(Differ(book[k].flaws, FlawsOf(s))) <= n}

Enough(ks) == Cardinality(ks) >= MinMatched

(* The closest history with enough trades: the same pattern, the same      *)
(* direction with nearly the same flaws, the direction.                    *)
Matched(s) ==
  CASE Enough(Within(s, 0)) -> Within(s, 0)
    [] ~Enough(Within(s, 0)) /\ Enough(Within(s, Slack)) -> Within(s, Slack)
    [] OTHER -> Within(s, Cardinality(Flaws))

LatelyRecovered(ks) ==
  /\ Enough(ks)
  /\ LET newest == {k \in ks : Cardinality({j \in ks : j >= k}) <= MinMatched}
     IN Gain(newest) > 0 /\ WinRate(newest, 50)

PatternFails(ks) ==
  /\ Enough(ks) /\ ~LatelyRecovered(ks)
  /\ Gain(ks) <= 0
  /\ ~WinRate(ks, 42) \/ ~ProfitFactor(ks, 85)

With(flaw) == {k \in Sampled : flaw \in book[k].flaws}
FlawFails(flaw) ==
  Enough(With(flaw)) /\ Gain(With(flaw)) <= 0 /\ ~WinRate(With(flaw), 42)

(* _positive_pattern, _positive_matched_attribution *)
Winning(ks) ==
  Enough(ks) /\ Gain(ks) > 0 /\ WinRate(ks, 42) /\ ProfitFactor(ks, 85)

FlawsFail(s) ==
  ~Winning(Matched(s)) /\ \E flaw \in FlawsOf(s) : FlawFails(flaw)

-----------------------------------------------------------------------------
(* LearnedRiskGuard *)

(* The root causes are counted over losing trades only. *)
RootCause(flaw) == Losing(With(flaw))

\* Mutant of HardBlocks: the count of a root cause is not looked at.
HardBlocksOfAny(s) == {flaw \in FlawsOf(s) : RootCause(flaw) # {}}
HardBlocks(s) ==
  {flaw \in FlawsOf(s) :
     LET cause == RootCause(flaw)
     IN /\ Cardinality(cause) >= 3 /\ Enough(cause) /\ Cardinality(cause) >= MinRule
        /\ Gain(cause) < 0 /\ ~WinRate(cause, 42) /\ ~ProfitFactor(cause, 85)}

LearnedBlocks(s) ==
  IF graded /\ ~Winning(Matched(s)) THEN HardBlocks(s) ELSE {}

BlockedByHistory(s) ==
  graded /\ (LearnedBlocks(s) # {} \/ PatternFails(Matched(s)) \/ FlawsFail(s))

(* reverse_opportunity: an own candidate for the other direction. *)
ReverseAllowed(s) ==
  LET other == TurnedRound(s)
      history == Matched(other)
  IN /\ BlockedByHistory(s) /\ s.sure /\ ~BlockedByHistory(other)
     /\ Enough(history) /\ Gain(history) > 0
     /\ WinRate(history, 52) /\ ProfitFactor(history, 105)

-----------------------------------------------------------------------------

TradeCloses(trade) ==
  /\ Len(book) < MaxBook
  /\ book' = Append(book, trade)
  /\ UNCHANGED <<cached, graded>>

(* The time of the cache is over and somebody asks. *)
SamplesReload ==
  cached' = Len(book) /\ UNCHANGED <<book, graded>>

(* The audit grades the data anew, by samples and backtests. *)
AuditReloads ==
  graded' \in BOOLEAN /\ UNCHANGED <<book, cached>>

AttributionNext ==
  (\E trade \in ClosedTrades : TradeCloses(trade)) \/ SamplesReload \/ AuditReloads

AttributionSpec == AttributionInit /\ [][AttributionNext]_attributionVars

-----------------------------------------------------------------------------
(* Recorded trades that count against a setup. *)
Against(s) ==
  {k \in DOMAIN book :
     book[k].dir = s.dir \/ book[k].flaws \cap FlawsOf(s) # {}}

(* A setup is only turned away while the data is of production grade, for  *)
(* a set of recorded trades big enough that made nothing, and never one    *)
(* whose own pattern earns; and no market is turned round both ways,       *)
(* although matches, flaws and root causes are each counted over other     *)
(* trades (learned_risk_guard.py:44-93, 138-190).                          *)
BlocksAreEarned ==
  \A s \in Setups :
    /\ BlockedByHistory(s) =>
         /\ graded /\ ~Winning(Matched(s))
         /\ \E basis \in SUBSET Against(s) :
              Enough(basis) /\ Gain(basis) <= 0
    /\ ReverseAllowed(s) => ~ReverseAllowed(TurnedRound(s))

(* "A rule should affect trading only when sample count is sufficient and  *)
(* net PnL/PF are negative" (trade_attributor.py:101): a flaw that blocks  *)
(* lost money over the trades that had it.  It does not hold.              *)
RulesLoseOnNet ==
  \A s \in Setups : \A flaw \in LearnedBlocks(s) : Gain(With(flaw)) < 0
=============================================================================
