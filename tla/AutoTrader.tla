------------------------------ MODULE AutoTrader ------------------------------
(***************************************************************************)
(* One run of backend/trading/autotrader.py: AutoTrader._run_once_locked,  *)
(* from the first scan to the entry that ends it, and the candidate lock   *)
(* and cooldowns it shares with every status request.                      *)
(*                                                                         *)
(* A step is what one coroutine does between two awaits.  The radar is not *)
(* a variable: scans end at any await, so each step reads the radar, the   *)
(* quotes, the plan and the risk model as fresh choices.                   *)
(***************************************************************************)
EXTENDS Integers, Sequences, FiniteSets

CONSTANTS
  Symbols,      \* what the radar may list
  Ids,          \* names of position objects; free ones are used again
  Plans,        \* strategy ids a generator may return
  MaxOpen,      \* settings.max_open_positions
  MaxAttempts,  \* 3 in _retry_candidates_after_pre_ai_stale
  Limit,        \* settings.auto_trading_candidate_limit
  None

ASSUME TraderAssumption ==
  /\ IsFiniteSet(Ids)
  /\ MaxOpen \in Nat /\ MaxAttempts \in Nat \ {0} /\ Limit \in Nat \ {0}
  /\ None \notin Symbols /\ None \notin Plans /\ None \notin Ids

VARIABLES
  run,      \* the run inside the global lock, or None
  lock,     \* ai_candidate_lock: its symbol, or None
  cooled,   \* ai_candidate_wait_cooldowns, by symbol
  open,     \* position_registry.open
  seen,     \* executed_strategy_ids
  mode,     \* settings.auto_trading_candidate_mode
  liveOn    \* trade_mode = live and live_trading_enabled

traderVars == <<run, lock, cooled, open, seen, mode, liveOn>>

Sources == {"paper_top", "strict", "strict_review", "learned", "probe"}
Awaits == {"scan", "order", "account", "preai", "generate", "postai", "redo",
           "redopost", "quote", "opening", "retry"}
Owners == {"trader", "acceptance"}
Callers == {"loop", "manual", "probe", "repair"}   \* who may ask for a run

Positions == [id : Ids, sym : Symbols, by : Owners]
OpenSymbols == {p.sym : p \in open}
Elements(q) == {q[i] : i \in DOMAIN q}

(* Orders without repetition over a set of symbols, up to the limit. *)
Orders(S) == {q \in UNION {[1 .. n -> S] : n \in 1 .. Limit} :
                Cardinality(Elements(q)) = Len(q)}

IsReview(source) == source \in {"paper_top", "strict_review"}

-----------------------------------------------------------------------------
(* The candidate batch.  It changes the lock and drops old cooldowns       *)
(* wherever it is called from: runs, status pages and acceptance.          *)

(* _stable_paper_top_candidates: the lock stays while its candidate is     *)
(* valid and, by the age of locked_at, neither stale nor replaced by a     *)
(* stronger one; `best` leads the tradable pool.                           *)
Stable(lk, left, stays, best) ==
  IF lk # None /\ stays /\ lk \notin left \cup OpenSymbols THEN lk ELSE best

Batch(lk, cd, src, cands) == [lock |-> lk, cooled |-> cd, source |-> src, todo |-> cands]

(* _candidate_batch and, when it is empty, _paper_probe_batch.  An empty   *)
(* todo is a run without candidates.                                       *)
Locks(lk, left) == {Stable(lk, left, stays, best) :
                      stays \in BOOLEAN, best \in Symbols \ (left \cup OpenSymbols)}

ProbeBatches(lk, left) ==
  IF liveOn THEN {} ELSE {Batch(lk, left, "probe", q) : q \in Orders(Symbols)}

PaperTopBatches(lk, left) ==
  {Batch(l, left, "paper_top", <<l>>) : l \in Locks(lk, left)}
  \cup ProbeBatches(None, left)
  \cup {Batch(None, left, "paper_top", <<>>)}

StrictSources == {"strict", "learned"} \cup IF liveOn THEN {} ELSE {"strict_review"}

StrictBatches(lk, cd) ==
  {Batch(lk, cd, src, q) : src \in StrictSources, q \in Orders(Symbols)}
  \cup ProbeBatches(lk, cd)
  \cup {Batch(lk, cd, "strict", <<>>)}

Batches(lk, cd) ==
  IF mode = "paper_top" THEN UNION {PaperTopBatches(lk, left) : left \in SUBSET cd}
  ELSE StrictBatches(lk, cd)

(* _geometry_supported_candidate_order: the list the samples will give,    *)
(* chosen when the pool is formed; `moved` re-locks the new first one.     *)
Ordered(b) ==
  {[todo |-> b.todo, moved |-> FALSE]}
  \cup {[todo |-> <<s>>, moved |-> s # b.todo[1]] :
          s \in {s \in Symbols \ (b.cooled \cup OpenSymbols) : b.source = "paper_top" /\ b.todo # <<>>}}
  \cup {[todo |-> q, moved |-> FALSE] :
          q \in {q \in Orders(Elements(b.todo) \ OpenSymbols) :
                   /\ b.source \notin {"paper_top", "learned"}
                   /\ Elements(q) = Elements(b.todo) \ OpenSymbols}}

-----------------------------------------------------------------------------
RunAt(pc) == run # None /\ run.pc = pc
Goto(pc) == run' = [run EXCEPT !.pc = pc]
EndRun == run' = None
KeepRest == UNCHANGED <<seen, mode, liveOn>>
KeepShared == UNCHANGED <<lock, cooled, open>>

(* Nothing of a run can be seen half done by another coroutine. *)
Suspended == run # None => run.pc \in Awaits

TraderInit ==
  /\ run = None /\ lock = None /\ cooled = {} /\ seen = {}
  /\ open = {} /\ mode \in {"paper_top", "strict"} /\ liveOn \in BOOLEAN

(* run_once with the global lock in hand; the radar may have to scan. *)
BeginRun(who) ==
  /\ run' = [pc |-> "scan", who |-> who, source |-> "strict", todo |-> <<>>, next |-> <<>>,
             moved |-> FALSE, tried |-> {}, item |-> None, plan |-> None, live |-> FALSE]
  /\ KeepShared /\ KeepRest

(* Market data, capacity, candidates: the checks before the first await    *)
(* that depends on them.                                                   *)
RunRefused ==   \* MARKET_DATA_UNSAFE, CAPACITY_FULL
  /\ RunAt("scan") /\ EndRun /\ KeepShared /\ KeepRest

ChooseBatch ==
  /\ RunAt("scan")
  /\ Cardinality(open) < MaxOpen
  /\ \E b \in Batches(lock, cooled) :
       /\ lock' = b.lock /\ cooled' = b.cooled
       /\ \/ b.todo = <<>> /\ EndRun
          \/ \E o \in Ordered(b) :
               /\ b.todo # <<>>
               /\ run' = [run EXCEPT !.pc = "order", !.source = b.source,
                                     !.todo = o.todo, !.moved = o.moved]
  /\ UNCHANGED open /\ KeepRest

Relocked(q, moved) == IF moved /\ q # <<>> THEN q[1] ELSE lock

GeometrySampled ==
  /\ RunAt("order") /\ Goto("account")
  /\ lock' = Relocked(run.todo, run.moved)
  /\ UNCHANGED <<cooled, open>> /\ KeepRest

(* _account_context, then the active strategy: it may drop candidates of   *)
(* the strict sources, or hand over to a probe batch on paper.             *)
AccountRead ==
  /\ RunAt("account")
  /\ LET plain == run.source \in {"strict", "learned"}
     IN \/ \E q \in {run.todo} \cup
                   IF plain THEN Orders(Elements(run.todo)) \cup {<<>>} ELSE {} :
             run' = [run EXCEPT !.pc = "next", !.live = liveOn, !.todo = q]
        \/ /\ plain /\ ~liveOn
           /\ \E q \in Orders(Symbols) :
                run' = [run EXCEPT !.pc = "next", !.live = liveOn, !.todo = q, !.source = "probe"]
  /\ KeepShared /\ KeepRest

-----------------------------------------------------------------------------
(* The loop over candidates. *)
NoMoreCandidates ==
  /\ RunAt("next") /\ run.todo = <<>> /\ EndRun /\ KeepShared /\ KeepRest

(* same_symbol_open; fund, learned and performance checks of the others. *)
Attempt ==
  /\ RunAt("next") /\ run.todo # <<>>
  /\ \E pc \in {"preai"} \cup IF Head(run.todo) \in OpenSymbols \/ ~IsReview(run.source)
                              THEN {"next"} ELSE {} :
       /\ Head(run.todo) \in OpenSymbols => pc = "next"
       /\ run' = [run EXCEPT !.pc = pc, !.todo = Tail(@), !.item = Head(run.todo),
                             !.tried = @ \cup {Head(run.todo)}]
  /\ KeepShared /\ KeepRest

\* Mutant of Released: the lock outlives the end of its candidate.
ReleasedLater(lk, s) == lk
Released(lk, s) == IF lk = s THEN None ELSE lk

(* _retry_candidates_after_pre_ai_stale: another batch while attempts are  *)
(* left, and the await on its samples.                                     *)
RetryLeft == run.source = "paper_top" /\ Cardinality(run.tried) < MaxAttempts

Retry(lk, cd) ==
  IF ~RetryLeft
  THEN lock' = lk /\ cooled' = cd /\ Goto("next")
  ELSE \E b \in Batches(lk, cd) :
         /\ lock' = b.lock /\ cooled' = b.cooled
         /\ \/ (b.source # run.source \/ b.todo = <<>>) /\ Goto("next")
            \/ /\ b.source = run.source /\ b.todo # <<>>
               /\ \E o \in Ordered(b) :
                    run' = [run EXCEPT !.pc = "retry", !.next = o.todo, !.moved = o.moved]

\* Mutant of RetryBatchOrdered: the batch may name a candidate twice.
RetryBatchRepeats ==
  /\ RunAt("retry")
  /\ lock' = Relocked(run.next, run.moved)
  /\ run' = [run EXCEPT !.pc = "next", !.next = <<>>, !.moved = FALSE, !.todo = @ \o run.next]
  /\ UNCHANGED <<cooled, open>> /\ KeepRest

RetryBatchOrdered ==
  /\ RunAt("retry")
  /\ lock' = Relocked(run.next, run.moved)
  /\ run' = [run EXCEPT !.pc = "next", !.next = <<>>, !.moved = FALSE,
               !.todo = IF Head(run.next) \in run.tried \cup Elements(@)
                        THEN @ ELSE @ \o run.next]
  /\ UNCHANGED <<cooled, open>> /\ KeepRest

(* _append_paper_top_retry_candidates: only while attempts are left does   *)
(* the rejected candidate lose the lock and cool down.                     *)
AppendRetry(lk, cd) ==
  IF RetryLeft THEN Retry(Released(lk, run.item), cd \cup {run.item})
  ELSE lock' = lk /\ cooled' = cd /\ Goto("next")

(* _cooldown_stale_candidate and _release_ai_candidate_lock. *)
StaleLock == IF IsReview(run.source) THEN Released(lock, run.item) ELSE lock
StaleCooled == IF IsReview(run.source) THEN cooled \cup {run.item} ELSE cooled

Skip(pc) ==   \* an unsafe price or an invalid plan: on to the next candidate
  /\ RunAt(pc) /\ Goto("next") /\ KeepShared /\ KeepRest

StaleBeforeAi ==
  /\ RunAt("preai") /\ Retry(StaleLock, StaleCooled) /\ UNCHANGED open /\ KeepRest

FreshBeforeAi ==
  /\ RunAt("preai") /\ Goto("generate") /\ KeepShared /\ KeepRest

(* wait_manager.evaluate and _cooldown_ai_wait_candidate: a wait cools the *)
(* candidate, or expires without cooling it; either frees the lock.        *)
AiWaits ==
  /\ RunAt("generate")
  /\ \/ /\ IsReview(run.source)
        /\ Retry(Released(lock, run.item), cooled \cup {run.item})
     \/ \E lk \in {lock} \cup IF IsReview(run.source) THEN {Released(lock, run.item)} ELSE {} :
          AppendRetry(lk, cooled)
  /\ UNCHANGED open /\ KeepRest

AiOpens(pc, next) ==
  /\ RunAt(pc)
  /\ \E p \in Plans : run' = [run EXCEPT !.pc = next, !.plan = p]
  /\ KeepShared /\ KeepRest

(* Stale after the plan, or a second plan that disagrees with the radar. *)
StaleAfterAi(pc) ==
  /\ RunAt(pc) /\ Goto("next")
  /\ lock' = StaleLock /\ cooled' = StaleCooled
  /\ UNCHANGED open /\ KeepRest

SideDrifted == RunAt("postai") /\ Goto("redo") /\ KeepShared /\ KeepRest

(* The wait of a regenerated plan: no retry batch follows. *)
RedoWaits ==
  /\ RunAt("redo") /\ Goto("next")
  /\ \E free \in BOOLEAN, cool \in BOOLEAN :
       /\ free \/ cool => IsReview(run.source)
       /\ lock' = IF free \/ cool THEN Released(lock, run.item) ELSE lock
       /\ cooled' = IF cool THEN cooled \cup {run.item} ELSE cooled
  /\ UNCHANGED open /\ KeepRest

(* Inside the symbol lock: the plan is new, the quote is asked once more. *)
PlanUsable(pc) ==
  /\ RunAt(pc)
  /\ IF run.plan \in seen THEN Goto("next") ELSE Goto("quote")
  /\ KeepShared /\ KeepRest

RiskRejects ==
  /\ RunAt("quote") /\ AppendRetry(lock, cooled) /\ UNCHANGED open /\ KeepRest

FreshId == {id \in Ids : \A p \in open : p.id # id}

Enter(by, s) == \E id \in FreshId : open' = open \cup {[id |-> id, sym |-> s, by |-> by]}

(* PAPER_ONLY, or a plan whose mode is not live: the paper executor, in    *)
(* the same step.                                                          *)
OpenPaper ==
  /\ RunAt("quote") /\ EndRun
  /\ Enter("trader", run.item) /\ seen' = seen \cup {run.plan}
  /\ UNCHANGED <<lock, cooled, mode, liveOn>>

(* Only a run that read a live account has a plan in live mode. *)
LiveEntryAllowed == run.live /\ liveOn

LiveGuardBlocks ==
  /\ RunAt("quote") /\ LiveEntryAllowed /\ Goto("next") /\ KeepShared /\ KeepRest

BeginLiveEntry ==
  /\ RunAt("quote") /\ LiveEntryAllowed /\ Goto("opening") /\ KeepShared /\ KeepRest

LiveEntryDone ==
  /\ RunAt("opening") /\ EndRun
  /\ Enter("trader", run.item) /\ seen' = seen \cup {run.plan}
  /\ UNCHANGED <<lock, cooled, mode, liveOn>>

(* An exception of a scan, the account, the generator or the exchange      *)
(* leaves run_once; the global lock is released with it.                   *)
RunRaises ==
  /\ run # None /\ run.pc \in {"scan", "account", "generate", "redo", "opening"}
  /\ EndRun /\ KeepShared /\ KeepRest

RunStep ==
  \/ RunRefused \/ ChooseBatch \/ GeometrySampled \/ AccountRead
  \/ NoMoreCandidates \/ Attempt \/ RetryBatchOrdered
  \/ Skip("preai") \/ StaleBeforeAi \/ FreshBeforeAi
  \/ Skip("generate") \/ AiWaits \/ AiOpens("generate", "postai")
  \/ Skip("postai") \/ StaleAfterAi("postai") \/ SideDrifted \/ PlanUsable("postai")
  \/ Skip("redo") \/ RedoWaits \/ AiOpens("redo", "redopost")
  \/ StaleAfterAi("redopost") \/ PlanUsable("redopost")
  \/ Skip("quote") \/ RiskRejects \/ OpenPaper \/ LiveGuardBlocks \/ BeginLiveEntry
  \/ LiveEntryDone \/ RunRaises

-----------------------------------------------------------------------------
(* Around a run. *)

(* candidate_diagnostics, status pages, the director's snapshot. *)
Observe ==
  /\ Suspended
  /\ \E b \in Batches(lock, cooled) : lock' = b.lock /\ cooled' = b.cooled
  /\ UNCHANGED <<run, open>> /\ KeepRest

PositionCloses ==
  /\ Suspended
  /\ \E p \in open : open' = open \ {p}
  /\ UNCHANGED <<run, lock, cooled>> /\ KeepRest

Runs == [pc : Awaits \cup {"next"}, who : Callers, source : Sources, todo : Seq(Symbols),
         next : Seq(Symbols), moved : BOOLEAN, tried : SUBSET Symbols,
         item : Symbols \cup {None}, plan : Plans \cup {None}, live : BOOLEAN]

TypeOK ==
  /\ open \subseteq Positions /\ cooled \subseteq Symbols /\ seen \subseteq Plans
  /\ lock \in Symbols \cup {None}
  /\ mode \in {"paper_top", "strict"} /\ liveOn \in BOOLEAN
  /\ run \in Runs \cup {None}
=============================================================================
