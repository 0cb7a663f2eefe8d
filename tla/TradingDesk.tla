----------------------------- MODULE TradingDesk -----------------------------
(***************************************************************************)
(* The auto trader, the production acceptance runner and the coroutines    *)
(* that ask for them: the background loop and the HTTP routes of           *)
(* backend/main.py and trading/ai_trade_director.py.  All of them wait for *)
(* one asyncio.Lock, autotrader.global_lock, in the order they came.       *)
(***************************************************************************)
EXTENDS ProductionAcceptance

CONSTANTS
  Routes,      \* bound: what is asked for in an instance
  MaxWaiting   \* bound: requests waiting for the lock

ASSUME DeskAssumption == Routes \subseteq Callers \cup {"acceptance"} /\ MaxWaiting \in Nat

VARIABLE queue   \* the waiters of global_lock, first come first

vars == <<traderVars, accVars, queue>>

Requests == [kind : {"run"}, who : Callers]
            \cup [kind : {"acceptance"}, mode : AcceptanceModes, confirmed : BOOLEAN, before : BOOLEAN]
RunRequest(who) == [kind |-> "run", who |-> who]

LockFree == run = None /\ acc = None

Ask(request) == queue' = Append(queue, request)
MayAsk(route) == route \in Routes /\ Suspended /\ Len(queue) < MaxWaiting

KeepSettings == UNCHANGED <<mode, liveOn>>
KeepRuns == UNCHANGED <<run, open, seen, acc, passed>>

(* loop_start_guard: a live loop wants strict candidates. *)
GuardVerdicts == IF liveOn /\ mode # "strict" THEN {FALSE} ELSE BOOLEAN

LoopWaits ==
  \/ run # None /\ run.who = "loop"
  \/ \E i \in DOMAIN queue : queue[i] = RunRequest("loop")

(* background_loop: enabled is read, then AITradeDirector.run_once looks   *)
(* at the guard and at a batch, and waits for the lock.                    *)
LoopTick ==
  /\ MayAsk("loop") /\ enabled /\ ~LoopWaits
  /\ \E ok \in GuardVerdicts : IF ok THEN Ask(RunRequest("loop")) ELSE UNCHANGED queue
  /\ Rebatch /\ UNCHANGED enabled /\ KeepSettings /\ KeepRuns

(* POST /api/autotrade/run-once: the guard only stops a live surface. *)
ManualRun ==
  /\ MayAsk("manual")
  /\ \E ok \in GuardVerdicts :
       IF ok \/ ~liveOn THEN Ask(RunRequest("manual")) ELSE UNCHANGED queue
  /\ Rebatch /\ UNCHANGED enabled /\ KeepSettings /\ KeepRuns

\* Mutant of ProbeRefused: the probe opens with live trading on.
ProbeAllowed == FALSE
ProbeRefused == liveOn

(* POST .../codex-paper-probe: refused when live trading is enabled. *)
PaperProbe ==
  /\ MayAsk("probe") /\ ~ProbeRefused /\ Ask(RunRequest("probe"))
  /\ Rebatch /\ UNCHANGED enabled /\ KeepSettings /\ KeepRuns

(* POST /api/learning/paper-repair. *)
PaperRepair ==
  /\ MayAsk("repair") /\ mode' = "paper_top" /\ liveOn' = FALSE /\ enabled' = FALSE
  /\ Ask(RunRequest("repair")) \/ UNCHANGED queue
  /\ SameLock /\ KeepRuns

SaveParams ==   \* always switches live trading off
  /\ Suspended /\ mode' \in {"paper_top", "strict"} /\ liveOn' = FALSE
  /\ UNCHANGED <<queue, enabled>> /\ SameLock /\ KeepRuns

StartLoop ==
  /\ Suspended /\ enabled' \in GuardVerdicts
  /\ UNCHANGED queue /\ SameLock /\ KeepSettings /\ KeepRuns

StopLoop ==
  /\ Suspended /\ enabled' = FALSE
  /\ UNCHANGED queue /\ SameLock /\ KeepSettings /\ KeepRuns

(* POST .../acceptance/production: run() up to its wait for the lock. *)
AskAcceptance ==
  /\ MayAsk("acceptance") /\ RequestAcceptance
  /\ \E m \in AcceptanceModes, confirmed \in BOOLEAN :
       /\ confirmed => m = "real_order"
       /\ Ask([kind |-> "acceptance", mode |-> m, confirmed |-> confirmed, before |-> enabled])
  /\ SameLock /\ KeepSettings /\ UNCHANGED <<run, open, seen, acc, passed>>

(* The lock goes to its first waiter. *)
Grant ==
  /\ LockFree /\ queue # <<>> /\ queue' = Tail(queue)
  /\ IF Head(queue).kind = "run" THEN BeginRun(Head(queue).who) /\ UNCHANGED accVars
     ELSE BeginAcceptance(Head(queue)) /\ KeepTrader

(* The process ends and starts again: positions and the last report are    *)
(* loaded, everything else is as in AutoTrader.__init__.                   *)
Restart ==
  /\ run' = None /\ acc' = None /\ queue' = <<>>
  /\ lock' = None /\ cooled' = {} /\ seen' = {} /\ enabled' \in BOOLEAN
  /\ UNCHANGED <<open, mode, liveOn, passed>>

Init == TraderInit /\ AccInit /\ queue = <<>>

Work ==
  \/ RunStep /\ UNCHANGED <<accVars, queue>>
  \/ Suspended /\ AccStep /\ UNCHANGED queue
  \/ Grant

Next ==
  \/ Work
  \/ (Observe \/ PositionCloses) /\ UNCHANGED <<accVars, queue>>
  \/ LoopTick \/ ManualRun \/ PaperProbe \/ PaperRepair \/ SaveParams
  \/ StartLoop \/ StopLoop \/ AskAcceptance \/ Restart

(* An await of a run ends: every call it waits for has a timeout. *)
Spec == Init /\ [][Next]_vars /\ WF_vars(Work)

-----------------------------------------------------------------------------
TypeInvariant ==
  /\ TypeOK /\ AccTypeOK
  /\ queue \in Seq(Requests) /\ Len(queue) <= MaxWaiting

(* global_lock: an acceptance run and a trader run are never both inside,  *)
(* whichever of the five routes asked for them.                            *)
AcceptanceAlone == acc # None => run = None

(* A cooled candidate is never the locked one: the next batch cannot pick  *)
(* the candidate that was just rejected.                                   *)
LockNotCooled == lock \notin cooled

(* A run over paper_top candidates asks the generator about at most        *)
(* MaxAttempts of them, retries included.                                  *)
AttemptsBounded ==
  run # None /\ run.source = "paper_top" => Cardinality(run.tried) <= MaxAttempts

(* paper_probe_forces_no_live_orders: the probe checks live trading before *)
(* its wait for the lock, and never gets to send an order.                 *)
ProbeNeverLive == run # None /\ run.who = "probe" => run.pc # "opening"

(* "A production pass requires a real exchange order response and a        *)
(* closed-position learning record": a stored pass is of a real order, and *)
(* its position has left the registry by then.                             *)
PassMeansClosed ==
  [][passed' /\ ~passed => acc.mode = "real_order" /\ acc.id # None /\ \A p \in open : p.id # acc.id]_vars

(* Whatever is rejected makes way: no batch brings it back at once, and     *)
(* the attempts of a run are numbered, at every await of the run and after *)
(* every batch that a status request forms beside it.                      *)
RetriesMoveOn == LockNotCooled /\ AttemptsBounded

(* The global lock is always released: no run retries for ever, none waits *)
(* for another.                                                            *)
LockReleased == []<>LockFree

(* Whatever the coroutines do, the registry is the abstract book. *)
Book == INSTANCE EntryBook WITH Symbols <- Symbols, Ids <- Ids, MaxOpen <- MaxOpen, open <- open
BookSpec == Book!Spec
=============================================================================
