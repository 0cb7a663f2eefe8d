-------------------------- MODULE PositionLifecycle --------------------------
(***************************************************************************)
(* The life of positions between the registry, its SQLite tables, the      *)
(* management pass and the manual-close handler.                           *)
(*                                                                         *)
(* Everything runs on one asyncio event loop, so a handler is atomic from  *)
(* one await to the next.  A "call" is a coroutine that is suspended at an *)
(* await: a management pass (position_manage_loop, GET /api/positions) or  *)
(* an operator's manual close.  What a call remembers across the await is  *)
(* its record; what other calls do meanwhile is the interleaving.          *)
(*                                                                         *)
(* Prices, fees and reasons are abstracted to the branch they select: the  *)
(* price arithmetic is in StopLadder, the order protocol of the executor   *)
(* in LiveExecution.  dict order is abstracted to any order of the         *)
(* snapshot.  _ai_review_inflight is left out: its only user runs under    *)
(* the manage lock, so the set is always empty when it is tested.          *)
(***************************************************************************)
EXTENDS Naturals, FiniteSets

CONSTANTS
  PaperIds,    \* ids "pos_..." of paper positions
  LiveIds,     \* ids "livepos_..." of positions that exist on the exchange
  Managers,    \* the callers of manage_all: the loop, the positions API
  Operators,   \* concurrent POST .../manual-close requests
  Unit,        \* initial quantity of a position, in units of the step size
  MinFill,     \* least quantity an accepted order executes (Unit: all of it)
  MaxCrashes,  \* bound: process restarts
  NoId, NoCaller, NoRow

Ids == PaperIds \cup LiveIds
Callers == Managers \cup Operators

ASSUME IdsAssumption ==
  /\ PaperIds \cap LiveIds = {}
  /\ NoId \notin Ids
  /\ Managers \cap Operators = {}
  /\ NoCaller \notin Callers

ASSUME BoundsAssumption ==
  /\ Unit \in Nat \ {0}
  /\ MaxCrashes \in Nat
  /\ MinFill \in Nat

VARIABLES
  obj,         \* the Position objects, by id
  open,        \* keys of position_registry.open
  archives,    \* entries of position_registry.closed per id (2 = two or more)
  rows,        \* table positions: the saved copy, or NoRow
  closedRows,  \* table closed_positions: ids
  call,        \* the suspended coroutines
  lock,        \* holder of _manage_lock
  exch,        \* quantity the exchange holds for a live position
  freeze,      \* kv live_executor.trading_freeze is active
  liveOn,      \* settings.trade_mode = "live" and live_trading_enabled
  atStop,      \* positions whose fresh price is at or beyond their stop
  opened,      \* history: ids ever opened
  tp1Sold,     \* history: quantity of a live position sold by TP1 orders
  crashes

memory   == <<obj, open, archives>>
database == <<rows, closedRows>>
world    == <<exch, liveOn, atStop, opened, tp1Sold, crashes>>
vars == <<memory, database, call, lock, freeze, world>>

Stages == {1, 2}
\* restored: lock_status is RESTORED_STALE
Objects == [qty : 1..Unit, stage : Stages, restored : BOOLEAN]

ASSUME RowAssumption == NoRow \notin Objects

AwaitPoints == {"idle", "quote", "review", "soft", "reduce", "tp1", "tp1sync",
                "trail", "closing", "close"}
Calls == [pc : AwaitPoints, cur : Ids \cup {NoId}, todo : SUBSET Ids,
          want : 0..Unit, fill : 0..Unit]

Awaiting(pc, id, todo, want) ==
  [pc |-> pc, cur |-> id, todo |-> todo, want |-> want, fill |-> 0]
Idle == Awaiting("idle", NoId, {}, 0)
NewObject == [qty |-> Unit, stage |-> 1, restored |-> FALSE]

Init ==
  /\ obj = [id \in Ids |-> NewObject]
  /\ open = {}
  /\ archives = [id \in Ids |-> 0]
  /\ rows = [id \in Ids |-> NoRow]
  /\ closedRows = {}
  /\ call = [c \in Callers |-> Idle]
  /\ lock = NoCaller
  /\ exch = [id \in Ids |-> 0]
  /\ freeze = FALSE
  /\ liveOn \in BOOLEAN
  /\ atStop = {}
  /\ opened = {}
  /\ tp1Sold = [id \in Ids |-> 0]
  /\ crashes = 0

------------------------------------------------------------------------------
(* position_registry: each helper is one synchronous step of its caller.   *)

\* add(p): the object enters the dict and its row is written.
Add(id, o) ==
  /\ obj' = [obj EXCEPT ![id] = o]
  /\ open' = open \cup {id}
  /\ rows' = [rows EXCEPT ![id] = o]
  /\ UNCHANGED <<archives, closedRows>>

\* Mutant of Archive: closed_positions is not written.
ArchiveLosesRecord(id, o) ==
  /\ obj' = [obj EXCEPT ![id] = o]
  /\ open' = open \ {id}
  /\ archives' = [archives EXCEPT ![id] = IF @ = 0 THEN 1 ELSE 2]
  /\ rows' = [rows EXCEPT ![id] = NoRow]
  /\ UNCHANGED closedRows

\* close_archive(closed): list, then both tables in one transaction, then dict.
Archive(id, o) ==
  /\ obj' = [obj EXCEPT ![id] = o]
  /\ open' = open \ {id}
  /\ archives' = [archives EXCEPT ![id] = IF @ = 0 THEN 1 ELSE 2]
  /\ rows' = [rows EXCEPT ![id] = NoRow]
  /\ closedRows' = closedRows \cup {id}

\* The object is changed in memory, nothing is saved.
Mutate(id, o) ==
  /\ obj' = [obj EXCEPT ![id] = o]
  /\ UNCHANGED <<open, archives, database>>

------------------------------------------------------------------------------
(* Control flow of a call.                                                 *)

Id(c) == call[c].cur
Obj(c) == obj[Id(c)]

\* Mutant of NextPosition: the pass returns after its first position.
NextPositionReturns(c, left) ==
  /\ call' = [call EXCEPT ![c] = Idle]
  /\ lock' = NoCaller

\* The for loop goes on to the next position of its snapshot, or ends.
NextPosition(c, left) ==
  \/ /\ left = {}
     /\ call' = [call EXCEPT ![c] = Idle]
     /\ lock' = NoCaller
  \/ \E id \in left :
       /\ call' = [call EXCEPT ![c] = Awaiting("quote", id, left \ {id}, 0)]
       /\ UNCHANGED lock

\* The call is done with its position: a pass continues, a request returns.
Continue(c) ==
  IF c \in Managers
  THEN NextPosition(c, call[c].todo)
  ELSE call' = [call EXCEPT ![c] = Idle] /\ UNCHANGED lock

\* An exception leaves the call: a pass is abandoned with all it had left.
Abort(c) ==
  /\ call' = [call EXCEPT ![c] = Idle]
  /\ lock' = IF lock = c THEN NoCaller ELSE lock

Suspend(c, pc, want) ==
  /\ call' = [call EXCEPT ![c] = Awaiting(pc, @.cur, @.todo, want)]
  /\ UNCHANGED lock

\* _record_live_management_failure (it overwrites lock_status), then raise.
LiveFailure(c, o) ==
  /\ Add(Id(c), [o EXCEPT !.restored = FALSE])
  /\ freeze' = TRUE
  /\ Abort(c)

\* Mutant of StartClose: a live position is archived when live is off.
StartCloseLocally(c, o) ==
  \/ /\ Id(c) \in PaperIds \/ ~liveOn
     /\ Archive(Id(c), o)
     /\ Continue(c)
     /\ UNCHANGED freeze
  \/ /\ Id(c) \in LiveIds /\ liveOn
     /\ Mutate(Id(c), o)
     /\ Suspend(c, "closing", 0)
     /\ UNCHANGED freeze

\* managed_close: paper archives at once, live first awaits the executor.
StartClose(c, o) ==
  \/ /\ Id(c) \in PaperIds
     /\ Archive(Id(c), o)
     /\ Continue(c)
     /\ UNCHANGED freeze
  \/ /\ Id(c) \in LiveIds /\ liveOn
     /\ Mutate(Id(c), o)
     /\ Suspend(c, "closing", 0)
     /\ UNCHANGED freeze
  \/ /\ Id(c) \in LiveIds /\ ~liveOn
     /\ LiveFailure(c, o)

\* _sync_live_protection of a live position: awaits, or raises when live is off.
StartSync(c, pc, o) ==
  /\ Mutate(Id(c), o)
  /\ IF liveOn THEN Suspend(c, pc, 0) ELSE Abort(c)
  /\ UNCHANGED freeze

SaveAndContinue(c, o) ==
  /\ Add(Id(c), o)
  /\ Continue(c)
  /\ UNCHANGED freeze

------------------------------------------------------------------------------
(* The tail of an iteration, from the stage blocks to registry.add(p).     *)

\* Mutant of Half: half of the initial quantity.
HalfOfInitial(o) == Unit \div 2

\* Half the position, floored to the step size (format_market_quantity).
Half(o) == o.qty \div 2

\* After the trailing stop: TP2 or the locked stop closes, else p is saved.
FinishStage2(c, o) == StartClose(c, o) \/ SaveAndContinue(c, o)

Stage2(c, o) ==
  \/ FinishStage2(c, o)
  \/ Id(c) \in LiveIds /\ StartSync(c, "trail", o)

\* partial_tp1 (it overwrites lock_status).
Tp1Done(o, sold) == [qty |-> o.qty - sold, stage |-> 2, restored |-> FALSE]

\* The Stage 1 block after the soft lock: TP1 is reached, or p is saved.
FinishStage1(c, o) ==
  \/ SaveAndContinue(c, o)
  \/ Id(c) \in PaperIds /\ Stage2(c, Tp1Done(o, Half(o)))
  \/ /\ Id(c) \in LiveIds /\ liveOn
     /\ Mutate(Id(c), o)
     /\ Suspend(c, "tp1", Half(o))
     /\ UNCHANGED freeze
  \/ Id(c) \in LiveIds /\ ~liveOn /\ LiveFailure(c, o)

Stage1(c, o) ==
  \/ FinishStage1(c, o)
  \/ Id(c) \in LiveIds /\ StartSync(c, "soft", o)

------------------------------------------------------------------------------
(* The management pass.                                                    *)

\* Mutant of BeginPass: manage_all without its lock.
BeginPassUnlocked(m) ==
  /\ call[m].pc = "idle" /\ open # {}
  /\ \E id \in open :
       call' = [call EXCEPT ![m] = Awaiting("quote", id, open \ {id}, 0)]
  /\ lock' = m
  /\ UNCHANGED <<memory, database, freeze, world>>

\* manage_all: a caller that finds the lock taken returns at once.
BeginPass(m) ==
  /\ call[m].pc = "idle" /\ lock = NoCaller /\ open # {}
  /\ \E id \in open :
       call' = [call EXCEPT ![m] = Awaiting("quote", id, open \ {id}, 0)]
  /\ lock' = m
  /\ UNCHANGED <<memory, database, freeze, world>>

\* The quote is stale, unsafe or missing: NOOP, the position is saved.
StaleQuote(m) ==
  /\ call[m].pc = "quote"
  /\ SaveAndContinue(m, Obj(m))
  /\ UNCHANGED world

\* Mutant of QuoteCloses: RESTORED_STALE is not looked at.
QuoteClosesAtStop(m) ==
  /\ call[m].pc = "quote" /\ Id(m) \in atStop
  /\ StartClose(m, Obj(m))
  /\ UNCHANGED world

\* A fresh quote: a restored stale position or a hit stop is closed.
QuoteCloses(m) ==
  /\ call[m].pc = "quote"
  /\ Obj(m).restored \/ Id(m) \in atStop
  /\ StartClose(m, Obj(m))
  /\ UNCHANGED world

QuoteHolds(m) ==
  /\ call[m].pc = "quote"
  /\ ~Obj(m).restored /\ Id(m) \notin atStop
  /\ Suspend(m, "review", 0)
  /\ UNCHANGED <<memory, database, freeze, world>>

\* The decision (rule or AI) is EXIT, or the holding time has run out.
DecideExit(m) ==
  /\ call[m].pc = "review"
  /\ StartClose(m, Obj(m))
  /\ UNCHANGED world

\* A defensive reduction, by at most half and only of a nearly full position.
DecideReduce(m) ==
  /\ call[m].pc = "review"
  /\ 20 * Obj(m).qty > 11 * Unit
  /\ \E k \in 0..Half(Obj(m)) :
       \/ /\ Id(m) \in PaperIds
          /\ SaveAndContinue(m, [Obj(m) EXCEPT !.qty = @ - k])
       \/ /\ Id(m) \in LiveIds /\ liveOn
          /\ Suspend(m, "reduce", k)
          /\ UNCHANGED <<memory, database, freeze>>
       \/ Id(m) \in LiveIds /\ ~liveOn /\ LiveFailure(m, Obj(m))
  /\ UNCHANGED world

DecideHold(m) ==
  /\ call[m].pc = "review"
  /\ IF Obj(m).stage = 1 THEN Stage1(m, Obj(m)) ELSE Stage2(m, Obj(m))
  /\ UNCHANGED world

\* replace_protection_orders returned.
SyncDone(m) ==
  /\ \/ call[m].pc = "soft" /\ FinishStage1(m, Obj(m))
     \/ call[m].pc = "tp1sync" /\ Stage2(m, Obj(m))
     \/ call[m].pc = "trail" /\ FinishStage2(m, Obj(m))
  /\ UNCHANGED world

\* It raised: mostly after freezing, but a failed query raises without it.
SyncFails(m) ==
  /\ call[m].pc \in {"soft", "tp1sync", "trail"}
  /\ freeze' \in {freeze, TRUE}
  /\ Abort(m)
  /\ UNCHANGED <<memory, database, world>>

\* Mutant of ReduceDone: what was asked for is booked, not what was executed.
ReduceDoneAsAsked(m) ==
  /\ call[m].pc \in {"reduce", "tp1"} /\ call[m].fill > 0
  /\ IF call[m].pc = "reduce"
     THEN SaveAndContinue(m, [Obj(m) EXCEPT !.qty = @ - call[m].want])
     ELSE StartSync(m, "tp1sync", Tp1Done(Obj(m), call[m].want))
  /\ UNCHANGED world

\* reduce_position returned: close_qty = min(p.quantity, executedQty).
ReduceDone(m) ==
  /\ call[m].pc \in {"reduce", "tp1"} /\ call[m].fill > 0
  /\ IF call[m].pc = "reduce"
     THEN SaveAndContinue(m, [Obj(m) EXCEPT !.qty = @ - call[m].fill])
     ELSE StartSync(m, "tp1sync", Tp1Done(Obj(m), call[m].fill))
  /\ UNCHANGED world

------------------------------------------------------------------------------
(* Orders of a call, common to passes and manual closes.                   *)

\* market_close takes p.quantity after the account checks it awaited.
SendClose(c) ==
  /\ call[c].pc = "closing"
  /\ Suspend(c, "close", Obj(c).qty)
  /\ UNCHANGED <<memory, database, freeze, world>>

Ordering == {"reduce", "tp1", "close"}

\* External: the exchange executes a reduce-only market order, at most what it
\* holds.  _fill_from_exchange_order books the whole order when executedQty is 0.
OrderFills(c) ==
  /\ call[c].pc \in Ordering /\ call[c].fill = 0
  /\ call[c].want > 0 /\ exch[Id(c)] > 0
  /\ \E k \in 0..Unit :
       /\ k <= call[c].want /\ k <= exch[Id(c)]
       /\ k >= MinFill \/ k = call[c].want \/ k = exch[Id(c)]
       /\ call' = [call EXCEPT ![c].fill = IF k = 0 THEN call[c].want ELSE k]
       /\ exch' = [exch EXCEPT ![Id(c)] = @ - k]
       /\ tp1Sold' = IF call[c].pc = "tp1"
                     THEN [tp1Sold EXCEPT ![Id(c)] = @ + k] ELSE tp1Sold
  /\ UNCHANGED <<memory, database, lock, freeze, liveOn, atStop, opened, crashes>>

\* The request is rejected, or it was executed and its answer is lost.
OrderRaises(c) ==
  /\ call[c].pc \in Ordering \cup {"closing"}
  /\ LiveFailure(c, Obj(c))
  /\ UNCHANGED world

\* close_position of the executor returned: managed_close archives p.
CloseDone(c) ==
  /\ call[c].pc = "close" /\ call[c].fill > 0
  /\ Archive(Id(c), Obj(c))
  /\ Continue(c)
  /\ UNCHANGED <<freeze, world>>

\* POST manual-close of an open position.
ManualClose(op, id) ==
  /\ call[op].pc = "idle" /\ id \in open
  /\ \/ /\ id \in PaperIds
        /\ Archive(id, obj[id])
        /\ UNCHANGED call
     \/ /\ id \in LiveIds /\ liveOn
        /\ call' = [call EXCEPT ![op] = Awaiting("closing", id, {}, 0)]
        /\ UNCHANGED <<memory, database>>
  /\ UNCHANGED <<lock, freeze, world>>

------------------------------------------------------------------------------
(* Opening, restarting and the environment.                                *)

\* paper_executor.open_position
OpenPaper(id) ==
  /\ id \in PaperIds \ opened
  /\ Add(id, NewObject)
  /\ opened' = opened \cup {id}
  /\ UNCHANGED <<call, lock, freeze, exch, liveOn, atStop, tp1Sold, crashes>>

\* live_executor.open_position ended well; its protocol is in LiveExecution.
OpenLive(id) ==
  /\ id \in LiveIds \ opened /\ liveOn /\ ~freeze
  /\ Add(id, NewObject)
  /\ opened' = opened \cup {id}
  /\ exch' = [exch EXCEPT ![id] = Unit]
  /\ UNCHANGED <<call, lock, freeze, liveOn, atStop, tp1Sold, crashes>>

Saved == {id \in Ids : rows[id] # NoRow}

\* The process dies and _load_open_positions rebuilds the registry; positions
\* held longer than position_max_hold_seconds come back RESTORED_STALE.
Restart ==
  /\ crashes < MaxCrashes
  /\ crashes' = crashes + 1
  /\ \E aged \in SUBSET Saved :
       obj' = [id \in Ids |->
                 CASE id \in aged         -> [rows[id] EXCEPT !.restored = TRUE]
                   [] id \in Saved \ aged -> rows[id]
                   [] OTHER               -> obj[id]]
  /\ open' = Saved
  /\ archives' = [id \in Ids |-> 0]
  /\ call' = [c \in Callers |-> Idle]
  /\ lock' = NoCaller
  /\ liveOn' \in BOOLEAN
  /\ UNCHANGED <<database, exch, freeze, atStop, opened, tp1Sold>>

\* External: the attached STOP_MARKET or TAKE_PROFIT_MARKET order closes it.
ProtectionFires(id) ==
  /\ id \in LiveIds /\ exch[id] > 0
  /\ exch' = [exch EXCEPT ![id] = 0]
  /\ UNCHANGED <<memory, database, call, lock, freeze, liveOn, atStop, opened, tp1Sold, crashes>>

\* A settings request or a safety gate turns live trading off; only the
\* environment of a new process turns it on.
LiveSwitchedOff ==
  /\ liveOn /\ liveOn' = FALSE
  /\ UNCHANGED <<memory, database, call, lock, freeze, exch, atStop, opened, tp1Sold, crashes>>

\* External: the market crosses a stop, one way or the other.
PriceMoves(id) ==
  /\ atStop' = IF id \in atStop THEN atStop \ {id} ELSE atStop \cup {id}
  /\ UNCHANGED <<memory, database, call, lock, freeze, exch, liveOn, opened, tp1Sold, crashes>>

------------------------------------------------------------------------------

PassStep(m) ==
  \/ BeginPass(m) \/ StaleQuote(m) \/ QuoteCloses(m) \/ QuoteHolds(m)
  \/ DecideExit(m) \/ DecideReduce(m) \/ DecideHold(m)
  \/ SyncDone(m) \/ SyncFails(m) \/ ReduceDone(m)

OrderStep(c) ==
  SendClose(c) \/ OrderFills(c) \/ OrderRaises(c) \/ CloseDone(c)

IdStep(id) ==
  \/ OpenPaper(id) \/ OpenLive(id) \/ ProtectionFires(id) \/ PriceMoves(id)
  \/ \E op \in Operators : ManualClose(op, id)

Next ==
  \/ \E m \in Managers : PassStep(m)
  \/ \E c \in Callers : OrderStep(c)
  \/ \E id \in Ids : IdStep(id)
  \/ Restart
  \/ LiveSwitchedOff

Spec == Init /\ [][Next]_vars

------------------------------------------------------------------------------
(* Properties.                                                             *)

StoreTypeOK ==
  /\ obj \in [Ids -> Objects]
  /\ open \subseteq Ids
  /\ archives \in [Ids -> 0..2]
  /\ rows \in [Ids -> Objects \cup {NoRow}]
  /\ closedRows \subseteq Ids

CallTypeOK ==
  /\ call \in [Callers -> Calls]
  /\ \A c \in Callers : call[c].pc # "idle" => call[c].cur \in Ids
  /\ lock \in Callers \cup {NoCaller}

WorldTypeOK ==
  /\ freeze \in BOOLEAN /\ liveOn \in BOOLEAN
  /\ exch \in [Ids -> 0..Unit]
  /\ atStop \subseteq Ids /\ opened \subseteq Ids
  /\ tp1Sold \in [Ids -> Nat]
  /\ crashes \in 0..MaxCrashes

\* Every variable has its type; a position that is open or saved is never of
\* quantity 0, so no close or reduction of a whole position is sent as nothing.
TypeOK == StoreTypeOK /\ CallTypeOK /\ WorldTypeOK

\* No position is lost: whatever was opened is in one of the two tables, at
\* every await and across restarts (save_position, archive_closed_position).
NoPositionLost == opened \subseteq Saved \cup closedRows

\* The dict and the table positions hold the same ids at every await, so a
\* restart brings back exactly the positions that were managed before it.
RegistryMatchesTable == open = Saved

\* Together: a restart at any await finds every position it has to manage.
NothingLost == NoPositionLost /\ RegistryMatchesTable

\* The books never understate the exchange: what the exchange holds for a
\* tracked live position is at most the quantity in memory and in its row, so
\* a reduce-only close sized by either flattens it (partial_reduce subtracts
\* only what was executed; a lost answer or a crash subtracts nothing).
BooksCoverExchange ==
  \A id \in LiveIds :
    /\ id \in open => exch[id] <= obj[id].qty
    /\ id \in Saved => exch[id] <= rows[id].qty

\* A live position is archived only when the exchange holds nothing for it:
\* manual closes and passes that overlap, lost answers, stops that fire and
\* restarts notwithstanding (managed_close archives after the fill).
ArchivedIsFlat == \A id \in LiveIds \cap closedRows : exch[id] = 0

\* TP1 takes half of a live position, once: a lost answer, a failed protection
\* sync or a restart does not sell a second half (contract: tp1_close_ratio 0.5).
Tp1SellsHalf == \A id \in LiveIds : tp1Sold[id] <= Unit \div 2

\* A closed position stays closed: it is not back in the registry and it has
\* one closed record (position_lifecycle.md: CLOSED is "finished").
ClosedIsFinal ==
  \A id \in closedRows : id \notin open /\ archives[id] <= 1

------------------------------------------------------------------------------
(* The abstract ledger this module implements when no request races a pass. *)

phase == [id \in Ids |-> CASE id \in closedRows \ Saved -> "closed"
                           [] id \in Saved -> "open"
                           [] OTHER -> "new"]

Ledger == INSTANCE PositionLedger WITH Ids <- Ids, phase <- phase
LedgerSpec == Ledger!Spec

------------------------------------------------------------------------------
(* Liveness.  The loop never stops calling manage_all, every await of a call *)
(* ends (HTTP and CLI timeouts), and quotes of a symbol are not stale for    *)
(* ever.                                                                    *)

FreshQuote(id) ==
  \E m \in Managers : Id(m) = id /\ (QuoteCloses(m) \/ QuoteHolds(m))

Fairness ==
  /\ WF_vars(\E m \in Managers : BeginPass(m))
  /\ \A m \in Managers : WF_vars(PassStep(m) /\ call[m].pc # "idle")
  /\ \A c \in Callers : WF_vars(SendClose(c) \/ OrderRaises(c) \/ CloseDone(c) \/ ReduceDone(c))
  /\ \A id \in Ids : SF_vars(FreshQuote(id))

FairSpec == Spec /\ Fairness

\* A paper position whose price stays at its stop is closed, and so is one
\* that came back RESTORED_STALE (QuoteCloses in some later pass).
StopEnforced ==
  \A id \in PaperIds : [](id \in open /\ [](id \in atStop) => <>(id \notin open))

RestoredIsReconciled ==
  \A id \in PaperIds :
    (id \in open /\ obj[id].restored) ~> (id \notin open)
=============================================================================
