---------------------------- MODULE LiveExecution ----------------------------
(***************************************************************************)
(* The order protocol of LiveExecutor against the exchange, and the        *)
(* reconciliation report that gates the next entry.                        *)
(*                                                                         *)
(* Every call of the exchange is an await: it may be refused, or be        *)
(* executed while its answer is lost, and other coroutines run meanwhile.  *)
(* A strategy has its own symbol and opens at most one position, so both   *)
(* go by the strategy's name; quantities are abstracted to held or flat.   *)
(* The queries before an order (exchange info, position mode, margin,      *)
(* leverage) are part of the await of the order that follows them, and a   *)
(* round of cancels is one step.                                           *)
(***************************************************************************)
EXTENDS Naturals, FiniteSets

CONSTANTS
  Strategies,  \* plans that may be opened live
  Openers,     \* coroutines that open: the auto trader, an acceptance run
  Guarded,     \* those of them that look at the trading freeze
  Manager,     \* position_manage_loop
  Operators,   \* concurrent manual-close requests
  Viewers,     \* concurrent GET /api/exchange/reconciliation
  Forced,      \* those of them with ?force=true
  Faults,      \* what may go wrong on the exchange
  MaxCrashes,  \* bound: process restarts
  NoOne

Closers == Operators \cup {Manager}
Callers == Openers \cup Closers
Scanners == Viewers \cup {Manager}

ASSUME CallersAssumption ==
  /\ Manager \notin Openers \cup Operators \cup Viewers
  /\ Openers \cap Operators = {}
  /\ Guarded \subseteq Openers
  /\ Forced \subseteq Viewers
  /\ NoOne \notin Strategies
  /\ MaxCrashes \in Nat

\* "reject": orders may be refused; "cancel": cancels and queries may fail;
\* "lost": answers may be lost; "unfilled": the entry's answer may show no fill;
\* "partial": a market close may leave a rest.
ASSUME FaultsAssumption ==
  Faults \subseteq {"reject", "cancel", "lost", "unfilled", "partial"}

VARIABLES
  held,       \* strategies with a position on the exchange
  orders,     \* their resting protection orders, by client id prefix
  status,     \* the local record of a strategy's position
  known,      \* exchange_stop_order and exchange_tp_order of the object
  saved,      \* the same in the row of table positions
  incidents,  \* positions recorded as UNPROTECTED_LIVE_FORCE_CLOSE_FAILED
  freeze,     \* kv live_executor.trading_freeze is active
  call,       \* the suspended coroutines
  scan,       \* the suspended refreshes of the reconciliation
  refreshing, \* exchange_reconciliation._refreshing
  report,     \* exchange_reconciliation.last_report
  crashes

local == <<status, known, saved, incidents, freeze>>
monitor == <<scan, refreshing, report>>
vars == <<held, orders, local, call, monitor, crashes>>

\* hy_sl_, hy_tp_ are placed with the entry, hy_slr_, hy_tpr_ by a replacement.
Kinds == {"sl", "tp", "slr", "tpr"}
Stops == {"sl", "slr"}
Statuses == {"new", "tried", "open", "closed"}
Points == {"idle", "entry", "stop", "tp", "force", "undo",
           "rstop", "rtp", "rcancel", "save", "close", "ccancel"}

Calls == [pc : Points, s : Strategies \cup {NoOne}, got : SUBSET Kinds, filled : BOOLEAN]
Idle == [pc |-> "idle", s |-> NoOne, got |-> {}, filled |-> TRUE]

Scans == [pc : {"idle", "positions", "orders", "local"}, seen : SUBSET Strategies,
          resting : [Strategies -> SUBSET Kinds], vetted : SUBSET Strategies]
NoOrders == [s \in Strategies |-> {}]
NoScan == [pc |-> "idle", seen |-> {}, resting |-> NoOrders, vetted |-> {}]

\* ok and fresh; vetted is history: what was amiss when its refresh began.
Reports == [ok : BOOLEAN, vetted : SUBSET Strategies]
NoReport == [ok |-> FALSE, vetted |-> {}]

Init ==
  /\ held = {} /\ orders = NoOrders
  /\ status = [s \in Strategies |-> "new"]
  /\ known = NoOrders /\ saved = NoOrders
  /\ incidents = {} /\ freeze = FALSE
  /\ call = [c \in Callers |-> Idle]
  /\ scan = [v \in Scanners |-> NoScan]
  /\ refreshing = FALSE /\ report = NoReport
  /\ crashes = 0

------------------------------------------------------------------------------
(* Steps of a call.                                                        *)

Of(c) == call[c].s
Busy(s) == \E c \in Callers : call[c].pc # "idle" /\ Of(c) = s

At(c, pc) == call[c].pc = pc
Start(c, pc, s) == call' = [call EXCEPT ![c] = [Idle EXCEPT !.pc = pc, !.s = s]]
GoTo(c, pc, got) == call' = [call EXCEPT ![c].pc = pc, ![c].got = got]

Return(c) == call' = [call EXCEPT ![c] = Idle]

Cancelled(s, kinds) == orders' = [orders EXCEPT ![s] = @ \ kinds]

\* registry.add(p): the object and its row, also when p was archived meanwhile.
Add(s, kinds) ==
  /\ status' = [status EXCEPT ![s] = "open"]
  /\ known' = [known EXCEPT ![s] = kinds]
  /\ saved' = [saved EXCEPT ![s] = kinds]

\* External: a closePosition order needs a position to close, and a client id
\* that no resting order has; otherwise it is refused.
Placeable(s, kind) == s \in held /\ kind \notin orders[s]

\* The order rests and the call goes on ...
Placed(c, kind, next) ==
  /\ Placeable(Of(c), kind)
  /\ orders' = [orders EXCEPT ![Of(c)] = @ \cup {kind}]
  /\ GoTo(c, next, call[c].got \cup {kind})

\* ... or the request raises.
Raised(c, kind) ==
  \/ /\ "reject" \in Faults \/ ~Placeable(Of(c), kind)
     /\ UNCHANGED orders
  \/ /\ "lost" \in Faults /\ Placeable(Of(c), kind)
     /\ orders' = [orders EXCEPT ![Of(c)] = @ \cup {kind}]

\* A reduce-only market order is executed ...
Sold(s) ==
  /\ s \in held
  /\ held' = held \ {s} \/ ("partial" \in Faults /\ UNCHANGED held)

\* ... or raises.
SaleRaises(s) ==
  \/ ("reject" \in Faults \/ s \notin held) /\ UNCHANGED held
  \/ "lost" \in Faults /\ s \in held /\ held' = held \ {s}

\* Those of the orders with these client ids that a round of cancels removes.
Removed(s, kinds) ==
  IF "cancel" \in Faults THEN SUBSET (orders[s] \cap kinds) ELSE {orders[s] \cap kinds}

------------------------------------------------------------------------------
(* open_position                                                           *)

\* The guard, _assert_prg_live_allowed, then the awaits before market_open.
BeginOpen(c, s) ==
  /\ At(c, "idle") /\ status[s] = "new"
  /\ c \in Guarded => ~freeze
  /\ report.ok
  /\ status' = [status EXCEPT ![s] = "tried"]
  /\ Start(c, "entry", s)
  /\ UNCHANGED <<held, orders, known, saved, incidents, freeze, monitor, crashes>>

\* A query before it, or market_open itself, raises; or its answer is lost.
EntryRaises(c) ==
  /\ At(c, "entry")
  /\ \/ "reject" \in Faults /\ UNCHANGED held
     \/ "lost" \in Faults /\ held' = held \cup {Of(c)}
  /\ Return(c)
  /\ UNCHANGED <<orders, local, monitor, crashes>>

EntryFills(c) ==
  /\ At(c, "entry")
  /\ held' = held \cup {Of(c)}
  /\ \E filled \in {TRUE} \cup (IF "unfilled" \in Faults THEN {FALSE} ELSE {}) :
       call' = [call EXCEPT ![c] = [@ EXCEPT !.pc = "stop", !.filled = filled]]
  /\ UNCHANGED <<orders, local, monitor, crashes>>

AttachStop(c) ==
  /\ At(c, "stop")
  /\ \/ Placed(c, "sl", "tp")
     \/ Raised(c, "sl") /\ GoTo(c, "force", call[c].got)
  /\ UNCHANGED <<held, local, monitor, crashes>>

\* The position is recorded only when the entry's answer shows its fill.
AttachTp(c) ==
  /\ At(c, "tp")
  /\ \/ /\ Placeable(Of(c), "tp")
        /\ orders' = [orders EXCEPT ![Of(c)] = @ \cup {"tp"}]
        /\ Return(c)
        /\ IF call[c].filled
           THEN Add(Of(c), {"sl", "tp"}) /\ UNCHANGED <<incidents, freeze>>
           ELSE UNCHANGED local
     \/ /\ Raised(c, "tp") /\ GoTo(c, "force", call[c].got)
        /\ UNCHANGED local
  /\ UNCHANGED <<held, monitor, crashes>>

\* Mutant of ForceClose: a failed force close is raised, not recorded.
ForceCloseUnrecorded(c) ==
  /\ At(c, "force")
  /\ \/ /\ Sold(Of(c)) /\ GoTo(c, "undo", call[c].got)
        /\ UNCHANGED local
     \/ /\ SaleRaises(Of(c)) /\ Return(c)
        /\ UNCHANGED local
  /\ UNCHANGED <<orders, monitor, crashes>>

\* The force close, and _record_unprotected_live_position when it raises.
ForceClose(c) ==
  /\ At(c, "force")
  /\ \/ /\ Sold(Of(c)) /\ GoTo(c, "undo", call[c].got)
        /\ UNCHANGED local
     \/ /\ SaleRaises(Of(c)) /\ Return(c)
        /\ Add(Of(c), call[c].got)
        /\ incidents' = incidents \cup {Of(c)}
        /\ freeze' = TRUE
  /\ UNCHANGED <<orders, monitor, crashes>>

\* _cancel_strategy_protection_orders, then FORCE_CLOSE_ATTEMPTED.
UndoAttach(c) ==
  /\ At(c, "undo")
  /\ \E kinds \in Removed(Of(c), {"sl", "tp"}) : Cancelled(Of(c), kinds)
  /\ Return(c)
  /\ UNCHANGED <<held, local, monitor, crashes>>

------------------------------------------------------------------------------
(* replace_protection_orders, within a management pass.                    *)

BeginReplace(s) ==
  /\ At(Manager, "idle") /\ scan[Manager].pc = "idle" /\ status[s] = "open"
  /\ Start(Manager, "rstop", s)
  /\ UNCHANGED <<held, orders, local, monitor, crashes>>

\* live trading is off, or a query before the first order raises.
ReplaceNotTried(c) ==
  /\ At(c, "rstop") /\ Return(c)
  /\ UNCHANGED <<held, orders, local, monitor, crashes>>

ReplaceFails(c) == freeze' = TRUE /\ Return(c)

ReplaceStop(c) ==
  /\ At(c, "rstop")
  /\ \/ Placed(c, "slr", "rtp") /\ UNCHANGED freeze
     \/ Raised(c, "slr") /\ ReplaceFails(c)
  /\ UNCHANGED <<held, status, known, saved, incidents, monitor, crashes>>

ReplaceTp(c) ==
  /\ At(c, "rtp")
  /\ \/ Placed(c, "tpr", "rcancel") /\ UNCHANGED freeze
     \/ Raised(c, "tpr") /\ ReplaceFails(c)
  /\ UNCHANGED <<held, status, known, saved, incidents, monitor, crashes>>

\* Mutant of CancelReplaced: every own order but the new target is cancelled.
CancelReplacedAll(c) ==
  /\ At(c, "rcancel")
  /\ Cancelled(Of(c), Stops \cup {"tp"})
  /\ known' = [known EXCEPT ![Of(c)] = {"slr", "tpr"}]
  /\ GoTo(c, "save", call[c].got)
  /\ UNCHANGED <<held, status, saved, incidents, freeze, monitor, crashes>>

\* The orders the object knew are cancelled; one that fails, because it is
\* gone, for a fault or for its lost answer, freezes trading and the object
\* keeps the old ones.
CancelReplaced(c) ==
  /\ At(c, "rcancel")
  /\ \E kinds \in Removed(Of(c), known[Of(c)]) :
       /\ Cancelled(Of(c), kinds)
       /\ \/ /\ kinds = known[Of(c)]
             /\ known' = [known EXCEPT ![Of(c)] = {"slr", "tpr"}]
             /\ GoTo(c, "save", call[c].got)
             /\ UNCHANGED freeze
          \/ /\ kinds # known[Of(c)] \/ "lost" \in Faults
             /\ ReplaceFails(c)
             /\ UNCHANGED known
  /\ UNCHANGED <<held, status, saved, incidents, monitor, crashes>>

\* The rest of the pass saves the position.
SaveReplaced(c) ==
  /\ At(c, "save")
  /\ Add(Of(c), known[Of(c)])
  /\ Return(c)
  /\ UNCHANGED <<held, orders, incidents, freeze, monitor, crashes>>

------------------------------------------------------------------------------
(* close_position, by a pass or by a manual close.                         *)

BeginClose(c, s) ==
  /\ At(c, "idle") /\ status[s] = "open"
  /\ c = Manager => scan[Manager].pc = "idle"
  /\ Start(c, "close", s)
  /\ UNCHANGED <<held, orders, local, monitor, crashes>>

CloseSells(c) ==
  /\ At(c, "close")
  /\ Sold(Of(c))
  /\ GoTo(c, "ccancel", {})
  /\ UNCHANGED <<orders, local, monitor, crashes>>

\* It raises: _record_live_management_failure saves the position and freezes.
CloseRaises(c) ==
  /\ At(c, "close")
  /\ SaleRaises(Of(c)) \/ UNCHANGED held
  /\ Add(Of(c), known[Of(c)])
  /\ freeze' = TRUE
  /\ Return(c)
  /\ UNCHANGED <<orders, incidents, monitor, crashes>>

\* The known and the original orders are cancelled, then p is archived.
CloseEnds(c) ==
  /\ At(c, "ccancel")
  /\ \E kinds \in Removed(Of(c), known[Of(c)] \cup {"sl", "tp"}) :
       Cancelled(Of(c), kinds)
  /\ status' = [status EXCEPT ![Of(c)] = "closed"]
  /\ Return(c)
  /\ UNCHANGED <<held, known, saved, incidents, freeze, monitor, crashes>>

------------------------------------------------------------------------------
(* ExchangeReconciliation.                                                 *)

\* Held and recorded nowhere, or resting for a position that is gone.
Untracked(s) == s \in held /\ status[s] # "open"
Orphaned(s) == orders[s] # {} /\ status[s] # "open"
Amiss(s) == (Untracked(s) \/ Orphaned(s)) /\ ~Busy(s)

\* refresh() while another one is running returns the cached report, unless
\* it is forced; the first one to end lowers the flag of all.
BeginRefresh(v) ==
  /\ scan[v].pc = "idle"
  /\ refreshing => v \in Forced
  /\ v = Manager => At(Manager, "idle")
  /\ refreshing' = TRUE
  /\ scan' = [scan EXCEPT ![v] = [NoScan EXCEPT !.pc = "positions",
                                                !.vetted = {s \in Strategies : Amiss(s)}]]
  /\ UNCHANGED <<held, orders, local, call, report, crashes>>

ReadPositions(v) ==
  /\ scan[v].pc = "positions"
  /\ scan' = [scan EXCEPT ![v].pc = "orders", ![v].seen = held]
  /\ UNCHANGED <<held, orders, local, call, refreshing, report, crashes>>

ReadOrders(v) ==
  /\ scan[v].pc = "orders"
  /\ scan' = [scan EXCEPT ![v].pc = "local", ![v].resting = orders]
  /\ UNCHANGED <<held, orders, local, call, refreshing, report, crashes>>

RefreshFails(v) ==
  /\ scan[v].pc \in {"positions", "orders"} /\ "cancel" \in Faults
  /\ scan' = [scan EXCEPT ![v] = NoScan]
  /\ refreshing' = FALSE
  /\ report' = NoReport
  /\ UNCHANGED <<held, orders, local, call, crashes>>

\* Mutant of Clean: orders of strategies without a position are not looked at.
CleanTracked(x) ==
  \A s \in Strategies :
    /\ s \in x.seen <=> status[s] = "open"
    /\ status[s] = "open" =>
         /\ x.resting[s] \cap ({"sl"} \cup (known[s] \cap Stops)) # {}
         /\ x.resting[s] \cap ({"tp"} \cup (known[s] \ Stops)) # {}

\* No issue: both sides have the same positions, each has its stop and its
\* target, and no other system order rests.
Clean(x) ==
  \A s \in Strategies :
    /\ s \in x.seen <=> status[s] = "open"
    /\ status[s] = "open" =>
         /\ x.resting[s] \cap ({"sl"} \cup (known[s] \cap Stops)) # {}
         /\ x.resting[s] \cap ({"tp"} \cup (known[s] \ Stops)) # {}
    /\ x.resting[s] \subseteq
         (IF status[s] = "open" THEN known[s] \cup {"sl", "tp"} ELSE {})

\* The local positions are read after both answers are in.
EndRefresh(v) ==
  /\ scan[v].pc = "local"
  /\ report' = IF Clean(scan[v])
                THEN [ok |-> TRUE, vetted |-> scan[v].vetted] ELSE NoReport
  /\ scan' = [scan EXCEPT ![v] = NoScan]
  /\ refreshing' = FALSE
  /\ UNCHANGED <<held, orders, local, call, crashes>>

\* EXCHANGE_RECONCILIATION_MAX_AGE_SECONDS have passed.
ReportAges ==
  /\ report.ok
  /\ report' = NoReport
  /\ UNCHANGED <<held, orders, local, call, scan, refreshing, crashes>>

------------------------------------------------------------------------------

\* External: a resting order closes the position.
ProtectionFires(s) ==
  /\ s \in held
  /\ \E kind \in orders[s] : Cancelled(s, {kind})
  /\ held' = held \ {s}
  /\ UNCHANGED <<local, call, monitor, crashes>>

\* The process dies; the registry comes back from its table.
Restart ==
  /\ crashes < MaxCrashes /\ crashes' = crashes + 1
  /\ known' = saved
  /\ call' = [c \in Callers |-> Idle]
  /\ scan' = [v \in Scanners |-> NoScan]
  /\ refreshing' = FALSE /\ report' = NoReport
  /\ UNCHANGED <<held, orders, status, saved, incidents, freeze>>

OpenStep(c) ==
  \/ EntryRaises(c) \/ EntryFills(c) \/ AttachStop(c) \/ AttachTp(c)
  \/ ForceClose(c) \/ UndoAttach(c)

ReplaceStep(c) ==
  \/ ReplaceNotTried(c) \/ ReplaceStop(c) \/ ReplaceTp(c)
  \/ CancelReplaced(c) \/ SaveReplaced(c)

CloseStep(c) == CloseSells(c) \/ CloseRaises(c) \/ CloseEnds(c)

RefreshStep(v) ==
  \/ BeginRefresh(v) \/ ReadPositions(v) \/ ReadOrders(v)
  \/ RefreshFails(v) \/ EndRefresh(v)

Next ==
  \/ \E c \in Openers : OpenStep(c) \/ \E s \in Strategies : BeginOpen(c, s)
  \/ ReplaceStep(Manager) \/ \E s \in Strategies : BeginReplace(s)
  \/ \E c \in Closers : CloseStep(c) \/ \E s \in Strategies : BeginClose(c, s)
  \/ \E v \in Scanners : RefreshStep(v)
  \/ \E s \in Strategies : ProtectionFires(s)
  \/ ReportAges
  \/ Restart

Spec == Init /\ [][Next]_vars

------------------------------------------------------------------------------
(* Properties.                                                             *)

TypeOK ==
  /\ held \subseteq Strategies
  /\ orders \in [Strategies -> SUBSET Kinds]
  /\ status \in [Strategies -> Statuses]
  /\ known \in [Strategies -> SUBSET Kinds]
  /\ saved \in [Strategies -> SUBSET Kinds]
  /\ incidents \subseteq Strategies
  /\ freeze \in BOOLEAN
  /\ call \in [Callers -> Calls]
  /\ \A c \in Callers : At(c, "idle") <=> Of(c) = NoOne
  /\ scan \in [Scanners -> Scans]
  /\ refreshing \in BOOLEAN /\ report \in Reports
  /\ crashes \in 0..MaxCrashes

Guarding(s) == orders[s] \cap Stops # {}

\* A position that was opened with its protection always has a stop resting on
\* the exchange, also between the awaits of a replacement or a close, after a
\* lost answer and after a restart (the new orders are placed before the old
\* ones are cancelled, the sale comes before the cancels).
StaysProtected ==
  \A s \in held : status[s] = "open" /\ s \notin incidents => Guarding(s)

\* A position without a stop that no coroutine is working on is an incident:
\* the registry has it and trading is frozen.  A process that dies between the
\* entry and its stop leaves no such record, and neither does a lost answer of
\* the entry (see NoNakedPosition).
NakedIsFrozen ==
  crashes = 0 =>
    \A s \in held : ~Guarding(s) /\ ~Busy(s) =>
      s \in incidents /\ status[s] = "open" /\ freeze

\* "No naked live position" (live_executor.py:89), whatever the exchange does.
NoNakedPosition ==
  \A s \in held : Guarding(s) \/ Busy(s) \/ freeze

\* After a full close none of the position's own protection orders rests.
OwnOrdersCancelled ==
  \A s \in Strategies : status[s] = "closed" /\ ~Busy(s) => orders[s] = {}

\* No entry begins while a position that is recorded nowhere, or an order that
\* protects nothing, has been there since before the last refresh began: the
\* report shows it although positions, orders and registry are read apart.
AmissBlocksEntry ==
  [][\A s \in Strategies : status[s] = "new" /\ status'[s] = "tried" =>
       \A r \in report.vetted : ~Amiss(r)]_vars

=============================================================================
