------------------------- MODULE ProductionAcceptance -------------------------
(***************************************************************************)
(* backend/trading/production_acceptance.py: the runner that holds the     *)
(* auto trader's global lock, walks the production chain up to a real      *)
(* order, waits for its close and stores a report; and the auto loop's     *)
(* enabled flag, which it switches off and restores.                       *)
(***************************************************************************)
EXTENDS AutoTrader

CONSTANTS
  ScanAttempts   \* PRODUCTION_ACCEPTANCE_SCAN_ATTEMPTS

ASSUME ScanAttemptsAssumption == ScanAttempts \in Nat \ {0}

VARIABLES
  acc,      \* the acceptance run inside the global lock, or None
  passed,   \* whether last_report is a production pass
  enabled   \* autotrader.enabled

accVars == <<acc, passed, enabled>>

AcceptanceModes == {"preflight", "exchange_test_order", "real_order"}
AccAwaits == {"scan", "rank", "rankgeo", "pause", "shadow", "fresh", "sample", "draft",
              "account", "fallback", "open", "watch"}

AccInit ==
  acc = None /\ passed = FALSE /\ enabled \in BOOLEAN

AccAt(pc) == acc # None /\ acc.pc = pc
KeepTrader == UNCHANGED traderVars
KeepBook == UNCHANGED <<run, open, seen, mode, liveOn>>
KeepAccRest == UNCHANGED <<passed, enabled>>

(* finally: the flag the request found on arrival; _store: any report      *)
(* replaces the last one.                                                  *)
Leave(before) == acc' = None /\ enabled' = before
Fail(req) == Leave(req.before) /\ passed' = FALSE

(* run, before its wait for the global lock. *)
RequestAcceptance == enabled' = FALSE

(* _mode_safety, and the learning data audit, before the first await.  The *)
(* setting live_use_test_order is read here and by _live_gate, as a choice.*)
SafeRequest(req) == req.mode = "real_order" => req.confirmed

BeginAcceptance(req) ==
  \/ Fail(req)
  \/ /\ SafeRequest(req)
     /\ acc' = [pc |-> "scan", mode |-> req.mode, before |-> req.before, source |-> "strict",
                todo |-> <<>>, tried |-> {}, turn |-> 1, slots |-> 0, item |-> None,
                chosen |-> None, id |-> None, proof |-> TRUE]
     /\ KeepAccRest

-----------------------------------------------------------------------------
(* Candidates: up to ScanAttempts turns of strict and strict-geometry      *)
(* candidates, each ranked by its samples and filtered by the gates.       *)

AccBecomes(a, pc) == acc' = [a EXCEPT !.pc = pc] /\ KeepAccRest
Rank(a, pc) == \E q \in Orders(Symbols) : AccBecomes([a EXCEPT !.todo = q], pc)
Supported == Orders(Elements(acc.todo))   \* ranked again by their samples

(* _candidate_batch and candidate_diagnostics, for a stage's evidence. *)
Rebatch == \E b \in Batches(lock, cooled) : lock' = b.lock /\ cooled' = b.cooled
SameLock == UNCHANGED <<lock, cooled>>

Selected(src, q) ==
  AccBecomes([acc EXCEPT !.source = src, !.todo = q, !.tried = Elements(q)], "fresh") /\ Rebatch

NothingSelected(a) == Fail(a) \/ AccBecomes(a, "shadow")

NextTurn(a) ==
  IF a.turn < ScanAttempts THEN AccBecomes(a, "pause") ELSE NothingSelected(a)

Turn(a) == Rebatch /\ (Rank(a, "rank") \/ Rank(a, "rankgeo") \/ NextTurn(a))

AccScanFails == AccAt("scan") /\ Fail(acc) /\ KeepTrader

AccScanned ==
  /\ AccAt("scan") /\ KeepBook
  /\ \E proof \in BOOLEAN : Turn([acc EXCEPT !.slots = Cardinality(open), !.proof = proof])

AccRanked ==   \* on the last turn the strict-geometry list is not tried
  /\ AccAt("rank") /\ KeepBook
  /\ \/ \E q \in Supported : Selected("strict", q)
     \/ acc.turn = ScanAttempts /\ NothingSelected(acc) /\ Rebatch
     \/ acc.turn < ScanAttempts /\ (Rank(acc, "rankgeo") \/ NextTurn(acc)) /\ SameLock

AccGeometryRanked ==
  /\ AccAt("rankgeo") /\ KeepBook
  /\ \/ \E q \in Supported : Selected("strict_geometry", q)
     \/ acc.turn = ScanAttempts /\ NothingSelected(acc) /\ Rebatch
     \/ acc.turn < ScanAttempts /\ NextTurn(acc) /\ SameLock

AccRescanned ==
  /\ AccAt("pause") /\ KeepBook
  /\ \/ Turn([acc EXCEPT !.turn = @ + 1])
     \/ NothingSelected(acc) /\ Rebatch   \* the scan failed

(* Review candidates only get a shadow plan, never an order. *)
ShadowDone == AccAt("shadow") /\ Fail(acc) /\ KeepTrader

-----------------------------------------------------------------------------
(* _try_generate_and_risk_open, and the strict-geometry chain behind it.   *)

(* What follows an exhausted chain. *)
ChainEnds(a) ==
  \/ /\ a.source = "strict" /\ a.chosen = None
     /\ \E q \in Orders(Symbols \ a.tried) : AccBecomes([a EXCEPT !.todo = q], "fallback")
  \/ Fail(a)

NextOf(a) == IF a.todo = <<>> THEN ChainEnds(a) ELSE AccBecomes(a, "fresh")

FreshRejected ==   \* freshness guard or generation gate
  /\ AccAt("fresh") /\ NextOf([acc EXCEPT !.todo = Tail(@)]) /\ KeepTrader

FreshAccepted ==
  /\ AccAt("fresh") /\ KeepTrader
  /\ AccBecomes([acc EXCEPT !.item = Head(acc.todo), !.todo = Tail(@)], "sample")

SampleRejected == AccAt("sample") /\ NextOf(acc) /\ KeepTrader
SampleAccepted == AccAt("sample") /\ AccBecomes(acc, "draft") /\ KeepTrader

PlanRejected ==   \* WAIT, invalid, or a provider that does not count
  /\ AccAt("draft") /\ NextOf(acc) /\ KeepTrader

\* Mutant of MayOrder: the capacity is not asked again.
MayOrderUnbounded(a) == a.mode # "preflight" /\ liveOn

(* decide, the risk_model stage and _live_gate. *)
MayOrder(a) ==
  /\ a.mode # "preflight"
  /\ liveOn /\ a.slots < MaxOpen

RiskVerdict(a) ==
  \/ NextOf(a)
  \/ MayOrder(a) /\ AccBecomes(a, "open")
  \/ Fail(a)

(* Two plans that may open share one account: only the first waits for it. *)
PlanAccepted ==
  /\ AccAt("draft") /\ KeepTrader
  /\ LET a == [acc EXCEPT !.chosen = acc.item]
     IN IF acc.chosen = None THEN AccBecomes(a, "account") ELSE RiskVerdict(a)

AccountArrives == AccAt("account") /\ RiskVerdict(acc) /\ KeepTrader

FallbackRanked ==
  /\ AccAt("fallback") /\ KeepTrader
  /\ \E q \in Supported \cup {<<>>} : NextOf([acc EXCEPT !.source = "strict_geometry", !.todo = q])

-----------------------------------------------------------------------------
(* The order, the watch and the report. *)

AccOpened ==
  /\ AccAt("open")
  /\ \E id \in FreshId, proof \in {FALSE, acc.proof} :
       /\ open' = open \cup {[id |-> id, sym |-> acc.chosen, by |-> "acceptance"]}
       /\ AccBecomes([acc EXCEPT !.id = id, !.proof = proof /\ acc.mode = "real_order"], "watch")
  /\ UNCHANGED <<run, lock, cooled, seen, mode, liveOn>>

\* Mutant of Closed: the deadline counts as a close.
ClosedByDeadline(id) == TRUE
Closed(id) == \A p \in open : p.id # id

(* _wait_for_close until manage_seconds are over, and the evidence of the  *)
(* learning record, which exists only for a closed position.               *)
AccDone ==
  /\ AccAt("watch") /\ KeepTrader /\ Leave(acc.before)
  /\ \E learned \in {FALSE, Closed(acc.id)} : passed' = (acc.proof /\ Closed(acc.id) /\ learned)

(* An exception outside the guarded scans leaves the old report in place.  *)
AccRaises ==
  /\ acc # None /\ acc.pc \in {"fresh", "draft", "account", "open", "watch"}
  /\ Leave(acc.before) /\ UNCHANGED passed /\ KeepTrader

AccStep ==
  \/ AccScanFails \/ AccScanned \/ AccRanked \/ AccGeometryRanked
  \/ AccRescanned \/ ShadowDone \/ FreshRejected \/ FreshAccepted
  \/ SampleRejected \/ SampleAccepted \/ PlanRejected \/ PlanAccepted \/ AccountArrives
  \/ FallbackRanked \/ AccOpened \/ AccDone \/ AccRaises

Accs == [pc : AccAwaits, mode : AcceptanceModes, before : BOOLEAN,
         source : {"strict", "strict_geometry"}, todo : Seq(Symbols), tried : SUBSET Symbols,
         turn : 1 .. ScanAttempts, slots : Nat, item : Symbols \cup {None},
         chosen : Symbols \cup {None}, id : Ids \cup {None}, proof : BOOLEAN]

AccTypeOK ==
  /\ enabled \in BOOLEAN /\ passed \in BOOLEAN
  /\ acc \in Accs \cup {None}
=============================================================================
