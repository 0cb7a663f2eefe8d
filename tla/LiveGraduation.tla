--------------------------- MODULE LiveGraduation ---------------------------
(* From paper to real orders (trading/live_readiness.py): the stage the    *)
(* readiness report gives, the guard the auto trader runs before it lets a *)
(* real order through (autotrader._real_live_execution_guard) and the last *)
(* look of the executor (_assert_prg_live_allowed).  The exchange may hold *)
(* what the registry does not know; only a reconciliation tells, and it    *)
(* takes a while.  Blockers with one cause are one member of causes.       *)
EXTENDS Naturals, FiniteSets

CONSTANTS MaxAge,       \* EXCHANGE_RECONCILIATION_MAX_AGE_SECONDS, in ticks
          Slow,         \* a reconciliation takes at most this long
          LastTick      \* bound

ASSUME GraduationAssumption == MaxAge \in Nat /\ Slow \in Nat

VARIABLES causes,    \* what is amiss
          switches,  \* the operator's settings
          differs,   \* since when exchange and registry differ, 0 when not
          reading,   \* the reconciliation under way: when it read, and what
          agreed,    \* its last report: when stamped, and its verdict
          cleared,   \* the auto trader's guard let an order through
          ordered,   \* the executor sent it: what its report rested on
          moment_

gradVars ==
  <<causes, switches, differs, reading, agreed, cleared, ordered, moment_>>

\* paper: results, learning data, open or stale positions, settings
TestCauses  == {"paper", "feed"}
MicroCauses == TestCauses \cup {"prg", "protection"}
Stages == <<"paper_probe", "shadow_live", "live_test_order", "micro_live">>

NoReading == [at |-> 0, same |-> FALSE]
NoVerdict == [at |-> 0, ok |-> FALSE]

----------------------------------------------------------------------------
(* Readiness *)

\* Mutant of Reconciled: the age of the report is not looked at.
ReconciledOnce == agreed.at > 0 /\ agreed.ok

(* The report on the exchange counts when there is one, it is recent, and   *)
(* it agreed.                                                               *)
Reconciled == agreed.at > 0 /\ moment_ - agreed.at <= MaxAge /\ agreed.ok

TestBlockers ==
  (causes \cap TestCauses) \cup (IF Reconciled THEN {} ELSE {"exchange"})
MicroBlockers == (causes \cap MicroCauses) \cup TestBlockers

(* An enabled live trading blocks every stage.                              *)
Allowed(stage) ==
  /\ ~switches.enabled
  /\ CASE stage = "paper_probe"     -> TRUE
       [] stage = "shadow_live"     -> "feed" \notin causes
       [] stage = "live_test_order" -> TestBlockers = {}
       [] OTHER -> MicroBlockers = {} /\ ~switches.testOrder

CurrentStage ==
  LET ok == {k \in DOMAIN Stages : Allowed(Stages[k])}
  IN IF ok = {} THEN "paper_probe"
     ELSE Stages[CHOOSE k \in ok : \A j \in ok : j <= k]

(* The guard strips the blocker of the enabled switch from the micro phase. *)
GuardClears ==
  /\ switches.enabled /\ ~switches.testOrder
  /\ MicroBlockers = {}

----------------------------------------------------------------------------
(* Steps *)

CauseChanges ==
  /\ \E c \in MicroCauses :
       causes' = IF c \in causes THEN causes \ {c} ELSE causes \cup {c}
  /\ UNCHANGED <<switches, differs, reading, agreed, cleared, ordered, moment_>>

OperatorSwitches ==
  /\ \E s \in DOMAIN switches : switches' = [switches EXCEPT ![s] = ~@]
  /\ UNCHANGED <<causes, differs, reading, agreed, cleared, ordered, moment_>>

ExchangeChanges ==
  /\ differs' = IF differs = 0 THEN moment_ ELSE 0
  /\ UNCHANGED <<causes, switches, reading, agreed, cleared, ordered, moment_>>

(* refresh: a second one is not begun; positions are read first ...         *)
BeginReconcile ==
  /\ reading = NoReading
  /\ reading' = [at |-> moment_, same |-> differs = 0]
  /\ UNCHANGED <<causes, switches, differs, agreed, cleared, ordered, moment_>>

(* ... and the report is stamped at the end, also when the query failed.    *)
EndReconcile ==
  /\ reading # NoReading
  /\ \E ok \in {FALSE, reading.same} :
       agreed' = [at |-> moment_, ok |-> ok]
  /\ reading' = NoReading
  /\ UNCHANGED <<causes, switches, differs, cleared, ordered, moment_>>

(* The guard returns on a blocker before its own enforce could switch live  *)
(* trading off.                                                             *)
GuardRuns ==
  /\ ~cleared /\ switches.enabled
  /\ cleared' = GuardClears
  /\ UNCHANGED <<causes, switches, differs, reading, agreed, ordered, moment_>>

(* The executor looks again at the score and at the report, but not at the  *)
(* report's age; either failing switches live trading off.                  *)
SendOrder ==
  /\ cleared /\ ordered = NoVerdict
  /\ cleared' = FALSE
  /\ IF switches.enabled /\ ~switches.testOrder
     THEN IF "prg" \notin causes /\ agreed.at > 0 /\ agreed.ok
          THEN ordered' = agreed /\ UNCHANGED switches
          ELSE switches' = [switches EXCEPT !.enabled = FALSE]
               /\ UNCHANGED ordered
     ELSE UNCHANGED <<switches, ordered>>
  /\ UNCHANGED <<causes, differs, reading, agreed, moment_>>

OrderSettled ==
  /\ ordered # NoVerdict
  /\ ordered' = NoVerdict
  /\ UNCHANGED <<causes, switches, differs, reading, agreed, cleared, moment_>>

TimePasses ==
  /\ moment_ < LastTick
  /\ reading # NoReading => moment_ < reading.at + Slow
  /\ moment_' = moment_ + 1
  /\ UNCHANGED <<causes, switches, differs, reading, agreed, cleared, ordered>>

GradInit ==
  /\ causes = {} /\ switches = [enabled |-> FALSE, testOrder |-> TRUE]
  /\ differs = 0 /\ reading = NoReading /\ agreed = NoVerdict
  /\ cleared = FALSE /\ ordered = NoVerdict /\ moment_ = 1

GradNext ==
  \/ CauseChanges \/ OperatorSwitches \/ ExchangeChanges
  \/ BeginReconcile \/ EndReconcile
  \/ GuardRuns \/ SendOrder \/ OrderSettled \/ TimePasses

GradSpec == GradInit /\ [][GradNext]_gradVars

----------------------------------------------------------------------------
(* Properties *)

(* A stage that validates on the exchange is not reported while exchange    *)
(* and registry have differed for longer than the report may be old and a   *)
(* reconciliation may take; and every order the executor sends rests on a   *)
(* report that agreed, even when the report changed after the auto trader's *)
(* guard had read it (live_readiness._blockers, _assert_prg_live_allowed).  *)
StageIsHonest ==
  /\ differs > 0 /\ CurrentStage \in {"live_test_order", "micro_live"}
       => moment_ - differs <= MaxAge + Slow
  /\ ordered # NoVerdict => ordered.ok
=============================================================================
