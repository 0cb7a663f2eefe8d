----------------------------- MODULE TaskWorkers -----------------------------
(***************************************************************************)
(* Background radar scans of the second API: the task registry and its     *)
(* table (backend/app/workers/task_registry.py), the runner                *)
(* (task_runner.py), the handler of POST /scans (app/api/radar.py) and the *)
(* stored result (app/services/radar_persistence.py).  Coroutines of one   *)
(* process; every database call is one transaction that may raise; the     *)
(* process may stop between any two steps.                                 *)
(***************************************************************************)
EXTENDS Naturals

CONSTANTS
  Tasks,     \* the requests
  MaxItems,  \* bound: candidates of a scan
  NoTask

VARIABLES
  row,       \* state of the task's row in the database, or NoTask
  mem,       \* state of the record in TaskRegistry._tasks, or NoTask
  co,        \* where the coroutine of the task is
  holder,    \* the task whose scan holds RadarEngine._scan_lock, or NoTask
  lastScan,  \* RadarEngine.last_scan_id: the task whose scan it was, or NoTask
  scans,     \* radar_scans, by scan id: state and top50_count, or NoTask
  stored     \* radar_candidates: how many rows a scan id has

taskVars == <<row, mem, co, holder, lastScan, scans, stored>>

TaskStates == {"pending", "running", "succeeded", "failed"}
ScanRows == [state : {"failed", "succeeded"}, count : 0..MaxItems]

ASSUME TaskAssumption == MaxItems \in Nat /\ NoTask \notin TaskStates \cup ScanRows
Active == {"queued", "waiting", "scanning", "scanned", "failing", "saved"}

TaskInit ==
  /\ row = [t \in Tasks |-> NoTask] /\ mem = row
  /\ co = [t \in Tasks |-> "none"]
  /\ holder = NoTask /\ lastScan = NoTask
  /\ scans = [t \in Tasks |-> NoTask]
  /\ stored = [t \in Tasks |-> 0]

Goto(t, at) == co' = [co EXCEPT ![t] = at]

(* _persist_task after the record was changed: the coroutine goes on, or   *)
(* the exception leaves it (nothing around it catches).                    *)
Marked(t, state, next) ==
  /\ mem' = [mem EXCEPT ![t] = state]
  /\ \/ row' = [row EXCEPT ![t] = state] /\ Goto(t, next)
     \/ UNCHANGED row /\ Goto(t, "dead")

(* submit: the row first, then the coroutine. *)
Submit(t) ==
  /\ co[t] = "none"
  /\ Marked(t, "pending", "queued")
  /\ UNCHANGED <<holder, lastScan, scans, stored>>

(* _run up to the handler's first await.  The record is read back from the *)
(* database before it is marked; that may raise too.                       *)
Run(t) ==
  /\ co[t] = "queued"
  /\ \/ Marked(t, "running", "waiting")
     \/ Goto(t, "dead") /\ UNCHANGED <<row, mem>>
  /\ UNCHANGED <<holder, lastScan, scans, stored>>

TakeLock(t) ==
  /\ co[t] = "waiting" /\ holder = NoTask
  /\ holder' = t /\ Goto(t, "scanning")
  /\ UNCHANGED <<row, mem, lastScan, scans, stored>>

(* save_radar_scan_result: the scan and its candidates in one transaction. *)
SaveScan(id, state, items) ==
  /\ scans' = [scans EXCEPT ![id] = [state |-> state, count |-> items]]
  /\ stored' = [stored EXCEPT ![id] = items]

(* The failure of a scan is stored under last_scan_id: its own when it     *)
(* raised after setting it, else the last finished scan of this process,   *)
(* else a new one.  Storing it may raise as well.                          *)
StoreFailure(t) ==
  /\ lastScan' \in {lastScan, t}
  /\ \/ SaveScan(IF lastScan' = NoTask THEN t ELSE lastScan', "failed", 0)
     \/ UNCHANGED <<scans, stored>>

ScanRaises(t) ==
  /\ co[t] = "scanning"
  /\ StoreFailure(t)
  /\ holder' = NoTask /\ Goto(t, "failing")
  /\ UNCHANGED <<row, mem>>

ScanReturns(t) ==
  /\ co[t] = "scanning"
  /\ lastScan' = t /\ holder' = NoTask /\ Goto(t, "scanned")
  /\ UNCHANGED <<row, mem, scans, stored>>

Save(t) ==
  /\ co[t] = "scanned"
  /\ \/ \E n \in 0..MaxItems : SaveScan(t, "succeeded", n) /\ Goto(t, "saved")
     \/ UNCHANGED <<scans, stored>> /\ Goto(t, "failing")
  /\ UNCHANGED <<row, mem, holder, lastScan>>

\* Mutant of MarkFailed: the except branch falls through to mark_succeeded.
MarkFailedAndOn(t) ==
  /\ co[t] = "failing"
  /\ \/ Marked(t, "failed", "saved")
     \/ Goto(t, "dead") /\ UNCHANGED <<row, mem>>
  /\ UNCHANGED <<holder, lastScan, scans, stored>>
MarkFailed(t) ==
  /\ co[t] = "failing"
  /\ \/ Marked(t, "failed", "done")
     \/ Goto(t, "dead") /\ UNCHANGED <<row, mem>>
  /\ UNCHANGED <<holder, lastScan, scans, stored>>

MarkSucceeded(t) ==
  /\ co[t] = "saved"
  /\ \/ Marked(t, "succeeded", "done")
     \/ Goto(t, "dead") /\ UNCHANGED <<row, mem>>
  /\ UNCHANGED <<holder, lastScan, scans, stored>>

(* _load_task: what the table says replaces what this process remembers.   *)
Loaded(t) == [mem EXCEPT ![t] = row[t]]

(* get. *)
Poll(t) ==
  /\ row[t] # NoTask
  /\ mem' = Loaded(t)
  /\ UNCHANGED <<row, co, holder, lastScan, scans, stored>>

(* The process ends, cancelling every coroutine, and starts again: nothing *)
(* in create_app looks at the rows of tasks that were running.             *)
Restart ==
  /\ \E t \in Tasks : co[t] # "none"
  /\ co' = [t \in Tasks |-> IF co[t] \in Active THEN "dead" ELSE co[t]]
  /\ mem' = [t \in Tasks |-> NoTask]
  /\ holder' = NoTask /\ lastScan' = NoTask
  /\ UNCHANGED <<row, scans, stored>>

Step(t) ==
  \/ Run(t)           \/ TakeLock(t)
  \/ ScanRaises(t)    \/ ScanReturns(t)   \/ Save(t)
  \/ MarkFailed(t)    \/ MarkSucceeded(t)
TaskNext ==
  \/ \E t \in Tasks : Submit(t) \/ Step(t) \/ Poll(t)
  \/ Restart

TaskFairness == \A t \in Tasks : WF_taskVars(Step(t))
TaskSpec == TaskInit /\ [][TaskNext]_taskVars /\ TaskFairness

-----------------------------------------------------------------------------
(* The outcome of a task is written once: a row that says failed or        *)
(* succeeded never says anything else, and a row says succeeded only while *)
(* the result of that very task's scan was stored (_run, run_scan).        *)
OutcomeIsFinal ==
  [][\A t \in Tasks :
       /\ row[t] \in {"failed", "succeeded"} => row'[t] = row[t]
       /\ row'[t] = "succeeded" /\ row[t] # "succeeded" => scans[t] # NoTask]_taskVars

(* A submitted task is not left waiting for ever behind other scans: it    *)
(* runs to its end or dies with an exception or the process.               *)
TaskEnds ==
  \A t \in Tasks : (co[t] = "queued") ~> (co[t] \in {"done", "dead"})
=============================================================================
