------------------------- MODULE StrategyGeneration -------------------------
(***************************************************************************)
(* From a candidate to a strategy plan: the audited service                *)
(* (backend/ai_strategy/ai_service.py), the routing of providers           *)
(* (openai_strategy_client.py), the Codex command line client              *)
(* (codex_cli_strategy_client.py) with its one process at a time, the      *)
(* DeepSeek client and the rule generator.  The calls of the trader, of    *)
(* the acceptance fixture (codex_generation_acceptance.py) and of the      *)
(* operator's questions (strategy_qa.py) are coroutines of one process;    *)
(* the command line runs in a thread, under CODEX_CLI_LOCK.                *)
(***************************************************************************)
EXTENDS Naturals

CONSTANTS
  Calls,     \* the calls to the generator
  Settings,  \* pairs of a provider and require_codex_strategy_for_entry
  NoCall

VARIABLES
  provider,  \* settings: "codex_cli", "deepseek" or "rule"
  required,  \* settings.require_codex_strategy_for_entry
  at,        \* where each call is
  ask,       \* what the call was made with, or NoCall
  active,    \* CodexCLIStrategyClient._active_geometry_sample: whose it is
  cli,       \* the call whose thread holds CODEX_CLI_LOCK, or NoCall
  said,      \* what the model answered the call last, or NoCall
  repairs,   \* repair prompts of the call
  plan,      \* the StrategyPlan the call returned, or NoCall
  audit      \* ai_tasks: state of the call's row, and tradable_strategy

genVars == <<provider, required, at, ask, active, cli, said,
             repairs, plan, audit>>
settingsVars == <<provider, required>>

(* A plan in the right form, with a thin contract, with prices in the      *)
(* wrong order, a WAIT, or none that can be read.                          *)
Answers == {"open", "open_thin", "open_crooked", "wait", "unreadable"}
Failures == {"unreadable", "timeout", "busy"}
Pending == {"sampling", "queued", "running", "stopping", "read", "http"}

Requests ==
  [mode : {"auto"}, blocked : BOOLEAN, sampled : BOOLEAN]
    \cup [mode : {"acceptance"}, blocked : BOOLEAN, sampled : {TRUE}]
    \cup {[mode |-> "question", blocked |-> FALSE, sampled |-> TRUE]}

NoRow == [state |-> "none", tradable |-> FALSE]
Row(state, tradable) == [state |-> state, tradable |-> tradable]
(* _is_tradable_plan *)
Tradable(p) == p.opens

Providers == {"unavailable", "local", "rule", "codex", "deepseek"}
Plans == [opens : BOOLEAN, by : Providers, sample : Calls \cup {NoCall}]
Plan(opens, by, sample) == [opens |-> opens, by |-> by, sample |-> sample]

ASSUME GenAssumption == NoCall \notin Plans
Fallback == Plan(FALSE, "unavailable", NoCall)
LocalWait == Plan(FALSE, "local", NoCall)

GenInit ==
  /\ \E s \in Settings: provider = s[1] /\ required = s[2]
  /\ at = [c \in Calls |-> "idle"]
  /\ ask = [c \in Calls |-> NoCall]
  /\ active = NoCall /\ cli = NoCall
  /\ said = [c \in Calls |-> NoCall]
  /\ repairs = [c \in Calls |-> 0]
  /\ plan = [c \in Calls |-> NoCall]
  /\ audit = [c \in Calls |-> NoRow]

To(c, place) == at' = [at EXCEPT ![c] = place]

\* Mutant of Answer: the row says succeeded before the plan is safe.
AnswerMarkedAnyway(c, r, p) ==
  /\ audit' = IF r.mode = "question" THEN audit
              ELSE [audit EXCEPT ![c] = Row("succeeded", Tradable(p))]
  /\ \/ To(c, "done") /\ plan' = [plan EXCEPT ![c] = p]
     \/ r.mode # "question" /\ To(c, "raised") /\ UNCHANGED plan

(* The plan goes back through generate_strategy, which marks the row; when *)
(* that write fails the exception takes the plan's place.                  *)
Answer(c, r, p) ==
  \/ /\ To(c, "done") /\ plan' = [plan EXCEPT ![c] = p]
     /\ audit' = IF r.mode = "question" THEN audit
                 ELSE [audit EXCEPT ![c] = Row("succeeded", Tradable(p))]
  \/ /\ r.mode # "question"
     /\ To(c, "raised") /\ UNCHANGED plan
     /\ audit' = [audit EXCEPT ![c] = Row("running", FALSE)]

(* Anything but the plan's own errors, after the row was made. *)
Raise(c) ==
  /\ To(c, "raised") /\ UNCHANGED plan
  /\ audit' = [audit EXCEPT ![c] = Row("failed", FALSE)]

(* The model is called. *)
Start(c, place) ==
  /\ To(c, place) /\ UNCHANGED plan
  /\ audit' = [audit EXCEPT ![c] = Row("running", FALSE)]

(* An open position claims the AI budget, or the capacity is used up.      *)
PutBack(r, reserved) == r.mode = "auto" /\ reserved

(* OpenAIStrategyClient.generate, up to the first await. *)
Route(c, r, reserved) ==
  \/ /\ \/ PutBack(r, reserved)
        \/ required /\ provider # "codex_cli"
        \/ provider \in {"codex_cli", "deepseek"}  \* AI disabled or not ready
     /\ Answer(c, r, LocalWait) /\ UNCHANGED active
  \/ /\ ~PutBack(r, reserved)
     /\ \/ /\ provider = "rule" /\ ~required
           /\ \E opens \in BOOLEAN: Answer(c, r, Plan(opens, "rule", NoCall))
           /\ UNCHANGED active
        \/ /\ provider = "codex_cli"
           /\ active' = IF r.sampled THEN c ELSE active
           /\ Start(c, IF r.sampled THEN "queued" ELSE "sampling")
        \/ /\ provider = "deepseek" /\ ~required
           /\ Start(c, "http") /\ UNCHANGED active

Ask(c) ==
  /\ at[c] = "idle"
  /\ \E r \in Requests, reserved \in BOOLEAN:
       /\ ask' = [ask EXCEPT ![c] = r]
       /\ IF r.mode = "question"
          THEN To(c, "queued") /\ UNCHANGED <<active, plan, audit>>
          ELSE Route(c, r, reserved)
  /\ UNCHANGED <<settingsVars, cli, said, repairs>>

(* The geometry sample has been computed; its errors become an empty one. *)
Sampled(c) ==
  /\ at[c] = "sampling"
  /\ active' = c
  /\ \/ To(c, "queued") /\ UNCHANGED <<plan, audit>>
     \/ Raise(c)                                   \* the context cannot be built
  /\ UNCHANGED <<settingsVars, ask, cli, said, repairs>>

(* run_command in a thread. *)
TakeCli(c) ==
  /\ at[c] = "queued" /\ cli = NoCall
  /\ cli' = c /\ To(c, "running")
  /\ UNCHANGED <<settingsVars, ask, active, said, repairs, plan, audit>>

CliBusy(c) ==
  /\ at[c] = "queued" /\ cli # NoCall
  /\ To(c, "read") /\ said' = [said EXCEPT ![c] = "busy"]
  /\ UNCHANGED <<settingsVars, ask, active, cli, repairs, plan, audit>>

CliReturns(c) ==
  /\ at[c] = "running"
  /\ cli' = NoCall /\ To(c, "read")
  /\ \E a \in Answers: said' = [said EXCEPT ![c] = a]
  /\ UNCHANGED <<settingsVars, ask, active, repairs, plan, audit>>

(* The deadline: the process is told to end, and waited for. *)
CliOverruns(c) ==
  /\ at[c] = "running"
  /\ To(c, "stopping")
  /\ UNCHANGED <<settingsVars, ask, active, cli, said, repairs, plan, audit>>

\* Mutant of ChildExits: the lock is given back only on success.
ChildExitsHoldingLock(c) ==
  /\ at[c] = "stopping"
  /\ To(c, "read") /\ said' = [said EXCEPT ![c] = "timeout"]
  /\ UNCHANGED <<settingsVars, ask, active, cli, repairs, plan, audit>>

ChildExits(c) ==
  /\ at[c] = "stopping"
  /\ cli' = NoCall
  /\ To(c, "read") /\ said' = [said EXCEPT ![c] = "timeout"]
  /\ UNCHANGED <<settingsVars, ask, active, repairs, plan, audit>>

\* Mutant of OwnPlan: the plan takes the client's shared sample.
OwnPlanByActive(c) == Plan(said[c] # "wait", "codex", active)

(* The parsed plan carries the sample the call was made with, whatever     *)
(* _plan_from_dict read from the client meanwhile.                         *)
OwnPlan(c) == Plan(said[c] # "wait", "codex", c)

(* _apply_generation_gate: an opening plan of a blocked setup waits. *)
GateBlocks(c) == said[c] \in {"open", "open_crooked"} /\ ask[c].blocked

(* The generation gate of the local history, then the validator. *)
Returns(c) ==
  CASE said[c] \in Failures \cup {"open_thin"} -> Fallback
    [] GateBlocks(c) -> Plan(FALSE, "codex", NoCall)
    [] said[c] = "open_crooked" /\ ~ask[c].blocked -> Fallback
    [] OTHER -> OwnPlan(c)

(* _execution_contract_repair_prompt: one more question, for the trader's  *)
(* and the fixture's calls.                                                *)
NeedsRepair(c) ==
  said[c] = "open_thin" /\ repairs[c] = 0 /\ ask[c].mode # "question"

(* The coroutine resumes with the output: a thin contract is asked for     *)
(* once more, an answer of any kind ends the call.                         *)
Judge(c) ==
  /\ at[c] = "read"
  /\ IF NeedsRepair(c)
     THEN /\ To(c, "queued") /\ repairs' = [repairs EXCEPT ![c] = 1]
          /\ UNCHANGED <<plan, audit>>
     ELSE /\ Answer(c, ask[c], IF ask[c].mode = "question" THEN Fallback ELSE Returns(c))
          /\ UNCHANGED repairs
  /\ UNCHANGED <<settingsVars, ask, active, cli, said>>

(* DeepSeek: a thin contract is replaced by the rule contract; the         *)
(* generation gate is left to the prompt.                                  *)
HttpReturns(c) ==
  /\ at[c] = "http"
  /\ \E a \in Answers \cup {"timeout"}:
       Answer(c, ask[c], IF a \in Failures \cup {"open_crooked"} THEN Fallback
                         ELSE Plan(a # "wait", "deepseek", NoCall))
  /\ UNCHANGED <<settingsVars, ask, active, cli, said, repairs>>

(* The tradable rows of acceptance calls in the audit summary. *)
AcceptanceRows == {d \in Calls : audit[d].tradable /\ ask[d].mode = "acceptance"}

(* run_acceptance's verdict: the plan it got, and some tradable row of an  *)
(* acceptance call among the recent ones.                                  *)
FixturePasses(c) ==
  /\ plan[c] # NoCall
  /\ ask[c].mode = "acceptance" /\ plan[c].opens /\ plan[c].by = "codex"
  /\ AcceptanceRows # {}

(* The process stops: rows stay as they were. *)
GenRestart ==
  /\ \E c \in Calls: at[c] \in Pending
  /\ at' = [c \in Calls |-> IF at[c] \in Pending THEN "lost" ELSE at[c]]
  /\ active' = NoCall /\ cli' = NoCall
  /\ UNCHANGED <<settingsVars, ask, said, repairs, plan, audit>>

CallStep(c) ==
  \/ Ask(c) \/ Sampled(c) \/ TakeCli(c) \/ CliBusy(c) \/ CliReturns(c)
  \/ CliOverruns(c) \/ ChildExits(c) \/ Judge(c) \/ HttpReturns(c)

GenNext == (\E c \in Calls: CallStep(c)) \/ GenRestart

(* Coroutines are resumed, the deadline and the HTTP timeout expire, and a *)
(* process that was told to end ends.  Nothing makes the model answer.     *)
GenFairness ==
  \A c \in Calls:
    /\ WF_genVars(Sampled(c)) /\ WF_genVars(TakeCli(c) \/ CliBusy(c))
    /\ WF_genVars(CliOverruns(c)) /\ WF_genVars(ChildExits(c))
    /\ WF_genVars(Judge(c)) /\ WF_genVars(HttpReturns(c))

GenSpec == GenInit /\ [][GenNext]_genVars /\ GenFairness

---------------------------------------------------------------------------
(* A Codex plan that opens was answered with a complete contract and       *)
(* prices in order, while the learning gate allowed openings, and it       *)
(* carries the geometry sample of its own candidate, whichever call last   *)
(* wrote the client's shared one (codex_cli_strategy_client.py:171-225).   *)
OpenIsEarned ==
  \A c \in Calls:
    plan[c] # NoCall => (plan[c].opens /\ plan[c].by = "codex" =>
      said[c] = "open" /\ ~ask[c].blocked /\ plan[c].sample = c)

(* ai_tasks never counts a strategy as tradable that its caller did not    *)
(* receive, a call that got its plan has left a closed row, and an         *)
(* acceptance that passes rests on its own row, although it looks for any  *)
(* (ai_service.py:47-61, codex_generation_acceptance.py:352-360).          *)
AuditAgrees ==
  \A c \in Calls:
    /\ audit[c].tradable => (plan[c] # NoCall /\ plan[c].opens)
    /\ (plan[c] # NoCall /\ ask[c].mode # "question") =>
         audit[c] = Row("succeeded", plan[c].opens)
    /\ FixturePasses(c) => audit[c].tradable

(* Every call ends and gives the command line back, however long the model *)
(* is silent (codex_cli_strategy_client.py:541-565).                       *)
CallsEnd ==
  \A c \in Calls:
    (at[c] \in Pending \/ cli = c) ~> (at[c] \notin Pending /\ cli # c)
=============================================================================
