--------------------------- MODULE ServicesProofs ---------------------------
(***************************************************************************)
(* What the services around the desk promise, for every number of symbols, *)
(* tasks and calls, every pace and every bound: each module's property     *)
(* with the invariant it rests on.                                         *)
(***************************************************************************)
EXTENDS MarketStream, MarketFeed, MarketDownload, TaskWorkers, StrategyGeneration,
        ActivePool, CountingLemmas, TLAPS

-----------------------------------------------------------------------------
(* The stream *)

(* A connection that is still current is the one of the subscriptions. *)
StreamInv ==
  /\ subs \subseteq StreamSymbols
  /\ conn \in [of : SUBSET StreamSymbols, current : BOOLEAN] \cup {NoConn}
  /\ conn # NoConn /\ conn.current => conn.of = subs
  /\ latest \subseteq subs

LEMMA StreamStep ==
  ASSUME StreamInv, [StreamNext]_streamVars  PROVE StreamInv'
<1> USE StreamAssumption DEF StreamInv
<1>1. ASSUME NEW wanted \in SUBSET StreamSymbols, Sync(wanted) PROVE StreamInv'
  <2>1. CASE conn # NoConn /\ wanted # subs
    <3>1. conn' \in [of : SUBSET StreamSymbols, current : BOOLEAN] /\ ~conn'.current
      BY <1>1, <2>1 DEF Sync
    <3> QED BY <1>1, <3>1 DEF Sync
  <2>2. CASE ~(conn # NoConn /\ wanted # subs)
    BY <1>1, <2>2 DEF Sync
  <2> QED BY <2>1, <2>2
<1>2. ASSUME Connect PROVE StreamInv'
  BY <1>2 DEF Connect
<1>3. ASSUME Message PROVE StreamInv'
  BY <1>3 DEF Message
<1>4. ASSUME ConnLost PROVE StreamInv'
  BY <1>4 DEF ConnLost
<1>5. ASSUME UNCHANGED streamVars PROVE StreamInv'
  BY <1>5 DEF streamVars
<1> QED BY <1>1, <1>2, <1>3, <1>4, <1>5 DEF StreamNext, SyncCalled

(* The stream never shows a symbol that nobody subscribed to, although the *)
(* old connection delivers until its next message (dynamic_symbol_stream). *)
THEOREM StreamIsHonest == StreamSpec => []StreamShowsSubscribed
<1>1. StreamInit => StreamInv
  BY StreamAssumption DEF StreamInit, StreamInv
<1>2. StreamInv /\ [StreamNext]_streamVars => StreamInv'
  BY StreamStep
<1>3. StreamInv => StreamShowsSubscribed
  BY DEF StreamInv, StreamShowsSubscribed
<1> QED BY <1>1, <1>2, <1>3, PTL DEF StreamSpec

-----------------------------------------------------------------------------
(* The pace of the downloads *)

Jobs == [step : {"chosen", "queued", "ready", "paced", "sent", "nap", "done"},
         what : {"klines", "interest"}, try : Nat, pages : Nat, nap : Nat,
         out : {"none", "candles", "badCandles", "empty", "cutShort", "failed"}]

(* What remains of the pace and what has passed since the last request     *)
(* make up the delay, and only the holder of the lock is in its nap: the   *)
(* nap it measured still covers the pace.                                  *)
DownInv ==
  /\ job \in [BtSymbols -> Jobs]
  /\ pace \in Nat /\ since \in 0..Delay /\ pace + since >= Delay
  /\ \A s \in BtSymbols : job[s].step = "paced" => lockBy = s /\ job[s].nap >= pace

Spaced == \A s \in BtSymbols :
            (job[s].step = "paced" /\ job'[s].step = "sent") => since = Delay

LEMMA WithIsJob ==
  ASSUME DownInv, NEW s \in BtSymbols, NEW try \in Nat, NEW nap \in Nat,
         NEW step \in {"ready", "paced", "sent", "nap"}
  PROVE  With(s, step, try, nap) \in Jobs /\ With(s, step, try, nap).step = step
           /\ With(s, step, try, nap).nap = nap
BY DEF DownInv, Jobs, With

LEMMA DoneIsJob ==
  ASSUME DownInv, NEW s \in BtSymbols,
         NEW out \in {"candles", "badCandles", "empty", "cutShort", "failed"}
  PROVE  Done(s, out) \in Jobs /\ Done(s, out).step = "done"
BY DEF DownInv, Jobs, Done

(* A step of one symbol that neither takes the lock nor sends. *)
LEMMA OtherwiseStep ==
  ASSUME DownInv, NEW s \in BtSymbols, job[s].step # "paced",
         NEW j \in Jobs, j.step # "paced",
         job' = [job EXCEPT ![s] = j], UNCHANGED <<lockBy, pace, since>>
  PROVE  DownInv' /\ Spaced
BY DEF DownInv, Spaced

LEMMA SymbolStep ==
  ASSUME DownInv, NEW s \in BtSymbols, Moves(s) \/ Answered(s)
  PROVE  DownInv' /\ Spaced
<1> USE DownloadAssumption
<1>0. job[s] \in Jobs /\ job[s].try \in Nat /\ job[s].try + 1 \in Nat /\ pace \in Nat
  BY DEF DownInv, Jobs
<1>1. CASE BeginLoad(s)
  BY <1>1, WithIsJob, OtherwiseStep DEF BeginLoad, Down
<1>2. CASE TakeSlot(s)
  <2>0. With(s, "paced", job[s].try, pace) \in Jobs
        /\ With(s, "paced", job[s].try, pace).step = "paced"
        /\ With(s, "paced", job[s].try, pace).nap = pace
    BY <1>0 DEF With, Jobs
  <2>1. PICK j \in Jobs : j.step = "paced" /\ j.nap = pace /\ job' = [job EXCEPT ![s] = j]
    BY <1>2, <2>0 DEF TakeSlot, Down
  <2> QED BY <1>0, <1>2, <2>1 DEF TakeSlot, DownInv, Spaced
<1>3. CASE Send(s)
  <2>1. PICK j \in Jobs : j.step = "sent" /\ job' = [job EXCEPT ![s] = j]
    <3>1. With(s, "sent", job[s].try, 0) \in Jobs
          /\ With(s, "sent", job[s].try, 0).step = "sent"
      BY <1>0 DEF With, Jobs
    <3> QED BY <1>3, <3>1 DEF Send, Down
  <2>2. since = Delay /\ \A r \in BtSymbols : r # s => job[r].step # "paced"
    BY <1>0, <1>3 DEF Send, DownInv
  <2> QED BY <1>3, <2>1, <2>2 DEF Send, DownInv, Spaced
<1>4. CASE Wakes(s)
  <2>1. With(s, "ready", job[s].try, 0) \in Jobs
        /\ With(s, "ready", job[s].try, 0).step = "ready"
    BY <1>0 DEF With, Jobs
  <2> QED BY <1>4, <2>1, OtherwiseStep DEF Wakes, Down
<1>5. CASE RetriesLater(s)
  <2>1. With(s, "nap", job[s].try + 1, Backoff) \in Jobs
        /\ With(s, "nap", job[s].try + 1, Backoff).step = "nap"
    BY <1>0 DEF With, Jobs
  <2> QED BY <1>5, <2>1, OtherwiseStep DEF RetriesLater, Down
<1>6. CASE GivesUp(s)
  BY <1>6, DoneIsJob, OtherwiseStep DEF GivesUp, Down
<1>7. CASE PageEmpty(s)
  BY <1>7, DoneIsJob, OtherwiseStep DEF PageEmpty, Down
<1>8. CASE PageComes(s)
  <2>1. \E j \in Jobs : j.step # "paced" /\ job' = [job EXCEPT ![s] = j]
    <3> USE <1>8 DEF PageComes, Down
    <3>0. job[s].pages + 1 \in Nat
      BY <1>0 DEF Jobs
    <3>1. [With(s, "ready", 1, 0) EXCEPT !.pages = @ + 1] \in Jobs
      BY <1>0, <3>0 DEF Jobs, With
    <3>2. [With(s, "ready", 1, 0) EXCEPT !.what = "interest", !.pages = 0] \in Jobs
      BY <1>0 DEF Jobs, With
    <3>3. [With(s, "ready", 1, 0) EXCEPT !.pages = @ + 1].step = "ready"
      BY <1>0 DEF Jobs, With
    <3>4. [With(s, "ready", 1, 0) EXCEPT !.what = "interest", !.pages = 0].step = "ready"
      BY <1>0 DEF Jobs, With
    <3> QED BY <3>1, <3>2, <3>3, <3>4, DoneIsJob
  <2> QED BY <1>8, <2>1, OtherwiseStep DEF PageComes
<1> QED BY <1>1, <1>2, <1>3, <1>4, <1>5, <1>6, <1>7, <1>8 DEF Moves, Answered

LEMMA DownStep ==
  ASSUME DownInv, [DownNext]_downVars  PROVE DownInv' /\ [Spaced]_downVars
<1> USE DownloadAssumption
<1>1. CASE Gather
  <2>1. [NewJob EXCEPT !.step = "queued"] \in Jobs /\ [NewJob EXCEPT !.step = "queued"].step = "queued"
    BY DEF NewJob, Jobs
  <2> QED BY <1>1, <2>1 DEF Gather, DownInv, Spaced
<1>2. CASE DownTick
  <2>1. \A n \in Nat : Less(n) \in Nat /\ (n > 0 => Less(n) = n - 1) /\ (n = 0 => Less(n) = 0)
    BY DEF Less
  <2>2. \A s \in BtSymbols : [job[s] EXCEPT !.nap = Less(@)] \in Jobs
                          /\ [job[s] EXCEPT !.nap = Less(@)].step = job[s].step
                          /\ [job[s] EXCEPT !.nap = Less(@)].nap = Less(job[s].nap)
    BY <2>1 DEF DownInv, Jobs
  <2>3. \A s \in BtSymbols : job'[s] \in Jobs /\ job'[s].step = job[s].step
                          /\ job'[s].nap = Less(job[s].nap)
    BY <1>2, <2>2 DEF DownTick
  <2>4. job' \in [BtSymbols -> Jobs]
    BY <1>2, <2>2 DEF DownTick
  <2>5. pace' \in Nat /\ since' \in 0..Delay /\ pace' + since' >= Delay
    BY <1>2, <2>1 DEF DownTick, DownInv
  <2>6. ASSUME NEW s \in BtSymbols, job'[s].step = "paced"
        PROVE  lockBy' = s /\ job'[s].nap >= pace'
    <3>1. job[s].nap \in Nat /\ pace \in Nat /\ job[s].nap >= pace /\ lockBy = s
      BY <2>3, <2>6 DEF DownInv, Jobs
    <3> QED BY <1>2, <2>1, <2>3, <3>1 DEF DownTick
  <2> QED BY <2>3, <2>4, <2>5, <2>6 DEF DownInv, Spaced
<1>3. ASSUME NEW s \in BtSymbols, Moves(s) \/ Answered(s) PROVE DownInv' /\ Spaced
  BY <1>3, SymbolStep
<1>4. CASE UNCHANGED downVars
  BY <1>4 DEF downVars, DownInv
<1> QED BY <1>1, <1>2, <1>3, <1>4 DEF DownNext

(* Two requests are never sent less than the delay apart, however many     *)
(* coroutines share the throttle (throttle_binance_request).               *)
THEOREM RequestsAreSpaced == DownSpec => RequestsSpaced
<1>1. DownInit => DownInv
  BY DownloadAssumption DEF DownInit, DownInv, NewJob, Jobs
<1>2. DownInv /\ [DownNext]_downVars => DownInv' /\ [Spaced]_downVars
  BY DownStep
<1> QED BY <1>1, <1>2, PTL DEF DownSpec, RequestsSpaced, Spaced
-----------------------------------------------------------------------------
(* The outcome of a task *)

(* A final row belongs to a coroutine that has ended, and a coroutine that *)
(* is about to say succeeded has stored its scan.                          *)
TaskInv ==
  /\ row \in [Tasks -> TaskStates \cup {NoTask}]
  /\ co \in [Tasks -> Active \cup {"none", "done", "dead"}]
  /\ scans \in [Tasks -> ScanRows \cup {NoTask}]
  /\ \A t \in Tasks :
       /\ row[t] \in {"failed", "succeeded"} => co[t] \in {"done", "dead"}
       /\ co[t] = "saved" => scans[t] # NoTask

Final ==
  \A t \in Tasks :
    /\ row[t] \in {"failed", "succeeded"} => row'[t] = row[t]
    /\ row'[t] = "succeeded" /\ row[t] # "succeeded" => scans[t] # NoTask

(* A step of one task that leaves its row alone: it ends the coroutine or  *)
(* takes it to a place it may go to, and only forgets no scan.             *)
LEMMA RowStays ==
  ASSUME TaskInv, NEW t \in Tasks, co[t] \in Active \cup {"none"},
         NEW at_ \in Active \cup {"dead"}, Goto(t, at_), UNCHANGED row,
         scans' \in [Tasks -> ScanRows \cup {NoTask}],
         \A u \in Tasks : scans[u] # NoTask => scans'[u] # NoTask,
         at_ = "saved" => scans'[t] # NoTask
  PROVE  TaskInv' /\ Final
<1>1. row[t] \notin {"failed", "succeeded"}
  BY DEF TaskInv, Active
<1> QED BY <1>1 DEF TaskInv, Final, Goto

(* A row is marked: failed and succeeded only at the end of the coroutine, *)
(* succeeded only of a task whose scan is stored.                          *)
LEMMA MarkedStep ==
  ASSUME TaskInv, NEW t \in Tasks, co[t] \in Active \cup {"none"},
         NEW state \in TaskStates, NEW at_ \in (Active \ {"saved"}) \cup {"done"},
         state \in {"failed", "succeeded"} => at_ = "done",
         state = "succeeded" => scans[t] # NoTask,
         Marked(t, state, at_), UNCHANGED scans
  PROVE  TaskInv' /\ Final
<1>1. row[t] \notin {"failed", "succeeded"}
  BY DEF TaskInv, Active
<1>2. CASE row' = [row EXCEPT ![t] = state] /\ Goto(t, at_)
  BY <1>1, <1>2 DEF TaskInv, Final, Goto
<1>3. CASE UNCHANGED row /\ Goto(t, "dead")
  BY <1>3, RowStays DEF TaskInv
<1> QED BY <1>2, <1>3 DEF Marked

LEMMA SaveKeeps ==
  ASSUME TaskInv, NEW id, NEW state \in {"failed", "succeeded"}, NEW n \in 0..MaxItems,
         SaveScan(id, state, n)
  PROVE  /\ scans' \in [Tasks -> ScanRows \cup {NoTask}]
         /\ \A u \in Tasks : scans[u] # NoTask => scans'[u] # NoTask
         /\ id \in Tasks => scans'[id] # NoTask
<1>1. [state |-> state, count |-> n] \in ScanRows
  BY DEF ScanRows
<1>2. PICK r \in ScanRows : scans' = [scans EXCEPT ![id] = r]
  BY <1>1 DEF SaveScan
<1> QED BY <1>2, TaskAssumption DEF TaskInv

LEMMA TaskStep ==
  ASSUME TaskInv, NEW t \in Tasks, Submit(t) \/ Step(t)
  PROVE  TaskInv' /\ Final
<1>1. CASE Submit(t)
  BY <1>1, MarkedStep DEF Submit, Active, TaskStates
<1>2. CASE Run(t)
  <2>1. CASE Marked(t, "running", "waiting")
    BY <1>2, <2>1, MarkedStep DEF Run, Active, TaskStates
  <2>2. CASE Goto(t, "dead") /\ UNCHANGED <<row, mem>>
    BY <1>2, <2>2, RowStays DEF Run, Active, TaskInv
  <2> QED BY <1>2, <2>1, <2>2 DEF Run
<1>3. CASE TakeLock(t)
  BY <1>3, RowStays DEF TakeLock, Active, TaskInv
<1>4. CASE ScanRaises(t)
  <2>1. /\ scans' \in [Tasks -> ScanRows \cup {NoTask}]
        /\ \A u \in Tasks : scans[u] # NoTask => scans'[u] # NoTask
    <3>1. CASE UNCHANGED <<scans, stored>>
      BY <3>1 DEF TaskInv
    <3>2. ASSUME NEW id, SaveScan(id, "failed", 0)
          PROVE  /\ scans' \in [Tasks -> ScanRows \cup {NoTask}]
                 /\ \A u \in Tasks : scans[u] # NoTask => scans'[u] # NoTask
      <4>1. 0 \in 0..MaxItems /\ "failed" \in {"failed", "succeeded"}
        BY TaskAssumption
      <4>2. SaveScan(id, "failed", 0)
        BY <3>2
      <4> QED BY <4>1, <4>2, SaveKeeps
    <3> QED BY <1>4, <3>1, <3>2 DEF ScanRaises, StoreFailure
  <2> QED BY <1>4, <2>1, RowStays DEF ScanRaises, Active
<1>5. CASE ScanReturns(t)
  BY <1>5, RowStays DEF ScanReturns, Active, TaskInv
<1>6. CASE Save(t)
  <2>1. ASSUME NEW n \in 0..MaxItems, SaveScan(t, "succeeded", n), Goto(t, "saved")
        PROVE  TaskInv' /\ Final
    <3>1. /\ scans' \in [Tasks -> ScanRows \cup {NoTask}] /\ scans'[t] # NoTask
          /\ \A u \in Tasks : scans[u] # NoTask => scans'[u] # NoTask
      BY <2>1, SaveKeeps
    <3> QED BY <1>6, <2>1, <3>1, RowStays DEF Save, Active
  <2>2. CASE UNCHANGED <<scans, stored>> /\ Goto(t, "failing")
    BY <1>6, <2>2, RowStays DEF Save, Active, TaskInv
  <2> QED BY <1>6, <2>1, <2>2 DEF Save
<1>7. CASE MarkFailed(t)
  <2>1. CASE Marked(t, "failed", "done")
    BY <1>7, <2>1, MarkedStep DEF MarkFailed, Active, TaskStates
  <2>2. CASE Goto(t, "dead") /\ UNCHANGED <<row, mem>>
    BY <1>7, <2>2, RowStays DEF MarkFailed, Active, TaskInv
  <2> QED BY <1>7, <2>1, <2>2 DEF MarkFailed
<1>8. CASE MarkSucceeded(t)
  <2>1. CASE Marked(t, "succeeded", "done")
    BY <1>8, <2>1, MarkedStep DEF MarkSucceeded, Active, TaskStates, TaskInv
  <2>2. CASE Goto(t, "dead") /\ UNCHANGED <<row, mem>>
    BY <1>8, <2>2, RowStays DEF MarkSucceeded, Active, TaskInv
  <2> QED BY <1>8, <2>1, <2>2 DEF MarkSucceeded
<1> QED BY <1>1, <1>2, <1>3, <1>4, <1>5, <1>6, <1>7, <1>8 DEF Step

(* The row of a task is written with an outcome once, and with succeeded   *)
(* only of a stored scan, whatever write fails and whenever the process    *)
(* restarts (TaskRunner._run, run_scan).                                   *)
THEOREM OutcomeOnce == TaskSpec => OutcomeIsFinal
<1>1. TaskInit => TaskInv
  BY TaskAssumption DEF TaskInit, TaskInv, TaskStates
<1>2. TaskInv /\ [TaskNext]_taskVars => TaskInv' /\ [Final]_taskVars
  <2> SUFFICES ASSUME TaskInv, [TaskNext]_taskVars PROVE TaskInv' /\ [Final]_taskVars
    OBVIOUS
  <2>1. ASSUME NEW t \in Tasks, Submit(t) \/ Step(t) PROVE TaskInv' /\ Final
    BY <2>1, TaskStep
  <2>2. ASSUME NEW t \in Tasks, Poll(t) PROVE TaskInv' /\ Final
    BY <2>2 DEF Poll, TaskInv, Final
  <2>3. CASE Restart
    BY <2>3 DEF Restart, TaskInv, Final, Active
  <2>4. CASE UNCHANGED taskVars
    BY <2>4 DEF taskVars, TaskInv
  <2> QED BY <2>1, <2>2, <2>3, <2>4 DEF TaskNext
<1> QED BY <1>1, <1>2, PTL DEF TaskSpec, OutcomeIsFinal, Final

-----------------------------------------------------------------------------
(* What a plan rests on *)

(* A plan is returned at the end of its call, and what is written of the   *)
(* call before says nothing is tradable.                                   *)
GenInv ==
  /\ at \in [Calls -> Pending \cup {"idle", "done", "raised", "lost"}]
  /\ ask \in [Calls -> Requests \cup {NoCall}]
  /\ said \in [Calls -> Answers \cup {"busy", "timeout", NoCall}]
  /\ plan \in [Calls -> Plans \cup {NoCall}]
  /\ audit \in [Calls -> [state : {"none", "running", "succeeded", "failed"}, tradable : BOOLEAN]]
  /\ \A c \in Calls :
       /\ at[c] = "read" => said[c] \in Answers \cup {"busy", "timeout"}
       /\ at[c] \in Pending => ask[c] \in Requests
       /\ at[c] \in {"sampling", "http"} => ask[c].mode # "question"
       /\ plan[c] # NoCall => at[c] = "done" /\ ask[c] \in Requests
  /\ OpenIsEarned /\ AuditAgrees

Earned(c, r, p) == p.opens /\ p.by = "codex" => said[c] = "open" /\ ~r.blocked /\ p.sample = c

LEMMA PlansAreTyped ==
  ASSUME NEW opens \in BOOLEAN, NEW by \in Providers, NEW sample \in Calls \cup {NoCall}
  PROVE  /\ Plan(opens, by, sample) \in Plans
         /\ Plan(opens, by, sample).opens = opens /\ Plan(opens, by, sample).by = by
         /\ Plan(opens, by, sample).sample = sample
BY DEF Plan, Plans

LEMMA RequestsAreTyped ==
  ASSUME NEW r \in Requests
  PROVE  r.mode \in {"auto", "acceptance", "question"} /\ r.blocked \in BOOLEAN
<1>1. CASE r \in [mode : {"auto"}, blocked : BOOLEAN, sampled : BOOLEAN]
  BY <1>1
<1>2. CASE r \in [mode : {"acceptance"}, blocked : BOOLEAN, sampled : {TRUE}]
  BY <1>2
<1>3. CASE r = [mode |-> "question", blocked |-> FALSE, sampled |-> TRUE]
  BY <1>3
<1> QED BY <1>1, <1>2, <1>3 DEF Requests

(* The row written with a plan that opens is tradable. *)
LEMMA RowOfPlan ==
  ASSUME NEW p \in Plans, p.opens, NEW x, x = Row("succeeded", p.opens)
  PROVE  x.tradable
BY DEF Row, Plans

(* A call that is under way moves and leaves plan and row as they are. *)
LEMMA CallMoves ==
  ASSUME GenInv, NEW c \in Calls, at[c] \in Pending,
         NEW place \in Pending \ {"sampling", "http"}, To(c, place),
         said' \in [Calls -> Answers \cup {"busy", "timeout", NoCall}],
         \A d \in Calls : d # c => said'[d] = said[d],
         place = "read" => said'[c] \in Answers \cup {"busy", "timeout"},
         UNCHANGED <<ask, plan, audit>>
  PROVE  GenInv'
<1>1. plan[c] = NoCall
  BY DEF GenInv, Pending
<1>2. at' \in [Calls -> Pending \cup {"idle", "done", "raised", "lost"}]
      /\ at'[c] = place /\ \A d \in Calls : d # c => at'[d] = at[d]
  BY DEF GenInv, To
<1>3. OpenIsEarned'
  BY <1>1 DEF GenInv, OpenIsEarned
<1>4. AuditAgrees'
  BY DEF GenInv, AuditAgrees, FixturePasses, AcceptanceRows
<1> QED BY <1>1, <1>2, <1>3, <1>4 DEF GenInv

(* A call is answered: the plan and its row together, or an exception. *)
LEMMA AnswerStep ==
  ASSUME GenInv, NEW c \in Calls, NEW r \in Requests, NEW p \in Plans,
         plan[c] = NoCall, Earned(c, r, p), Answer(c, r, p),
         ask' \in [Calls -> Requests \cup {NoCall}], ask'[c] = r,
         \A d \in Calls : d # c => ask'[d] = ask[d], UNCHANGED said
  PROVE  GenInv'
<1> USE GenAssumption, RequestsAreTyped
<1>0. ~audit[c].tradable
  BY DEF GenInv, AuditAgrees
<1>1. CASE /\ To(c, "done") /\ plan' = [plan EXCEPT ![c] = p]
           /\ audit' = IF r.mode = "question" THEN audit
                       ELSE [audit EXCEPT ![c] = Row("succeeded", Tradable(p))]
  <2>1. /\ at' \in [Calls -> Pending \cup {"idle", "done", "raised", "lost"}]
        /\ at'[c] = "done" /\ \A d \in Calls : d # c => at'[d] = at[d]
    BY <1>1 DEF GenInv, To
  <2>2. /\ plan' \in [Calls -> Plans \cup {NoCall}]
        /\ plan'[c] = p /\ p # NoCall /\ \A d \in Calls : d # c => plan'[d] = plan[d]
    BY <1>1 DEF GenInv
  <2>3. PICK x \in [state : {"none", "running", "succeeded", "failed"}, tradable : BOOLEAN] :
          /\ r.mode # "question" => x = Row("succeeded", p.opens)
          /\ r.mode = "question" => x = audit[c]
          /\ x.tradable => p.opens
          /\ audit' = [audit EXCEPT ![c] = x]
    <3>1. CASE r.mode = "question"
      BY <1>0, <1>1, <3>1 DEF GenInv
    <3>2. CASE r.mode # "question"
      <4>1. Row("succeeded", p.opens) \in
              [state : {"none", "running", "succeeded", "failed"}, tradable : BOOLEAN]
            /\ Row("succeeded", p.opens).tradable = p.opens
        BY DEF Row, Plans
      <4> QED BY <1>1, <3>2, <4>1 DEF Tradable
    <3> QED BY <3>1, <3>2
  <2>4. /\ audit' \in [Calls -> [state : {"none", "running", "succeeded", "failed"}, tradable : BOOLEAN]]
        /\ audit'[c] = x /\ \A d \in Calls : d # c => audit'[d] = audit[d]
    BY <2>3 DEF GenInv
  <2>5. OpenIsEarned'
    BY <2>2 DEF GenInv, OpenIsEarned, Earned
  <2>6. AuditAgrees'
    <3>1. \A d \in Calls : audit'[d].tradable => (plan'[d] # NoCall /\ plan'[d].opens)
      BY <2>2, <2>3, <2>4 DEF GenInv, AuditAgrees
    <3>2. \A d \in Calls : (plan'[d] # NoCall /\ ask'[d].mode # "question") =>
                           audit'[d] = Row("succeeded", plan'[d].opens)
      BY <2>2, <2>3, <2>4 DEF GenInv, AuditAgrees
    <3>3. ASSUME NEW d \in Calls, FixturePasses(d)' PROVE audit'[d].tradable
      <4>1. plan'[d] \in Plans /\ plan'[d].opens /\ ask'[d].mode # "question" /\ plan'[d] # NoCall
        BY <2>2, <3>3 DEF FixturePasses
      <4> QED BY <3>2, <4>1, RowOfPlan
    <3> QED BY <3>1, <3>2, <3>3 DEF AuditAgrees
  <2> QED BY <2>1, <2>2, <2>4, <2>5, <2>6 DEF GenInv, Pending
<1>2. CASE /\ r.mode # "question"
           /\ To(c, "raised") /\ UNCHANGED plan
           /\ audit' = [audit EXCEPT ![c] = Row("running", FALSE)]
  <2>1. /\ at' \in [Calls -> Pending \cup {"idle", "done", "raised", "lost"}]
        /\ at'[c] = "raised" /\ \A d \in Calls : d # c => at'[d] = at[d]
    BY <1>2 DEF GenInv, To
  <2>2. Row("running", FALSE) \in
          [state : {"none", "running", "succeeded", "failed"}, tradable : BOOLEAN]
        /\ Row("running", FALSE).tradable = FALSE
    BY DEF Row
  <2>3. /\ audit' \in [Calls -> [state : {"none", "running", "succeeded", "failed"}, tradable : BOOLEAN]]
        /\ ~audit'[c].tradable /\ \A d \in Calls : d # c => audit'[d] = audit[d]
    <3>1. audit \in [Calls -> [state : {"none", "running", "succeeded", "failed"}, tradable : BOOLEAN]]
      BY DEF GenInv
    <3>2. audit' = [audit EXCEPT ![c] = Row("running", FALSE)]
      BY <1>2
    <3> QED BY ONLY <2>2, <3>1, <3>2
  <2>4. OpenIsEarned'
    BY <1>2 DEF GenInv, OpenIsEarned
  <2>5. AuditAgrees'
    <3>1. ASSUME NEW d \in Calls, plan'[d] # NoCall, ask'[d].mode # "question"
          PROVE  audit'[d] = Row("succeeded", plan'[d].opens)
      <4>1. d # c /\ plan'[d] = plan[d]
        BY <1>2, <3>1
      <4> QED BY <2>3, <3>1, <4>1 DEF GenInv, AuditAgrees
    <3>2. ASSUME NEW d \in Calls, FixturePasses(d)' PROVE audit'[d].tradable
      <4>1. plan'[d] \in Plans /\ plan'[d].opens /\ ask'[d].mode # "question" /\ plan'[d] # NoCall
        BY <1>2, <3>2 DEF FixturePasses, GenInv
      <4> QED BY <3>1, <4>1, RowOfPlan
    <3> QED BY <1>2, <2>3, <3>1, <3>2 DEF GenInv, AuditAgrees
  <2>6. \A d \in Calls :
         /\ at'[d] = "read" => said'[d] \in Answers \cup {"busy", "timeout"}
         /\ at'[d] \in Pending => ask'[d] \in Requests
         /\ at'[d] \in {"sampling", "http"} => ask'[d].mode # "question"
         /\ plan'[d] # NoCall => at'[d] = "done" /\ ask'[d] \in Requests
    BY <1>2, <2>1 DEF GenInv, Pending
  <2> QED BY <1>2, <2>1, <2>3, <2>4, <2>5, <2>6 DEF GenInv
<1> QED BY <1>1, <1>2 DEF Answer

(* A call is started or fails: its row says nothing is tradable. *)
LEMMA RowStep ==
  ASSUME GenInv, NEW c \in Calls, NEW r \in Requests, plan[c] = NoCall,
         NEW place \in {"sampling", "queued", "http", "raised"}, To(c, place), UNCHANGED plan,
         NEW state \in {"running", "failed"}, audit' = [audit EXCEPT ![c] = Row(state, FALSE)],
         place \in {"sampling", "http"} => r.mode # "question",
         ask' \in [Calls -> Requests \cup {NoCall}], ask'[c] = r,
         \A d \in Calls : d # c => ask'[d] = ask[d], UNCHANGED said
  PROVE  GenInv'
<1>1. /\ at' \in [Calls -> Pending \cup {"idle", "done", "raised", "lost"}]
      /\ at'[c] = place /\ \A d \in Calls : d # c => at'[d] = at[d]
  BY DEF GenInv, To, Pending
<1>2. Row(state, FALSE) \in
        [state : {"none", "running", "succeeded", "failed"}, tradable : BOOLEAN]
      /\ Row(state, FALSE).tradable = FALSE
  BY DEF Row
<1>3. /\ audit' \in [Calls -> [state : {"none", "running", "succeeded", "failed"}, tradable : BOOLEAN]]
      /\ ~audit'[c].tradable /\ \A d \in Calls : d # c => audit'[d] = audit[d]
  BY <1>2 DEF GenInv
<1>4. OpenIsEarned'
  BY DEF GenInv, OpenIsEarned
<1>5. AuditAgrees'
  <2>1. ASSUME NEW d \in Calls, plan'[d] # NoCall, ask'[d].mode # "question"
        PROVE  audit'[d] = Row("succeeded", plan'[d].opens)
    <3>1. d # c /\ plan'[d] = plan[d]
      BY <2>1
    <3> QED BY <1>3, <2>1, <3>1 DEF GenInv, AuditAgrees
  <2>2. ASSUME NEW d \in Calls, FixturePasses(d)' PROVE audit'[d].tradable
    <3>1. plan'[d] \in Plans /\ plan'[d].opens /\ ask'[d].mode # "question" /\ plan'[d] # NoCall
      BY <2>2 DEF FixturePasses, GenInv
    <3> QED BY <2>1, <3>1, RowOfPlan
  <2> QED BY <1>3, <2>1, <2>2 DEF GenInv, AuditAgrees
<1>6. \A d \in Calls :
       /\ at'[d] = "read" => said'[d] \in Answers \cup {"busy", "timeout"}
       /\ at'[d] \in Pending => ask'[d] \in Requests
       /\ at'[d] \in {"sampling", "http"} => ask'[d].mode # "question"
       /\ plan'[d] # NoCall => at'[d] = "done" /\ ask'[d] \in Requests
  BY <1>1 DEF GenInv, Pending
<1> QED BY <1>1, <1>3, <1>4, <1>5, <1>6 DEF GenInv

LEMMA FallbackIsPlan ==
  /\ Fallback \in Plans /\ ~Fallback.opens /\ LocalWait \in Plans /\ ~LocalWait.opens
BY PlansAreTyped DEF Fallback, LocalWait, Providers

(* What is returned after an answer that came: it opens only if the model  *)
(* said so in full and the learning gate was open.                         *)
LEMMA ReturnsIsEarned ==
  ASSUME NEW c \in Calls, said[c] \in Answers \cup {"busy", "timeout"}, ask[c] \in Requests
  PROVE  Returns(c) \in Plans /\ Earned(c, ask[c], Returns(c))
<1>0. ask[c].blocked \in BOOLEAN
  BY RequestsAreTyped
<1>1. CASE said[c] \in Failures \cup {"open_thin"}
  <2>1. Returns(c) = Fallback
    BY <1>1 DEF Returns, Failures, GateBlocks
  <2> QED BY <2>1, FallbackIsPlan DEF Earned
<1>2. CASE said[c] \notin Failures \cup {"open_thin"} /\ GateBlocks(c)
  <2>1. Returns(c) = Plan(FALSE, "codex", NoCall)
    BY <1>2 DEF Returns, GateBlocks
  <2>2. Returns(c) \in Plans /\ ~Returns(c).opens
    BY <2>1 DEF Providers, Plan, Plans
  <2> QED BY <2>2 DEF Earned
<1>3. CASE said[c] = "open_crooked" /\ ~GateBlocks(c)
  <2>1. Returns(c) = Fallback
    BY <1>0, <1>3 DEF Returns, Failures, GateBlocks
  <2> QED BY <2>1, FallbackIsPlan DEF Earned
<1>4. CASE said[c] = "open" /\ ~GateBlocks(c)
  <2>1. Returns(c) = Plan(TRUE, "codex", c)
    BY <1>4 DEF Returns, OwnPlan, Failures
  <2>2. Returns(c) \in Plans /\ Returns(c).sample = c
    BY <2>1 DEF Providers, Plan, Plans
  <2> QED BY <1>0, <1>4, <2>2 DEF Earned, GateBlocks
<1>5. CASE said[c] = "wait"
  <2>1. Returns(c) = Plan(FALSE, "codex", c)
    BY <1>5 DEF Returns, OwnPlan, Failures, GateBlocks
  <2>2. Returns(c) \in Plans /\ ~Returns(c).opens
    BY <2>1 DEF Providers, Plan, Plans
  <2> QED BY <2>2 DEF Earned
<1> QED BY <1>1, <1>2, <1>3, <1>4, <1>5 DEF Answers, Failures

LEMMA AskStep ==
  ASSUME GenInv, NEW c \in Calls, Ask(c)  PROVE GenInv'
<1>1. plan[c] = NoCall /\ UNCHANGED said
  BY DEF GenInv, Ask
<1>2. PICK r \in Requests, reserved \in BOOLEAN :
        /\ ask' = [ask EXCEPT ![c] = r]
        /\ IF r.mode = "question"
           THEN To(c, "queued") /\ UNCHANGED <<active, plan, audit>>
           ELSE Route(c, r, reserved)
  BY DEF Ask
<1>3. /\ ask' \in [Calls -> Requests \cup {NoCall}] /\ ask'[c] = r
      /\ \A d \in Calls : d # c => ask'[d] = ask[d]
  BY <1>2 DEF GenInv
<1>4. CASE r.mode = "question"
  <2>1. /\ at' \in [Calls -> Pending \cup {"idle", "done", "raised", "lost"}]
        /\ at'[c] = "queued" /\ \A d \in Calls : d # c => at'[d] = at[d]
    BY <1>2, <1>4 DEF GenInv, To, Pending
  <2>2. UNCHANGED <<plan, audit>>
    BY <1>2, <1>4
  <2>3. OpenIsEarned'
    BY <1>1, <1>3, <2>2 DEF GenInv, OpenIsEarned
  <2>4. AuditAgrees'
    <3>1. ASSUME NEW d \in Calls, plan'[d] # NoCall, ask'[d].mode # "question"
          PROVE  audit'[d] = Row("succeeded", plan'[d].opens)
      <4>1. d # c
        BY <1>1, <2>2, <3>1
      <4> QED BY <1>3, <2>2, <3>1, <4>1 DEF GenInv, AuditAgrees
    <3>2. ASSUME NEW d \in Calls, FixturePasses(d)' PROVE audit'[d].tradable
      <4>1. plan'[d] \in Plans /\ plan'[d].opens /\ ask'[d].mode # "question" /\ plan'[d] # NoCall
        BY <2>2, <3>2 DEF FixturePasses, GenInv
      <4> QED BY <3>1, <4>1, RowOfPlan
    <3> QED BY <2>2, <3>1, <3>2 DEF GenInv, AuditAgrees
  <2>5. \A d \in Calls :
          /\ at'[d] = "read" => said'[d] \in Answers \cup {"busy", "timeout"}
          /\ at'[d] \in Pending => ask'[d] \in Requests
          /\ at'[d] \in {"sampling", "http"} => ask'[d].mode # "question"
          /\ plan'[d] # NoCall => at'[d] = "done" /\ ask'[d] \in Requests
    BY <1>1, <1>3, <2>1, <2>2 DEF GenInv, Pending
  <2> QED BY <1>1, <1>3, <2>1, <2>2, <2>3, <2>4, <2>5 DEF GenInv
<1>5. CASE r.mode # "question"
  <2>1. Route(c, r, reserved)
    BY <1>2, <1>5
  <2>2. CASE Answer(c, r, LocalWait)
    BY <1>1, <1>3, <2>2, AnswerStep, FallbackIsPlan DEF Earned
  <2>3. ASSUME NEW opens \in BOOLEAN, Answer(c, r, Plan(opens, "rule", NoCall)) PROVE GenInv'
    <3>1. Plan(opens, "rule", NoCall) \in Plans /\ Plan(opens, "rule", NoCall).by = "rule"
      BY PlansAreTyped DEF Providers
    <3> QED BY <1>1, <1>3, <2>3, <3>1, AnswerStep DEF Earned
  <2>4. ASSUME NEW place \in {"sampling", "queued", "http"}, Start(c, place) PROVE GenInv'
    BY <1>1, <1>3, <1>5, <2>4, RowStep DEF Start
  <2> QED BY <2>1, <2>2, <2>3, <2>4 DEF Route
<1> QED BY <1>4, <1>5

LEMMA CallStepKeeps ==
  ASSUME GenInv, NEW c \in Calls, CallStep(c)  PROVE GenInv'
<1>0. /\ said \in [Calls -> Answers \cup {"busy", "timeout", NoCall}]
      /\ ask \in [Calls -> Requests \cup {NoCall}]
  BY DEF GenInv
<1>1. CASE Ask(c)
  BY <1>1, AskStep
<1>2. CASE Sampled(c)
  <2>1. plan[c] = NoCall /\ ask[c] \in Requests
    BY <1>2 DEF GenInv, Sampled, Pending
  <2>2. CASE To(c, "queued") /\ UNCHANGED <<plan, audit>>
    BY <1>0, <1>2, <2>2, CallMoves DEF Sampled, Pending
  <2>3. CASE Raise(c)
    BY <1>0, <1>2, <2>1, <2>3, RowStep DEF Sampled, Raise
  <2> QED BY <1>2, <2>2, <2>3 DEF Sampled
<1>3. CASE TakeCli(c)
  BY <1>0, <1>3, CallMoves DEF TakeCli, Pending
<1>4. CASE CliBusy(c)
  BY <1>0, <1>4, CallMoves DEF CliBusy, Pending
<1>5. CASE CliReturns(c)
  BY <1>0, <1>5, CallMoves DEF CliReturns, Pending
<1>6. CASE CliOverruns(c)
  BY <1>0, <1>6, CallMoves DEF CliOverruns, Pending
<1>7. CASE ChildExits(c)
  BY <1>0, <1>7, CallMoves DEF ChildExits, Pending
<1>8. CASE Judge(c)
  <2>1. plan[c] = NoCall /\ ask[c] \in Requests /\ said[c] \in Answers \cup {"busy", "timeout"}
    BY <1>8 DEF GenInv, Judge, Pending
  <2>2. CASE To(c, "queued") /\ UNCHANGED <<plan, audit>>
    BY <1>0, <1>8, <2>2, CallMoves DEF Judge, Pending
  <2>3. CASE Answer(c, ask[c], Fallback)
    BY <1>0, <1>8, <2>1, <2>3, AnswerStep, FallbackIsPlan DEF Judge, Earned
  <2>4. CASE Answer(c, ask[c], Returns(c))
    BY <1>0, <1>8, <2>1, <2>4, AnswerStep, ReturnsIsEarned DEF Judge
  <2> QED BY <1>8, <2>2, <2>3, <2>4 DEF Judge
<1>9. CASE HttpReturns(c)
  <2>1. plan[c] = NoCall /\ ask[c] \in Requests
    BY <1>9 DEF GenInv, HttpReturns, Pending
  <2>2. PICK a \in Answers \cup {"timeout"} :
          Answer(c, ask[c], IF a \in Failures \cup {"open_crooked"} THEN Fallback
                            ELSE Plan(a # "wait", "deepseek", NoCall))
    BY <1>9 DEF HttpReturns
  <2>3. CASE Answer(c, ask[c], Fallback)
    BY <1>0, <1>9, <2>1, <2>3, AnswerStep, FallbackIsPlan DEF HttpReturns, Earned
  <2>4. CASE Answer(c, ask[c], Plan(a # "wait", "deepseek", NoCall))
    <3>1. Plan(a # "wait", "deepseek", NoCall) \in Plans
          /\ Plan(a # "wait", "deepseek", NoCall).by = "deepseek"
      <4>1. (a # "wait") \in BOOLEAN /\ "deepseek" \in Providers
        BY DEF Providers
      <4>2. ASSUME NEW opens \in BOOLEAN
            PROVE  /\ Plan(opens, "deepseek", NoCall) \in Plans
                   /\ Plan(opens, "deepseek", NoCall).by = "deepseek"
        BY <4>1, PlansAreTyped
      <4> QED BY ONLY <4>1, <4>2
    <3> QED BY <1>0, <1>9, <2>1, <2>4, <3>1, AnswerStep DEF HttpReturns, Earned
  <2> QED BY <2>2, <2>3, <2>4
<1> QED BY <1>1, <1>2, <1>3, <1>4, <1>5, <1>6, <1>7, <1>8, <1>9 DEF CallStep

LEMMA GenStep == GenInv /\ [GenNext]_genVars => GenInv'
<1> SUFFICES ASSUME GenInv, [GenNext]_genVars PROVE GenInv'
  OBVIOUS
<1>1. ASSUME NEW c \in Calls, CallStep(c) PROVE GenInv'
  BY <1>1, CallStepKeeps
<1>2. CASE GenRestart
  <2>1. /\ at' \in [Calls -> Pending \cup {"idle", "done", "raised", "lost"}]
        /\ \A d \in Calls : at'[d] \notin Pending /\ (at[d] = "done" => at'[d] = "done")
    BY <1>2 DEF GenInv, GenRestart, Pending
  <2>2. UNCHANGED <<ask, said, plan, audit>>
    BY <1>2 DEF GenRestart
  <2>3. OpenIsEarned' /\ AuditAgrees'
    BY <2>2 DEF GenInv, OpenIsEarned, AuditAgrees, FixturePasses, AcceptanceRows
  <2>4. \A d \in Calls : at'[d] \notin {"read", "sampling", "http"}
    BY <2>1 DEF Pending
  <2> QED BY <2>1, <2>2, <2>3, <2>4 DEF GenInv
<1>3. CASE UNCHANGED genVars
  BY <1>3 DEF genVars, settingsVars, GenInv, OpenIsEarned, AuditAgrees, FixturePasses, AcceptanceRows
<1> QED BY <1>1, <1>2, <1>3 DEF GenNext

LEMMA GenStart == GenInit => GenInv
<1>1. NoRow \in [state : {"none", "running", "succeeded", "failed"}, tradable : BOOLEAN]
      /\ ~NoRow.tradable
  BY DEF NoRow
<1> QED BY <1>1, GenAssumption
        DEF GenInit, GenInv, OpenIsEarned, AuditAgrees, FixturePasses, Pending

(* Whichever calls overlap, and whenever the process stops: a Codex plan   *)
(* that opens is the answer to its own call, and was allowed by the        *)
(* learning gate.                                                          *)
THEOREM CodexOpensAreEarned == GenSpec => []OpenIsEarned
<1>1. GenInv => OpenIsEarned
  BY DEF GenInv
<1> QED BY <1>1, GenStart, GenStep, PTL DEF GenSpec

(* The rows of ai_tasks say what the callers received, and an acceptance   *)
(* that passes has a tradable row of its own (ai_service.py).              *)
THEOREM AuditIsRight == GenSpec => []AuditAgrees
<1>1. GenInv => AuditAgrees
  BY DEF GenInv
<1> QED BY <1>1, GenStart, GenStep, PTL DEF GenSpec

-----------------------------------------------------------------------------
(* The feed *)

(* A quiet step leaves the prices that callers see; every other one labels *)
(* what it brings. *)
CleanStep ==
  Clock \/ \A s \in Feeds :
    last'[s] # last[s] /\ last'[s].label = "snapshot"
      => cacheAge' = 0 \/ (~scan'.force /\ cacheAge' < Ttl)

LEMMA FallbackIsMarked == ASSUME CachedOrEmpty PROVE CleanStep
BY DEF CachedOrEmpty, Finish, Served, Label, CleanStep

LEMMA FeedStepIsClean == ASSUME [FeedNext]_feedVars PROVE [CleanStep]_feedVars
<1>1. CASE UNCHANGED last BY <1>1 DEF CleanStep
<1>2. CASE CachedOrEmpty BY <1>2, FallbackIsMarked
<1>3. CASE BeginScan
  <2>1. PICK force \in BOOLEAN :
          IF ~force /\ Held(cache) # {} /\ cacheAge < Ttl
          THEN scan' = [at |-> "rank", force |-> force, premium |-> FALSE, rest |-> FALSE]
          ELSE UNCHANGED quoteVars
    BY <1>3 DEF BeginScan
  <2>2. CASE ~force /\ cacheAge < Ttl
    <3>1. UNCHANGED cacheAge BY <1>3 DEF BeginScan
    <3>2. ~scan'.force \/ UNCHANGED last BY <2>1, <2>2 DEF quoteVars
    <3> QED BY <1>1, <2>2, <3>1, <3>2 DEF CleanStep
  <2>3. CASE ~(~force /\ cacheAge < Ttl)
    BY <1>1, <2>1, <2>3 DEF quoteVars
  <2> QED BY <2>2, <2>3
<1>4. CASE LoadEnds BY <1>2, <1>4 DEF LoadEnds, CleanStep
<1>5. CASE PremiumAnswers \/ TickerAnswers \/ MetaAnswers
  BY <1>1, <1>2, <1>5 DEF PremiumAnswers, TickerAnswers, MetaAnswers, KeepCaches
<1>6. CASE ScanEnds \/ ScanFails \/ WsMessage \/ \E s \in Feeds : Load(s)
  BY <1>1, <1>6 DEF ScanEnds, ScanFails, WsMessage, Load
<1>7. CASE Clock BY <1>7 DEF CleanStep
<1>8. ASSUME NEW s \in Feeds, QuoteAnswers(s) PROVE CleanStep
  <2>1. PICK q : q = [price |-> [ts |-> 0, seen |-> 0], label |-> "quoted"] OBVIOUS
  <2>2. last' = [last EXCEPT ![s] = q] /\ q.label = "quoted" BY <1>8, <2>1 DEF QuoteAnswers
  <2>3. ASSUME NEW r \in Feeds, last'[r] # last[r] PROVE last'[r].label # "snapshot"
    BY <2>2, <2>3
  <2> QED BY <2>3 DEF CleanStep
<1>9. CASE UNCHANGED feedVars BY <1>9
<1> QED BY <1>3, <1>4, <1>5, <1>6, <1>7, <1>8, <1>9 DEF FeedNext

(* A price that is not marked degraded was built by the scan that brings   *)
(* it, or comes from a cache younger than its time to live: whatever       *)
(* endpoint fails, in whatever order.                                      *)
THEOREM CleanPricesAreRecent == FeedSpec => CleanMeansRecent
<1>1. [FeedNext]_feedVars =>
        [Clock \/ \A s \in Feeds :
           last'[s] # last[s] /\ last'[s].label = "snapshot"
             => cacheAge' = 0 \/ (~scan'.force /\ cacheAge' < Ttl)]_feedVars
  BY FeedStepIsClean DEF CleanStep
<1> QED BY <1>1, PTL DEF FeedSpec, CleanMeansRecent

-----------------------------------------------------------------------------
(* The pool of active coins *)

Pools == UNION {[D -> Sightings] : D \in SUBSET Coins}

(* What a pool is while coins are fed to it that are not among the gone. *)
PoolsWithout(gone) ==
  {p \in Pools : /\ \A s \in DOMAIN p : cooling[s] = 0 /\ s \notin gone
                 /\ Cardinality(DOMAIN p) <= MaxCoins}

PoolInv ==
  /\ PoolSound
  /\ pool \in Pools
  /\ listed \subseteq Coins
  /\ cooling \in [Coins -> Nat]

LEMMA CoinsAreFinite ==
  ASSUME NEW S, S \subseteq Coins
  PROVE  IsFiniteSet(S) /\ Cardinality(S) \in Nat
BY FS_Subset, FS_CardinalityType, PoolAssumption

LEMMA PoolsAre ==
  ASSUME NEW p \in Pools
  PROVE  /\ DOMAIN p \subseteq Coins
         /\ \A s \in DOMAIN p : p[s] \in Sightings /\ s \in Nat
                               /\ p[s].score \in Nat /\ p[s].age \in Nat
<1>1. PICK D \in SUBSET Coins : p \in [D -> Sightings]
  BY DEF Pools
<1>2. \A x \in Sightings : x.score \in Nat /\ x.age \in Nat
  <2>1. \A n \in 0..MaxScore : n \in Nat
    OBVIOUS
  <2>2. \A n \in 0..(IdleTicks + 1) : n \in Nat
    OBVIOUS
  <2> QED BY <2>1, <2>2 DEF Sightings
<1> QED BY <1>1, <1>2, PoolAssumption

\* A pool that is not empty has a lowest coin.
LEMMA LowestIsMember ==
  ASSUME NEW p \in Pools, DOMAIN p # {}
  PROVE  Lowest(p) \in DOMAIN p
<1> DEFINE D == DOMAIN p
           Low(r, S) == \A s \in S : Lower(p, r, s)
           Bad == {S \in SUBSET D : S # {} /\ ~\E r \in S : Low(r, S)}
<1>0. /\ IsFiniteSet(D)
      /\ \A s \in D : p[s].score \in Nat /\ p[s].age \in Nat /\ s \in Nat
  BY PoolsAre, CoinsAreFinite
<1>1. \A r, s \in D : Lower(p, r, s) \/ Lower(p, s, r)
  BY <1>0 DEF Lower
<1>2. \A r, s, q \in D : Lower(p, r, s) /\ Lower(p, s, q) => Lower(p, r, q)
  BY <1>0 DEF Lower
<1> HIDE DEF D
<1>3. Bad = {}
  <2> SUFFICES ASSUME Bad # {} PROVE FALSE
    OBVIOUS
  <2>1. PICK T \in Bad : \A U \in Bad : U \subseteq T => U = T
    <3>1. Bad \in SUBSET SUBSET D
      OBVIOUS
    <3> HIDE DEF Bad
    <3> QED BY <1>0, <3>1, LeastSet
  <2>2. PICK x : x \in T
    BY <2>1
  <2>3. T \subseteq D /\ ~\E r \in T : Low(r, T)
    BY <2>1
  <2>4. T \ {x} \notin Bad
    BY <2>1, <2>2
  <2>5. CASE T \ {x} = {}
    <3>1. Low(x, T)
      BY <1>1, <2>2, <2>3, <2>5
    <3> QED BY <2>2, <2>3, <3>1
  <2>6. CASE T \ {x} # {}
    <3>1. PICK r \in T \ {x} : Low(r, T \ {x})
      BY <2>3, <2>4, <2>6
    <3>2. CASE Lower(p, r, x)
      <4>1. Low(r, T)
        BY <3>1, <3>2
      <4> QED BY <2>3, <3>1, <4>1
    <3>3. CASE Lower(p, x, r)
      <4>1. \A s \in T : Lower(p, x, s)
        <5> SUFFICES ASSUME NEW s \in T PROVE Lower(p, x, s)
          OBVIOUS
        <5>1. CASE s = x
          BY <1>1, <2>2, <2>3, <5>1
        <5>2. CASE s # x
          <6>1. Lower(p, r, s)
            BY <3>1, <5>2
          <6> QED BY <1>2, <2>2, <2>3, <3>1, <3>3, <6>1
        <5> QED BY <5>1, <5>2
      <4> QED BY <2>2, <2>3, <4>1
    <3> QED BY <1>1, <2>2, <2>3, <3>1, <3>2, <3>3
  <2> QED BY <2>5, <2>6
<1>4. \E r \in D : \A s \in D : Lower(p, r, s)
  <2>1. D \notin Bad /\ D # {}
    BY <1>3 DEF D
  <2> QED BY <2>1
<1> QED BY <1>4 DEF Lowest, D

LEMMA SeenIsPool ==
  ASSUME NEW p \in Pools, NEW s \in Coins, NEW score \in 0..MaxScore
  PROVE  Seen(p, s, score) \in Pools /\ DOMAIN Seen(p, s, score) = DOMAIN p \cup {s}
<1>1. [score |-> score, age |-> 0] \in Sightings
  BY PoolAssumption DEF Sightings
<1>2. DOMAIN p \cup {s} \in SUBSET Coins
  BY PoolsAre
<1>3. Seen(p, s, score) \in [DOMAIN p \cup {s} -> Sightings]
  BY <1>1, PoolsAre DEF Seen
<1> QED BY <1>2, <1>3 DEF Pools

LEMMA WithoutIsPool ==
  ASSUME NEW p \in Pools, NEW gone
  PROVE  Without(p, gone) \in Pools /\ DOMAIN Without(p, gone) = DOMAIN p \ gone
<1>1. DOMAIN p \ gone \in SUBSET Coins
  BY PoolsAre
<1>2. Without(p, gone) \in [DOMAIN p \ gone -> Sightings]
  BY PoolsAre DEF Without
<1> QED BY <1>1, <1>2 DEF Pools

\* Feeding one coin keeps the pool within its capacity.
LEMMA AdmitKeepsPool ==
  ASSUME NEW gone, NEW p \in PoolsWithout(gone), NEW s \in Coins \ gone,
         NEW score \in 0..MaxScore, MayEnter(p, s)
  PROVE  Admit(p, s, score) \in PoolsWithout(gone)
<1>1. p \in Pools /\ Cardinality(DOMAIN p) <= MaxCoins
      /\ \A r \in DOMAIN p : cooling[r] = 0 /\ r \notin gone
  BY DEF PoolsWithout
<1>2. IsFiniteSet(DOMAIN p) /\ Cardinality(DOMAIN p) \in Nat
  BY <1>1, PoolsAre, CoinsAreFinite
<1>3. MaxCoins \in Nat /\ MaxCoins > 0
  BY PoolAssumption
<1>4. cooling[s] = 0
  BY <1>1 DEF MayEnter
<1>5. ASSUME NEW q \in Pools, DOMAIN q \subseteq DOMAIN p,
             Cardinality(DOMAIN q \cup {s}) <= MaxCoins
      PROVE  Seen(q, s, score) \in PoolsWithout(gone)
  BY <1>1, <1>4, <1>5, SeenIsPool DEF PoolsWithout
<1>6. CASE s \in DOMAIN p
  <2>1. DOMAIN p \cup {s} = DOMAIN p
    BY <1>6
  <2> QED BY <1>1, <1>5, <1>6, <2>1 DEF Admit
<1>7. CASE s \notin DOMAIN p /\ Cardinality(DOMAIN p) < MaxCoins
  <2>1. Cardinality(DOMAIN p \cup {s}) = Cardinality(DOMAIN p) + 1
    BY <1>2, <1>7, FS_AddElement
  <2>2. Cardinality(DOMAIN p \cup {s}) <= MaxCoins
    BY <1>2, <1>3, <1>7, <2>1
  <2> QED BY <1>1, <1>5, <1>7, <2>2 DEF Admit
<1>8. CASE s \notin DOMAIN p /\ ~(Cardinality(DOMAIN p) < MaxCoins)
  <2> DEFINE low == Lowest(p)
             q == Without(p, {low})
  <2>1. CASE score > p[low].score
    <3>1. low \in DOMAIN p
      <4>1. DOMAIN p # {}
        BY <1>3, <1>8, FS_EmptySet
      <4> QED BY <1>1, <4>1, LowestIsMember
    <3> HIDE DEF low
    <3>2. q \in Pools /\ DOMAIN q = DOMAIN p \ {low}
      BY <1>1, WithoutIsPool
    <3>3. Cardinality(DOMAIN p \ {low}) = Cardinality(DOMAIN p) - 1
          /\ IsFiniteSet(DOMAIN p \ {low})
      BY <1>2, <3>1, FS_RemoveElement
    <3>4. Cardinality((DOMAIN p \ {low}) \cup {s}) = Cardinality(DOMAIN p \ {low}) + 1
      BY <1>8, <3>3, FS_AddElement
    <3>5. Cardinality(DOMAIN q \cup {s}) <= MaxCoins
      <4> HIDE DEF q
      <4>1. Cardinality(DOMAIN q \cup {s}) = Cardinality(DOMAIN p)
        BY <1>2, <3>2, <3>3, <3>4
      <4> QED BY <1>1, <4>1
    <3>6. Seen(q, s, score) \in PoolsWithout(gone)
      <4> HIDE DEF q
      <4> QED BY <1>5, <3>2, <3>5
    <3> QED BY <1>8, <2>1, <3>6 DEF Admit, low
  <2>2. CASE ~(score > p[low].score)
    BY <1>8, <2>2 DEF Admit
  <2> QED BY <2>1, <2>2
<1> QED BY <1>6, <1>7, <1>8

\* After any number of coins the pool is within its capacity.
FedAt(g, found, score, i) ==
  IF i = 0 THEN Without(pool, Idle(pool, DOMAIN score))
  ELSE IF MayEnter(g[i-1], found[i]) THEN Admit(g[i-1], found[i], score[found[i]]) ELSE g[i-1]

LEMMA FedKeepsPool ==
  ASSUME PoolInv, NEW coins, coins \subseteq listed, NEW score \in [coins -> 1..MaxScore],
         NEW found \in Seq(coins)
  PROVE  Updated(found, score) \in PoolsWithout(Idle(pool, coins))
<1> DEFINE gone == Idle(pool, coins)
           n == Len(found)
           Is(g) == g = [i \in 0..n |->
                      IF i = 0 THEN Without(pool, Idle(pool, DOMAIN score))
                      ELSE IF MayEnter(g[i - 1], found[i])
                           THEN Admit(g[i - 1], found[i], score[found[i]])
                           ELSE g[i - 1]]
           Good == PoolsWithout(gone)
<1>1. n \in Nat /\ \A i \in 1..n : found[i] \in Coins \ gone /\ score[found[i]] \in 0..MaxScore
  <2>1. n \in Nat /\ \A i \in 1..n : found[i] \in coins
    OBVIOUS
  <2>2. \A s \in coins : s \in Coins /\ s \notin gone
    BY DEF PoolInv, Idle
  <2>3. \A s \in coins : score[s] \in 0..MaxScore
    OBVIOUS
  <2> QED BY <2>1, <2>2, <2>3
<1>2. Without(pool, gone) \in Good
  <2>1. pool \in Pools
    BY DEF PoolInv
  <2>2. Without(pool, gone) \in Pools /\ DOMAIN Without(pool, gone) = DOMAIN pool \ gone
    BY <2>1, WithoutIsPool
  <2>3. Cardinality(DOMAIN pool \ gone) <= MaxCoins
    <3>1. IsFiniteSet(DOMAIN pool) /\ Cardinality(DOMAIN pool) \in Nat
      BY <2>1, PoolsAre, CoinsAreFinite
    <3>2. DOMAIN pool \ gone \subseteq DOMAIN pool
      OBVIOUS
    <3> HIDE DEF gone
    <3>3. /\ Cardinality(DOMAIN pool \ gone) <= Cardinality(DOMAIN pool)
          /\ Cardinality(DOMAIN pool \ gone) \in Nat
      BY <3>1, <3>2, FS_Subset, FS_CardinalityType
    <3> QED BY <3>1, <3>3, PoolAssumption DEF PoolInv, PoolSound
  <2> HIDE DEF gone
  <2> QED BY <2>2, <2>3 DEF PoolsWithout, PoolInv, PoolSound
<1>3. DOMAIN score = coins
  OBVIOUS
<1>4. ASSUME NEW g, NEW i \in 1..n, g[i-1] \in Good PROVE FedAt(g, found, score, i) \in Good
  <2>1. i # 0
    OBVIOUS
  <2>2. CASE MayEnter(g[i-1], found[i])
    <3>1. found[i] \in Coins \ gone /\ score[found[i]] \in 0..MaxScore
      BY <1>1
    <3>2. Admit(g[i-1], found[i], score[found[i]]) \in Good
      <4> HIDE DEF gone
      <4> QED BY <1>4, <2>2, <3>1, AdmitKeepsPool
    <3> HIDE DEF Good
    <3> QED BY <2>1, <2>2, <3>2 DEF FedAt
  <2>3. CASE ~MayEnter(g[i-1], found[i])
    <3> HIDE DEF Good
    <3> QED BY <1>4, <2>1, <2>3 DEF FedAt
  <2> QED BY <2>2, <2>3
<1> HIDE DEF Good
<1>5. \A g : FedAt(g, found, score, 0) \in Good
  BY <1>2, <1>3 DEF FedAt
<1>6. ASSUME NEW g, NEW m \in 0..n, \A i \in 0..m : g[i] = FedAt(g, found, score, i)
      PROVE  \A i \in 0..m : g[i] \in Good
  <2> DEFINE Bad == {i \in Nat : i <= m /\ g[i] \notin Good}
  <2>1. Bad = {}
    <3> SUFFICES ASSUME Bad # {} PROVE FALSE
      OBVIOUS
    <3>1. PICK i \in Bad : \A k \in Bad : i <= k
      <4>1. Bad \in SUBSET Nat
        OBVIOUS
      <4> HIDE DEF Bad
      <4> QED BY <4>1, LeastNumber
    <3>2. m \in Nat /\ m <= n /\ i \in 0..m
      BY <1>1, <3>1
    <3>3. g[i] = FedAt(g, found, score, i) /\ g[i] \notin Good
      BY <1>6, <3>1, <3>2
    <3>4. i # 0
      BY <1>5, <3>3
    <3>5. i \in 1..n /\ i - 1 \in Nat /\ i - 1 <= m /\ ~(i <= i - 1)
      BY <1>1, <3>2, <3>4
    <3>6. i - 1 \notin Bad
      <4> HIDE DEF Bad
      <4> QED BY <3>1, <3>5
    <3>7. g[i-1] \in Good
      BY <3>5, <3>6
    <3> QED BY <1>4, <3>3, <3>5, <3>7
  <2> QED BY <1>1, <2>1
<1>7. \E g : DOMAIN g = 0..n /\ g = [i \in 0..n |-> g[i]]
             /\ \A i \in 0..n : g[i] = FedAt(g, found, score, i)
  <2> DEFINE Ok(m) == \E g : DOMAIN g = 0..m /\ g = [i \in 0..m |-> g[i]]
                             /\ \A i \in 0..m : g[i] = FedAt(g, found, score, i)
             Bad == {m \in Nat : m <= n /\ ~Ok(m)}
  <2>1. Bad = {}
    <3> SUFFICES ASSUME Bad # {} PROVE FALSE
      OBVIOUS
    <3>1. PICK m \in Bad : \A k \in Bad : m <= k
      <4>1. Bad \in SUBSET Nat
        OBVIOUS
      <4> HIDE DEF Bad
      <4> QED BY <4>1, LeastNumber
    <3>2. CASE m = 0
      <4> DEFINE g == [i \in 0..0 |-> FedAt(<<>>, found, score, 0)]
      <4>1. DOMAIN g = 0..0 /\ g = [i \in 0..0 |-> g[i]]
        OBVIOUS
      <4>2. \A i \in 0..0 : g[i] = FedAt(g, found, score, i)
        BY DEF FedAt
      <4> HIDE DEF g
      <4> QED BY <3>1, <3>2, <4>1, <4>2
    <3>3. CASE m # 0
      <4>1. m \in Nat /\ m - 1 \in Nat /\ m - 1 <= n /\ ~(m <= m - 1)
        BY <1>1, <3>1, <3>3
      <4>2. Ok(m - 1)
        <5>1. m - 1 \notin Bad
          <6> HIDE DEF Bad
          <6> QED BY <3>1, <4>1
        <5> HIDE DEF Ok
        <5> QED BY <4>1, <5>1
      <4>3. PICK g : DOMAIN g = 0..m-1 /\ g = [i \in 0..m-1 |-> g[i]]
                     /\ \A i \in 0..m-1 : g[i] = FedAt(g, found, score, i)
        BY <4>2
      <4> DEFINE h == [i \in 0..m |-> IF i = m THEN FedAt(g, found, score, m) ELSE g[i]]
      <4>4. DOMAIN h = 0..m /\ h = [i \in 0..m |-> h[i]]
        OBVIOUS
      <4>5. \A i \in 0..m : i # m => h[i] = g[i] /\ i \in 0..m-1
        BY <4>1
      <4>6. ASSUME NEW i \in 0..m PROVE h[i] = FedAt(h, found, score, i)
        <5>1. i # 0 => h[i-1] = g[i-1]
          BY <4>1, <4>5
        <5>2. h[m] = FedAt(g, found, score, m)
          BY <4>1
        <5> HIDE DEF h
        <5>3. FedAt(h, found, score, i) = FedAt(g, found, score, i)
          BY <5>1 DEF FedAt
        <5>4. CASE i = m
          BY <5>2, <5>3, <5>4
        <5>5. CASE i # m
          BY <4>3, <4>5, <5>3, <5>5
        <5> QED BY <5>4, <5>5
      <4> HIDE DEF h
      <4> QED BY <3>1, <4>4, <4>6
    <3> QED BY <3>2, <3>3
  <2>2. n \notin Bad
    BY <2>1
  <2> HIDE DEF Ok
  <2>3. Ok(n)
    BY <1>1, <2>2
  <2> QED BY <2>3 DEF Ok
<1>8. PICK g : DOMAIN g = 0..n /\ g = [i \in 0..n |-> g[i]]
               /\ \A i \in 0..n : g[i] = FedAt(g, found, score, i)
  BY <1>7
<1>9. Is(g)
  BY <1>8 DEF FedAt
<1>10. Is(Fed(found, score))
  <2>1. Fed(found, score) = CHOOSE f : Is(f)
    BY DEF Fed
  <2> HIDE DEF Is
  <2> QED BY <1>9, <2>1
<1>11. \A i \in 0..n : Fed(found, score)[i] = FedAt(Fed(found, score), found, score, i)
  <2> DEFINE f == Fed(found, score)
  <2> HIDE DEF f
  <2>1. Is(f)
    BY <1>10 DEF f
  <2>2. \A i \in 0..n : f[i] = FedAt(f, found, score, i)
    BY <2>1 DEF FedAt
  <2> QED BY <2>2 DEF f
<1>12. n \in 0..n
  BY <1>1
<1>13. Fed(found, score)[n] \in Good
  BY <1>6, <1>11, <1>12
<1> QED BY <1>13 DEF Updated, Good

\* Of a pool within its capacity every coin that has rows is scanned.
LEMMA ActiveAreScanned ==
  ASSUME NEW kept, kept \subseteq Coins, Cardinality(kept) <= MaxCoins,
         NEW valid, valid \subseteq Coins, NEW base \in Selections(valid),
         NEW S \in Scanned(kept, base, valid)
  PROVE  kept \cap valid \subseteq S
<1> DEFINE wanted == IF valid = {} THEN kept ELSE kept \cap valid
           all    == wanted \cup base
           room   == IF Cardinality(kept) <= MaxCoins THEN Cardinality(kept) ELSE MaxCoins
           limit  == IF BaseLimit > room THEN BaseLimit ELSE room
<1>1. base \subseteq Coins /\ wanted \subseteq kept /\ kept \cap valid \subseteq wanted
  BY DEF Selections
<1>2. all \subseteq Coins /\ wanted \subseteq all /\ wanted \subseteq Coins
  BY <1>1
<1>3. /\ S \subseteq all
      /\ Cardinality(S) = IF Cardinality(all) < limit THEN Cardinality(all) ELSE limit
      /\ wanted \subseteq S \/ S \subseteq wanted
  BY DEF Scanned
<1> HIDE DEF wanted, all
<1>4. /\ IsFiniteSet(all) /\ IsFiniteSet(kept) /\ IsFiniteSet(wanted)
      /\ Cardinality(all) \in Nat /\ Cardinality(kept) \in Nat /\ Cardinality(wanted) \in Nat
  BY <1>2, CoinsAreFinite
<1>5. Cardinality(wanted) <= Cardinality(all) /\ Cardinality(wanted) <= Cardinality(kept)
  BY <1>1, <1>2, <1>4, FS_Subset
<1>6. limit \in Nat /\ Cardinality(kept) <= limit
  BY <1>4, PoolAssumption
<1> HIDE DEF limit
<1>7. Cardinality(wanted) <= Cardinality(S)
  BY <1>3, <1>4, <1>5, <1>6
<1>8. CASE S \subseteq wanted
  <2>1. Cardinality(S) <= Cardinality(wanted) /\ Cardinality(S) \in Nat
    BY <1>4, <1>8, FS_Subset, FS_CardinalityType
  <2>2. Cardinality(S) = Cardinality(wanted)
    BY <1>4, <1>7, <2>1
  <2>3. S = wanted
    BY <1>4, <1>8, <2>2, FS_Subset
  <2> QED BY <1>1, <2>3
<1> QED BY <1>1, <1>3, <1>8

LEMMA PoolStep == PoolInv /\ [PoolNext]_poolVars => PoolInv'
<1> SUFFICES ASSUME PoolInv, [PoolNext]_poolVars PROVE PoolInv'
  OBVIOUS
<1>1. CASE Discover
  <2> DEFINE Take(valid, found, score, order) ==
          LET fed      == Updated(order, score)
              unlisted == DOMAIN fed \ listed
              kept   == DOMAIN fed \ unlisted
          IN /\ pool' = Without(fed, unlisted)
             /\ cooling' = Cooled(Idle(pool, found) \cup unlisted)
             /\ rows' = valid
             /\ scanned' \in UNION {IF kept = {} THEN {base} ELSE Scanned(kept, base, valid) :
                                      base \in Selections(valid)}
             /\ UNCHANGED listed
  <2>01. PICK found \in SUBSET listed, valid \in {listed} \cup {listed \ {s} : s \in listed} :
           \E score \in [found -> 1..MaxScore] : \E order \in Orders(score) :
             Take(valid, found, score, order)
    BY <1>1 DEF Discover
  <2>02. PICK score \in [found -> 1..MaxScore] : \E order \in Orders(score) :
           Take(valid, found, score, order)
    BY <2>01
  <2>1. PICK order \in Orders(score) : Take(valid, found, score, order)
    BY <2>02
  <2> DEFINE fed      == Updated(order, score)
             unlisted == DOMAIN fed \ listed
             kept   == DOMAIN fed \ unlisted
             gone     == Idle(pool, found)
  <2>2. found \subseteq Coins /\ valid \subseteq Coins /\ listed \subseteq Coins
    BY DEF PoolInv
  <2>3. order \in Seq(found)
    <3>1. Cardinality(found) \in Nat
      BY <2>2, CoinsAreFinite
    <3>2. order \in [1..Cardinality(found) -> found]
      BY DEF Orders
    <3> QED BY <3>1, <3>2
  <2>4. fed \in PoolsWithout(gone)
    BY <2>3, FedKeepsPool
  <2>5. /\ pool' = Without(fed, unlisted)
        /\ cooling' = Cooled(gone \cup unlisted)
        /\ rows' = valid /\ listed' = listed
        /\ scanned' \in UNION {IF kept = {} THEN {base} ELSE Scanned(kept, base, valid) :
                                 base \in Selections(valid)}
    BY <2>1
  <2> HIDE DEF fed, gone
  <2>6. /\ fed \in Pools /\ Cardinality(DOMAIN fed) <= MaxCoins
        /\ \A s \in DOMAIN fed : cooling[s] = 0 /\ s \notin gone
    BY <2>4 DEF PoolsWithout
  <2>7. pool' \in Pools /\ DOMAIN pool' = kept
    BY <2>5, <2>6, WithoutIsPool
  <2>8. /\ DOMAIN pool' \subseteq Coins
        /\ \A s \in DOMAIN pool' : pool'[s] \in Sightings /\ s \in DOMAIN fed
                                   /\ s \notin gone \cup unlisted
    BY <2>6, <2>7, PoolsAre
  <2>9. \A s \in DOMAIN pool' : cooling'[s] = 0
    BY <2>5, <2>6, <2>8 DEF Cooled
  <2>10. Cardinality(kept) <= MaxCoins
    <3>1. IsFiniteSet(DOMAIN fed) /\ Cardinality(DOMAIN fed) \in Nat
      BY <2>6, PoolsAre, CoinsAreFinite
    <3>2. kept \subseteq DOMAIN fed
      OBVIOUS
    <3> HIDE DEF kept
    <3>3. Cardinality(kept) <= Cardinality(DOMAIN fed) /\ Cardinality(kept) \in Nat
      BY <3>1, <3>2, FS_Subset, FS_CardinalityType
    <3> QED BY <2>6, <3>1, <3>3, PoolAssumption
  <2>11. kept \cap valid \subseteq scanned'
    <3>1. CASE kept = {}
      BY <3>1
    <3>2. CASE kept # {}
      <4>1. PICK base \in Selections(valid) : scanned' \in Scanned(kept, base, valid)
        BY <2>5, <3>2
      <4>2. kept \subseteq Coins
        BY <2>7, <2>8
      <4> HIDE DEF kept
      <4> QED BY <2>2, <2>10, <4>1, <4>2, ActiveAreScanned
    <3> QED BY <3>1, <3>2
  <2>12. cooling' \in [Coins -> Nat]
    BY <2>5, PoolAssumption DEF Cooled, PoolInv
  <2> HIDE DEF kept, unlisted
  <2> QED BY <2>2, <2>5, <2>7, <2>8, <2>9, <2>10, <2>11, <2>12 DEF PoolInv, PoolSound
<1>2. CASE Relist
  BY <1>2 DEF Relist, PoolInv, PoolSound
<1>3. CASE Tick
  <2>1. DOMAIN pool' = DOMAIN pool /\ UNCHANGED <<listed, rows, scanned>>
    BY <1>3 DEF Tick
  <2>2. ASSUME NEW s \in DOMAIN pool PROVE pool'[s] \in Sightings
    <3>1. pool[s] \in Sightings
      BY DEF PoolInv, PoolSound
    <3>2. pool'[s] = [pool[s] EXCEPT !.age = IF @ > IdleTicks THEN @ ELSE @ + 1]
      BY <1>3 DEF Tick
    <3> QED BY <3>1, <3>2, PoolAssumption DEF Sightings
  <2>3. cooling' \in [Coins -> Nat] /\ \A s \in Coins : cooling[s] = 0 => cooling'[s] = 0
    <3>1. cooling' = [s \in Coins |-> IF cooling[s] = 0 THEN 0 ELSE cooling[s] - 1]
      BY <1>3 DEF Tick
    <3>2. \A s \in Coins : (IF cooling[s] = 0 THEN 0 ELSE cooling[s] - 1) \in Nat
      BY DEF PoolInv
    <3> QED BY <3>1, <3>2
  <2>4. pool' \in Pools
    <3>1. DOMAIN pool \in SUBSET Coins /\ pool' = [s \in DOMAIN pool |-> pool'[s]]
      BY <1>3 DEF Tick, PoolInv, PoolSound
    <3>2. pool' \in [DOMAIN pool -> Sightings]
      BY <2>2, <3>1
    <3> QED BY <3>1, <3>2 DEF Pools
  <2> QED BY <2>1, <2>2, <2>3, <2>4 DEF PoolInv, PoolSound
<1>4. CASE UNCHANGED poolVars
  BY <1>4 DEF PoolInv, PoolSound, poolVars
<1> QED BY <1>1, <1>2, <1>3, <1>4 DEF PoolNext

\* For any coins, capacity, limits and pace, the pool keeps to its capacity
\* and to the cooldowns, and what is in it and has rows is scanned
\* (update_candidates, _prioritize_active_symbols).
THEOREM PoolIsSound == PoolSpec => []PoolSound
<1>1. PoolInit => PoolInv
  <2> SUFFICES ASSUME PoolInit PROVE PoolInv
    OBVIOUS
  <2>1. DOMAIN pool = {} /\ listed = Coins /\ cooling = [s \in Coins |-> 0]
    BY DEF PoolInit
  <2>2. Cardinality(DOMAIN pool) <= MaxCoins
    BY <2>1, FS_EmptySet, PoolAssumption
  <2>3. pool \in Pools
    <3>1. {} \in SUBSET Coins /\ pool \in [{} -> Sightings]
      BY DEF PoolInit
    <3> QED BY <3>1 DEF Pools
  <2> QED BY <2>1, <2>2, <2>3 DEF PoolInv, PoolSound
<1>2. PoolInv => PoolSound
  BY DEF PoolInv
<1> QED BY <1>1, <1>2, PoolStep, PTL DEF PoolSpec
=============================================================================
