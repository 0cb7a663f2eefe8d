---------------------------- MODULE MarketDownload ----------------------------
(***************************************************************************)
(* How a backtest downloads its candles                                    *)
(* (trading_lab/backtester/run_market_backtest.py, fetch_market_data):     *)
(* one coroutine per symbol behind a semaphore, every request of every     *)
(* coroutine paced by one lock, pages until the window is covered, retries *)
(* on a lost connection or a 418/429, open interest after the candles.     *)
(* Naps and the pace are counted down in ticks.                            *)
(***************************************************************************)
EXTENDS Integers, FiniteSets

CONSTANTS
  BtSymbols,
  Permits,      \* the semaphore
  MaxAttempts,  \* MAX_HTTP_ATTEMPTS
  Delay,        \* REQUEST_DELAY_SECONDS
  Backoff,      \* the nap before another attempt
  PagesWanted,  \* pages that cover the window
  NoSym

ASSUME DownloadAssumption ==
  /\ {Permits, MaxAttempts, Delay, PagesWanted} \subseteq Nat \ {0}
  /\ Backoff \in Nat /\ NoSym \notin BtSymbols

VARIABLES
  job,     \* per symbol: step, what is asked for, attempt, pages, nap, result
  lockBy,  \* _REQUEST_LOCK
  pace,    \* ticks until _NEXT_REQUEST_AT
  since    \* ticks since a request was sent, at most Delay

downVars == <<job, lockBy, pace, since>>

NewJob == [step |-> "chosen", what |-> "klines", try |-> 1, pages |-> 0, nap |-> 0, out |-> "none"]
DownInit ==
  /\ job = [s \in BtSymbols |-> NewJob] /\ lockBy = NoSym /\ pace = 0 /\ since = Delay

Busy == {s \in BtSymbols : job[s].step \notin {"chosen", "queued", "done"}}
Down(s, j) == job' = [job EXCEPT ![s] = j]
With(s, step, try, nap) == [job[s] EXCEPT !.step = step, !.try = try, !.nap = nap]
Done(s, out) == [job[s] EXCEPT !.step = "done", !.out = out]

(* asyncio.gather starts the coroutine of every symbol. *)
Gather ==
  /\ \A s \in BtSymbols : job[s].step = "chosen"
  /\ job' = [s \in BtSymbols |-> [NewJob EXCEPT !.step = "queued"]]
  /\ UNCHANGED <<lockBy, pace, since>>

(* async with semaphore. *)
BeginLoad(s) ==
  /\ job[s].step = "queued" /\ Cardinality(Busy) < Permits
  /\ Down(s, With(s, "ready", 1, 0)) /\ UNCHANGED <<lockBy, pace, since>>

\* Mutant of TakeSlot: the lock is given back before the nap.
TakeSlotBriefly(s) ==
  /\ job[s].step = "ready" /\ lockBy = NoSym
  /\ Down(s, With(s, "paced", job[s].try, pace)) /\ UNCHANGED <<lockBy, pace, since>>
(* throttle_binance_request: the wait is measured under the lock and slept *)
(* through with the lock held.                                             *)
TakeSlot(s) ==
  /\ job[s].step = "ready" /\ lockBy = NoSym
  /\ lockBy' = s
  /\ Down(s, With(s, "paced", job[s].try, pace)) /\ UNCHANGED <<pace, since>>

Send(s) ==
  /\ job[s].step = "paced" /\ job[s].nap = 0
  /\ lockBy' = NoSym /\ pace' = Delay /\ since' = 0
  /\ Down(s, With(s, "sent", job[s].try, 0))

(* A page with rows: the next one, or the candles are complete; then they  *)
(* fail the quality test, or the open interest is asked for, or --skip-oi. *)
PageComes(s) ==
  /\ job[s].step = "sent"
  /\ LET full == job[s].pages + 1 = PagesWanted IN
     \/ ~full /\ Down(s, [With(s, "ready", 1, 0) EXCEPT !.pages = @ + 1])
     \/ full /\ job[s].what = "klines"
        /\ \/ Down(s, Done(s, "badCandles")) \/ Down(s, Done(s, "candles"))
           \/ Down(s, [With(s, "ready", 1, 0) EXCEPT !.what = "interest", !.pages = 0])
     \/ full /\ job[s].what = "interest" /\ Down(s, Done(s, "candles"))
  /\ UNCHANGED <<lockBy, pace, since>>

(* An empty page ends the paging without a word. *)
PageEmpty(s) ==
  /\ job[s].step = "sent"
  /\ IF job[s].what = "interest" THEN Down(s, Done(s, "candles"))
     ELSE Down(s, Done(s, IF job[s].pages = 0 THEN "empty" ELSE "cutShort"))
  /\ UNCHANGED <<lockBy, pace, since>>

(* Raised out of get_json: fatal for the candles of the symbol only.       *)
GivesUp(s) ==
  /\ job[s].step = "sent"
  /\ Down(s, Done(s, IF job[s].what = "interest" THEN "candles" ELSE "failed"))
  /\ UNCHANGED <<lockBy, pace, since>>

(* No connection, 418 or 429, while attempts are left. *)
RetriesLater(s) ==
  /\ job[s].step = "sent" /\ job[s].try < MaxAttempts
  /\ Down(s, With(s, "nap", job[s].try + 1, Backoff)) /\ UNCHANGED <<lockBy, pace, since>>
Wakes(s) ==
  /\ job[s].step = "nap" /\ job[s].nap = 0
  /\ Down(s, With(s, "ready", job[s].try, 0)) /\ UNCHANGED <<lockBy, pace, since>>

Less(n) == IF n = 0 THEN 0 ELSE n - 1
DownTick ==
  /\ pace > 0 \/ since < Delay \/ \E s \in BtSymbols : job[s].nap > 0
  /\ pace' = Less(pace) /\ since' = IF since = Delay THEN Delay ELSE since + 1
  /\ job' = [s \in BtSymbols |-> [job[s] EXCEPT !.nap = Less(@)]]
  /\ UNCHANGED lockBy

Answered(s) == PageComes(s) \/ PageEmpty(s) \/ GivesUp(s) \/ RetriesLater(s)
Moves(s) == BeginLoad(s) \/ TakeSlot(s) \/ Send(s) \/ Wakes(s)
DownNext == Gather \/ DownTick \/ \E s \in BtSymbols : Moves(s) \/ Answered(s)

(* The event loop runs what is ready, time passes, and a request ends: the *)
(* client has a read timeout.                                              *)
DownFairness ==
  /\ WF_downVars(DownTick)
  /\ \A s \in BtSymbols : WF_downVars(Moves(s)) /\ WF_downVars(Answered(s))
DownSpec == DownInit /\ [][DownNext]_downVars /\ DownFairness

-----------------------------------------------------------------------------
(* However many coroutines are ready at once, and whatever each waited for *)
(* before, two requests are never sent less than REQUEST_DELAY_SECONDS     *)
(* apart: the limit the exchange bans for (throttle_binance_request).      *)
RequestsSpaced ==
  [][\A s \in BtSymbols : (job[s].step = "paced" /\ job'[s].step = "sent") => since = Delay]_downVars

(* The download of every symbol that was started ends, with candles or     *)
(* without: neither the paging nor the retries nor the lock can hold       *)
(* gather() for good                                                       *)
(* (fetch_market_data).                                                    *)
DownloadEnds ==
  \A s \in BtSymbols : job[s].step = "queued" ~> job[s].step = "done"
=============================================================================
