-------------------------- MODULE TradingDeskProofs --------------------------
(***************************************************************************)
(* For every set of symbols, every capacity and every queue of requests:   *)
(* the auto trader and the acceptance runner together implement EntryBook. *)
(* The deliberation of a run takes minutes, and its checks of capacity and *)
(* symbol are made once, at its start; the invariant says why they still   *)
(* hold when it opens.  Three more rest on that invariant: a stored pass   *)
(* is of a closed real order, a probe never sends one, and retries move on.*)
(***************************************************************************)
EXTENDS TradingDesk, FiniteSetTheorems, SequenceTheorems, TLAPS

(* The steps at which a run holds a candidate it may open. *)
Holding == {"preai", "generate", "postai", "redo", "redopost", "quote", "opening"}
Planned == {"postai", "redo", "redopost", "quote", "opening"}

RunRoom == run # None /\ run.pc # "scan" => Cardinality(open) < MaxOpen

RunCandidate ==
  /\ run # None /\ run.pc \in Holding => run.item \in Symbols /\ run.item \notin OpenSymbols
  /\ run # None /\ run.pc \in Planned => run.plan \in Plans

AccRoom == acc # None /\ acc.pc \notin {"scan", "watch"} => Cardinality(open) <= acc.slots

(* What an acceptance run knows at each stage. *)
AccStage ==
  /\ acc # None /\ acc.pc = "open" => acc.slots < MaxOpen
  /\ acc # None /\ acc.pc \in {"sample", "draft"} => acc.item \in Symbols
  /\ acc # None /\ acc.pc \in {"account", "open"} => acc.chosen \in Symbols
  /\ acc # None /\ acc.pc = "fresh" => acc.todo # <<>>
  /\ acc # None /\ acc.pc = "pause" => acc.turn < ScanAttempts

IInv ==
  /\ TypeOK /\ AccTypeOK /\ queue \in Seq(Requests)
  /\ IsFiniteSet(open)
  /\ AcceptanceAlone /\ RunRoom /\ RunCandidate /\ AccRoom /\ AccStage

BookStep == Book!Next \/ UNCHANGED open

-----------------------------------------------------------------------------
(* Orders are sequences over their set. *)
LEMMA OrdersAreSequences == ASSUME NEW S, NEW q \in Orders(S) PROVE q \in Seq(S)
<1>1. PICK n \in 1 .. Limit : q \in [1 .. n -> S] BY DEF Orders
<1>2. n \in Nat BY TraderAssumption
<1> QED BY <1>1, <1>2

LEMMA ElementsInSet == ASSUME NEW S, NEW q \in Seq(S) PROVE Elements(q) \subseteq S
BY DEF Elements

LEMMA OrdersAreNotEmpty == ASSUME NEW S, NEW q \in Orders(S) PROVE q # <<>>
<1>1. PICK n \in 1 .. Limit : q \in [1 .. n -> S] BY DEF Orders
<1>2. n \in Nat /\ n >= 1 BY TraderAssumption
<1>3. Len(q) = n BY <1>1, <1>2
<1> QED BY <1>2, <1>3

(* A batch keeps the lock, the cooldowns and the candidates well-typed. *)
LEMMA BatchTypes ==
  ASSUME NEW lk \in Symbols \cup {None}, NEW cd \in SUBSET Symbols, NEW b \in Batches(lk, cd)
  PROVE  /\ b.lock \in Symbols \cup {None} /\ b.cooled \subseteq Symbols
         /\ b.source \in Sources /\ b.todo \in Seq(Symbols)
<1>1. ASSUME NEW l \in Symbols \cup {None}, NEW left \in SUBSET Symbols,
             b \in ProbeBatches(l, left)
      PROVE  /\ b.lock \in Symbols \cup {None} /\ b.cooled \subseteq Symbols
             /\ b.source \in Sources /\ b.todo \in Seq(Symbols)
  <2>1. PICK q \in Orders(Symbols) : b = Batch(l, left, "probe", q)
    BY <1>1 DEF ProbeBatches
  <2> QED BY <2>1, OrdersAreSequences DEF Batch, Sources
<1>2. CASE mode = "paper_top"
  <2>1. PICK left \in SUBSET cd : b \in PaperTopBatches(lk, left)
    BY <1>2 DEF Batches
  <2>2. CASE b \in {Batch(l, left, "paper_top", <<l>>) : l \in Locks(lk, left)}
    <3>1. PICK l \in Locks(lk, left) : b = Batch(l, left, "paper_top", <<l>>)
      BY <2>2
    <3>2. l \in Symbols BY DEF Locks, Stable
    <3> QED BY <3>1, <3>2 DEF Batch, Sources
  <2>3. CASE b \in ProbeBatches(None, left)
    BY <2>3, <1>1
  <2>4. CASE b = Batch(None, left, "paper_top", <<>>)
    BY <2>4 DEF Batch, Sources
  <2> QED BY <2>1, <2>2, <2>3, <2>4 DEF PaperTopBatches
<1>3. CASE mode # "paper_top"
  <2>1. b \in StrictBatches(lk, cd) BY <1>3 DEF Batches
  <2>2. CASE b \in {Batch(lk, cd, src, q) : src \in StrictSources, q \in Orders(Symbols)}
    <3>1. PICK src \in StrictSources, q \in Orders(Symbols) : b = Batch(lk, cd, src, q)
      BY <2>2
    <3>2. src \in Sources BY DEF StrictSources, Sources
    <3> QED BY <3>1, <3>2, OrdersAreSequences DEF Batch
  <2>3. CASE b \in ProbeBatches(lk, cd)
    BY <2>3, <1>1
  <2>4. CASE b = Batch(lk, cd, "strict", <<>>)
    BY <2>4 DEF Batch, Sources
  <2> QED BY <2>1, <2>2, <2>3, <2>4 DEF StrictBatches
<1> QED BY <1>2, <1>3

LEMMA OrderedTypes ==
  ASSUME NEW b, b.todo \in Seq(Symbols), NEW o \in Ordered(b)
  PROVE  o.todo \in Seq(Symbols) /\ o.moved \in BOOLEAN
<1> DEFINE S == Elements(b.todo) \ OpenSymbols
<1>1. \/ o = [todo |-> b.todo, moved |-> FALSE]
      \/ \E s \in Symbols : o = [todo |-> <<s>>, moved |-> s # b.todo[1]]
      \/ \E q \in Orders(S) : o = [todo |-> q, moved |-> FALSE]
  <2> HIDE DEF S
  <2>1. \/ o = [todo |-> b.todo, moved |-> FALSE]
        \/ \E s \in {s \in Symbols \ (b.cooled \cup OpenSymbols) :
                       b.source = "paper_top" /\ b.todo # <<>>} :
             o = [todo |-> <<s>>, moved |-> s # b.todo[1]]
        \/ \E q \in {q \in Orders(S) : /\ b.source \notin {"paper_top", "learned"}
                                       /\ Elements(q) = S} :
             o = [todo |-> q, moved |-> FALSE]
    BY Zenon DEF Ordered, S
  <2> QED BY <2>1
<1>2. S \subseteq Symbols BY ElementsInSet
<1>3. \A q \in Orders(S) : q \in Seq(Symbols)
  <2> HIDE DEF S
  <2>1. \A q \in Orders(S) : q \in Seq(S) BY OrdersAreSequences
  <2> QED BY <1>2, <2>1
<1> HIDE DEF S
<1>4. CASE o = [todo |-> b.todo, moved |-> FALSE]
  BY <1>4
<1>5. CASE \E s \in Symbols : o = [todo |-> <<s>>, moved |-> s # b.todo[1]]
  <2>1. PICK s \in Symbols : o = [todo |-> <<s>>, moved |-> s # b.todo[1]]
    BY <1>5
  <2>2. (s # b.todo[1]) \in BOOLEAN
    OBVIOUS
  <2>3. o.todo = <<s>> /\ o.moved = (s # b.todo[1])
    BY <2>1
  <2> QED BY <2>2, <2>3
<1>6. CASE \E q \in Orders(S) : o = [todo |-> q, moved |-> FALSE]
  BY <1>3, <1>6
<1> QED BY <1>1, <1>4, <1>5, <1>6

LEMMA RebatchTypes == TypeOK /\ Rebatch => lock' \in Symbols \cup {None} /\ cooled' \subseteq Symbols
BY BatchTypes DEF TypeOK, Rebatch

-----------------------------------------------------------------------------
(* Steps of a run that leave the book alone. *)
KeepsBook == UNCHANGED <<open, seen, mode, liveOn, accVars, queue>>
SharedTypes == lock' \in Symbols \cup {None} /\ cooled' \subseteq Symbols

LEMMA RunKeepsBook ==
  ASSUME IInv, run # None, run' \in Runs \cup {None}, KeepsBook, SharedTypes,
         run' # None => run.pc # "scan" \/ Cardinality(open) < MaxOpen,
         run' # None /\ run'.pc \in Holding => run'.item \in Symbols /\ run'.item \notin OpenSymbols,
         run' # None /\ run'.pc \in Planned => run'.plan \in Plans
  PROVE  IInv' /\ BookStep
<1>1. (TypeOK /\ AccTypeOK /\ queue \in Seq(Requests) /\ IsFiniteSet(open))'
  BY DEF IInv, TypeOK, AccTypeOK, KeepsBook, SharedTypes, accVars
<1>2. AcceptanceAlone' BY DEF IInv, AcceptanceAlone, KeepsBook, accVars
<1>3. RunRoom' BY DEF IInv, RunRoom, KeepsBook
<1>4. RunCandidate' BY DEF RunCandidate, OpenSymbols, KeepsBook
<1>5. (AccRoom /\ AccStage)'
  BY DEF IInv, AccRoom, AccStage, KeepsBook, accVars
<1>6. BookStep BY DEF BookStep, KeepsBook
<1> QED BY <1>1, <1>2, <1>3, <1>4, <1>5, <1>6 DEF IInv

(* A run that goes on, ends or looks at its next candidate. *)
LEMMA RunMovesOn ==
  ASSUME IInv, run # None, run.pc # "scan", UNCHANGED <<open, seen, mode, liveOn, accVars, queue>>,
         lock' \in Symbols \cup {None}, cooled' \subseteq Symbols,
         NEW pc \in Awaits \cup {"next"}, run' = [run EXCEPT !.pc = pc],
         pc \in Holding => run.pc \in Holding,
         pc \in Planned => run.pc \in Planned
  PROVE  IInv' /\ BookStep
<1>1. run \in Runs BY DEF IInv, TypeOK
<1>2. run' \in Runs BY <1>1 DEF Runs
<1>3. run'.pc = pc /\ run'.item = run.item /\ run'.plan = run.plan BY <1>1 DEF Runs
<1>4. /\ pc \in Holding => run.item \in Symbols /\ run.item \notin OpenSymbols
      /\ pc \in Planned => run.plan \in Plans
  BY DEF IInv, RunCandidate
<1> QED BY <1>2, <1>3, <1>4, RunKeepsBook DEF KeepsBook, SharedTypes

LEMMA RunEndsStep ==
  ASSUME IInv, run # None, run' = None, KeepsBook, SharedTypes
  PROVE  IInv' /\ BookStep
BY RunKeepsBook

LEMMA RetryStep ==
  ASSUME IInv, run # None, run.pc # "scan", KeepsBook,
         NEW lk \in Symbols \cup {None}, NEW cd \in SUBSET Symbols, Retry(lk, cd)
  PROVE  IInv' /\ BookStep
<1>1. run \in Runs BY DEF IInv, TypeOK
<1>2. ASSUME SharedTypes, run' \in Runs, run'.pc \notin Holding PROVE IInv' /\ BookStep
  BY <1>2, RunKeepsBook DEF Holding, Planned
<1>3. CASE ~RetryLeft
  <2>1. lock' = lk /\ cooled' = cd /\ run' = [run EXCEPT !.pc = "next"]
    BY <1>3 DEF Retry, Goto
  <2>2. run' \in Runs /\ run'.pc = "next" BY <1>1, <2>1 DEF Runs, Awaits
  <2> QED BY <1>2, <2>1, <2>2 DEF SharedTypes, Holding
<1>4. CASE RetryLeft
  <2>1. PICK b \in Batches(lk, cd) :
          /\ lock' = b.lock /\ cooled' = b.cooled
          /\ \/ Goto("next")
             \/ \E o \in Ordered(b) :
                  run' = [run EXCEPT !.pc = "retry", !.next = o.todo, !.moved = o.moved]
    BY <1>4 DEF Retry
  <2>2. SharedTypes /\ b.todo \in Seq(Symbols) BY <2>1, BatchTypes DEF SharedTypes
  <2>3. CASE Goto("next")
    <3>1. run' \in Runs /\ run'.pc = "next" BY <1>1, <2>3 DEF Runs, Awaits, Goto
    <3> QED BY <1>2, <2>2, <3>1 DEF Holding
  <2>4. CASE \E o \in Ordered(b) :
               run' = [run EXCEPT !.pc = "retry", !.next = o.todo, !.moved = o.moved]
    <3>1. PICK o \in Ordered(b) :
               run' = [run EXCEPT !.pc = "retry", !.next = o.todo, !.moved = o.moved]
      BY <2>4
    <3>2. o.todo \in Seq(Symbols) /\ o.moved \in BOOLEAN BY <2>2, OrderedTypes
    <3>3. run' \in Runs /\ run'.pc = "retry" BY <1>1, <3>1, <3>2 DEF Runs, Awaits
    <3> QED BY <1>2, <2>2, <3>3 DEF Holding
  <2> QED BY <2>1, <2>3, <2>4
<1> QED BY <1>3, <1>4

LEMMA AppendRetryStep ==
  ASSUME IInv, run # None, run.pc \in Holding, KeepsBook,
         NEW lk \in Symbols \cup {None}, NEW cd \in SUBSET Symbols, AppendRetry(lk, cd)
  PROVE  IInv' /\ BookStep
<1>1. run.item \in Symbols /\ run.pc # "scan" BY DEF IInv, RunCandidate, Holding
<1>2. CASE RetryLeft
  <2>1. Retry(Released(lk, run.item), cd \cup {run.item}) BY <1>2 DEF AppendRetry
  <2>2. Released(lk, run.item) \in Symbols \cup {None} BY DEF Released
  <2> QED BY <1>1, <2>1, <2>2, RetryStep
<1>3. CASE ~RetryLeft
  <2>1. lock' = lk /\ cooled' = cd /\ run' = [run EXCEPT !.pc = "next"]
    BY <1>3 DEF AppendRetry, Goto
  <2> QED BY <1>1, <2>1, RunMovesOn DEF KeepsBook, Awaits, Holding, Planned
<1> QED BY <1>2, <1>3

LEMMA StaleTypes ==
  ASSUME IInv, run # None, run.pc \in Holding
  PROVE  StaleLock \in Symbols \cup {None} /\ StaleCooled \in SUBSET Symbols
BY DEF IInv, TypeOK, RunCandidate, StaleLock, StaleCooled, Released

(* A position enters: capacity and symbol were checked when the run began, *)
(* and only this run could have opened since.                              *)
LEMMA EntryStep ==
  ASSUME IInv, run # None, run.pc \in Planned, run' = None,
         Enter("trader", run.item), seen' = seen \cup {run.plan},
         UNCHANGED <<lock, cooled, mode, liveOn, accVars, queue>>
  PROVE  IInv' /\ BookStep
<1>1. PICK id \in FreshId : open' = open \cup {[id |-> id, sym |-> run.item, by |-> "trader"]}
  BY DEF Enter
<1>2. /\ run.item \in Symbols /\ run.item \notin OpenSymbols /\ run.plan \in Plans
      /\ Cardinality(open) < MaxOpen /\ id \in Ids /\ \A p \in open : p.id # id
      /\ open \subseteq Positions /\ IsFiniteSet(open) /\ acc = None
  BY DEF IInv, RunCandidate, RunRoom, Holding, Planned, FreshId, TypeOK, AcceptanceAlone
<1>3. PICK e : e = [id |-> id, sym |-> run.item, by |-> "trader"] OBVIOUS
<1>4. e \in Positions /\ e \in Book!Entries BY <1>2, <1>3 DEF Positions, Book!Entries, Owners
<1>5. Book!Enter(e)
  <2>1. e.id = id /\ e.sym = run.item BY <1>3
  <2>2. \A q \in open : q.sym # run.item BY <1>2 DEF OpenSymbols
  <2>3. \A q \in open : q.id # e.id BY <1>2, <2>1
  <2>4. open' = open \cup {e} BY <1>1, <1>3
  <2>5. \A q \in open : q.sym # e.sym BY <2>1, <2>2
  <2>6. Book!Cardinality(open) = Cardinality(open) BY DEF Book!Cardinality, Cardinality
  <2> QED BY <1>2, <2>3, <2>4, <2>5, <2>6 DEF Book!Enter
<1>6. BookStep BY <1>4, <1>5 DEF BookStep, Book!Next
<1>7. IsFiniteSet(open') BY <1>1, <1>2, <1>3, FS_AddElement
<1>8. (TypeOK /\ AccTypeOK /\ queue \in Seq(Requests))'
  BY <1>1, <1>2, <1>3, <1>4 DEF IInv, TypeOK, AccTypeOK, accVars
<1>9. (AcceptanceAlone /\ RunRoom /\ RunCandidate /\ AccRoom /\ AccStage)'
  BY <1>2 DEF AcceptanceAlone, RunRoom, RunCandidate, AccRoom, AccStage, accVars
<1> QED BY <1>6, <1>7, <1>8, <1>9 DEF IInv

-----------------------------------------------------------------------------
(* Every step of a run. *)
LEMMA RunStepKeepsInvariant ==
  ASSUME IInv, RunStep, UNCHANGED <<accVars, queue>>
  PROVE  IInv' /\ BookStep
<1> USE DEF KeepShared, KeepRest
<1>1. run # None BY DEF RunStep, RunAt, RunRefused, ChooseBatch, GeometrySampled, AccountRead,
        NoMoreCandidates, Attempt, RetryBatchOrdered, Skip, StaleBeforeAi, FreshBeforeAi, AiWaits,
        AiOpens, StaleAfterAi, SideDrifted, RedoWaits, PlanUsable, RiskRejects, OpenPaper,
        LiveGuardBlocks, BeginLiveEntry, LiveEntryDone, RunRaises
<1>2. /\ run \in Runs /\ lock \in Symbols \cup {None} /\ cooled \in SUBSET Symbols
      /\ liveOn \in BOOLEAN /\ mode \in {"paper_top", "strict"}
  BY <1>1 DEF IInv, TypeOK
<1>3. CASE RunRefused \/ NoMoreCandidates \/ RunRaises
  <2>1. run' = None /\ KeepsBook /\ SharedTypes
    BY <1>2, <1>3 DEF RunRefused, NoMoreCandidates, RunRaises, EndRun, KeepsBook, SharedTypes
  <2> QED BY <1>1, <2>1, RunEndsStep
<1>4. CASE ChooseBatch
  <2>1. PICK b \in Batches(lock, cooled) :
          /\ lock' = b.lock /\ cooled' = b.cooled
          /\ \/ run' = None
             \/ \E o \in Ordered(b) :
                  run' = [run EXCEPT !.pc = "order", !.source = b.source,
                                     !.todo = o.todo, !.moved = o.moved]
    BY <1>4 DEF ChooseBatch, EndRun
  <2>2. SharedTypes /\ b.source \in Sources /\ b.todo \in Seq(Symbols)
    BY <1>2, <2>1, BatchTypes DEF SharedTypes
  <2>3. KeepsBook BY <1>4 DEF ChooseBatch, KeepsBook
  <2>4. CASE run' = None BY <1>1, <2>2, <2>3, <2>4, RunEndsStep
  <2>5. CASE \E o \in Ordered(b) :
               run' = [run EXCEPT !.pc = "order", !.source = b.source,
                                  !.todo = o.todo, !.moved = o.moved]
    <3>1. PICK o \in Ordered(b) :
               run' = [run EXCEPT !.pc = "order", !.source = b.source,
                                  !.todo = o.todo, !.moved = o.moved]
      BY <2>5
    <3>2. o.todo \in Seq(Symbols) /\ o.moved \in BOOLEAN BY <2>2, OrderedTypes
    <3>3. run' \in Runs /\ run'.pc = "order" BY <1>2, <2>2, <3>1, <3>2 DEF Runs, Awaits
    <3>4. Cardinality(open) < MaxOpen BY <1>4 DEF ChooseBatch
    <3> QED BY <1>1, <2>2, <2>3, <3>3, <3>4, RunKeepsBook DEF Holding, Planned
  <2> QED BY <2>1, <2>4, <2>5
<1>5. CASE GeometrySampled
  <2>1. lock' \in Symbols \cup {None} BY <1>2, <1>5 DEF GeometrySampled, Relocked, Runs
  <2> QED BY <1>1, <1>2, <1>5, <2>1, RunMovesOn
        DEF GeometrySampled, RunAt, Goto, Awaits, Holding, Planned
<1>6. CASE AccountRead
  <2>1. Elements(run.todo) \subseteq Symbols BY <1>2, ElementsInSet DEF Runs
  <2>2. \A q \in Orders(Elements(run.todo)) : q \in Seq(Symbols)
    BY <2>1, OrdersAreSequences
  <2>3. \A q \in Orders(Symbols) : q \in Seq(Symbols) BY OrdersAreSequences
  <2>4. \/ \E q \in Seq(Symbols) : run' = [run EXCEPT !.pc = "next", !.live = liveOn, !.todo = q]
        \/ \E q \in Seq(Symbols) :
             run' = [run EXCEPT !.pc = "next", !.live = liveOn, !.todo = q, !.source = "probe"]
    <3>1. run.todo \in Seq(Symbols) /\ <<>> \in Seq(Symbols) BY <1>2 DEF Runs
    <3>2. CASE \E q \in Orders(Symbols) :
                 run' = [run EXCEPT !.pc = "next", !.live = liveOn, !.todo = q, !.source = "probe"]
      BY <2>3, <3>2
    <3>3. CASE \E q \in {run.todo} \cup IF run.source \in {"strict", "learned"}
                                         THEN Orders(Elements(run.todo)) \cup {<<>>} ELSE {} :
                 run' = [run EXCEPT !.pc = "next", !.live = liveOn, !.todo = q]
      <4>1. PICK q \in {run.todo} \cup IF run.source \in {"strict", "learned"}
                                         THEN Orders(Elements(run.todo)) \cup {<<>>} ELSE {} :
                 run' = [run EXCEPT !.pc = "next", !.live = liveOn, !.todo = q]
        BY <3>3
      <4>2. q \in Orders(Elements(run.todo)) \/ q = run.todo \/ q = <<>>
        OBVIOUS
      <4>3. q \in Seq(Symbols) BY <2>2, <3>1, <4>2
      <4> QED BY <4>1, <4>3
    <3> QED BY <1>6, <3>2, <3>3, Zenon DEF AccountRead
  <2>5. run' \in Runs /\ run'.pc = "next"
    <3>1. CASE \E q \in Seq(Symbols) : run' = [run EXCEPT !.pc = "next", !.live = liveOn, !.todo = q]
      BY <1>2, <3>1 DEF Runs, Awaits
    <3>2. CASE \E q \in Seq(Symbols) :
                 run' = [run EXCEPT !.pc = "next", !.live = liveOn, !.todo = q, !.source = "probe"]
      BY <1>2, <3>2 DEF Runs, Awaits, Sources
    <3> QED BY <2>4, <3>1, <3>2
  <2>6. run.pc # "scan" /\ KeepsBook /\ SharedTypes
    BY <1>2, <1>6 DEF AccountRead, RunAt, KeepsBook, SharedTypes
  <2> QED BY <1>1, <2>5, <2>6, RunKeepsBook DEF Holding, Planned
<1>7. CASE Attempt
  <2>1. PICK pc \in {"preai", "next"} :
          /\ Head(run.todo) \in OpenSymbols => pc = "next"
          /\ run' = [run EXCEPT !.pc = pc, !.todo = Tail(run.todo), !.item = Head(run.todo),
                                !.tried = run.tried \cup {Head(run.todo)}]
    BY <1>7 DEF Attempt
  <2>2. Head(run.todo) \in Symbols /\ Tail(run.todo) \in Seq(Symbols)
    BY <1>2, <1>7 DEF Attempt, Runs
  <2>3. run' \in Runs /\ run'.pc = pc /\ run'.item = Head(run.todo)
    BY <1>2, <2>1, <2>2 DEF Runs, Awaits
  <2>4. run.pc # "scan" /\ KeepsBook /\ SharedTypes
    BY <1>2, <1>7 DEF Attempt, RunAt, KeepsBook, SharedTypes
  <2> QED BY <1>1, <2>1, <2>2, <2>3, <2>4, RunKeepsBook DEF Holding, Planned
<1>8. CASE RetryBatchOrdered
  <2>1. lock' \in Symbols \cup {None} BY <1>2, <1>8 DEF RetryBatchOrdered, Relocked, Runs
  <2>2. PICK q : /\ q \in {run.todo, run.todo \o run.next}
                 /\ run' = [run EXCEPT !.pc = "next", !.next = <<>>, !.moved = FALSE, !.todo = q]
    BY <1>8 DEF RetryBatchOrdered
  <2>3. q \in Seq(Symbols)
    <3>1. run.todo \in Seq(Symbols) /\ run.next \in Seq(Symbols) BY <1>2 DEF Runs
    <3> QED BY <2>2, <3>1, ConcatProperties
  <2>4. run' \in Runs /\ run'.pc = "next"
    <3>0. <<>> \in Seq(Symbols) OBVIOUS
    <3>1. PICK n \in Seq(Symbols) : n = <<>> BY <3>0
    <3>2. run' = [run EXCEPT !.pc = "next", !.next = n, !.moved = FALSE, !.todo = q] BY <2>2, <3>1
    <3> QED BY <1>2, <2>3, <3>2 DEF Runs, Awaits
  <2>5. run.pc # "scan" /\ KeepsBook /\ SharedTypes
    BY <1>2, <1>8, <2>1 DEF RetryBatchOrdered, RunAt, KeepsBook, SharedTypes
  <2> QED BY <1>1, <2>4, <2>5, RunKeepsBook DEF Holding, Planned
<1>9. CASE Skip("preai") \/ Skip("generate") \/ Skip("postai") \/ Skip("redo") \/ Skip("quote")
           \/ FreshBeforeAi \/ SideDrifted \/ LiveGuardBlocks \/ BeginLiveEntry
           \/ PlanUsable("postai") \/ PlanUsable("redopost")
  <2>1. PICK pc \in {"next", "generate", "redo", "quote", "opening"} :
          /\ run' = [run EXCEPT !.pc = pc] /\ KeepShared /\ KeepRest
          /\ run.pc \in Holding /\ (pc \in Planned => run.pc \in Planned)
    BY <1>9 DEF Skip, FreshBeforeAi, SideDrifted, LiveGuardBlocks, BeginLiveEntry, PlanUsable,
                RunAt, Goto, Holding, Planned
  <2> QED BY <1>1, <1>2, <2>1, RunMovesOn DEF Holding, Awaits
<1>10. CASE StaleBeforeAi
  <2>1. run.pc \in Holding /\ run.pc # "scan" /\ KeepsBook
    BY <1>10 DEF StaleBeforeAi, RunAt, Holding, KeepsBook
  <2> QED BY <1>1, <1>10, <2>1, StaleTypes, RetryStep DEF StaleBeforeAi
<1>11. CASE AiWaits
  <2>1. run.pc \in Holding /\ run.pc # "scan" /\ KeepsBook /\ run.item \in Symbols
    BY <1>1, <1>11 DEF AiWaits, RunAt, Holding, KeepsBook, IInv, RunCandidate
  <2>2. Released(lock, run.item) \in Symbols \cup {None} BY <1>2 DEF Released
  <2>3. CASE Retry(Released(lock, run.item), cooled \cup {run.item})
    BY <1>1, <1>2, <2>1, <2>2, <2>3, RetryStep
  <2>4. CASE \E lk \in {lock, Released(lock, run.item)} : AppendRetry(lk, cooled)
    BY <1>1, <1>2, <2>1, <2>2, <2>4, AppendRetryStep
  <2> QED BY <1>11, <2>3, <2>4 DEF AiWaits
<1>12. CASE AiOpens("generate", "postai") \/ AiOpens("redo", "redopost")
  <2>1. PICK pc \in {"postai", "redopost"}, p \in Plans : run' = [run EXCEPT !.pc = pc, !.plan = p]
    BY <1>12 DEF AiOpens
  <2>2. /\ run' \in Runs /\ run'.pc = pc /\ run'.item = run.item /\ run'.plan \in Plans
    BY <1>2, <2>1 DEF Runs, Awaits
  <2>3. run.pc \in Holding /\ run.pc # "scan" /\ KeepsBook /\ SharedTypes
    BY <1>2, <1>12 DEF AiOpens, RunAt, KeepsBook, SharedTypes, Holding
  <2>4. run.item \in Symbols /\ run.item \notin OpenSymbols
    BY <1>1, <2>3 DEF IInv, RunCandidate
  <2> QED BY <1>1, <2>2, <2>3, <2>4, RunKeepsBook
<1>13. CASE StaleAfterAi("postai") \/ StaleAfterAi("redopost")
  <2>1. /\ run.pc \in Holding /\ run.pc # "scan" /\ run' = [run EXCEPT !.pc = "next"]
        /\ lock' = StaleLock /\ cooled' = StaleCooled
        /\ UNCHANGED <<open, seen, mode, liveOn, accVars, queue>>
    BY <1>13 DEF StaleAfterAi, RunAt, Goto, Holding
  <2> QED BY <1>1, <2>1, StaleTypes, RunMovesOn DEF Holding, Planned
<1>14. CASE RedoWaits
  <2>1. run.pc \in Holding /\ run.pc # "scan" /\ run' = [run EXCEPT !.pc = "next"]
    BY <1>14 DEF RedoWaits, RunAt, Goto, Holding
  <2>2. run.item \in Symbols BY <1>1, <2>1 DEF IInv, RunCandidate
  <2>3. lock' \in Symbols \cup {None} /\ cooled' \subseteq Symbols
    BY <1>2, <1>14, <2>2 DEF RedoWaits, Released
  <2>4. UNCHANGED <<open, seen, mode, liveOn, accVars, queue>> BY <1>14 DEF RedoWaits
  <2> QED BY <1>1, <2>1, <2>3, <2>4, RunMovesOn DEF Holding, Planned
<1>15. CASE RiskRejects
  <2>1. run.pc \in Holding /\ KeepsBook BY <1>15 DEF RiskRejects, RunAt, Holding, KeepsBook
  <2> QED BY <1>1, <1>2, <1>15, <2>1, AppendRetryStep DEF RiskRejects
<1>16. CASE OpenPaper \/ LiveEntryDone
  BY <1>1, <1>16, EntryStep DEF OpenPaper, LiveEntryDone, RunAt, EndRun, Planned
<1> QED BY <1>3, <1>4, <1>5, <1>6, <1>7, <1>8, <1>9, <1>10, <1>11, <1>12, <1>13, <1>14, <1>15,
           <1>16 DEF RunStep

-----------------------------------------------------------------------------
(* Steps of an acceptance run that leave the book alone.                   *)
AccTypes == acc' \in Accs \cup {None} /\ passed' \in BOOLEAN /\ enabled' \in BOOLEAN
AccGoesOn(a) ==
  /\ AccTypes
  /\ acc' # None => acc'.slots = a.slots /\ acc'.pc \notin {"scan", "watch"}
  /\ AccStage'

LEMMA AccKeepsBook ==
  ASSUME IInv, acc # None, AccTypes, SharedTypes, UNCHANGED <<run, open, seen, mode, liveOn, queue>>,
         acc' # None /\ acc'.pc \notin {"scan", "watch"} => Cardinality(open) <= acc'.slots,
         AccStage'
  PROVE  IInv' /\ BookStep
<1>1. run = None BY DEF IInv, AcceptanceAlone
<1>2. (TypeOK /\ AccTypeOK /\ queue \in Seq(Requests) /\ IsFiniteSet(open))'
  BY DEF IInv, TypeOK, AccTypeOK, AccTypes, SharedTypes
<1>3. (AcceptanceAlone /\ RunRoom /\ RunCandidate)'
  BY <1>1 DEF AcceptanceAlone, RunRoom, RunCandidate
<1>4. (AccRoom /\ AccStage)' BY DEF AccRoom
<1>5. BookStep BY DEF BookStep
<1> QED BY <1>2, <1>3, <1>4, <1>5 DEF IInv

LEMMA AccGoesOnKeepsBook ==
  ASSUME IInv, acc # None, SharedTypes, UNCHANGED <<run, open, seen, mode, liveOn, queue>>,
         NEW a \in Accs, AccGoesOn(a), Cardinality(open) <= a.slots
  PROVE  IInv' /\ BookStep
BY AccKeepsBook DEF AccGoesOn

LEMMA FailGoesOn == ASSUME NEW a \in Accs, Fail(a) PROVE AccGoesOn(a)
BY DEF Fail, Leave, AccGoesOn, AccTypes, Accs, AccStage

LEMMA BecomesGoesOn ==
  ASSUME AccTypeOK, NEW a \in Accs, NEW pc \in AccAwaits, AccBecomes(a, pc),
         pc \notin {"scan", "sample", "draft", "account", "open", "watch"},
         pc = "fresh" => a.todo # <<>>, pc = "pause" => a.turn < ScanAttempts
  PROVE  AccGoesOn(a)
<1>1. acc' = [a EXCEPT !.pc = pc] /\ UNCHANGED <<passed, enabled>> BY DEF AccBecomes, KeepAccRest
<1>2. /\ acc' \in Accs /\ acc'.pc = pc /\ acc'.slots = a.slots
      /\ acc'.todo = a.todo /\ acc'.turn = a.turn
  BY <1>1 DEF Accs
<1> QED BY <1>1, <1>2 DEF AccTypeOK, AccGoesOn, AccTypes, AccStage

LEMMA RankGoesOn ==
  ASSUME AccTypeOK, NEW a \in Accs, NEW pc \in {"rank", "rankgeo"}, Rank(a, pc)
  PROVE  AccGoesOn(a)
<1>1. PICK q \in Orders(Symbols) : AccBecomes([a EXCEPT !.todo = q], pc) BY DEF Rank
<1>2. [a EXCEPT !.todo = q] \in Accs BY OrdersAreSequences DEF Accs
<1>3. AccGoesOn([a EXCEPT !.todo = q]) BY <1>1, <1>2, BecomesGoesOn DEF AccAwaits
<1>4. [a EXCEPT !.todo = q].slots = a.slots BY DEF Accs
<1> QED BY <1>3, <1>4 DEF AccGoesOn

LEMMA NothingGoesOn ==
  ASSUME AccTypeOK, NEW a \in Accs, NothingSelected(a) PROVE AccGoesOn(a)
BY FailGoesOn, BecomesGoesOn DEF NothingSelected, AccAwaits

LEMMA NextTurnGoesOn ==
  ASSUME AccTypeOK, NEW a \in Accs, NextTurn(a) PROVE AccGoesOn(a)
BY NothingGoesOn, BecomesGoesOn DEF NextTurn, AccAwaits

LEMMA TurnGoesOn ==
  ASSUME AccTypeOK, NEW a \in Accs, Turn(a) PROVE AccGoesOn(a)
BY RankGoesOn, NextTurnGoesOn DEF Turn

LEMMA SelectedGoesOn ==
  ASSUME AccTypeOK, acc \in Accs, NEW src \in {"strict", "strict_geometry"}, NEW q \in Seq(Symbols),
         q # <<>>, Selected(src, q)
  PROVE  AccGoesOn(acc)
<1>1. Elements(q) \subseteq Symbols BY ElementsInSet
<1>2. PICK a : a = [acc EXCEPT !.source = src, !.todo = q, !.tried = Elements(q)] OBVIOUS
<1>3. a \in Accs /\ a.slots = acc.slots /\ a.todo # <<>> BY <1>1, <1>2 DEF Accs
<1>4. AccBecomes(a, "fresh") BY <1>2 DEF Selected
<1> QED BY <1>3, <1>4, BecomesGoesOn DEF AccGoesOn, AccAwaits

(* The chain goes to its next candidate, to its fallback or to its end.    *)
LEMMA NextOfGoesOn ==
  ASSUME AccTypeOK, NEW a \in Accs, NextOf(a) PROVE AccGoesOn(a)
<1>1. CASE a.todo # <<>> /\ AccBecomes(a, "fresh") BY <1>1, BecomesGoesOn DEF AccAwaits
<1>2. CASE Fail(a) BY <1>2, FailGoesOn
<1>3. CASE \E q \in Orders(Symbols \ a.tried) : AccBecomes([a EXCEPT !.todo = q], "fallback")
  <2>1. PICK q \in Orders(Symbols \ a.tried) : AccBecomes([a EXCEPT !.todo = q], "fallback")
    BY <1>3
  <2>2. q \in Seq(Symbols \ a.tried) BY <2>1, OrdersAreSequences
  <2>3. q \in Seq(Symbols) BY <2>2
  <2>4. PICK b : b = [a EXCEPT !.todo = q] OBVIOUS
  <2>5. b \in Accs /\ b.slots = a.slots BY <2>3, <2>4 DEF Accs
  <2>6. AccBecomes(b, "fallback") BY <2>1, <2>4
  <2> QED BY <2>5, <2>6, BecomesGoesOn DEF AccGoesOn, AccAwaits
<1> QED BY <1>1, <1>2, <1>3 DEF NextOf, ChainEnds

(* Only RiskVerdict reaches the order, and only with a free slot.          *)
LEMMA RiskVerdictStep ==
  ASSUME IInv, acc # None, NEW a \in Accs, RiskVerdict(a), a.chosen \in Symbols,
         SharedTypes, UNCHANGED <<run, open, seen, mode, liveOn, queue>>,
         Cardinality(open) <= a.slots
  PROVE  IInv' /\ BookStep
<1>1. CASE NextOf(a) \/ Fail(a)
  BY <1>1, NextOfGoesOn, FailGoesOn, AccGoesOnKeepsBook DEF IInv
<1>2. CASE MayOrder(a) /\ AccBecomes(a, "open")
  <2>1. /\ AccTypes /\ acc'.pc = "open" /\ acc'.slots = a.slots /\ acc'.chosen = a.chosen
    BY <1>2 DEF IInv, AccTypeOK, AccBecomes, KeepAccRest, AccTypes, Accs, AccAwaits
  <2>2. a.slots < MaxOpen BY <1>2 DEF MayOrder
  <2>3. AccStage' BY <2>1, <2>2 DEF AccStage
  <2> QED BY <2>1, <2>3, AccKeepsBook
<1> QED BY <1>1, <1>2 DEF RiskVerdict

-----------------------------------------------------------------------------
(* Every step of an acceptance run.                                        *)
LEMMA AccStepKeepsInvariant ==
  ASSUME IInv, AccStep, UNCHANGED queue
  PROVE  IInv' /\ BookStep
<1>1. acc # None BY DEF AccStep, AccAt, AccScanFails, AccScanned, AccRanked, AccGeometryRanked,
        AccRescanned, ShadowDone, FreshRejected, FreshAccepted, SampleRejected, SampleAccepted,
        PlanRejected, PlanAccepted, AccountArrives, FallbackRanked, AccOpened, AccDone, AccRaises
<1>2. /\ acc \in Accs /\ AccTypeOK /\ passed \in BOOLEAN /\ enabled \in BOOLEAN
      /\ lock \in Symbols \cup {None} /\ cooled \subseteq Symbols /\ IsFiniteSet(open)
  BY <1>1 DEF IInv, TypeOK, AccTypeOK
<1>3. acc.pc \notin {"scan", "watch"} => Cardinality(open) <= acc.slots
  BY <1>1 DEF IInv, AccRoom
<1>4. KeepTrader => SharedTypes /\ UNCHANGED <<run, open, seen, mode, liveOn, queue>>
  BY <1>2 DEF KeepTrader, traderVars, SharedTypes
<1>5. KeepBook /\ Rebatch => SharedTypes BY RebatchTypes DEF IInv, SharedTypes
<1>6. SameLock => SharedTypes BY <1>2 DEF SameLock, SharedTypes
<1>7. KeepBook => UNCHANGED <<run, open, seen, mode, liveOn, queue>> BY DEF KeepBook
<1>8. CASE AccScanFails \/ ShadowDone
  <2>1. Fail(acc) /\ KeepTrader BY <1>8 DEF AccScanFails, ShadowDone
  <2>2. acc' = None /\ AccTypes /\ AccStage'
    BY <1>2, <2>1 DEF Fail, Leave, AccTypes, Accs, AccStage
  <2> QED BY <1>1, <1>4, <2>1, <2>2, AccKeepsBook
<1>9. CASE AccScanned
  <2>1. PICK proof \in BOOLEAN : Turn([acc EXCEPT !.slots = Cardinality(open), !.proof = proof])
    BY <1>9 DEF AccScanned
  <2>2. Cardinality(open) \in Nat BY <1>2, FS_CardinalityType
  <2>3. PICK a : a = [acc EXCEPT !.slots = Cardinality(open), !.proof = proof] OBVIOUS
  <2>4. a \in Accs /\ a.slots = Cardinality(open) BY <1>2, <2>2, <2>3 DEF Accs
  <2>5. Turn(a) BY <2>1, <2>3
  <2>6. AccGoesOn(a) BY <1>2, <2>4, <2>5, TurnGoesOn
  <2>7. KeepBook /\ Rebatch BY <1>9, <2>5 DEF AccScanned, Turn
  <2>8. Cardinality(open) <= a.slots BY <2>2, <2>4
  <2> QED BY <1>1, <1>5, <1>7, <2>4, <2>6, <2>7, <2>8, AccGoesOnKeepsBook
<1>10. CASE AccRanked
  <2>1. AccGoesOn(acc) /\ SharedTypes /\ KeepBook
    <3>1. CASE \E q \in Supported : Selected("strict", q)
      <4>1. PICK q \in Supported : Selected("strict", q) BY <3>1
      <4>2. q \in Seq(Elements(acc.todo)) BY <4>1, OrdersAreSequences DEF Supported
      <4>3. Elements(acc.todo) \subseteq Symbols BY <1>2, ElementsInSet DEF Accs
      <4>4. q \in Seq(Symbols) BY <4>2, <4>3
      <4>6. q # <<>> BY <4>1, OrdersAreNotEmpty DEF Supported
      <4>5. KeepBook /\ Rebatch BY <1>10, <4>1 DEF AccRanked, Selected
      <4> QED BY <1>2, <1>5, <4>1, <4>4, <4>5, <4>6, SelectedGoesOn
    <3>2. CASE NothingSelected(acc) /\ Rebatch
      BY <1>2, <1>5, <1>10, <3>2, NothingGoesOn DEF AccRanked
    <3>3. CASE (Rank(acc, "rankgeo") \/ NextTurn(acc)) /\ SameLock
      BY <1>2, <1>6, <1>10, <3>3, RankGoesOn, NextTurnGoesOn DEF AccRanked
    <3> QED BY <1>10, <3>1, <3>2, <3>3 DEF AccRanked
  <2>2. Cardinality(open) <= acc.slots BY <1>3, <1>10 DEF AccRanked, AccAt
  <2> QED BY <1>1, <1>2, <1>7, <2>1, <2>2, AccGoesOnKeepsBook
<1>11. CASE AccGeometryRanked
  <2>1. AccGoesOn(acc) /\ SharedTypes /\ KeepBook
    <3>1. CASE \E q \in Supported : Selected("strict_geometry", q)
      <4>1. PICK q \in Supported : Selected("strict_geometry", q) BY <3>1
      <4>2. q \in Seq(Elements(acc.todo)) BY <4>1, OrdersAreSequences DEF Supported
      <4>3. Elements(acc.todo) \subseteq Symbols BY <1>2, ElementsInSet DEF Accs
      <4>4. q \in Seq(Symbols) BY <4>2, <4>3
      <4>6. q # <<>> BY <4>1, OrdersAreNotEmpty DEF Supported
      <4>5. KeepBook /\ Rebatch BY <1>11, <4>1 DEF AccGeometryRanked, Selected
      <4> QED BY <1>2, <1>5, <4>1, <4>4, <4>5, <4>6, SelectedGoesOn
    <3>2. CASE NothingSelected(acc) /\ Rebatch
      BY <1>2, <1>5, <1>11, <3>2, NothingGoesOn DEF AccGeometryRanked
    <3>3. CASE NextTurn(acc) /\ SameLock
      BY <1>2, <1>6, <1>11, <3>3, NextTurnGoesOn DEF AccGeometryRanked
    <3> QED BY <1>11, <3>1, <3>2, <3>3 DEF AccGeometryRanked
  <2>2. Cardinality(open) <= acc.slots BY <1>3, <1>11 DEF AccGeometryRanked, AccAt
  <2> QED BY <1>1, <1>2, <1>7, <2>1, <2>2, AccGoesOnKeepsBook
<1>12. CASE AccRescanned
  <2>1. KeepBook /\ Rebatch BY <1>12 DEF AccRescanned, Turn
  <2>2. Cardinality(open) <= acc.slots /\ acc.pc = "pause" BY <1>3, <1>12 DEF AccRescanned, AccAt
  <2>3. CASE NothingSelected(acc)
    BY <1>1, <1>2, <1>5, <1>7, <2>1, <2>2, <2>3, NothingGoesOn, AccGoesOnKeepsBook
  <2>4. CASE Turn([acc EXCEPT !.turn = @ + 1])
    <3>1. acc.turn + 1 \in 1 .. ScanAttempts
      BY <1>1, <1>2, <2>2, ScanAttemptsAssumption DEF IInv, AccStage, Accs
    <3>2. PICK a : a = [acc EXCEPT !.turn = acc.turn + 1] OBVIOUS
    <3>3. a \in Accs /\ a.slots = acc.slots BY <1>2, <3>1, <3>2 DEF Accs
    <3>4. Turn(a) BY <2>4, <3>2
    <3>5. AccGoesOn(a) BY <1>2, <3>3, <3>4, TurnGoesOn
    <3> QED BY <1>1, <1>5, <1>7, <2>1, <2>2, <3>3, <3>5, AccGoesOnKeepsBook
  <2> QED BY <1>12, <2>3, <2>4 DEF AccRescanned
<1>13. CASE FreshRejected
  <2>1. NextOf([acc EXCEPT !.todo = Tail(@)]) /\ KeepTrader /\ acc.pc = "fresh"
    BY <1>13 DEF FreshRejected, AccAt
  <2>2. acc.todo \in Seq(Symbols) /\ acc.todo # <<>> BY <1>1, <1>2, <2>1 DEF Accs, IInv, AccStage
  <2>3. PICK a : a = [acc EXCEPT !.todo = Tail(acc.todo)] OBVIOUS
  <2>4. a \in Accs /\ a.slots = acc.slots
    <3>1. PICK q \in Seq(Symbols) : q = Tail(acc.todo) BY <2>2, HeadTailProperties
    <3> QED BY <1>2, <2>3, <3>1 DEF Accs
  <2>6. NextOf(a) BY <2>1, <2>3
  <2>5. AccGoesOn(a) BY <1>2, <2>4, <2>6, NextOfGoesOn
  <2> QED BY <1>1, <1>3, <1>4, <2>1, <2>4, <2>5, AccGoesOnKeepsBook
<1>14. CASE FreshAccepted
  <2>1. /\ acc' = [acc EXCEPT !.item = Head(acc.todo), !.todo = Tail(acc.todo), !.pc = "sample"]
        /\ KeepTrader /\ UNCHANGED <<passed, enabled>> /\ acc.pc = "fresh"
    BY <1>2, <1>14 DEF FreshAccepted, AccAt, AccBecomes, KeepAccRest, Accs
  <2>2. Head(acc.todo) \in Symbols /\ Tail(acc.todo) \in Seq(Symbols)
    BY <1>1, <1>2, <2>1 DEF Accs, IInv, AccStage
  <2>3. /\ acc' \in Accs /\ acc'.pc = "sample" /\ acc'.slots = acc.slots /\ acc'.item \in Symbols
    BY <1>2, <2>1, <2>2 DEF Accs, AccAwaits
  <2>4. AccTypes /\ AccStage' BY <1>2, <2>1, <2>3 DEF AccTypes, AccStage
  <2> QED BY <1>1, <1>3, <1>4, <2>1, <2>3, <2>4, AccKeepsBook
<1>15. CASE SampleAccepted
  <2>1. /\ acc' = [acc EXCEPT !.pc = "draft"] /\ KeepTrader /\ UNCHANGED <<passed, enabled>>
        /\ acc.pc = "sample" /\ acc.item \in Symbols
    BY <1>1, <1>15 DEF SampleAccepted, AccAt, AccBecomes, KeepAccRest, IInv, AccStage
  <2>2. acc' \in Accs /\ acc'.pc = "draft" /\ acc'.slots = acc.slots /\ acc'.item \in Symbols
    BY <1>2, <2>1 DEF Accs, AccAwaits
  <2>3. AccTypes /\ AccStage' BY <1>2, <2>1, <2>2 DEF AccTypes, AccStage
  <2> QED BY <1>1, <1>3, <1>4, <2>1, <2>2, <2>3, AccKeepsBook
<1>16. CASE SampleRejected \/ PlanRejected
  BY <1>1, <1>2, <1>3, <1>4, <1>16, NextOfGoesOn, AccGoesOnKeepsBook
    DEF SampleRejected, PlanRejected, AccAt
<1>17. CASE PlanAccepted
  <2>1. acc.item \in Symbols /\ acc.pc = "draft" /\ KeepTrader
    BY <1>1, <1>17 DEF PlanAccepted, AccAt, IInv, AccStage
  <2>2. PICK a : a = [acc EXCEPT !.chosen = acc.item] OBVIOUS
  <2>3. a \in Accs /\ a.chosen \in Symbols /\ a.slots = acc.slots
    BY <1>2, <2>1, <2>2 DEF Accs
  <2>4. AccBecomes(a, "account") \/ RiskVerdict(a)
    BY <1>17, <2>2 DEF PlanAccepted
  <2>5. CASE RiskVerdict(a)
    BY <1>1, <1>3, <1>4, <2>1, <2>3, <2>5, RiskVerdictStep
  <2>6. CASE AccBecomes(a, "account")
    <3>1. /\ acc' \in Accs /\ acc'.pc = "account" /\ acc'.slots = acc.slots
          /\ acc'.chosen \in Symbols /\ UNCHANGED <<passed, enabled>>
      BY <2>3, <2>6 DEF AccBecomes, KeepAccRest, Accs, AccAwaits
    <3>2. AccTypes /\ AccStage' BY <1>2, <3>1 DEF AccTypes, AccStage
    <3> QED BY <1>1, <1>3, <1>4, <2>1, <3>1, <3>2, AccKeepsBook
  <2> QED BY <2>4, <2>5, <2>6
<1>18. CASE AccountArrives
  <2>1. RiskVerdict(acc) /\ KeepTrader /\ acc.pc = "account" /\ acc.chosen \in Symbols
    BY <1>1, <1>18 DEF AccountArrives, AccAt, IInv, AccStage
  <2> QED BY <1>1, <1>2, <1>3, <1>4, <2>1, RiskVerdictStep
<1>19. CASE FallbackRanked
  <2>1. PICK q \in Supported \cup {<<>>} :
          NextOf([acc EXCEPT !.source = "strict_geometry", !.todo = q])
    BY <1>19 DEF FallbackRanked
  <2>2. Elements(acc.todo) \subseteq Symbols BY <1>2, ElementsInSet DEF Accs
  <2>3. q = <<>> \/ q \in Seq(Elements(acc.todo)) BY <2>1, OrdersAreSequences DEF Supported
  <2>4. q \in Seq(Symbols)
    <3>1. CASE q = <<>> BY <3>1
    <3>2. CASE q \in Seq(Elements(acc.todo)) BY <2>2, <3>2
    <3> QED BY <2>3, <3>1, <3>2
  <2>5. PICK a : a = [acc EXCEPT !.source = "strict_geometry", !.todo = q] OBVIOUS
  <2>6. a \in Accs /\ a.slots = acc.slots BY <1>2, <2>4, <2>5 DEF Accs
  <2>7. AccGoesOn(a) BY <1>2, <2>1, <2>5, <2>6, NextOfGoesOn
  <2>8. KeepTrader /\ acc.pc = "fallback" BY <1>19 DEF FallbackRanked, AccAt
  <2> QED BY <1>1, <1>3, <1>4, <2>6, <2>7, <2>8, AccGoesOnKeepsBook
<1>20. CASE AccOpened
  <2>1. PICK id \in FreshId, proof \in {FALSE, acc.proof} :
          /\ open' = open \cup {[id |-> id, sym |-> acc.chosen, by |-> "acceptance"]}
          /\ AccBecomes([acc EXCEPT !.id = id, !.proof = proof /\ acc.mode = "real_order"], "watch")
    BY <1>20 DEF AccOpened
  <2>2. /\ acc.pc = "open" /\ acc.chosen \in Symbols /\ acc.slots < MaxOpen
        /\ Cardinality(open) <= acc.slots /\ run = None
    BY <1>1, <1>3, <1>20 DEF AccOpened, AccAt, IInv, AccStage, AcceptanceAlone
  <2>3. PICK e : e = [id |-> id, sym |-> acc.chosen, by |-> "acceptance"] OBVIOUS
  <2>4. id \in Ids /\ \A p \in open : p.id # id BY DEF FreshId
  <2>5. e \in Positions /\ e \in Book!Entries BY <2>2, <2>3, <2>4 DEF Positions, Book!Entries, Owners
  <2>6. Cardinality(open) < MaxOpen
    BY <1>2, <2>2, FS_CardinalityType, TraderAssumption DEF Accs
  <2>7. Book!Enter(e)
    <3>1. Book!Cardinality(open) = Cardinality(open) BY DEF Book!Cardinality, Cardinality
    <3>2. e.id = id /\ e.by = "acceptance" BY <2>3
    <3> QED BY <2>1, <2>3, <2>4, <2>6, <3>1, <3>2 DEF Book!Enter
  <2>8. BookStep BY <2>5, <2>7 DEF BookStep, Book!Next
  <2>9. IsFiniteSet(open') BY <1>2, <2>1, FS_AddElement
  <2>10. PICK p \in BOOLEAN : p = (proof /\ acc.mode = "real_order") BY <1>2 DEF Accs
  <2>11. acc' = [acc EXCEPT !.id = id, !.proof = p, !.pc = "watch"] /\ UNCHANGED <<passed, enabled>>
    BY <1>2, <2>1, <2>10 DEF AccBecomes, KeepAccRest, Accs
  <2>12. acc' \in Accs /\ acc'.pc = "watch" BY <1>2, <2>4, <2>11 DEF Accs, AccAwaits
  <2>13. UNCHANGED <<run, lock, cooled, seen, mode, liveOn>> BY <1>20 DEF AccOpened
  <2>14. open' \subseteq Positions BY <2>1, <2>3, <2>5 DEF IInv, TypeOK
  <2>15. (TypeOK /\ AccTypeOK /\ queue \in Seq(Requests))'
    BY <2>11, <2>12, <2>13, <2>14 DEF IInv, TypeOK, AccTypeOK
  <2>16. (AcceptanceAlone /\ RunRoom /\ RunCandidate)'
    BY <2>2, <2>13 DEF AcceptanceAlone, RunRoom, RunCandidate
  <2>17. (AccRoom /\ AccStage)' BY <2>12 DEF AccRoom, AccStage
  <2> QED BY <2>8, <2>9, <2>15, <2>16, <2>17 DEF IInv
<1>21. CASE AccDone \/ AccRaises
  <2>1. acc' = None /\ enabled' = acc.before /\ KeepTrader
    BY <1>21 DEF AccDone, AccRaises, Leave
  <2>2. passed' \in BOOLEAN
    <3>1. CASE AccRaises BY <1>2, <3>1 DEF AccRaises
    <3>2. CASE AccDone
      <4>1. PICK learned \in {FALSE, Closed(acc.id)} :
              passed' = (acc.proof /\ Closed(acc.id) /\ learned)
        BY <3>2 DEF AccDone
      <4> QED BY <4>1, Zenon
    <3> QED BY <1>21, <3>1, <3>2
  <2>3. AccTypes /\ AccStage' BY <1>2, <2>1, <2>2 DEF AccTypes, AccStage, Accs
  <2> QED BY <1>1, <1>4, <2>1, <2>3, AccKeepsBook
<1> QED BY <1>8, <1>9, <1>10, <1>11, <1>12, <1>13, <1>14, <1>15, <1>16, <1>17, <1>18, <1>19,
           <1>20, <1>21 DEF AccStep

-----------------------------------------------------------------------------
(* The coroutines around the two. *)
LEMMA RequestStep ==
  ASSUME IInv, NEW r \in Requests, Ask(r) PROVE queue' \in Seq(Requests)
BY DEF IInv, Ask

LEMMA CallerStep ==
  ASSUME IInv, queue' \in Seq(Requests), enabled' \in BOOLEAN, SharedTypes,
         mode' \in {"paper_top", "strict"}, liveOn' \in BOOLEAN,
         UNCHANGED <<run, open, seen, acc, passed>>
  PROVE  IInv' /\ BookStep
<1>1. (TypeOK /\ AccTypeOK /\ IsFiniteSet(open))'
  BY DEF IInv, TypeOK, AccTypeOK, SharedTypes
<1>2. (AcceptanceAlone /\ RunRoom /\ RunCandidate /\ AccRoom /\ AccStage)'
  BY DEF IInv, AcceptanceAlone, RunRoom, RunCandidate, OpenSymbols, AccRoom, AccStage
<1>3. BookStep BY DEF BookStep
<1> QED BY <1>1, <1>2, <1>3 DEF IInv

LEMMA CallersKeepInvariant ==
  ASSUME IInv, \/ LoopTick \/ ManualRun \/ PaperProbe \/ PaperRepair \/ SaveParams
               \/ StartLoop \/ StopLoop \/ AskAcceptance
  PROVE  IInv' /\ BookStep
<1>1. /\ lock \in Symbols \cup {None} /\ cooled \subseteq Symbols /\ enabled \in BOOLEAN
      /\ mode \in {"paper_top", "strict"} /\ liveOn \in BOOLEAN /\ queue \in Seq(Requests)
  BY DEF IInv, TypeOK, AccTypeOK
<1>2. SharedTypes
  <2>1. CASE Rebatch BY <2>1, RebatchTypes DEF IInv, SharedTypes
  <2>2. CASE SameLock BY <1>1, <2>2 DEF SameLock, SharedTypes
  <2> QED BY <2>1, <2>2 DEF LoopTick, ManualRun, PaperProbe, PaperRepair, SaveParams, StartLoop,
                            StopLoop, AskAcceptance
<1>3. UNCHANGED <<run, open, seen, acc, passed>>
  BY DEF KeepRuns, LoopTick, ManualRun, PaperProbe, PaperRepair, SaveParams, StartLoop, StopLoop,
         AskAcceptance
<1>4. mode' \in {"paper_top", "strict"} /\ liveOn' \in BOOLEAN
  BY <1>1 DEF KeepSettings, LoopTick, ManualRun, PaperProbe, PaperRepair, SaveParams, StartLoop,
              StopLoop, AskAcceptance
<1>5. enabled' \in BOOLEAN
  BY <1>1 DEF LoopTick, ManualRun, PaperProbe, PaperRepair, SaveParams, StartLoop, StopLoop,
              AskAcceptance, RequestAcceptance, GuardVerdicts
<1>6. queue' \in Seq(Requests)
  <2>1. ASSUME NEW who \in Callers, Ask(RunRequest(who)) PROVE queue' \in Seq(Requests)
    BY <2>1, RequestStep DEF RunRequest, Requests
  <2>2. CASE LoopTick \/ ManualRun \/ PaperProbe \/ PaperRepair
    <3>1. \/ UNCHANGED queue
          \/ \E who \in Callers : Ask(RunRequest(who))
      BY <2>2 DEF LoopTick, ManualRun, PaperProbe, PaperRepair, Callers
    <3> QED BY <1>1, <2>1, <3>1
  <2>3. CASE SaveParams \/ StartLoop \/ StopLoop
    BY <1>1, <2>3 DEF SaveParams, StartLoop, StopLoop
  <2>4. CASE AskAcceptance
    <3>1. PICK m \in AcceptanceModes, confirmed \in BOOLEAN :
            Ask([kind |-> "acceptance", mode |-> m, confirmed |-> confirmed, before |-> enabled])
      BY <2>4 DEF AskAcceptance
    <3> QED BY <1>1, <3>1, RequestStep DEF Requests
  <2> QED BY <2>2, <2>3, <2>4
<1> QED BY <1>2, <1>3, <1>4, <1>5, <1>6, CallerStep

LEMMA GrantKeepsInvariant ==
  ASSUME IInv, Grant PROVE IInv' /\ BookStep
<1>1. /\ run = None /\ acc = None /\ queue' = Tail(queue) /\ queue # <<>>
      /\ queue \in Seq(Requests) /\ TypeOK /\ AccTypeOK /\ IsFiniteSet(open)
  BY DEF Grant, LockFree, IInv
<1>2. queue' \in Seq(Requests) /\ Head(queue) \in Requests BY <1>1
<1>3. CASE Head(queue).kind = "run"
  <2>1. BeginRun(Head(queue).who) /\ UNCHANGED accVars BY <1>3 DEF Grant
  <2>2. Head(queue).who \in Callers
    <3>1. PICK req \in Requests : req = Head(queue) BY <1>2
    <3> QED BY <1>3, <3>1 DEF Requests, AcceptanceModes
  <2>3. <<>> \in Seq(Symbols) OBVIOUS
  <2>4. run' \in Runs /\ run'.pc = "scan"
    BY <2>1, <2>2, <2>3 DEF BeginRun, Runs, Awaits, Sources
  <2>5. UNCHANGED <<lock, cooled, open, seen, mode, liveOn, acc, passed, enabled>>
    BY <2>1 DEF BeginRun, KeepShared, KeepRest, accVars
  <2>6. (TypeOK /\ AccTypeOK /\ IsFiniteSet(open))' BY <1>1, <2>4, <2>5 DEF TypeOK, AccTypeOK
  <2>7. (AcceptanceAlone /\ RunRoom /\ RunCandidate /\ AccRoom /\ AccStage)'
    BY <1>1, <2>4, <2>5
      DEF AcceptanceAlone, RunRoom, RunCandidate, AccRoom, AccStage, Holding, Planned
  <2> QED BY <1>2, <2>5, <2>6, <2>7 DEF IInv, BookStep
<1>4. CASE Head(queue).kind # "run"
  <2>1. BeginAcceptance(Head(queue)) /\ KeepTrader BY <1>4 DEF Grant
  <2>2. PICK req \in Requests : req = Head(queue) BY <1>2
  <2>3. /\ req.mode \in AcceptanceModes /\ req.before \in BOOLEAN
    BY <1>4, <2>2 DEF Requests
  <2>4. \/ /\ acc' = None /\ enabled' \in BOOLEAN /\ passed' \in BOOLEAN
        \/ /\ acc' \in Accs /\ acc'.pc = "scan" /\ UNCHANGED <<passed, enabled>>
    <3>1. CASE Fail(req) BY <2>3, <3>1 DEF Fail, Leave
    <3>2. CASE ~Fail(req)
      <4>1. <<>> \in Seq(Symbols) /\ 0 \in Nat /\ 1 \in 1 .. ScanAttempts
        BY ScanAttemptsAssumption
      <4>2. /\ acc' = [pc |-> "scan", mode |-> req.mode, before |-> req.before, source |-> "strict",
                        todo |-> <<>>, tried |-> {}, turn |-> 1, slots |-> 0, item |-> None,
                        chosen |-> None, id |-> None, proof |-> TRUE]
            /\ UNCHANGED <<passed, enabled>>
        BY <2>1, <2>2, <3>2 DEF BeginAcceptance, KeepAccRest
      <4> QED BY <2>3, <4>1, <4>2 DEF Accs, AccAwaits
    <3> QED BY <3>1, <3>2
  <2>5. UNCHANGED <<run, lock, cooled, open, seen, mode, liveOn>> BY <2>1 DEF KeepTrader, traderVars
  <2>6. (TypeOK /\ AccTypeOK /\ IsFiniteSet(open))' BY <1>1, <2>4, <2>5 DEF TypeOK, AccTypeOK
  <2>7. (AcceptanceAlone /\ RunRoom /\ RunCandidate /\ AccRoom /\ AccStage)'
    BY <1>1, <2>4, <2>5 DEF AcceptanceAlone, RunRoom, RunCandidate, AccRoom, AccStage
  <2> QED BY <1>2, <2>5, <2>6, <2>7 DEF IInv, BookStep
<1> QED BY <1>3, <1>4

(* Any position of the book may leave it at any time. *)
LEMMA CloseKeepsInvariant ==
  ASSUME IInv, PositionCloses, UNCHANGED <<accVars, queue>> PROVE IInv' /\ BookStep
<1>1. PICK p \in open : open' = open \ {p} BY DEF PositionCloses
<1>2. UNCHANGED <<run, lock, cooled, seen, mode, liveOn, acc, passed, enabled, queue>>
  BY DEF PositionCloses, KeepRest, accVars
<1>3. /\ IsFiniteSet(open') /\ Cardinality(open') \in Nat /\ Cardinality(open) \in Nat
      /\ Cardinality(open') <= Cardinality(open) /\ open' \subseteq open
  <2>1. IsFiniteSet(open) BY DEF IInv
  <2>2. open' \subseteq open BY <1>1
  <2> QED BY <2>1, <2>2, FS_Subset, FS_CardinalityType
<1>4. BookStep
  <2>1. p \in Book!Entries BY <1>1 DEF IInv, TypeOK, Positions, Owners, Book!Entries
  <2> QED BY <1>1, <2>1 DEF BookStep, Book!Next, Book!Leave
<1>5. (TypeOK /\ AccTypeOK /\ queue \in Seq(Requests))'
  BY <1>2, <1>3 DEF IInv, TypeOK, AccTypeOK
<1>6. (AcceptanceAlone /\ RunRoom)'
  BY <1>2, <1>3, TraderAssumption DEF IInv, AcceptanceAlone, RunRoom
<1>7. (RunCandidate /\ AccStage)'
  BY <1>2, <1>3 DEF IInv, RunCandidate, OpenSymbols, AccStage
<1>8. AccRoom'
  BY <1>2, <1>3 DEF IInv, AccRoom, AccTypeOK, Accs
<1> QED BY <1>3, <1>4, <1>5, <1>6, <1>7, <1>8 DEF IInv

-----------------------------------------------------------------------------
LEMMA NextKeepsInvariant == IInv /\ [Next]_vars => IInv' /\ BookStep
<1> SUFFICES ASSUME IInv, [Next]_vars PROVE IInv' /\ BookStep OBVIOUS
<1>1. CASE RunStep /\ UNCHANGED <<accVars, queue>> BY <1>1, RunStepKeepsInvariant
<1>2. CASE AccStep /\ UNCHANGED queue BY <1>2, AccStepKeepsInvariant
<1>3. CASE Grant BY <1>3, GrantKeepsInvariant
<1>4. CASE Observe /\ UNCHANGED <<accVars, queue>>
  <2>1. SharedTypes BY <1>4, RebatchTypes DEF Observe, Rebatch, IInv, SharedTypes
  <2>2. UNCHANGED <<run, open, seen, mode, liveOn, acc, passed, enabled, queue>>
    BY <1>4 DEF Observe, KeepRest, accVars
  <2> QED BY <2>1, <2>2, CallerStep DEF IInv, TypeOK, AccTypeOK
<1>5. CASE PositionCloses /\ UNCHANGED <<accVars, queue>> BY <1>5, CloseKeepsInvariant
<1>6. CASE \/ LoopTick \/ ManualRun \/ PaperProbe \/ PaperRepair \/ SaveParams
           \/ StartLoop \/ StopLoop \/ AskAcceptance
  BY <1>6, CallersKeepInvariant
<1>7. CASE Restart
  <2>1. <<>> \in Seq(Requests) OBVIOUS
  <2>2. /\ run' = None /\ acc' = None /\ queue' = <<>> /\ lock' = None /\ cooled' = {}
        /\ seen' = {} /\ enabled' \in BOOLEAN /\ UNCHANGED <<open, mode, liveOn, passed>>
    BY <1>7 DEF Restart
  <2>3. (TypeOK /\ AccTypeOK /\ queue \in Seq(Requests) /\ IsFiniteSet(open))'
    BY <2>1, <2>2 DEF IInv, TypeOK, AccTypeOK
  <2>4. (AcceptanceAlone /\ RunRoom /\ RunCandidate /\ AccRoom /\ AccStage)'
    BY <2>2 DEF AcceptanceAlone, RunRoom, RunCandidate, AccRoom, AccStage
  <2> QED BY <2>2, <2>3, <2>4 DEF IInv, BookStep
<1>8. CASE UNCHANGED vars
  <2>1. UNCHANGED <<run, lock, cooled, open, seen, mode, liveOn, acc, passed, enabled, queue>>
    BY <1>8 DEF vars, traderVars, accVars
  <2> QED BY <2>1, CallerStep DEF IInv, TypeOK, AccTypeOK, SharedTypes
<1> QED BY <1>1, <1>2, <1>3, <1>4, <1>5, <1>6, <1>7, <1>8 DEF Next, Work

LEMMA InitHoldsInvariant == Init => IInv /\ Book!Init
<1> SUFFICES ASSUME Init PROVE IInv /\ Book!Init OBVIOUS
<1>1. /\ run = None /\ acc = None /\ queue = <<>> /\ open = {} /\ lock = None
      /\ cooled = {} /\ seen = {} /\ mode \in {"paper_top", "strict"} /\ liveOn \in BOOLEAN
      /\ passed = FALSE /\ enabled \in BOOLEAN
  BY DEF Init, TraderInit, AccInit
<1>2. <<>> \in Seq(Requests) /\ IsFiniteSet({}) BY FS_EmptySet
<1>3. TypeOK /\ AccTypeOK /\ queue \in Seq(Requests) /\ IsFiniteSet(open)
  BY <1>1, <1>2 DEF TypeOK, AccTypeOK
<1>4. AcceptanceAlone /\ RunRoom /\ RunCandidate /\ AccRoom /\ AccStage
  BY <1>1 DEF AcceptanceAlone, RunRoom, RunCandidate, AccRoom, AccStage
<1> QED BY <1>1, <1>3, <1>4 DEF IInv, Book!Init

(* The checks a run makes once, at its start, still hold minutes later,    *)
(* when it opens: only the holder of the global lock opens positions.      *)
THEOREM ChecksHoldLater == Spec => []IInv
BY InitHoldsInvariant, NextKeepsInvariant, PTL DEF Spec

(* global_lock: acceptance and trader runs exclude each other. *)
THEOREM AcceptanceIsAlone == Spec => []AcceptanceAlone
<1>1. IInv => AcceptanceAlone BY DEF IInv
<1> QED BY <1>1, ChecksHoldLater, PTL

(* The trading desk implements the abstract book: at most MaxOpen          *)
(* positions are opened, each by its own id, and the auto trader never     *)
(* doubles a symbol.                                                       *)
THEOREM DeskImplementsBook == Spec => BookSpec
<1>1. BookStep => [Book!Next]_open BY DEF BookStep
<1> QED BY <1>1, InitHoldsInvariant, NextKeepsInvariant, PTL DEF Spec, BookSpec, Book!Spec
-----------------------------------------------------------------------------
(* What a pass is of: an acceptance run that watches has a position, and   *)
(* its evidence counts only if its order was real.                         *)
WatchInv ==
  acc # None /\ acc.pc = "watch" =>
    acc.id # None /\ (acc.proof => acc.mode = "real_order")

Passing == passed' /\ ~passed
PassIsReal == Passing => acc.mode = "real_order" /\ acc.id # None /\ \A p \in open : p.id # acc.id

(* A step of the chain neither starts the watch nor passes. *)
Quiet == (acc' = None \/ acc'.pc # "watch") /\ ~Passing

LEMMA FailQuiet == ASSUME NEW a, Fail(a) PROVE Quiet
BY DEF Fail, Leave, Passing, Quiet

LEMMA BecomesQuiet ==
  ASSUME NEW a, "pc" \in DOMAIN a, NEW pc, pc # "watch", AccBecomes(a, pc) PROVE Quiet
BY DEF AccBecomes, KeepAccRest, Passing, Quiet

LEMMA RankQuiet ==
  ASSUME NEW a, "pc" \in DOMAIN a, NEW pc, pc # "watch", Rank(a, pc) PROVE Quiet
<1>1. PICK q \in Orders(Symbols) : AccBecomes([a EXCEPT !.todo = q], pc) BY DEF Rank
<1>2. PICK b : b = [a EXCEPT !.todo = q] OBVIOUS
<1>3. "pc" \in DOMAIN b /\ AccBecomes(b, pc) BY <1>1, <1>2
<1> QED BY <1>3, BecomesQuiet

LEMMA SelectedQuiet ==
  ASSUME acc \in Accs, NEW src, NEW q, Selected(src, q) PROVE Quiet
<1>1. PICK b : b = [acc EXCEPT !.source = src, !.todo = q, !.tried = Elements(q)] OBVIOUS
<1>2. "pc" \in DOMAIN b /\ AccBecomes(b, "fresh") BY <1>1 DEF Selected, Accs
<1> QED BY <1>2, BecomesQuiet

LEMMA NothingQuiet ==
  ASSUME NEW a, "pc" \in DOMAIN a, NothingSelected(a) \/ NextTurn(a) PROVE Quiet
BY FailQuiet, BecomesQuiet DEF NothingSelected, NextTurn

LEMMA TurnQuiet == ASSUME NEW a, "pc" \in DOMAIN a, Turn(a) PROVE Quiet
BY RankQuiet, NothingQuiet DEF Turn

LEMMA NextOfQuiet == ASSUME NEW a, "pc" \in DOMAIN a, NextOf(a) PROVE Quiet
<1>1. CASE AccBecomes(a, "fresh") BY <1>1, BecomesQuiet
<1>2. CASE Fail(a) BY <1>2, FailQuiet
<1>3. ASSUME NEW q, AccBecomes([a EXCEPT !.todo = q], "fallback") PROVE Quiet
  <2>1. PICK b : b = [a EXCEPT !.todo = q] OBVIOUS
  <2>2. "pc" \in DOMAIN b /\ AccBecomes(b, "fallback") BY <1>3, <2>1
  <2> QED BY <2>2, BecomesQuiet
<1> QED BY <1>1, <1>2, <1>3 DEF NextOf, ChainEnds

LEMMA VerdictQuiet == ASSUME NEW a, "pc" \in DOMAIN a, RiskVerdict(a) PROVE Quiet
BY NextOfQuiet, BecomesQuiet, FailQuiet DEF RiskVerdict

LEMMA AccStepPasses ==
  ASSUME IInv, WatchInv, AccStep PROVE WatchInv' /\ PassIsReal
<1>1. acc # None BY DEF AccStep, AccAt, AccScanFails, AccScanned, AccRanked, AccGeometryRanked,
        AccRescanned, ShadowDone, FreshRejected, FreshAccepted, SampleRejected, SampleAccepted,
        PlanRejected, PlanAccepted, AccountArrives, FallbackRanked, AccOpened, AccDone, AccRaises
<1>2. acc \in Accs BY <1>1 DEF IInv, AccTypeOK
<1>3. "pc" \in DOMAIN acc BY <1>2 DEF Accs
<1>4. ASSUME Quiet PROVE WatchInv' /\ PassIsReal BY <1>4 DEF Quiet, WatchInv, PassIsReal
<1>5. CASE AccScanFails \/ ShadowDone
  BY <1>4, <1>5, FailQuiet DEF AccScanFails, ShadowDone
<1>6. CASE AccScanned
  <2>1. PICK proof \in BOOLEAN : Turn([acc EXCEPT !.slots = Cardinality(open), !.proof = proof])
    BY <1>6 DEF AccScanned
  <2>2. PICK a : a = [acc EXCEPT !.slots = Cardinality(open), !.proof = proof] OBVIOUS
  <2>3. "pc" \in DOMAIN a /\ Turn(a) BY <1>3, <2>1, <2>2
  <2> QED BY <1>4, <2>3, TurnQuiet
<1>7. CASE AccRanked
  BY <1>2, <1>3, <1>4, <1>7, SelectedQuiet, NothingQuiet, RankQuiet DEF AccRanked
<1>8. CASE AccGeometryRanked
  BY <1>2, <1>3, <1>4, <1>8, SelectedQuiet, NothingQuiet DEF AccGeometryRanked
<1>9. CASE AccRescanned
  <2>1. PICK a : a = [acc EXCEPT !.turn = @ + 1] OBVIOUS
  <2>2. "pc" \in DOMAIN a BY <1>3, <2>1
  <2>3. Turn(a) \/ NothingSelected(acc) BY <1>9, <2>1 DEF AccRescanned
  <2> QED BY <1>3, <1>4, <2>2, <2>3, TurnQuiet, NothingQuiet
<1>10. CASE FreshRejected
  <2>1. PICK a : a = [acc EXCEPT !.todo = Tail(@)] OBVIOUS
  <2>2. "pc" \in DOMAIN a /\ NextOf(a) BY <1>3, <1>10, <2>1 DEF FreshRejected
  <2> QED BY <1>4, <2>2, NextOfQuiet
<1>11. CASE FreshAccepted
  <2>1. PICK a : a = [acc EXCEPT !.item = Head(acc.todo), !.todo = Tail(@)] OBVIOUS
  <2>2. "pc" \in DOMAIN a /\ AccBecomes(a, "sample") BY <1>3, <1>11, <2>1 DEF FreshAccepted
  <2> QED BY <1>4, <2>2, BecomesQuiet
<1>12. CASE SampleRejected \/ SampleAccepted \/ PlanRejected
  BY <1>3, <1>4, <1>12, NextOfQuiet, BecomesQuiet DEF SampleRejected, SampleAccepted, PlanRejected
<1>13. CASE PlanAccepted
  <2>1. PICK a : a = [acc EXCEPT !.chosen = acc.item] OBVIOUS
  <2>2. "pc" \in DOMAIN a /\ (AccBecomes(a, "account") \/ RiskVerdict(a))
    BY <1>3, <1>13, <2>1 DEF PlanAccepted
  <2> QED BY <1>4, <2>2, BecomesQuiet, VerdictQuiet
<1>14. CASE AccountArrives BY <1>3, <1>4, <1>14, VerdictQuiet DEF AccountArrives
<1>15. CASE FallbackRanked
  <2>1. PICK q \in Supported \cup {<<>>} :
          NextOf([acc EXCEPT !.source = "strict_geometry", !.todo = q])
    BY <1>15 DEF FallbackRanked
  <2>2. PICK a : a = [acc EXCEPT !.source = "strict_geometry", !.todo = q] OBVIOUS
  <2>3. "pc" \in DOMAIN a /\ NextOf(a) BY <1>3, <2>1, <2>2
  <2> QED BY <1>4, <2>3, NextOfQuiet
<1>16. CASE AccOpened
  <2>1. PICK id \in FreshId, proof \in {FALSE, acc.proof} :
          AccBecomes([acc EXCEPT !.id = id, !.proof = proof /\ acc.mode = "real_order"], "watch")
    BY <1>16 DEF AccOpened
  <2>2. /\ acc'.id = id /\ acc'.proof = (proof /\ acc.mode = "real_order")
        /\ acc'.mode = acc.mode /\ passed' = passed
    BY <1>2, <2>1 DEF AccBecomes, KeepAccRest, Accs
  <2>3. id # None BY TraderAssumption DEF FreshId
  <2> QED BY <2>2, <2>3 DEF WatchInv, PassIsReal, Passing
<1>17. CASE AccDone
  <2>1. acc.pc = "watch" /\ acc' = None /\ (passed' => acc.proof /\ Closed(acc.id))
    BY <1>17 DEF AccDone, AccAt, Leave
  <2> QED BY <1>1, <2>1 DEF WatchInv, PassIsReal, Passing, Closed
<1>18. CASE AccRaises BY <1>4, <1>18 DEF AccRaises, Leave, Passing, Quiet
<1> QED BY <1>5, <1>6, <1>7, <1>8, <1>9, <1>10, <1>11, <1>12, <1>13, <1>14, <1>15, <1>16, <1>17,
           <1>18 DEF AccStep

LEMMA StepPasses ==
  ASSUME IInv, WatchInv, [Next]_vars PROVE WatchInv' /\ PassIsReal
<1>1. CASE UNCHANGED <<acc, passed>> BY <1>1 DEF WatchInv, PassIsReal, Passing
<1>2. CASE AccStep BY <1>2, AccStepPasses
<1>3. CASE Grant
  <2>1. CASE UNCHANGED accVars BY <1>1, <2>1 DEF accVars
  <2>2. CASE BeginAcceptance(Head(queue))
    <3>1. CASE Fail(Head(queue)) BY <3>1, FailQuiet DEF Quiet, WatchInv, PassIsReal
    <3>2. CASE acc'.pc = "scan" /\ UNCHANGED passed BY <3>2 DEF WatchInv, PassIsReal, Passing
    <3> QED BY <2>2, <3>1, <3>2 DEF BeginAcceptance, KeepAccRest
  <2> QED BY <1>3, <2>1, <2>2 DEF Grant
<1>4. CASE Restart BY <1>4 DEF Restart, WatchInv, PassIsReal, Passing
<1>5. CASE \/ LoopTick \/ ManualRun \/ PaperProbe \/ PaperRepair \/ SaveParams
           \/ StartLoop \/ StopLoop \/ AskAcceptance
  <2>1. UNCHANGED <<acc, passed>>
    BY <1>5 DEF KeepRuns, LoopTick, ManualRun, PaperProbe, PaperRepair, SaveParams, StartLoop,
                StopLoop, AskAcceptance
  <2> QED BY <1>1, <2>1
<1>6. CASE UNCHANGED accVars BY <1>1, <1>6 DEF accVars
<1>7. CASE UNCHANGED vars BY <1>1, <1>7 DEF vars, accVars
<1> QED BY <1>2, <1>3, <1>4, <1>5, <1>6, <1>7 DEF Next, Work

(* "A production pass requires a real exchange order response and a        *)
(* closed-position learning record": a stored pass is of a real order, and *)
(* its position has left the registry, for every queue and every restart.  *)
THEOREM PassesAreOfClosedOrders == Spec => PassMeansClosed
<1>1. Init => WatchInv BY DEF Init, AccInit, WatchInv
<1>2. IInv /\ WatchInv /\ [Next]_vars => WatchInv' BY StepPasses
<1>3. IInv /\ WatchInv /\ [Next]_vars
        => [passed' /\ ~passed => acc.mode = "real_order" /\ acc.id # None
                                  /\ \A p \in open : p.id # acc.id]_vars
  BY StepPasses DEF PassIsReal, Passing
<1> QED BY <1>1, <1>2, <1>3, ChecksHoldLater, PTL DEF Spec, PassMeansClosed

-----------------------------------------------------------------------------
(* Live trading is only switched off by a running process; a probe is only *)
(* asked for while it is off.                                              *)
ProbeInv ==
  /\ \A i \in DOMAIN queue : queue[i].kind = "run" /\ queue[i].who = "probe" => ~liveOn
  /\ run # None /\ run.who = "probe" => ~liveOn /\ run.pc # "opening"

(* A run keeps its caller, and sends an order only with live trading on.   *)
SameRun == run' = None \/ (run'.who = run.who /\ (run'.pc = "opening" => liveOn))

LEMMA GotoSame ==
  ASSUME run \in Runs, NEW pc, Goto(pc), pc = "opening" => liveOn PROVE SameRun
BY DEF Goto, Runs, SameRun

LEMMA RetrySame ==
  ASSUME run \in Runs, NEW lk, NEW cd, Retry(lk, cd) \/ AppendRetry(lk, cd) PROVE SameRun
<1>1. ASSUME NEW l, NEW c, Retry(l, c) PROVE SameRun
  <2>1. CASE Goto("next") BY <2>1, GotoSame
  <2>2. CASE \E n, m : run' = [run EXCEPT !.pc = "retry", !.next = n, !.moved = m]
    BY <2>2 DEF Runs, SameRun
  <2> QED BY <1>1, <2>1, <2>2 DEF Retry
<1>2. CASE Goto("next") BY <1>2, GotoSame
<1> QED BY <1>1, <1>2 DEF AppendRetry

LEMMA RunStepSame ==
  ASSUME run \in Runs, RunStep PROVE SameRun /\ UNCHANGED liveOn
<1>1. UNCHANGED liveOn
  BY DEF RunStep, KeepRest, RunRefused, ChooseBatch, GeometrySampled, AccountRead,
        NoMoreCandidates, Attempt, RetryBatchOrdered, Skip, StaleBeforeAi, FreshBeforeAi, AiWaits,
        AiOpens, StaleAfterAi, SideDrifted, RedoWaits, PlanUsable, RiskRejects, OpenPaper,
        LiveGuardBlocks, BeginLiveEntry, LiveEntryDone, RunRaises
<1> SUFFICES SameRun BY <1>1
<1>2. CASE RunRefused \/ NoMoreCandidates \/ RunRaises \/ OpenPaper \/ LiveEntryDone
  BY <1>2 DEF RunRefused, NoMoreCandidates, RunRaises, OpenPaper, LiveEntryDone, EndRun, SameRun
<1>3. CASE ChooseBatch
  <2>1. \/ run' = None
        \/ \E s, q, m : run' = [run EXCEPT !.pc = "order", !.source = s, !.todo = q, !.moved = m]
    <3>1. PICK b \in Batches(lock, cooled) :
            \/ run' = None
            \/ \E o \in Ordered(b) :
                 run' = [run EXCEPT !.pc = "order", !.source = b.source,
                                    !.todo = o.todo, !.moved = o.moved]
      BY <1>3 DEF ChooseBatch, EndRun
    <3> QED BY <3>1
  <2> QED BY <2>1 DEF Runs, SameRun
<1>4. CASE GeometrySampled BY <1>4, GotoSame DEF GeometrySampled
<1>5. CASE AccountRead
  <2>1. \/ \E q : run' = [run EXCEPT !.pc = "next", !.live = liveOn, !.todo = q]
        \/ \E q : run' = [run EXCEPT !.pc = "next", !.live = liveOn, !.todo = q,
                                     !.source = "probe"]
    BY <1>5, Zenon DEF AccountRead
  <2> QED BY <2>1 DEF Runs, SameRun
<1>6. CASE Attempt
  <2>1. PICK pc \in {"preai", "next"} :
          run' = [run EXCEPT !.pc = pc, !.todo = Tail(run.todo), !.item = Head(run.todo),
                             !.tried = run.tried \cup {Head(run.todo)}]
    BY <1>6 DEF Attempt
  <2> QED BY <2>1 DEF Runs, SameRun
<1>7. CASE RetryBatchOrdered
  <2>1. \E q : run' = [run EXCEPT !.pc = "next", !.next = <<>>, !.moved = FALSE, !.todo = q]
    BY <1>7 DEF RetryBatchOrdered
  <2> QED BY <2>1 DEF Runs, SameRun
<1>8. CASE Skip("preai") \/ Skip("generate") \/ Skip("postai") \/ Skip("redo") \/ Skip("quote")
           \/ FreshBeforeAi \/ SideDrifted \/ LiveGuardBlocks \/ RedoWaits
           \/ PlanUsable("postai") \/ PlanUsable("redopost")
           \/ StaleAfterAi("postai") \/ StaleAfterAi("redopost")
  <2>1. \E pc \in {"next", "generate", "redo", "quote"} : Goto(pc)
    BY <1>8 DEF Skip, FreshBeforeAi, SideDrifted, LiveGuardBlocks, RedoWaits, PlanUsable,
                StaleAfterAi
  <2> QED BY <2>1, GotoSame
<1>9. CASE BeginLiveEntry
  BY <1>9, GotoSame DEF BeginLiveEntry, LiveEntryAllowed
<1>10. CASE StaleBeforeAi \/ AiWaits \/ RiskRejects
  BY <1>10, RetrySame DEF StaleBeforeAi, AiWaits, RiskRejects
<1>11. CASE AiOpens("generate", "postai") \/ AiOpens("redo", "redopost")
  <2>1. \E pc \in {"postai", "redopost"} : \E p : run' = [run EXCEPT !.pc = pc, !.plan = p]
    BY <1>11 DEF AiOpens
  <2> QED BY <2>1 DEF Runs, SameRun
<1> QED BY <1>1, <1>2, <1>3, <1>4, <1>5, <1>6, <1>7, <1>8, <1>9, <1>10, <1>11 DEF RunStep

LEMMA ProbeStep ==
  ASSUME IInv, ProbeInv, [Next]_vars PROVE ProbeInv'
<1>1. queue \in Seq(Requests) /\ liveOn \in BOOLEAN /\ run \in Runs \cup {None}
  BY DEF IInv, TypeOK
<1>2. ASSUME UNCHANGED run, liveOn' => liveOn, queue' = queue PROVE ProbeInv'
  BY <1>2 DEF ProbeInv
<1>3. ASSUME UNCHANGED run, liveOn' => liveOn, NEW r \in Requests, Ask(r),
             r.kind = "run" /\ r.who = "probe" => ~liveOn
      PROVE  ProbeInv'
  <2>1. /\ DOMAIN queue' = 1 .. Len(queue) + 1 /\ DOMAIN queue = 1 .. Len(queue)
        /\ \A i \in 1 .. Len(queue) + 1 : queue'[i] = IF i \in 1 .. Len(queue) THEN queue[i] ELSE r
    BY <1>1, <1>3 DEF Ask
  <2> QED BY <1>3, <2>1 DEF ProbeInv
<1>4. CASE RunStep /\ UNCHANGED <<accVars, queue>>
  <2>1. run \in Runs
    BY <1>1, <1>4 DEF RunStep, RunAt, RunRefused, ChooseBatch, GeometrySampled, AccountRead,
        NoMoreCandidates, Attempt, RetryBatchOrdered, Skip, StaleBeforeAi, FreshBeforeAi, AiWaits,
        AiOpens, StaleAfterAi, SideDrifted, RedoWaits, PlanUsable, RiskRejects, OpenPaper,
        LiveGuardBlocks, BeginLiveEntry, LiveEntryDone, RunRaises
  <2>2. run # None
    BY <1>4 DEF RunStep, RunAt, RunRefused, ChooseBatch, GeometrySampled, AccountRead,
        NoMoreCandidates, Attempt, RetryBatchOrdered, Skip, StaleBeforeAi, FreshBeforeAi, AiWaits,
        AiOpens, StaleAfterAi, SideDrifted, RedoWaits, PlanUsable, RiskRejects, OpenPaper,
        LiveGuardBlocks, BeginLiveEntry, LiveEntryDone, RunRaises
  <2>3. SameRun /\ UNCHANGED liveOn BY <1>4, <2>1, RunStepSame
  <2>4. UNCHANGED queue BY <1>4
  <2>5. (\A i \in DOMAIN queue : queue[i].kind = "run" /\ queue[i].who = "probe" => ~liveOn)'
    BY <2>3, <2>4 DEF ProbeInv
  <2>6. (run # None /\ run.who = "probe" => ~liveOn /\ run.pc # "opening")'
    BY <2>2, <2>3 DEF ProbeInv, SameRun
  <2> QED BY <2>5, <2>6 DEF ProbeInv
<1>5. CASE AccStep /\ UNCHANGED queue
  <2>1. UNCHANGED <<run, liveOn>>
    BY <1>5 DEF KeepTrader, KeepBook, traderVars, AccStep, AccScanFails, AccScanned, AccRanked,
        AccGeometryRanked, AccRescanned, ShadowDone, FreshRejected, FreshAccepted, SampleRejected,
        SampleAccepted, PlanRejected, PlanAccepted, AccountArrives, FallbackRanked, AccOpened,
        AccDone, AccRaises
  <2> QED BY <1>2, <1>5, <2>1
<1>6. CASE Grant
  <2>1. queue' = Tail(queue) /\ queue # <<>> /\ UNCHANGED liveOn
    BY <1>6 DEF Grant, BeginRun, KeepRest, KeepTrader, traderVars
  <2>2. /\ \A i \in DOMAIN queue' : i + 1 \in DOMAIN queue /\ queue'[i] = queue[i + 1]
        /\ Head(queue) = queue[1] /\ 1 \in DOMAIN queue
    BY <1>1, <2>1, HeadTailProperties
  <2>3. (\A i \in DOMAIN queue : queue[i].kind = "run" /\ queue[i].who = "probe" => ~liveOn)'
    BY <2>1, <2>2 DEF ProbeInv
  <2>4. CASE Head(queue).kind = "run"
    <3>1. run'.who = Head(queue).who /\ run'.pc = "scan" BY <1>6, <2>4 DEF Grant, BeginRun
    <3> QED BY <2>1, <2>2, <2>3, <2>4, <3>1 DEF ProbeInv
  <2>5. CASE Head(queue).kind # "run"
    <3>1. UNCHANGED run BY <1>6, <2>5 DEF Grant, KeepTrader, traderVars
    <3> QED BY <2>1, <2>3, <3>1 DEF ProbeInv
  <2> QED BY <2>4, <2>5
<1>7. CASE (Observe \/ PositionCloses) /\ UNCHANGED <<accVars, queue>>
  BY <1>2, <1>7 DEF Observe, PositionCloses, KeepRest
<1>8. CASE LoopTick \/ ManualRun \/ PaperRepair
  <2>1. PICK who \in {"loop", "manual", "repair"} : Ask(RunRequest(who)) \/ UNCHANGED queue
    BY <1>8 DEF LoopTick, ManualRun, PaperRepair
  <2>2. UNCHANGED run /\ (liveOn' => liveOn)
    BY <1>8 DEF LoopTick, ManualRun, PaperRepair, KeepRuns, KeepSettings
  <2>3. PICK r : r = RunRequest(who) OBVIOUS
  <2>4. r \in Requests /\ r.who # "probe" BY <2>3 DEF RunRequest, Requests, Callers
  <2> QED BY <1>2, <1>3, <2>1, <2>2, <2>3, <2>4
<1>9. CASE PaperProbe
  <2>1. ~liveOn /\ Ask(RunRequest("probe")) /\ UNCHANGED <<run, liveOn>>
    BY <1>9 DEF PaperProbe, ProbeRefused, KeepRuns, KeepSettings
  <2>2. PICK r : r = RunRequest("probe") OBVIOUS
  <2>3. r \in Requests BY <2>2 DEF RunRequest, Requests, Callers
  <2> QED BY <1>3, <2>1, <2>2, <2>3
<1>10. CASE AskAcceptance
  <2>1. PICK m \in AcceptanceModes, confirmed \in BOOLEAN :
          Ask([kind |-> "acceptance", mode |-> m, confirmed |-> confirmed, before |-> enabled])
    BY <1>10 DEF AskAcceptance
  <2>2. PICK r : r = [kind |-> "acceptance", mode |-> m, confirmed |-> confirmed,
                      before |-> enabled]
    OBVIOUS
  <2>3. r \in Requests /\ r.kind # "run" BY <2>1, <2>2 DEF Requests, IInv, AccTypeOK
  <2>4. UNCHANGED <<run, liveOn>> BY <1>10 DEF AskAcceptance, KeepSettings
  <2> QED BY <1>3, <2>1, <2>2, <2>3, <2>4
<1>11. CASE SaveParams \/ StartLoop \/ StopLoop
  BY <1>2, <1>11 DEF SaveParams, StartLoop, StopLoop, KeepRuns, KeepSettings
<1>12. CASE Restart BY <1>12 DEF Restart, ProbeInv
<1>13. CASE UNCHANGED vars BY <1>2, <1>13 DEF vars, traderVars
<1> QED BY <1>4, <1>5, <1>6, <1>7, <1>8, <1>9, <1>10, <1>11, <1>12, <1>13 DEF Next, Work

(* paper_probe_forces_no_live_orders: however long a probe waits for the   *)
(* lock and whatever is switched meanwhile, its run never sends an order.  *)
THEOREM ProbesStayOnPaper == Spec => []ProbeNeverLive
<1>1. Init => ProbeInv BY DEF Init, TraderInit, ProbeInv
<1>2. IInv /\ ProbeInv /\ [Next]_vars => ProbeInv' BY ProbeStep
<1>3. ProbeInv => ProbeNeverLive BY DEF ProbeInv, ProbeNeverLive
<1> QED BY <1>1, <1>2, <1>3, ChecksHoldLater, PTL DEF Spec
-----------------------------------------------------------------------------
(* Retries.  A run over paper_top candidates holds at most one of them at  *)
(* a time, and asks for another only while attempts are left.              *)
Pending(r) == r.pc \in {"order", "account", "retry"} \/ (r.pc = "next" /\ r.todo # <<>>)

Tame(r) ==
  /\ r.pc = "scan" => r.tried = {}
  /\ r.source = "paper_top" =>
       /\ IsFiniteSet(r.tried) /\ Cardinality(r.tried) <= MaxAttempts
       /\ Len(r.todo) <= 1
       /\ Pending(r) => Cardinality(r.tried) < MaxAttempts
       /\ r.pc = "retry" => Len(r.next) = 1
       /\ r.pc \in Holding \cup {"retry"} => r.todo = <<>>

(* The candidate that takes the lock when its samples are in. *)
Free(r, cd) ==
  /\ r.pc = "order" /\ r.moved => r.todo[1] \notin cd
  /\ r.pc = "retry" /\ r.moved => r.next[1] \notin cd

RetryInv == LockNotCooled /\ (run # None => Tame(run) /\ Free(run, cooled))

LEMMA BatchLaw ==
  ASSUME NEW lk \in Symbols \cup {None}, NEW cd \in SUBSET Symbols, lk \notin cd,
         NEW b \in Batches(lk, cd)
  PROVE  /\ b.lock \notin b.cooled /\ b.cooled \subseteq cd
         /\ b.source = "paper_top" => Len(b.todo) <= 1
<1>1. ASSUME NEW l \in {lk, None}, NEW left \in SUBSET cd, b \in ProbeBatches(l, left)
      PROVE  b.lock = l /\ b.cooled = left /\ b.source = "probe"
  <2>1. PICK q \in Orders(Symbols) : b = Batch(l, left, "probe", q)
    BY <1>1 DEF ProbeBatches
  <2> QED BY <2>1 DEF Batch
<1>2. None \notin cd BY TraderAssumption
<1>3. CASE mode = "paper_top"
  <2>1. PICK left \in SUBSET cd : b \in PaperTopBatches(lk, left)
    BY <1>3 DEF Batches
  <2>2. CASE b \in {Batch(l, left, "paper_top", <<l>>) : l \in Locks(lk, left)}
    <3>1. PICK l \in Locks(lk, left) : b = Batch(l, left, "paper_top", <<l>>) BY <2>2
    <3>2. l \notin left BY DEF Locks, Stable
    <3>3. b.lock = l /\ b.cooled = left /\ b.todo = <<l>> BY <3>1 DEF Batch
    <3> QED BY <3>2, <3>3
  <2>3. CASE b \in ProbeBatches(None, left) BY <1>1, <1>2, <2>3
  <2>4. CASE b = Batch(None, left, "paper_top", <<>>) BY <1>2, <2>4 DEF Batch
  <2> QED BY <2>1, <2>2, <2>3, <2>4 DEF PaperTopBatches
<1>4. CASE mode # "paper_top"
  <2>1. b \in StrictBatches(lk, cd) BY <1>4 DEF Batches
  <2>2. CASE b \in {Batch(lk, cd, src, q) : src \in StrictSources, q \in Orders(Symbols)}
    <3>1. PICK src \in StrictSources, q \in Orders(Symbols) : b = Batch(lk, cd, src, q) BY <2>2
    <3> QED BY <3>1 DEF Batch, StrictSources
  <2>3. CASE b \in ProbeBatches(lk, cd) BY <1>1, <2>3
  <2>4. CASE b = Batch(lk, cd, "strict", <<>>) BY <2>4 DEF Batch
  <2> QED BY <2>1, <2>2, <2>3, <2>4 DEF StrictBatches
<1> QED BY <1>3, <1>4

LEMMA OrderLaw ==
  ASSUME NEW b, b.todo # <<>>, b.todo \in Seq(Symbols), NEW o \in Ordered(b)
  PROVE  /\ b.source = "paper_top" /\ Len(b.todo) <= 1 => Len(o.todo) = 1
         /\ o.moved => o.todo[1] \notin b.cooled
<1>1. \/ o = [todo |-> b.todo, moved |-> FALSE]
      \/ \E s \in Symbols \ b.cooled : o = [todo |-> <<s>>, moved |-> s # b.todo[1]]
      \/ b.source # "paper_top" /\ \E q : o = [todo |-> q, moved |-> FALSE]
  BY Zenon DEF Ordered
<1>2. CASE o = [todo |-> b.todo, moved |-> FALSE]
  <2>1. Len(b.todo) \in Nat \ {0} BY EmptySeq
  <2>2. o.todo = b.todo /\ o.moved = FALSE BY <1>2
  <2>3. PICK n \in Nat \ {0} : n = Len(b.todo) BY <2>1
  <2>4. n <= 1 => n = 1 OBVIOUS
  <2> QED BY <2>2, <2>3, <2>4
<1>3. CASE \E s \in Symbols \ b.cooled : o = [todo |-> <<s>>, moved |-> s # b.todo[1]]
  <2>1. PICK s \in Symbols \ b.cooled : o = [todo |-> <<s>>, moved |-> s # b.todo[1]] BY <1>3
  <2>2. o.todo = <<s>> BY <2>1
  <2> QED BY <2>2
<1>4. CASE b.source # "paper_top" /\ \E q : o = [todo |-> q, moved |-> FALSE] BY <1>4
<1> QED BY <1>1, <1>2, <1>3, <1>4

(* On to the next candidate, or a step further with this one. *)
LEMMA GotoTame ==
  ASSUME run \in Runs, run # None, Tame(run), run.pc \in Holding, NEW pc, Goto(pc),
         pc \notin {"scan", "order", "account", "retry"}
  PROVE  Tame(run') /\ \A cd : Free(run', cd)
<1>1. /\ run'.pc = pc /\ run'.tried = run.tried /\ run'.todo = run.todo
      /\ run'.source = run.source
  BY DEF Goto, Runs
<1> QED BY <1>1 DEF Tame, Free, Pending

RetryStays == lock' \notin cooled' /\ (run' # None => Tame(run') /\ Free(run', cooled'))

LEMMA RetryTame ==
  ASSUME run \in Runs, run # None, Tame(run), run.pc \in Holding,
         NEW lk \in Symbols \cup {None}, NEW cd \in SUBSET Symbols, lk \notin cd, Retry(lk, cd)
  PROVE  RetryStays
<1>1. CASE ~RetryLeft
  <2>1. lock' = lk /\ cooled' = cd /\ Goto("next") BY <1>1 DEF Retry
  <2> QED BY <2>1, GotoTame DEF RetryStays
<1>2. CASE RetryLeft
  <2>1. PICK b \in Batches(lk, cd) :
          /\ lock' = b.lock /\ cooled' = b.cooled
          /\ \/ Goto("next")
             \/ /\ b.source = run.source /\ b.todo # <<>>
                /\ \E o \in Ordered(b) :
                     run' = [run EXCEPT !.pc = "retry", !.next = o.todo, !.moved = o.moved]
    BY <1>2 DEF Retry
  <2>2. /\ lock' \notin cooled' /\ b.todo \in Seq(Symbols)
        /\ b.source = "paper_top" => Len(b.todo) <= 1
    BY <2>1, BatchLaw, BatchTypes
  <2>3. CASE Goto("next") BY <2>2, <2>3, GotoTame DEF RetryStays
  <2>4. CASE ~Goto("next")
    <3>1. PICK o \in Ordered(b) :
            run' = [run EXCEPT !.pc = "retry", !.next = o.todo, !.moved = o.moved]
      BY <2>1, <2>4
    <3>2. b.source = "paper_top" /\ b.todo # <<>> BY <1>2, <2>1, <2>4 DEF RetryLeft
    <3>3. Len(o.todo) = 1 /\ (o.moved => o.todo[1] \notin b.cooled)
      BY <2>2, <3>2, OrderLaw
    <3>4. /\ run'.pc = "retry" /\ run'.next = o.todo /\ run'.moved = o.moved
          /\ run'.tried = run.tried /\ run'.todo = run.todo /\ run'.source = run.source
      BY <3>1 DEF Runs
    <3>5. run.source = "paper_top" /\ Cardinality(run.tried) < MaxAttempts
      BY <1>2 DEF RetryLeft
    <3> QED BY <2>1, <2>2, <3>3, <3>4, <3>5 DEF RetryStays, Tame, Free, Pending
  <2> QED BY <2>3, <2>4
<1> QED BY <1>1, <1>2

LEMMA AppendRetryTame ==
  ASSUME run \in Runs, run # None, Tame(run), run.pc \in Holding, run.item \in Symbols,
         NEW lk \in Symbols \cup {None}, NEW cd \in SUBSET Symbols, lk \notin cd,
         AppendRetry(lk, cd)
  PROVE  RetryStays
<1>1. CASE RetryLeft
  <2>1. Retry(Released(lk, run.item), cd \cup {run.item}) BY <1>1 DEF AppendRetry
  <2>2. /\ Released(lk, run.item) \in Symbols \cup {None}
        /\ Released(lk, run.item) \notin cd \cup {run.item}
    BY TraderAssumption DEF Released
  <2> QED BY <2>1, <2>2, RetryTame
<1>2. CASE ~RetryLeft
  BY <1>2, GotoTame DEF AppendRetry, RetryStays
<1> QED BY <1>1, <1>2

LEMMA RunStepTame ==
  ASSUME IInv, RetryInv, RunStep PROVE RetryInv'
<1>1. run # None
  BY DEF RunStep, RunAt, RunRefused, ChooseBatch, GeometrySampled, AccountRead,
        NoMoreCandidates, Attempt, RetryBatchOrdered, Skip, StaleBeforeAi, FreshBeforeAi, AiWaits,
        AiOpens, StaleAfterAi, SideDrifted, RedoWaits, PlanUsable, RiskRejects, OpenPaper,
        LiveGuardBlocks, BeginLiveEntry, LiveEntryDone, RunRaises
<1>2. /\ run \in Runs /\ lock \in Symbols \cup {None} /\ cooled \in SUBSET Symbols
      /\ lock \notin cooled /\ Tame(run) /\ Free(run, cooled)
  BY <1>1 DEF IInv, TypeOK, RetryInv, LockNotCooled
<1>3. run.pc \in Holding => run.item \in Symbols BY <1>1 DEF IInv, RunCandidate
<1> SUFFICES RetryStays BY DEF RetryStays, RetryInv, LockNotCooled
<1>4. ASSUME KeepShared, run' # None => Tame(run') /\ Free(run', cooled) PROVE RetryStays
  BY <1>2, <1>4 DEF KeepShared, RetryStays
<1>5. CASE RunRefused \/ NoMoreCandidates \/ RunRaises \/ OpenPaper \/ LiveEntryDone
  BY <1>2, <1>5 DEF RunRefused, NoMoreCandidates, RunRaises, OpenPaper, LiveEntryDone, EndRun,
                    KeepShared, RetryStays
<1>6. CASE ChooseBatch
  <2>1. PICK b \in Batches(lock, cooled) :
          /\ lock' = b.lock /\ cooled' = b.cooled
          /\ \/ run' = None
             \/ \E o \in Ordered(b) :
                  /\ b.todo # <<>>
                  /\ run' = [run EXCEPT !.pc = "order", !.source = b.source,
                                        !.todo = o.todo, !.moved = o.moved]
    BY <1>6 DEF ChooseBatch, EndRun
  <2>2. /\ lock' \notin cooled' /\ b.todo \in Seq(Symbols)
        /\ b.source = "paper_top" => Len(b.todo) <= 1
    BY <1>2, <2>1, BatchLaw, BatchTypes
  <2>3. CASE run' = None BY <2>2, <2>3 DEF RetryStays
  <2>4. CASE run' # None
    <3>1. PICK o \in Ordered(b) :
            /\ b.todo # <<>>
            /\ run' = [run EXCEPT !.pc = "order", !.source = b.source,
                                  !.todo = o.todo, !.moved = o.moved]
      BY <2>1, <2>4
    <3>2. /\ b.source = "paper_top" => Len(o.todo) = 1
          /\ o.moved => o.todo[1] \notin b.cooled
      BY <2>2, <3>1, OrderLaw
    <3>3. /\ run'.pc = "order" /\ run'.todo = o.todo /\ run'.moved = o.moved
          /\ run'.tried = run.tried /\ run'.source = b.source
      BY <1>2, <3>1 DEF Runs
    <3>4. run.tried = {} BY <1>2, <1>6 DEF ChooseBatch, RunAt, Tame
    <3>5. IsFiniteSet(run.tried) /\ Cardinality(run.tried) = 0 /\ 0 < MaxAttempts
      BY <3>4, FS_EmptySet, TraderAssumption
    <3>6. Tame(run')
      <4>1. Len(run'.todo) = 1 \/ run'.source # "paper_top" BY <3>2, <3>3
      <4>2. Cardinality(run'.tried) = 0 /\ IsFiniteSet(run'.tried) BY <3>3, <3>5
      <4>3. 0 < MaxAttempts /\ 0 <= MaxAttempts BY TraderAssumption
      <4>6. PICK n : n = Len(run'.todo) OBVIOUS
      <4>7. n = 1 => n <= 1 OBVIOUS
      <4>4. Len(run'.todo) <= 1 \/ run'.source # "paper_top" BY <4>1, <4>6, <4>7
      <4>5. Cardinality(run'.tried) <= MaxAttempts /\ Cardinality(run'.tried) < MaxAttempts
        BY <4>2, <4>3
      <4> QED BY <3>3, <4>2, <4>4, <4>5 DEF Tame, Holding
    <3>7. Free(run', cooled') BY <2>1, <3>2, <3>3 DEF Free
    <3> QED BY <2>2, <3>6, <3>7 DEF RetryStays
  <2> QED BY <2>3, <2>4
<1>7. CASE GeometrySampled
  <2>1. run.pc = "order" /\ Goto("account") /\ lock' = Relocked(run.todo, run.moved)
        /\ UNCHANGED cooled
    BY <1>7 DEF GeometrySampled, RunAt
  <2>2. /\ run'.pc = "account" /\ run'.tried = run.tried /\ run'.todo = run.todo
        /\ run'.source = run.source
    BY <1>2, <2>1 DEF Goto, Runs
  <2>3. lock' \notin cooled' BY <1>2, <2>1 DEF Relocked, Free
  <2> QED BY <1>2, <2>1, <2>2, <2>3 DEF RetryStays, Tame, Free, Pending, Holding
<1>8. CASE AccountRead
  <2>1. \/ \E q : /\ run.source = "paper_top" => q = run.todo
                  /\ run' = [run EXCEPT !.pc = "next", !.live = liveOn, !.todo = q]
        \/ /\ run.source # "paper_top"
           /\ \E q : run' = [run EXCEPT !.pc = "next", !.live = liveOn, !.todo = q,
                                        !.source = "probe"]
    <3>1. CASE \E q \in {run.todo} \cup
                    IF run.source \in {"strict", "learned"}
                    THEN Orders(Elements(run.todo)) \cup {<<>>} ELSE {} :
                 run' = [run EXCEPT !.pc = "next", !.live = liveOn, !.todo = q]
      BY <3>1
    <3>2. CASE /\ run.source \in {"strict", "learned"}
               /\ \E q \in Orders(Symbols) :
                    run' = [run EXCEPT !.pc = "next", !.live = liveOn, !.todo = q,
                                       !.source = "probe"]
      BY <3>2
    <3> QED BY <1>8, <3>1, <3>2, Zenon DEF AccountRead
  <2>2. run.pc = "account" /\ KeepShared BY <1>8 DEF AccountRead, RunAt
  <2>3. CASE run.source # "paper_top"
    <3>1. run'.pc = "next" /\ run'.source # "paper_top" BY <1>2, <2>1, <2>3 DEF Runs
    <3> QED BY <1>4, <2>2, <3>1 DEF Tame, Free
  <2>4. CASE run.source = "paper_top"
    <3>1. /\ run'.pc = "next" /\ run'.tried = run.tried /\ run'.todo = run.todo
          /\ run'.source = run.source
      BY <1>2, <2>1, <2>4 DEF Runs
    <3> QED BY <1>2, <1>4, <2>2, <2>4, <3>1 DEF Tame, Free, Pending, Holding
  <2> QED BY <2>3, <2>4
<1>9. CASE Attempt
  <2>1. PICK pc \in {"preai", "next"} :
          run' = [run EXCEPT !.pc = pc, !.todo = Tail(run.todo), !.item = Head(run.todo),
                             !.tried = run.tried \cup {Head(run.todo)}]
    BY <1>9 DEF Attempt
  <2>2. /\ run'.pc = pc /\ run'.todo = Tail(run.todo) /\ run'.source = run.source
        /\ run'.tried = run.tried \cup {Head(run.todo)}
    BY <1>2, <2>1 DEF Runs
  <2>3. run.pc = "next" /\ run.todo # <<>> /\ KeepShared /\ run.todo \in Seq(Symbols)
    BY <1>2, <1>9 DEF Attempt, RunAt, Runs
  <2>4. ASSUME run.source = "paper_top"
        PROVE  /\ run'.todo = <<>> /\ IsFiniteSet(run'.tried)
               /\ Cardinality(run'.tried) <= MaxAttempts
    <3>1. /\ IsFiniteSet(run.tried) /\ Cardinality(run.tried) < MaxAttempts
          /\ Len(run.todo) <= 1
      BY <1>2, <2>3, <2>4 DEF Tame, Pending
    <3>2. /\ IsFiniteSet(run'.tried)
          /\ Cardinality(run'.tried) = Cardinality(run.tried)
             \/ Cardinality(run'.tried) = Cardinality(run.tried) + 1
      BY <2>2, <3>1, FS_AddElement
    <3>3. Cardinality(run.tried) \in Nat BY <3>1, FS_CardinalityType
    <3>4. Tail(run.todo) = <<>>
      <4>1. Len(run.todo) \in Nat \ {0} BY <2>3, EmptySeq
      <4>2. Len(Tail(run.todo)) = Len(run.todo) - 1 /\ Tail(run.todo) \in Seq(Symbols)
        BY <2>3, HeadTailProperties
      <4>3. PICK n \in Nat \ {0} : n = Len(run.todo) BY <4>1
      <4>6. n <= 1 BY <3>1, <4>3
      <4>4. n - 1 = 0 BY <4>6
      <4>5. Len(Tail(run.todo)) = 0 BY <4>2, <4>3, <4>4
      <4> QED BY <4>2, <4>5, EmptySeq
    <3>5. PICK n, m : n = Cardinality(run.tried) /\ m = Cardinality(run'.tried) OBVIOUS
    <3>6. n \in Nat /\ n < MaxAttempts /\ (m = n \/ m = n + 1) BY <3>1, <3>2, <3>3, <3>5
    <3>7. m <= MaxAttempts BY <3>6, TraderAssumption
    <3>8. run'.todo = <<>> BY <2>2, <3>4
    <3>9. Cardinality(run'.tried) <= MaxAttempts BY <3>5, <3>7
    <3>10. IsFiniteSet(run'.tried) BY <2>2, <3>1, FS_AddElement
    <3> QED BY <3>8, <3>9, <3>10
  <2>5. Len(<<>>) <= 1 OBVIOUS
  <2>6. CASE run.source = "paper_top"
    <3>1. Len(run'.todo) <= 1 BY <2>4, <2>5, <2>6
    <3>2. Tame(run') BY <2>2, <2>4, <2>6, <3>1 DEF Tame, Pending
    <3> QED BY <1>4, <2>2, <2>3, <3>2 DEF Free
  <2>7. CASE run.source # "paper_top"
    BY <1>4, <2>2, <2>3, <2>7 DEF Tame, Free
  <2> QED BY <2>6, <2>7
<1>10. CASE RetryBatchOrdered
  <2>1. PICK q : /\ q \in {run.todo, run.todo \o run.next}
                 /\ run' = [run EXCEPT !.pc = "next", !.next = <<>>, !.moved = FALSE, !.todo = q]
    BY <1>10 DEF RetryBatchOrdered
  <2>2. /\ run.pc = "retry" /\ lock' = Relocked(run.next, run.moved) /\ UNCHANGED cooled
    BY <1>10 DEF RetryBatchOrdered, RunAt
  <2>3. /\ run'.pc = "next" /\ run'.todo = q /\ run'.source = run.source
        /\ run'.tried = run.tried
    BY <1>2, <2>1 DEF Runs
  <2>4. lock' \notin cooled' BY <1>2, <2>2 DEF Relocked, Free
  <2>5. run.source = "paper_top" => Len(q) <= 1
    <3>1. run.todo \in Seq(Symbols) /\ run.next \in Seq(Symbols) BY <1>2 DEF Runs
    <3>2. run.source = "paper_top" => run.todo = <<>> /\ Len(run.next) = 1
      BY <1>2, <2>2 DEF Tame
    <3>3. <<>> \o run.next = run.next BY <3>1, ConcatEmptySeq
    <3>4. run.source = "paper_top" => q = <<>> \/ q = run.next BY <2>1, <3>2, <3>3
    <3>5. PICK n : n = Len(q) OBVIOUS
    <3>6. run.source = "paper_top" => n = 0 \/ n = 1 BY <3>2, <3>4, <3>5, EmptySeq
    <3>7. run.source = "paper_top" => n <= 1 BY <3>6
    <3> QED BY <3>5, <3>7
  <2> QED BY <1>2, <2>2, <2>3, <2>4, <2>5 DEF RetryStays, Tame, Free, Pending, Holding
<1>11. CASE Skip("preai") \/ Skip("generate") \/ Skip("postai") \/ Skip("redo") \/ Skip("quote")
           \/ FreshBeforeAi \/ SideDrifted \/ LiveGuardBlocks \/ BeginLiveEntry
           \/ PlanUsable("postai") \/ PlanUsable("redopost")
  <2>1. PICK pc \in {"next", "generate", "redo", "quote", "opening"} :
          Goto(pc) /\ KeepShared /\ run.pc \in Holding
    BY <1>11 DEF Skip, FreshBeforeAi, SideDrifted, LiveGuardBlocks, BeginLiveEntry, PlanUsable,
                 RunAt, Holding
  <2> QED BY <1>1, <1>2, <1>4, <2>1, GotoTame
<1>12. CASE StaleBeforeAi
  <2>1. run.pc \in Holding /\ Retry(StaleLock, StaleCooled)
    BY <1>12 DEF StaleBeforeAi, RunAt, Holding
  <2>2. StaleLock \in Symbols \cup {None} /\ StaleCooled \in SUBSET Symbols
    BY <1>1, <2>1, StaleTypes
  <2>3. StaleLock \notin StaleCooled
    BY <1>2, <1>3, <2>1, TraderAssumption DEF StaleLock, StaleCooled, Released
  <2> QED BY <1>1, <1>2, <2>1, <2>2, <2>3, RetryTame
<1>13. CASE AiWaits
  <2>1. run.pc \in Holding BY <1>13 DEF AiWaits, RunAt, Holding
  <2>2. Released(lock, run.item) \in Symbols \cup {None}
        /\ Released(lock, run.item) \notin cooled \cup {run.item}
    BY <1>2, <1>3, <2>1, TraderAssumption DEF Released
  <2>3. CASE Retry(Released(lock, run.item), cooled \cup {run.item})
    BY <1>1, <1>2, <1>3, <2>1, <2>2, <2>3, RetryTame
  <2>4. CASE \E lk \in {lock, Released(lock, run.item)} : AppendRetry(lk, cooled)
    BY <1>1, <1>2, <1>3, <2>1, <2>2, <2>4, AppendRetryTame
  <2> QED BY <1>13, <2>3, <2>4 DEF AiWaits
<1>14. CASE RiskRejects
  <2>1. run.pc \in Holding /\ AppendRetry(lock, cooled)
    BY <1>14 DEF RiskRejects, RunAt, Holding
  <2> QED BY <1>1, <1>2, <1>3, <2>1, AppendRetryTame
<1>15. CASE AiOpens("generate", "postai") \/ AiOpens("redo", "redopost")
  <2>1. PICK pc \in {"postai", "redopost"} :
          \E p : run' = [run EXCEPT !.pc = pc, !.plan = p]
    BY <1>15 DEF AiOpens
  <2>2. run.pc \in Holding /\ KeepShared BY <1>15 DEF AiOpens, RunAt, Holding
  <2>3. /\ run'.pc = pc /\ run'.tried = run.tried /\ run'.todo = run.todo
        /\ run'.source = run.source
    BY <1>2, <2>1 DEF Runs
  <2> QED BY <1>2, <1>4, <2>2, <2>3 DEF Tame, Free, Pending, Holding
<1>16. CASE StaleAfterAi("postai") \/ StaleAfterAi("redopost")
  <2>1. run.pc \in Holding /\ Goto("next") /\ lock' = StaleLock /\ cooled' = StaleCooled
    BY <1>16 DEF StaleAfterAi, RunAt, Holding
  <2>2. StaleLock \notin StaleCooled
    BY <1>2, <1>3, <2>1, TraderAssumption DEF StaleLock, StaleCooled, Released
  <2> QED BY <1>1, <1>2, <2>1, <2>2, GotoTame DEF RetryStays
<1>17. CASE RedoWaits
  <2>1. run.pc \in Holding /\ Goto("next") BY <1>17 DEF RedoWaits, RunAt, Holding
  <2>2. /\ lock' \in {lock, Released(lock, run.item)}
        /\ cooled' = cooled \/ (/\ cooled' = cooled \cup {run.item}
                                /\ lock' = Released(lock, run.item))
    BY <1>17 DEF RedoWaits
  <2>3. lock' \notin cooled' BY <1>2, <1>3, <2>1, <2>2, TraderAssumption DEF Released
  <2> QED BY <1>1, <1>2, <2>1, <2>3, GotoTame DEF RetryStays
<1> QED BY <1>5, <1>6, <1>7, <1>8, <1>9, <1>10, <1>11, <1>12, <1>13, <1>14, <1>15, <1>16, <1>17
        DEF RunStep

(* Every status request forms a batch beside the run: it may move the lock *)
(* and drop cooldowns that are over.                                       *)
LEMMA OthersTame ==
  ASSUME IInv, RetryInv, UNCHANGED run, Rebatch \/ UNCHANGED <<lock, cooled>>
  PROVE  RetryInv'
<1>1. /\ lock \in Symbols \cup {None} /\ cooled \in SUBSET Symbols /\ lock \notin cooled
  BY DEF IInv, TypeOK, RetryInv, LockNotCooled
<1>2. lock' \notin cooled' /\ cooled' \subseteq cooled BY <1>1, BatchLaw DEF Rebatch
<1> QED BY <1>2 DEF RetryInv, LockNotCooled, Free

LEMMA AnyStepTame ==
  ASSUME IInv, RetryInv, [Next]_vars PROVE RetryInv'
<1>1. CASE RunStep BY <1>1, RunStepTame
<1>2. CASE AccStep
  <2>1. UNCHANGED run /\ (Rebatch \/ UNCHANGED <<lock, cooled>>)
    BY <1>2 DEF KeepTrader, KeepBook, traderVars, AccStep, AccScanFails, AccScanned, AccRanked,
        AccGeometryRanked, AccRescanned, ShadowDone, FreshRejected, FreshAccepted, SampleRejected,
        SampleAccepted, PlanRejected, PlanAccepted, AccountArrives, FallbackRanked, AccOpened,
        AccDone, AccRaises, Turn, Selected, SameLock
  <2> QED BY <2>1, OthersTame
<1>3. CASE Grant
  <2>1. CASE KeepTrader BY <2>1, OthersTame DEF KeepTrader, traderVars
  <2>2. CASE BeginRun(Head(queue).who)
    <3>1. /\ UNCHANGED <<lock, cooled>>
          /\ run'.pc = "scan" /\ run'.tried = {} /\ run'.source = "strict"
      BY <2>2 DEF BeginRun, KeepShared
    <3> QED BY <3>1 DEF RetryInv, LockNotCooled, Tame, Free
  <2> QED BY <1>3, <2>1, <2>2 DEF Grant
<1>4. CASE Observe
  BY <1>4, OthersTame DEF Observe, Rebatch
<1>5. CASE PositionCloses BY <1>5, OthersTame DEF PositionCloses
<1>6. CASE \/ LoopTick \/ ManualRun \/ PaperProbe \/ PaperRepair \/ SaveParams
           \/ StartLoop \/ StopLoop \/ AskAcceptance
  BY <1>6, OthersTame
     DEF KeepRuns, SameLock, LoopTick, ManualRun, PaperProbe, PaperRepair, SaveParams, StartLoop,
         StopLoop, AskAcceptance
<1>7. CASE Restart BY <1>7 DEF Restart, RetryInv, LockNotCooled
<1>8. CASE UNCHANGED vars BY <1>8, OthersTame DEF vars, traderVars
<1> QED BY <1>1, <1>2, <1>3, <1>4, <1>5, <1>6, <1>7, <1>8 DEF Next, Work

(* Whatever is rejected makes way: the locked candidate is never a cooled  *)
(* one, and a run over paper_top candidates makes at most MaxAttempts      *)
(* attempts, for every set of symbols and every bound.                     *)
THEOREM RejectedMakesWay == Spec => []RetriesMoveOn
<1>1. Init => RetryInv
  BY DEF Init, TraderInit, RetryInv, LockNotCooled
<1>2. IInv /\ RetryInv /\ [Next]_vars => RetryInv' BY AnyStepTame
<1>3. RetryInv => RetriesMoveOn
  BY DEF RetryInv, RetriesMoveOn, AttemptsBounded, Tame
<1> QED BY <1>1, <1>2, <1>3, ChecksHoldLater, PTL DEF Spec
=============================================================================
