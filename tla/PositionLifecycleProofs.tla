----------------------- MODULE PositionLifecycleProofs -----------------------
(***************************************************************************)
(* The safety of PositionLifecycle for any number of positions, managers,  *)
(* operators and restarts.                                                 *)
(*                                                                         *)
(* The inductive invariant adds to the checked properties what makes them  *)
(* hold: a call only holds positions that were opened, the manage lock     *)
(* keeps all passes but one idle, operators only ever close, and a         *)
(* reduction in flight asks for less than the position has.                *)
(***************************************************************************)
EXTENDS PositionLifecycle, TLAPS

\* Exactly the positions ever opened are in one of the tables.
StoreInv ==
  /\ StoreTypeOK
  /\ open = Saved
  /\ opened = Saved \cup closedRows

Reducing == {"reduce", "tp1"}

CallInv(c) ==
  /\ call[c].pc # "idle" => call[c].cur \in opened
  /\ call[c].todo \subseteq opened
  /\ c \in Managers /\ call[c].pc # "idle" => lock = c
  /\ c \in Operators => call[c].pc \in {"idle", "closing", "close"}
  /\ call[c].pc \in Reducing =>
       call[c].want < obj[call[c].cur].qty /\ call[c].fill <= call[c].want

CallsInv ==
  /\ call \in [Callers -> Calls]
  /\ lock \in Callers \cup {NoCaller}
  /\ \A c \in Callers : CallInv(c)

IInv == StoreInv /\ CallsInv /\ WorldTypeOK

\* What the call record r of c must satisfy after a step.
Fits(c, r) ==
  /\ r \in Calls
  /\ r.pc # "idle" => r.cur \in opened'
  /\ r.todo \subseteq opened'
  /\ c \in Operators => r.pc \in {"idle", "closing", "close"}
  /\ r.pc \in Reducing => r.want < obj'[r.cur].qty /\ r.fill <= r.want

------------------------------------------------------------------------------
(* The helpers of the registry.                                            *)

LEMMA HalfBounds ==
  ASSUME NEW q \in 1..Unit
  PROVE  q \div 2 \in 0..Unit /\ q - (q \div 2) \in 1..Unit /\ q \div 2 < q
BY BoundsAssumption, SMT

LEMMA NewObjectType == NewObject \in Objects
BY BoundsAssumption DEF NewObject, Objects, Stages

LEMMA AddKeeps ==
  ASSUME StoreInv, NEW id \in Ids, NEW o \in Objects, Add(id, o),
         opened' = opened \cup {id}
  PROVE  StoreInv'
<1>1. StoreTypeOK' BY DEF StoreInv, StoreTypeOK, Add
<1>2. Saved' = Saved \cup {id}
  BY RowAssumption DEF StoreInv, StoreTypeOK, Add, Saved
<1>3. QED BY <1>1, <1>2 DEF StoreInv, Add

LEMMA ArchiveKeeps ==
  ASSUME StoreInv, NEW id \in opened, NEW o \in Objects, Archive(id, o),
         opened' = opened
  PROVE  StoreInv'
<1>1. id \in Ids BY DEF StoreInv, StoreTypeOK, Saved
<1>2. StoreTypeOK' BY <1>1 DEF StoreInv, StoreTypeOK, Archive
<1>3. Saved' = Saved \ {id}
  BY <1>1 DEF StoreInv, StoreTypeOK, Archive, Saved
<1>4. QED BY <1>2, <1>3 DEF StoreInv, Archive

LEMMA MutateKeeps ==
  ASSUME StoreInv, NEW id \in Ids, NEW o \in Objects, Mutate(id, o),
         opened' = opened
  PROVE  StoreInv'
BY DEF StoreInv, StoreTypeOK, Mutate, Saved, database

------------------------------------------------------------------------------
(* The control flow of one call.                                           *)

\* No reduction of another call is disturbed.
Undisturbed(c) ==
  \A d \in Callers \ {c} :
    call[d].pc \in Reducing => obj'[call[d].cur].qty = obj[call[d].cur].qty

LEMMA CallStep ==
  ASSUME CallsInv, NEW c \in Callers, NEW r, Fits(c, r),
         call' = [call EXCEPT ![c] = r],
         lock' \in {lock, c, NoCaller},
         lock' # lock => lock \in {c, NoCaller},
         c \in Managers /\ r.pc # "idle" => lock' = c,
         opened \subseteq opened', Undisturbed(c)
  PROVE  CallsInv'
<1>1. call' \in [Callers -> Calls] /\ lock' \in Callers \cup {NoCaller}
  BY DEF CallsInv, Fits
<1>2. ASSUME NEW d \in Callers PROVE CallInv(d)'
  <2>1. CASE d = c
    <3>1. call'[d] = r BY <2>1 DEF CallsInv
    <3>2. QED BY <2>1, <3>1 DEF CallInv, Fits
  <2>2. CASE d # c
    <3>1. call'[d] = call[d] /\ CallInv(d) BY <2>2 DEF CallsInv
    <3>2. d \in Managers /\ call[d].pc # "idle" => lock' = d
      BY <2>2, <3>1, IdsAssumption DEF CallInv, Callers
    <3>3. call[d].pc \in Reducing =>
            obj'[call[d].cur].qty = obj[call[d].cur].qty
      BY <2>2 DEF Undisturbed
    <3>4. QED BY <3>1, <3>2, <3>3 DEF CallInv
  <2>3. QED BY <2>1, <2>2
<1>3. QED BY <1>1, <1>2 DEF CallsInv

LEMMA IdleFits == ASSUME NEW c \in Callers PROVE Fits(c, Idle)
BY BoundsAssumption DEF Fits, Idle, Awaiting, Calls, AwaitPoints, Reducing

\* While a pass runs, no other call is a pass, and only passes reduce.
LEMMA PassIsAlone ==
  ASSUME CallsInv, NEW m \in Managers, call[m].pc # "idle" \/ lock = NoCaller
  PROVE  \A d \in Callers \ {m} : call[d].pc \notin Reducing
BY IdsAssumption DEF CallsInv, CallInv, Callers, Reducing

\* The state in which c acts on its position and leaves o in its place.
Acting(c, o) ==
  /\ StoreInv /\ CallsInv /\ freeze \in BOOLEAN
  /\ c \in Callers /\ call[c].pc # "idle"
  /\ o \in Objects /\ opened' = opened
  /\ c \in Managers \/ o.qty = Obj(c).qty

Kept == StoreInv' /\ CallsInv' /\ freeze' \in BOOLEAN

LEMMA ActingTypes ==
  ASSUME NEW c, NEW o, Acting(c, o)
  PROVE  /\ Id(c) \in opened /\ Id(c) \in Ids
         /\ Obj(c) \in Objects
         /\ call[c] \in Calls /\ CallInv(c)
         /\ c \in Managers => lock = c
BY DEF Acting, StoreInv, StoreTypeOK, Saved, CallsInv, CallInv, Id, Obj

LEMMA ActingUndisturbed ==
  ASSUME NEW c, NEW o, Acting(c, o), obj' = [obj EXCEPT ![Id(c)] = o]
  PROVE  Undisturbed(c)
<1>1. CASE c \in Managers
  <2>1. \A d \in Callers \ {c} : call[d].pc \notin Reducing
    BY <1>1, PassIsAlone DEF Acting
  <2>2. QED BY <2>1 DEF Undisturbed
<1>2. CASE o.qty = Obj(c).qty
  <2>1. \A id \in Ids : obj'[id].qty = obj[id].qty
    BY <1>2 DEF Obj, Acting, StoreInv, StoreTypeOK
  <2>2. \A d \in Callers : call[d].pc \in Reducing => call[d].cur \in Ids
    BY DEF Acting, StoreInv, StoreTypeOK, Saved, CallsInv, CallInv, Reducing
  <2>3. QED BY <2>1, <2>2 DEF Undisturbed
<1>3. QED BY <1>1, <1>2 DEF Acting

LEMMA AbortKeeps ==
  ASSUME NEW c, NEW o, Acting(c, o), Undisturbed(c), Abort(c)
  PROVE  CallsInv'
<1>1. Fits(c, Idle) BY IdleFits DEF Acting
<1>2. QED BY <1>1, CallStep DEF Acting, Abort, Idle, Awaiting

LEMMA SuspendKeeps ==
  ASSUME NEW c, NEW o, Acting(c, o), Undisturbed(c),
         NEW pc \in AwaitPoints \ {"idle"}, NEW want \in 0..Unit,
         c \in Operators => pc \in {"closing", "close"},
         pc \in Reducing => want < obj'[Id(c)].qty,
         Suspend(c, pc, want)
  PROVE  CallsInv'
<1> DEFINE r == Awaiting(pc, call[c].cur, call[c].todo, want)
<1>1. call[c] \in Calls /\ CallInv(c) /\ (c \in Managers => lock = c)
  BY ActingTypes
<1>2. call' = [call EXCEPT ![c] = r] BY DEF Suspend, CallsInv, Acting
<1>3. r \in Calls BY <1>1, BoundsAssumption DEF Calls, Awaiting
<1>4. Fits(c, r)
  BY <1>1, <1>3, BoundsAssumption DEF Fits, CallInv, Acting, Id, Awaiting
<1>5. r.pc = pc BY DEF Awaiting
<1> HIDE DEF r
<1>6. QED BY <1>1, <1>2, <1>4, <1>5, CallStep DEF Acting, Suspend

LEMMA ContinueKeeps ==
  ASSUME NEW c, NEW o, Acting(c, o), Undisturbed(c), Continue(c)
  PROVE  CallsInv'
<1>1. call[c] \in Calls /\ CallInv(c) /\ (c \in Managers => lock = c)
  BY ActingTypes
<1>2. CASE call' = [call EXCEPT ![c] = Idle] /\ lock' \in {lock, NoCaller}
           /\ (c \notin Managers => lock' = lock)
  <2>1. Fits(c, Idle) BY IdleFits DEF Acting
  <2>2. QED BY <1>1, <1>2, <2>1, CallStep DEF Acting, Idle, Awaiting
<1>3. CASE c \in Managers /\ call[c].todo # {} /\ Continue(c)
  <2>1. PICK id \in call[c].todo :
          /\ call' = [call EXCEPT ![c] = Awaiting("quote", id, call[c].todo \ {id}, 0)]
          /\ lock' = lock
    BY <1>3 DEF Continue, NextPosition
  <2> DEFINE r == Awaiting("quote", id, call[c].todo \ {id}, 0)
  <2>2. r \in Calls
    BY <1>1, BoundsAssumption DEF Calls, AwaitPoints, Awaiting
  <2>3. Fits(c, r)
    BY <1>1, <1>3, <2>2, IdsAssumption DEF Fits, CallInv, Acting, Reducing, Awaiting
  <2>4. QED BY <1>1, <1>3, <2>1, <2>3, CallStep DEF Acting
<1>4. QED BY <1>2, <1>3 DEF Continue, NextPosition

------------------------------------------------------------------------------
(* The helpers of the pass and of managed_close.                           *)

LEMMA AddByCall ==
  ASSUME NEW c, NEW o, Acting(c, o), NEW q \in Objects,
         q.qty = o.qty, Add(Id(c), q)
  PROVE  StoreInv' /\ Undisturbed(c)
<1>1. Id(c) \in opened /\ Id(c) \in Ids BY ActingTypes
<1>2. StoreInv' BY <1>1, AddKeeps DEF Acting
<1>3. Acting(c, q) BY DEF Acting
<1>4. QED BY <1>2, <1>3, ActingUndisturbed DEF Add

LEMMA ArchiveByCall ==
  ASSUME NEW c, NEW o, Acting(c, o), Archive(Id(c), o)
  PROVE  StoreInv' /\ Undisturbed(c)
BY ActingTypes, ArchiveKeeps, ActingUndisturbed DEF Acting, Archive

LEMMA MutateByCall ==
  ASSUME NEW c, NEW o, Acting(c, o), Mutate(Id(c), o)
  PROVE  StoreInv' /\ Undisturbed(c)
BY ActingTypes, MutateKeeps, ActingUndisturbed DEF Acting, Mutate

LEMMA UnchangedByCall ==
  ASSUME NEW c, NEW o, Acting(c, o), UNCHANGED <<memory, database>>
  PROVE  StoreInv' /\ Undisturbed(c)
BY DEF Acting, StoreInv, StoreTypeOK, Saved, Undisturbed, memory, database

LEMMA LiveFailureKeeps ==
  ASSUME NEW c, NEW o, Acting(c, o), LiveFailure(c, o)
  PROVE  Kept
<1> DEFINE q == [o EXCEPT !.restored = FALSE]
<1>1. q \in Objects /\ q.qty = o.qty BY DEF Acting, Objects
<1>2. Add(Id(c), q) BY DEF LiveFailure
<1>3. StoreInv' /\ Undisturbed(c) BY <1>1, <1>2, AddByCall
<1>4. QED BY <1>3, AbortKeeps DEF LiveFailure, Kept

LEMMA SaveAndContinueKeeps ==
  ASSUME NEW c, NEW o, Acting(c, o), SaveAndContinue(c, o)
  PROVE  Kept
<1>1. StoreInv' /\ Undisturbed(c)
  BY AddByCall DEF SaveAndContinue, Acting
<1>2. QED BY <1>1, ContinueKeeps DEF SaveAndContinue, Kept, Acting

LEMMA SuspendMutated ==
  ASSUME NEW c, NEW o, Acting(c, o), Mutate(Id(c), o),
         NEW pc \in AwaitPoints \ {"idle"}, NEW want \in 0..Unit,
         c \in Operators => pc \in {"closing", "close"},
         pc \in Reducing => want < o.qty,
         Suspend(c, pc, want), UNCHANGED freeze
  PROVE  Kept
<1>1. StoreInv' /\ Undisturbed(c) BY MutateByCall
<1>2. obj'[Id(c)] = o
  BY ActingTypes DEF Mutate, Acting, StoreInv, StoreTypeOK
<1>3. CallsInv' BY <1>1, <1>2, SuspendKeeps
<1>4. QED BY <1>1, <1>3 DEF Kept, Acting

LEMMA StartCloseKeeps ==
  ASSUME NEW c, NEW o, Acting(c, o), StartClose(c, o)
  PROVE  Kept
<1>1. CASE Archive(Id(c), o) /\ Continue(c) /\ UNCHANGED freeze
  BY <1>1, ArchiveByCall, ContinueKeeps DEF Kept, Acting
<1>2. CASE Mutate(Id(c), o) /\ Suspend(c, "closing", 0) /\ UNCHANGED freeze
  BY <1>2, SuspendMutated, BoundsAssumption DEF AwaitPoints, Reducing
<1>3. CASE LiveFailure(c, o) BY <1>3, LiveFailureKeeps
<1>4. QED BY <1>1, <1>2, <1>3 DEF StartClose

LEMMA StartSyncKeeps ==
  ASSUME NEW c \in Managers, NEW o, Acting(c, o),
         NEW pc \in {"soft", "tp1sync", "trail"}, StartSync(c, pc, o)
  PROVE  Kept
<1>1. c \notin Operators BY IdsAssumption
<1>2. CASE Mutate(Id(c), o) /\ Suspend(c, pc, 0) /\ UNCHANGED freeze
  BY <1>1, <1>2, SuspendMutated, BoundsAssumption DEF AwaitPoints, Reducing
<1>3. CASE Mutate(Id(c), o) /\ Abort(c) /\ UNCHANGED freeze
  BY <1>3, MutateByCall, AbortKeeps DEF Kept, Acting
<1>4. QED BY <1>2, <1>3 DEF StartSync

LEMMA FinishStage2Keeps ==
  ASSUME NEW m \in Managers, NEW o, Acting(m, o), FinishStage2(m, o)
  PROVE  Kept
BY StartCloseKeeps, SaveAndContinueKeeps DEF FinishStage2

LEMMA Stage2Keeps ==
  ASSUME NEW m \in Managers, NEW o, Acting(m, o), Stage2(m, o)
  PROVE  Kept
BY FinishStage2Keeps, StartSyncKeeps DEF Stage2

LEMMA Tp1DoneType ==
  ASSUME NEW o \in Objects, NEW k \in 0..Unit, k < o.qty
  PROVE  Tp1Done(o, k) \in Objects /\ Tp1Done(o, k).qty = o.qty - k
BY BoundsAssumption DEF Objects, Tp1Done, Stages

LEMMA FinishStage1Keeps ==
  ASSUME NEW m \in Managers, NEW o, Acting(m, o), FinishStage1(m, o)
  PROVE  Kept
<1>1. o \in Objects /\ m \notin Operators BY IdsAssumption DEF Acting
<1>2. Half(o) \in 0..Unit /\ Half(o) < o.qty
  BY <1>1, HalfBounds DEF Half, Objects
<1>3. CASE SaveAndContinue(m, o) BY <1>3, SaveAndContinueKeeps
<1>4. CASE Stage2(m, Tp1Done(o, Half(o)))
  <2>1. Acting(m, Tp1Done(o, Half(o))) BY <1>1, <1>2, Tp1DoneType DEF Acting
  <2>2. QED BY <1>4, <2>1, Stage2Keeps
<1>5. CASE Mutate(Id(m), o) /\ Suspend(m, "tp1", Half(o)) /\ UNCHANGED freeze
  BY <1>1, <1>2, <1>5, SuspendMutated DEF AwaitPoints
<1>6. CASE LiveFailure(m, o) BY <1>6, LiveFailureKeeps
<1>7. QED BY <1>3, <1>4, <1>5, <1>6 DEF FinishStage1

LEMMA Stage1Keeps ==
  ASSUME NEW m \in Managers, NEW o, Acting(m, o), Stage1(m, o)
  PROVE  Kept
BY FinishStage1Keeps, StartSyncKeeps DEF Stage1

------------------------------------------------------------------------------
(* The steps.                                                              *)

LEMMA PassActs ==
  ASSUME IInv, NEW c \in Callers, call[c].pc # "idle", opened' = opened
  PROVE  /\ Acting(c, Obj(c)) /\ Obj(c) \in Objects /\ Id(c) \in Ids
         /\ call[c] \in Calls /\ CallInv(c)
<1>1. call[c] \in Calls /\ CallInv(c) BY DEF IInv, CallsInv
<1>2. Id(c) \in Ids /\ Obj(c) \in Objects
  BY <1>1 DEF IInv, StoreInv, StoreTypeOK, Saved, CallInv, Id, Obj
<1>3. Acting(c, Obj(c)) BY <1>2 DEF IInv, Acting, WorldTypeOK
<1>4. QED BY <1>1, <1>2, <1>3

LEMMA WorldUnchanged ==
  ASSUME IInv, UNCHANGED world, freeze' \in BOOLEAN
  PROVE  WorldTypeOK'
BY DEF IInv, WorldTypeOK, world

LEMMA BeginPassKeeps ==
  ASSUME IInv, NEW m \in Managers, BeginPass(m)
  PROVE  IInv'
<1>1. PICK id \in open :
        call' = [call EXCEPT ![m] = Awaiting("quote", id, open \ {id}, 0)]
  BY DEF BeginPass
<1> DEFINE r == Awaiting("quote", id, open \ {id}, 0)
<1>2. m \in Callers /\ m \notin Operators BY IdsAssumption DEF Callers
<1>3. r \in Calls
  BY BoundsAssumption DEF IInv, StoreInv, StoreTypeOK, Calls, AwaitPoints, Awaiting
<1>4. UNCHANGED <<memory, database, freeze, world>> BY DEF BeginPass
<1>5. StoreInv' /\ WorldTypeOK'
  BY <1>4 DEF IInv, StoreInv, StoreTypeOK, Saved, WorldTypeOK, memory, database, world
<1>6. Undisturbed(m) /\ opened' = opened
  BY <1>4 DEF Undisturbed, memory, world
<1>7. Fits(m, r)
  BY <1>2, <1>3, <1>6 DEF Fits, IInv, StoreInv, Awaiting, Reducing
<1>8. CallsInv'
  BY <1>1, <1>2, <1>6, <1>7, CallStep DEF IInv, BeginPass
<1>9. QED BY <1>5, <1>8 DEF IInv

\* Steps of a pass that leave the world alone.
LEMMA PassKeeps ==
  ASSUME IInv, NEW m \in Managers,
         \/ StaleQuote(m) \/ QuoteCloses(m) \/ QuoteHolds(m) \/ DecideExit(m)
         \/ DecideReduce(m) \/ DecideHold(m)
         \/ SyncDone(m) \/ SyncFails(m) \/ ReduceDone(m)
  PROVE  IInv'
<1> DEFINE o == Obj(m)
<1>1. UNCHANGED world
  BY DEF StaleQuote, QuoteCloses, QuoteHolds, DecideExit, DecideReduce,
         DecideHold, SyncDone, SyncFails, ReduceDone
<1>2. call[m].pc # "idle"
  BY DEF StaleQuote, QuoteCloses, QuoteHolds, DecideExit, DecideReduce,
         DecideHold, SyncDone, SyncFails, ReduceDone
<1>3. m \in Callers /\ m \notin Operators BY IdsAssumption DEF Callers
<1>4. /\ Acting(m, o) /\ o \in Objects /\ opened' = opened
      /\ call[m] \in Calls /\ CallInv(m)
  BY <1>1, <1>2, <1>3, PassActs DEF world
<1> HIDE DEF o
<1>5. Kept
  <2>1. CASE StaleQuote(m)
    BY <2>1, <1>4, SaveAndContinueKeeps DEF StaleQuote, o
  <2>2. CASE QuoteCloses(m) \/ DecideExit(m)
    BY <2>2, <1>4, StartCloseKeeps DEF QuoteCloses, DecideExit, o
  <2>3. CASE QuoteHolds(m)
    <3>1. /\ Suspend(m, "review", 0) /\ UNCHANGED <<memory, database>>
          /\ UNCHANGED freeze
      BY <2>3 DEF QuoteHolds
    <3>2. StoreInv' /\ Undisturbed(m) BY <3>1, <1>4, UnchangedByCall
    <3>3. CallsInv'
      BY <3>1, <3>2, <1>3, <1>4, SuspendKeeps, BoundsAssumption
      DEF AwaitPoints, Reducing
    <3>4. QED BY <3>1, <3>2, <3>3 DEF Kept, IInv, WorldTypeOK
  <2>4. CASE DecideReduce(m)
    <3>1. PICK k \in 0..Half(o) :
            \/ SaveAndContinue(m, [o EXCEPT !.qty = @ - k])
            \/ /\ Suspend(m, "reduce", k)
               /\ UNCHANGED <<memory, database, freeze>>
            \/ LiveFailure(m, o)
      BY <2>4 DEF DecideReduce, o
    <3>2. Half(o) \in 0..Unit /\ Half(o) < o.qty /\ o.qty \in 1..Unit
      BY <1>4, HalfBounds DEF Half, Objects
    <3>3. k \in 0..Unit /\ k < o.qty BY <3>2, BoundsAssumption
    <3>4. CASE SaveAndContinue(m, [o EXCEPT !.qty = @ - k])
      <4>1. [o EXCEPT !.qty = @ - k] \in Objects
        BY <3>2, <3>3, <1>4, BoundsAssumption DEF Objects
      <4>2. Acting(m, [o EXCEPT !.qty = @ - k]) BY <4>1, <1>4 DEF Acting
      <4>3. QED BY <3>4, <4>2, SaveAndContinueKeeps
    <3>5. CASE Suspend(m, "reduce", k) /\ UNCHANGED <<memory, database, freeze>>
      <4>1. StoreInv' /\ Undisturbed(m) BY <3>5, <1>4, UnchangedByCall
      <4>2. obj'[Id(m)] = o BY <3>5 DEF memory, o, Obj
      <4>3. CallsInv'
        BY <3>3, <3>5, <4>1, <4>2, <1>3, <1>4, SuspendKeeps DEF AwaitPoints
      <4>4. QED BY <3>5, <4>1, <4>3 DEF Kept, IInv, WorldTypeOK
    <3>6. CASE LiveFailure(m, o) BY <3>6, <1>4, LiveFailureKeeps
    <3>7. QED BY <3>1, <3>4, <3>5, <3>6
  <2>5. CASE DecideHold(m)
    BY <2>5, <1>4, Stage1Keeps, Stage2Keeps DEF DecideHold, o
  <2>6. CASE SyncDone(m)
    BY <2>6, <1>4, FinishStage1Keeps, Stage2Keeps, FinishStage2Keeps
    DEF SyncDone, o
  <2>7. CASE SyncFails(m)
    <3>1. Abort(m) /\ UNCHANGED <<memory, database>> /\ freeze' \in BOOLEAN
      BY <2>7 DEF SyncFails, IInv, WorldTypeOK
    <3>2. QED BY <3>1, <1>4, UnchangedByCall, AbortKeeps DEF Kept
  <2>8. CASE ReduceDone(m)
    <3> DEFINE k == call[m].fill
    <3>1. k \in 0..Unit /\ k < o.qty /\ o.qty \in 1..Unit
      BY <2>8, <1>4, BoundsAssumption
      DEF ReduceDone, CallInv, Reducing, o, Obj, Id, Calls, Objects
    <3>2. CASE SaveAndContinue(m, [o EXCEPT !.qty = @ - k])
      <4>1. [o EXCEPT !.qty = @ - k] \in Objects
        BY <3>1, <1>4, BoundsAssumption DEF Objects
      <4>2. Acting(m, [o EXCEPT !.qty = @ - k]) BY <4>1, <1>4 DEF Acting
      <4>3. QED BY <3>2, <4>2, SaveAndContinueKeeps
    <3>3. CASE StartSync(m, "tp1sync", Tp1Done(o, k))
      <4>1. Acting(m, Tp1Done(o, k)) BY <3>1, <1>3, <1>4, Tp1DoneType DEF Acting
      <4>2. QED BY <3>3, <4>1, StartSyncKeeps
    <3>4. QED BY <2>8, <3>2, <3>3 DEF ReduceDone, o
  <2>9. QED BY <2>1, <2>2, <2>3, <2>4, <2>5, <2>6, <2>7, <2>8
<1>6. QED BY <1>1, <1>5, WorldUnchanged DEF Kept, IInv

LEMMA OrderKeeps ==
  ASSUME IInv, NEW c \in Callers, OrderStep(c)
  PROVE  IInv'
<1> DEFINE o == Obj(c)
<1>1. call[c].pc # "idle" /\ opened' = opened
  BY DEF OrderStep, SendClose, OrderFills, OrderRaises, CloseDone, Ordering, world
<1>2. /\ Acting(c, o) /\ o \in Objects /\ Id(c) \in Ids
      /\ call[c] \in Calls /\ CallInv(c)
  BY <1>1, PassActs
<1> HIDE DEF o
<1>3. CASE SendClose(c)
  <2>1. /\ Suspend(c, "close", o.qty) /\ UNCHANGED <<memory, database>>
        /\ UNCHANGED <<freeze, world>>
    BY <1>3 DEF SendClose, o
  <2>2. StoreInv' /\ Undisturbed(c) BY <2>1, <1>2, UnchangedByCall
  <2>3. o.qty \in 0..Unit BY <1>2, BoundsAssumption DEF Objects
  <2>4. CallsInv'
    BY <2>1, <2>2, <2>3, <1>2, SuspendKeeps DEF AwaitPoints, Reducing
  <2>5. QED BY <2>1, <2>2, <2>4, WorldUnchanged DEF IInv, WorldTypeOK
<1>4. CASE OrderFills(c)
  <2>1. PICK k \in 0..Unit :
          /\ k <= call[c].want /\ k <= exch[Id(c)]
          /\ call' = [call EXCEPT ![c].fill = IF k = 0 THEN call[c].want ELSE k]
          /\ exch' = [exch EXCEPT ![Id(c)] = @ - k]
          /\ tp1Sold' = IF call[c].pc = "tp1"
                        THEN [tp1Sold EXCEPT ![Id(c)] = @ + k] ELSE tp1Sold
    BY <1>4 DEF OrderFills
  <2>2. /\ UNCHANGED <<memory, database>>
        /\ UNCHANGED <<lock, freeze, liveOn, atStop, opened, crashes>>
    BY <1>4 DEF OrderFills
  <2>3. StoreInv' /\ Undisturbed(c) BY <2>2, <1>2, UnchangedByCall
  <2>4. WorldTypeOK'
    <3>1. exch[Id(c)] \in 0..Unit /\ tp1Sold[Id(c)] \in Nat
      BY <1>2 DEF IInv, WorldTypeOK
    <3>2. exch[Id(c)] - k \in 0..Unit /\ tp1Sold[Id(c)] + k \in Nat
      BY <2>1, <3>1, BoundsAssumption
    <3>3. exch' \in [Ids -> 0..Unit] /\ tp1Sold' \in [Ids -> Nat]
      BY <2>1, <3>2, <1>2 DEF IInv, WorldTypeOK
    <3>4. QED BY <2>2, <3>3 DEF IInv, WorldTypeOK
  <2> DEFINE f == IF k = 0 THEN call[c].want ELSE k
             r == [call[c] EXCEPT !.fill = f]
  <2>5. f \in 0..Unit /\ f <= call[c].want
    BY <2>1, <1>2, BoundsAssumption DEF Calls
  <2>6. call' = [call EXCEPT ![c] = r] BY <2>1
  <2>7. r \in Calls /\ r.pc = call[c].pc /\ r.cur = call[c].cur
        /\ r.todo = call[c].todo /\ r.want = call[c].want /\ r.fill = f
    BY <2>5, <1>2 DEF Calls
  <2> HIDE DEF f, r
  <2>8. obj' = obj BY <2>2 DEF memory
  <2>9. Fits(c, r)
    BY <2>2, <2>5, <2>7, <2>8, <1>2 DEF Fits, CallInv
  <2>10. CallsInv'
    BY <2>2, <2>3, <2>6, <2>7, <2>9, <1>2, CallStep DEF IInv, CallInv
  <2>11. QED BY <2>3, <2>4, <2>10 DEF IInv
<1>5. CASE OrderRaises(c)
  BY <1>5, <1>2, LiveFailureKeeps, WorldUnchanged DEF OrderRaises, Kept, IInv, o
<1>6. CASE CloseDone(c)
  <2>1. Archive(Id(c), o) /\ Continue(c) /\ UNCHANGED <<freeze, world>>
    BY <1>6 DEF CloseDone, o
  <2>2. QED
    BY <2>1, <1>2, ArchiveByCall, ContinueKeeps, WorldUnchanged
    DEF IInv, WorldTypeOK
<1>7. QED BY <1>3, <1>4, <1>5, <1>6 DEF OrderStep

LEMMA ManualCloseKeeps ==
  ASSUME IInv, NEW op \in Operators, NEW id \in Ids, ManualClose(op, id)
  PROVE  IInv'
<1>1. op \in Callers /\ op \notin Managers BY IdsAssumption DEF Callers
<1>2. id \in opened /\ obj[id] \in Objects
  BY DEF ManualClose, IInv, StoreInv, StoreTypeOK
<1>3. UNCHANGED <<lock, freeze, world>> BY DEF ManualClose
<1>4. WorldTypeOK' /\ opened' = opened
  BY <1>3 DEF IInv, WorldTypeOK, world
<1>5. CASE Archive(id, obj[id]) /\ UNCHANGED call
  <2>1. StoreInv' BY <1>2, <1>4, <1>5, ArchiveKeeps DEF IInv
  <2>2. obj' = obj BY <1>5 DEF Archive, IInv, StoreInv, StoreTypeOK
  <2>3. CallsInv'
    BY <1>3, <1>4, <1>5, <2>2 DEF IInv, CallsInv, CallInv
  <2>4. QED BY <1>4, <2>1, <2>3 DEF IInv
<1>6. CASE /\ call' = [call EXCEPT ![op] = Awaiting("closing", id, {}, 0)]
           /\ UNCHANGED <<memory, database>>
  <2> DEFINE r == Awaiting("closing", id, {}, 0)
  <2>1. StoreInv' BY <1>4, <1>6 DEF IInv, StoreInv, StoreTypeOK, Saved, memory, database
  <2>2. Undisturbed(op) BY <1>6 DEF Undisturbed, memory
  <2>3. Fits(op, r)
    BY <1>2, <1>4, BoundsAssumption
    DEF Fits, Calls, AwaitPoints, Awaiting, Reducing
  <2> HIDE DEF r
  <2>4. CallsInv'
    BY <1>1, <1>3, <1>4, <1>6, <2>2, <2>3, CallStep DEF IInv, r
  <2>5. QED BY <1>4, <2>1, <2>4 DEF IInv
<1>7. QED BY <1>5, <1>6 DEF ManualClose

\* A new position is none of the positions a call holds.
LEMMA OpenKeeps ==
  ASSUME IInv, NEW id \in Ids, OpenPaper(id) \/ OpenLive(id)
  PROVE  IInv'
<1>1. /\ id \notin opened /\ Add(id, NewObject) /\ opened' = opened \cup {id}
      /\ UNCHANGED <<call, lock, freeze, liveOn, atStop, tp1Sold, crashes>>
      /\ exch' = exch \/ exch' = [exch EXCEPT ![id] = Unit]
  BY DEF OpenPaper, OpenLive
<1>2. StoreInv' BY <1>1, NewObjectType, AddKeeps DEF IInv
<1>3. WorldTypeOK' BY <1>1, BoundsAssumption DEF IInv, WorldTypeOK
<1>4. ASSUME NEW c \in Callers PROVE CallInv(c)'
  <2>1. CallInv(c) BY DEF IInv, CallsInv
  <2>2. call[c].pc # "idle" => obj'[call[c].cur] = obj[call[c].cur]
    BY <1>1, <2>1 DEF CallInv, Add, IInv, StoreInv, StoreTypeOK
  <2>3. QED BY <1>1, <2>1, <2>2 DEF CallInv, Reducing
<1>5. CallsInv' BY <1>1, <1>4 DEF IInv, CallsInv
<1>6. QED BY <1>2, <1>3, <1>5 DEF IInv

LEMMA RestartKeeps == ASSUME IInv, Restart PROVE IInv'
<1>1. PICK aged \in SUBSET Saved :
        obj' = [id \in Ids |->
                  CASE id \in aged         -> [rows[id] EXCEPT !.restored = TRUE]
                    [] id \in Saved \ aged -> rows[id]
                    [] OTHER               -> obj[id]]
  BY DEF Restart
<1>2. \A id \in Saved : rows[id] \in Objects
  BY DEF Saved, IInv, StoreInv, StoreTypeOK
<1>3. \A id \in aged : [rows[id] EXCEPT !.restored = TRUE] \in Objects
  BY <1>2 DEF Objects
<1>4. obj' \in [Ids -> Objects]
  BY <1>1, <1>2, <1>3 DEF IInv, StoreInv, StoreTypeOK
<1>5. UNCHANGED database /\ opened' = opened BY DEF Restart
<1>6. open' = Saved /\ archives' = [id \in Ids |-> 0] BY DEF Restart
<1>7. StoreInv'
  BY <1>4, <1>5, <1>6 DEF IInv, StoreInv, StoreTypeOK, Saved, database
<1>8. \A c \in Callers : call'[c] = Idle BY DEF Restart
<1>9. ASSUME NEW c \in Callers PROVE CallInv(c)'
  BY <1>8, <1>9 DEF CallInv, Idle, Awaiting, Reducing
<1>10. CallsInv'
  BY <1>9, IdleFits DEF Restart, CallsInv, Fits
<1>11. WorldTypeOK' BY BoundsAssumption DEF Restart, IInv, WorldTypeOK
<1>12. QED BY <1>7, <1>10, <1>11 DEF IInv

LEMMA EnvironmentKeeps ==
  ASSUME IInv,
         \/ \E id \in Ids : ProtectionFires(id) \/ PriceMoves(id)
         \/ LiveSwitchedOff
         \/ UNCHANGED vars
  PROVE  IInv'
<1>1. /\ UNCHANGED <<memory, database>> /\ UNCHANGED <<call, lock>>
      /\ opened' = opened
  BY DEF ProtectionFires, PriceMoves, LiveSwitchedOff, vars, world
<1>2. StoreInv' BY <1>1 DEF IInv, StoreInv, StoreTypeOK, Saved, memory, database
<1>3. CallsInv' BY <1>1 DEF IInv, CallsInv, CallInv, memory
<1>4. WorldTypeOK'
  <2>1. CASE \E id \in Ids : ProtectionFires(id)
    BY <2>1, BoundsAssumption DEF IInv, WorldTypeOK, ProtectionFires
  <2>2. CASE \E id \in Ids : PriceMoves(id)
    BY <2>2 DEF IInv, WorldTypeOK, PriceMoves
  <2>3. CASE LiveSwitchedOff BY <2>3 DEF IInv, WorldTypeOK, LiveSwitchedOff
  <2>4. CASE UNCHANGED vars BY <2>4 DEF IInv, WorldTypeOK, vars, world
  <2>5. QED BY <2>1, <2>2, <2>3, <2>4
<1>5. QED BY <1>2, <1>3, <1>4 DEF IInv

------------------------------------------------------------------------------
(* The theorems.                                                           *)

LEMMA InitIInv == Init => IInv
<1> SUFFICES ASSUME Init PROVE IInv OBVIOUS
<1>1. StoreInv
  BY NewObjectType DEF Init, StoreInv, StoreTypeOK, Saved
<1>2. CallsInv
  <2>1. \A c \in Callers : call[c] = Idle BY DEF Init
  <2>2. \A c \in Callers : Idle \in Calls BY IdleFits DEF Fits
  <2>3. \A c \in Callers : CallInv(c)
    BY <2>1 DEF CallInv, Idle, Awaiting, Reducing
  <2>4. QED BY <2>2, <2>3 DEF Init, CallsInv
<1>3. WorldTypeOK
  <2>1. freeze \in BOOLEAN /\ liveOn \in BOOLEAN BY Zenon DEF Init
  <2>2. exch \in [Ids -> 0..Unit] /\ tp1Sold \in [Ids -> Nat]
        /\ crashes \in 0..MaxCrashes
    BY BoundsAssumption DEF Init
  <2>3. QED BY <2>1, <2>2 DEF Init, WorldTypeOK
<1>4. QED BY <1>1, <1>2, <1>3 DEF IInv

LEMMA NextIInv == IInv /\ [Next]_vars => IInv'
<1> SUFFICES ASSUME IInv, [Next]_vars PROVE IInv' OBVIOUS
<1>1. ASSUME NEW m \in Managers, PassStep(m) PROVE IInv'
  BY <1>1, BeginPassKeeps, PassKeeps DEF PassStep
<1>2. ASSUME NEW c \in Callers, OrderStep(c) PROVE IInv'
  BY <1>2, OrderKeeps
<1>3. ASSUME NEW id \in Ids, IdStep(id) PROVE IInv'
  BY <1>3, OpenKeeps, ManualCloseKeeps, EnvironmentKeeps DEF IdStep
<1>4. CASE Restart BY <1>4, RestartKeeps
<1>5. CASE LiveSwitchedOff \/ UNCHANGED vars BY <1>5, EnvironmentKeeps
<1>6. QED BY <1>1, <1>2, <1>3, <1>4, <1>5 DEF Next

\* The inductive invariant holds in every reachable state.
THEOREM Invariance == Spec => []IInv
BY InitIInv, NextIInv, PTL DEF Spec

\* Every variable keeps its type; in particular a tracked position never has
\* quantity 0, however reductions, failures and manual closes interleave.
THEOREM TypeCorrectness == Spec => []TypeOK
<1>1. IInv => TypeOK
  BY DEF IInv, StoreInv, CallsInv, CallInv, TypeOK, StoreTypeOK, CallTypeOK, Saved
<1>2. QED BY <1>1, Invariance, PTL

\* No position that was opened leaves both tables, and the registry and its
\* table agree at every await, for any number of concurrent passes, closes and
\* restarts: a restart manages the same positions as the process that died
\* (save_position runs at every await's end, archive_closed_position moves a
\* row in one transaction).
THEOREM NothingIsLost == Spec => []NothingLost
<1>1. IInv => NoPositionLost BY DEF IInv, StoreInv, NoPositionLost
<1>2. IInv => RegistryMatchesTable BY DEF IInv, StoreInv, RegistryMatchesTable
<1>3. QED BY <1>1, <1>2, Invariance, PTL DEF NothingLost

-----------------------------------------------------------------------------
(***************************************************************************)
(* What PositionLifecycle guarantees about the quantity the exchange holds,*)
(* for any number of positions, callers, restarts, fills and failures.     *)
(*                                                                         *)
(* Two assumptions are about the exchange and are stated in the theorems:  *)
(* an accepted order executes something (MinFill >= 1), and an accepted    *)
(* order executes completely (MinFill >= Unit).                            *)
(***************************************************************************)

\* Neither the object nor its row understates the exchange, also while the
\* executed part of a reduction has not been subtracted yet.
BooksInv ==
  /\ \A id \in PaperIds : exch[id] = 0
  /\ \A id \in Ids : exch[id] <= obj[id].qty
  /\ \A id \in Saved : exch[id] <= rows[id].qty
  /\ \A c \in Callers : call[c].pc \in Reducing =>
       exch[call[c].cur] + call[c].fill <= obj[call[c].cur].qty

\* A close in flight asks for all the exchange holds, and has it when filled.
FlatInv ==
  /\ \A id \in LiveIds \cap closedRows : exch[id] = 0
  /\ \A c \in Callers : call[c].pc = "close" =>
       /\ exch[call[c].cur] <= call[c].want
       /\ call[c].fill > 0 => exch[call[c].cur] = 0

\* What a step of a call on its own position changes, seen from the exchange:
\* it leaves o, or o with another lock_status, in the place of its position,
\* starts no close order, and archives paper positions only.
Effect(c, o) ==
  /\ \E r \in Calls : call' = [call EXCEPT ![c] = r] /\ r.fill = 0 /\ r.pc # "close"
  /\ \E q \in Objects :
       /\ q.qty = o.qty
       /\ obj' = [obj EXCEPT ![Id(c)] = q]
       /\ rows' \in {rows, [rows EXCEPT ![Id(c)] = q],
                     [rows EXCEPT ![Id(c)] = NoRow]}
  /\ \/ closedRows' = closedRows
     \/ Id(c) \in PaperIds /\ closedRows' = closedRows \cup {Id(c)}

------------------------------------------------------------------------------
(* The helpers of the pass have such an effect.                            *)

LEMMA ContinueCall ==
  ASSUME NEW c, NEW o, Acting(c, o), Continue(c)
  PROVE  \E r \in Calls : call' = [call EXCEPT ![c] = r] /\ r.fill = 0 /\ r.pc # "close"
<1>1. call[c] \in Calls BY ActingTypes
<1>2. CASE call' = [call EXCEPT ![c] = Idle]
  BY <1>2, IdleFits DEF Acting, Fits, Idle, Awaiting
<1>3. CASE \E id \in call[c].todo :
             call' = [call EXCEPT ![c] = Awaiting("quote", id, call[c].todo \ {id}, 0)]
  <2>1. PICK id \in call[c].todo :
          call' = [call EXCEPT ![c] = Awaiting("quote", id, call[c].todo \ {id}, 0)]
    BY <1>3
  <2>2. Awaiting("quote", id, call[c].todo \ {id}, 0) \in Calls
    BY <1>1, BoundsAssumption DEF Calls, AwaitPoints, Awaiting
  <2>3. QED BY <2>1, <2>2 DEF Awaiting
<1>4. QED BY <1>2, <1>3 DEF Continue, NextPosition

LEMMA AbortCall ==
  ASSUME NEW c, NEW o, Acting(c, o), Abort(c)
  PROVE  \E r \in Calls : call' = [call EXCEPT ![c] = r] /\ r.fill = 0 /\ r.pc # "close"
BY IdleFits DEF Abort, Acting, Fits, Idle, Awaiting

LEMMA SuspendCall ==
  ASSUME NEW c, NEW o, Acting(c, o), NEW pc \in AwaitPoints \ {"idle"},
         NEW want \in 0..Unit, Suspend(c, pc, want)
  PROVE  \E r \in Calls : call' = [call EXCEPT ![c] = r] /\ r.fill = 0 /\ r.pc = pc
                         /\ r.cur = call[c].cur /\ r.want = want
<1> DEFINE r == Awaiting(pc, call[c].cur, call[c].todo, want)
<1>1. call[c] \in Calls BY ActingTypes
<1>2. call' = [call EXCEPT ![c] = r] BY DEF Suspend, CallsInv, Acting
<1>3. r \in Calls BY <1>1, BoundsAssumption DEF Calls, Awaiting
<1>4. QED BY <1>2, <1>3 DEF Awaiting

LEMMA LiveFailureEffect ==
  ASSUME NEW c, NEW o, Acting(c, o), LiveFailure(c, o) PROVE Effect(c, o)
<1> DEFINE q == [o EXCEPT !.restored = FALSE]
<1>1. q \in Objects /\ q.qty = o.qty BY DEF Acting, Objects
<1>2. Add(Id(c), q) /\ Abort(c) BY DEF LiveFailure
<1>3. QED BY <1>1, <1>2, AbortCall DEF Effect, Add

LEMMA SaveAndContinueEffect ==
  ASSUME NEW c, NEW o, Acting(c, o), SaveAndContinue(c, o) PROVE Effect(c, o)
BY ContinueCall DEF SaveAndContinue, Add, Effect, Acting

LEMMA MutateEffect ==
  ASSUME NEW c, NEW o, Acting(c, o), Mutate(Id(c), o),
         \E r \in Calls : call' = [call EXCEPT ![c] = r] /\ r.fill = 0 /\ r.pc # "close"
  PROVE  Effect(c, o)
BY DEF Mutate, Effect, Acting, database

LEMMA StartCloseEffect ==
  ASSUME NEW c, NEW o, Acting(c, o), StartClose(c, o) PROVE Effect(c, o)
<1>1. CASE Id(c) \in PaperIds /\ Archive(Id(c), o) /\ Continue(c)
  BY <1>1, ContinueCall DEF Archive, Effect, Acting
<1>2. CASE Mutate(Id(c), o) /\ Suspend(c, "closing", 0)
  BY <1>2, SuspendCall, MutateEffect, BoundsAssumption DEF AwaitPoints
<1>3. CASE LiveFailure(c, o) BY <1>3, LiveFailureEffect
<1>4. QED BY <1>1, <1>2, <1>3 DEF StartClose

LEMMA StartSyncEffect ==
  ASSUME NEW c, NEW o, Acting(c, o), NEW pc \in {"soft", "tp1sync", "trail"},
         StartSync(c, pc, o)
  PROVE  Effect(c, o)
<1>1. CASE Mutate(Id(c), o) /\ Suspend(c, pc, 0)
  BY <1>1, SuspendCall, MutateEffect, BoundsAssumption DEF AwaitPoints
<1>2. CASE Mutate(Id(c), o) /\ Abort(c) BY <1>2, AbortCall, MutateEffect
<1>3. QED BY <1>1, <1>2 DEF StartSync

LEMMA Stage2Effect ==
  ASSUME NEW c, NEW o, Acting(c, o), Stage2(c, o) PROVE Effect(c, o)
BY StartCloseEffect, SaveAndContinueEffect, StartSyncEffect DEF Stage2, FinishStage2

\* TP1 of a paper position leaves less than o; a live one is not reduced yet.
LEMMA FinishStage1Effect ==
  ASSUME NEW m \in Managers, NEW o, Acting(m, o), FinishStage1(m, o)
  PROVE  \/ Effect(m, o)
         \/ /\ Id(m) \in PaperIds /\ Acting(m, Tp1Done(o, Half(o)))
            /\ Effect(m, Tp1Done(o, Half(o)))
<1>1. o \in Objects BY DEF Acting
<1>2. Half(o) \in 0..Unit /\ Half(o) < o.qty
  BY <1>1, HalfBounds DEF Half, Objects
<1>3. CASE SaveAndContinue(m, o) BY <1>3, SaveAndContinueEffect
<1>4. CASE Id(m) \in PaperIds /\ Stage2(m, Tp1Done(o, Half(o)))
  <2>1. Acting(m, Tp1Done(o, Half(o))) BY <1>1, <1>2, Tp1DoneType DEF Acting
  <2>2. QED BY <1>4, <2>1, Stage2Effect
<1>5. CASE Mutate(Id(m), o) /\ Suspend(m, "tp1", Half(o))
  BY <1>2, <1>5, SuspendCall, MutateEffect DEF AwaitPoints
<1>6. CASE LiveFailure(m, o) BY <1>6, LiveFailureEffect
<1>7. QED BY <1>3, <1>4, <1>5, <1>6 DEF FinishStage1

------------------------------------------------------------------------------
(* The two invariants under such an effect.                                *)

LEMMA Types ==
  ASSUME IInv
  PROVE  /\ obj \in [Ids -> Objects] /\ rows \in [Ids -> Objects \cup {NoRow}]
         /\ exch \in [Ids -> 0..Unit] /\ call \in [Callers -> Calls]
         /\ opened \subseteq Ids /\ Saved \subseteq Ids
         /\ \A c \in Callers : call[c].pc # "idle" => call[c].cur \in opened
         /\ \A o \in Objects : o.qty \in 1..Unit
BY DEF IInv, StoreInv, StoreTypeOK, Saved, CallsInv, CallInv, WorldTypeOK, Objects

LEMMA EffectKeepsBooks ==
  ASSUME IInv, IInv', BooksInv, NEW c, NEW o, Acting(c, o), Effect(c, o),
         exch' = exch, exch[Id(c)] <= o.qty
  PROVE  BooksInv'
<1>1. PICK r \in Calls : call' = [call EXCEPT ![c] = r] /\ r.fill = 0 /\ r.pc # "close"
  BY DEF Effect
<1>2. PICK q \in Objects :
        /\ q.qty = o.qty
        /\ obj' = [obj EXCEPT ![Id(c)] = q]
        /\ rows' \in {rows, [rows EXCEPT ![Id(c)] = q],
                      [rows EXCEPT ![Id(c)] = NoRow]}
  BY DEF Effect
<1>3. Id(c) \in Ids BY ActingTypes
<1>4. \A id \in Ids : exch'[id] <= obj'[id].qty
  BY <1>2, <1>3 DEF BooksInv, IInv, StoreInv, StoreTypeOK
<1>5. \A id \in Saved' : exch'[id] <= rows'[id].qty
  BY <1>2, <1>3, RowAssumption DEF BooksInv, IInv, StoreInv, StoreTypeOK, Saved
<1>6. Undisturbed(c)
  <2>1. Acting(c, q) BY <1>2 DEF Acting
  <2>2. QED BY <1>2, <2>1, ActingUndisturbed
<1>7. ASSUME NEW d \in Callers, call'[d].pc \in Reducing
      PROVE  exch'[call'[d].cur] + call'[d].fill <= obj'[call'[d].cur].qty
  <2>1. call'[d].cur \in Ids
    BY <1>7 DEF IInv, StoreInv, StoreTypeOK, Saved, CallsInv, CallInv, Reducing
  <2>2. CASE d = c
    <3>1. call'[d].fill = 0 BY <1>1, <2>2 DEF IInv, CallsInv
    <3>2. exch'[call'[d].cur] \in 0..Unit BY <2>1 DEF IInv, WorldTypeOK
    <3>3. QED BY <3>1, <3>2, <2>1, <1>4, BoundsAssumption
  <2>3. CASE d # c
    <3>1. call'[d] = call[d] BY <1>1, <2>3 DEF IInv, CallsInv
    <3>2. obj'[call[d].cur].qty = obj[call[d].cur].qty
      BY <1>6, <1>7, <2>3, <3>1 DEF Undisturbed
    <3>3. QED BY <1>7, <3>1, <3>2 DEF BooksInv
  <2>4. QED BY <2>2, <2>3
<1>8. QED BY <1>4, <1>5, <1>7 DEF BooksInv

LEMMA EffectKeepsFlat ==
  ASSUME IInv, FlatInv, NEW c, NEW o, Acting(c, o), Effect(c, o), exch' = exch
  PROVE  FlatInv'
<1>1. PICK r \in Calls : call' = [call EXCEPT ![c] = r] /\ r.pc # "close"
  BY DEF Effect
<1>2. \A id \in LiveIds \cap closedRows' : id \in closedRows
  BY IdsAssumption DEF Effect
<1>3. \A d \in Callers : call'[d].pc = "close" => call'[d] = call[d]
  BY <1>1 DEF IInv, CallsInv
<1>4. QED BY <1>2, <1>3 DEF FlatInv

\* What a step has to keep, under the assumptions on the exchange.
ExchangeKept ==
  /\ MinFill >= 1 /\ BooksInv => BooksInv'
  /\ MinFill >= Unit /\ BooksInv /\ FlatInv => FlatInv'

LEMMA EffectKeeps ==
  ASSUME IInv, IInv', NEW c, NEW o, Acting(c, o), Effect(c, o), exch' = exch,
         BooksInv => exch[Id(c)] <= o.qty
  PROVE  ExchangeKept
BY EffectKeepsBooks, EffectKeepsFlat DEF ExchangeKept

\* The same for a step that leaves the store alone and suspends the call.
LEMMA CallMovesKeeps ==
  ASSUME IInv, IInv', UNCHANGED <<memory, database, exch>>,
         NEW c \in Callers, NEW r \in Calls, call' = [call EXCEPT ![c] = r],
         r.fill = 0,
         BooksInv /\ r.pc = "close" => exch[r.cur] <= r.want
  PROVE  ExchangeKept
<1>1. \A d \in Callers : call'[d] = IF d = c THEN r ELSE call[d]
  BY DEF IInv, CallsInv
<1>2. r.pc \in Reducing => r.cur \in Ids
  BY <1>1 DEF IInv, StoreInv, StoreTypeOK, Saved, CallsInv, CallInv, Reducing
<1>3. BooksInv => BooksInv'
  BY <1>1, <1>2, Types, BoundsAssumption DEF BooksInv, memory, database, Saved
<1>4. BooksInv /\ FlatInv => FlatInv' BY <1>1 DEF FlatInv, database
<1>5. QED BY <1>3, <1>4 DEF ExchangeKept

\* The same for a step that touches neither the store nor a call, and only
\* takes from what the exchange holds.
LEMMA WorldMovesKeeps ==
  ASSUME IInv, IInv', UNCHANGED <<memory, database, call>>,
         \A id \in Ids : exch'[id] <= exch[id]
  PROVE  ExchangeKept
<1>1. \A id \in Ids : exch[id] \in Nat /\ exch'[id] \in Nat
  BY BoundsAssumption DEF IInv, WorldTypeOK
<1>2. \A id \in Ids : exch[id] = 0 => exch'[id] = 0 BY <1>1
<1>3. \A c \in Callers : call[c].pc # "idle" => call[c].cur \in Ids
  BY Types
<1>4. BooksInv => BooksInv'
  BY <1>1, <1>2, <1>3, Types, IdsAssumption, BoundsAssumption
  DEF BooksInv, memory, database, Saved, Reducing, Ids, Calls
<1>5. FlatInv => FlatInv'
  BY <1>1, <1>2, <1>3, Types, BoundsAssumption DEF FlatInv, database, Calls, Ids
<1>6. QED BY <1>4, <1>5 DEF ExchangeKept

------------------------------------------------------------------------------
(* The steps.                                                              *)

LEMMA SuspendOnly ==
  ASSUME IInv, IInv', NEW c \in Callers, Acting(c, Obj(c)),
         NEW pc \in AwaitPoints \ {"idle"}, NEW want \in 0..Unit,
         Suspend(c, pc, want), UNCHANGED <<memory, database, exch>>,
         BooksInv /\ pc = "close" => exch[Id(c)] <= want
  PROVE  ExchangeKept
BY SuspendCall, CallMovesKeeps DEF Id

LEMMA PassExchange ==
  ASSUME IInv, IInv', NEW m \in Managers, PassStep(m)
  PROVE  ExchangeKept
<1> DEFINE o == Obj(m)
<1>1. exch' = exch /\ opened' = opened
  BY DEF PassStep, BeginPass, StaleQuote, QuoteCloses, QuoteHolds, DecideExit,
         DecideReduce, DecideHold, SyncDone, SyncFails, ReduceDone, world
<1>2. m \in Callers /\ m \notin Operators BY IdsAssumption DEF Callers
<1>3. CASE BeginPass(m)
  <2>1. PICK id \in open :
          call' = [call EXCEPT ![m] = Awaiting("quote", id, open \ {id}, 0)]
    BY <1>3 DEF BeginPass
  <2>2. Awaiting("quote", id, open \ {id}, 0) \in Calls
    BY BoundsAssumption DEF IInv, StoreInv, StoreTypeOK, Calls, AwaitPoints, Awaiting
  <2>3. UNCHANGED <<memory, database>> BY <1>3 DEF BeginPass
  <2>4. QED BY <1>1, <1>2, <2>1, <2>2, <2>3, CallMovesKeeps DEF Awaiting
<1>4. CASE ~BeginPass(m)
  <2>1. call[m].pc # "idle"
    BY <1>4 DEF PassStep, StaleQuote, QuoteCloses, QuoteHolds, DecideExit,
           DecideReduce, DecideHold, SyncDone, SyncFails, ReduceDone
  <2>2. /\ Acting(m, o) /\ o \in Objects /\ Id(m) \in Ids
        /\ call[m] \in Calls /\ CallInv(m)
    BY <1>1, <1>2, <2>1, PassActs
  <2>3. BooksInv => exch[Id(m)] <= o.qty BY <2>2 DEF BooksInv, Obj
  <2>4. o.qty \in 1..Unit /\ exch[Id(m)] \in 0..Unit
    BY <2>2 DEF Objects, IInv, WorldTypeOK
  <2> HIDE DEF o
  <2>5. CASE StaleQuote(m)
    BY <1>1, <2>2, <2>3, <2>5, SaveAndContinueEffect, EffectKeeps DEF StaleQuote, o
  <2>6. CASE QuoteCloses(m) \/ DecideExit(m)
    BY <1>1, <2>2, <2>3, <2>6, StartCloseEffect, EffectKeeps
    DEF QuoteCloses, DecideExit, o
  <2>7. CASE QuoteHolds(m)
    BY <1>1, <1>2, <2>2, <2>7, SuspendOnly, BoundsAssumption
    DEF QuoteHolds, AwaitPoints, o
  <2>8. CASE DecideReduce(m)
    <3>1. PICK k \in 0..Half(o) :
            \/ /\ Id(m) \in PaperIds
               /\ SaveAndContinue(m, [o EXCEPT !.qty = @ - k])
            \/ /\ Suspend(m, "reduce", k)
               /\ UNCHANGED <<memory, database>>
            \/ LiveFailure(m, o)
      BY <2>8 DEF DecideReduce, o
    <3>2. Half(o) \in 0..Unit /\ Half(o) < o.qty
      BY <2>4, HalfBounds DEF Half
    <3>3. k \in 0..Unit /\ k < o.qty BY <2>4, <3>2, BoundsAssumption
    <3>4. CASE Id(m) \in PaperIds /\ SaveAndContinue(m, [o EXCEPT !.qty = @ - k])
      <4> DEFINE q == [o EXCEPT !.qty = @ - k]
      <4>1. q \in Objects /\ q.qty = o.qty - k
        BY <2>2, <2>4, <3>3, BoundsAssumption DEF Objects
      <4>2. Acting(m, q) BY <1>2, <2>2, <4>1 DEF Acting
      <4> HIDE DEF q
      <4>3. BooksInv => exch[Id(m)] <= q.qty
        BY <2>4, <3>3, <3>4, <4>1, BoundsAssumption DEF BooksInv
      <4>4. Effect(m, q) BY <3>4, <4>2, SaveAndContinueEffect DEF q
      <4>5. QED BY <1>1, <4>2, <4>3, <4>4, EffectKeeps
    <3>5. CASE Suspend(m, "reduce", k) /\ UNCHANGED <<memory, database>>
      BY <1>1, <1>2, <2>2, <3>3, <3>5, SuspendOnly DEF AwaitPoints, o
    <3>6. CASE LiveFailure(m, o)
      BY <1>1, <2>2, <2>3, <3>6, LiveFailureEffect, EffectKeeps
    <3>7. QED BY <3>1, <3>4, <3>5, <3>6
  <2>9. ASSUME FinishStage1(m, o) PROVE ExchangeKept
    <3>1. CASE Effect(m, o) BY <1>1, <2>2, <2>3, <3>1, EffectKeeps
    <3>2. CASE /\ Id(m) \in PaperIds /\ Acting(m, Tp1Done(o, Half(o)))
               /\ Effect(m, Tp1Done(o, Half(o)))
      <4> DEFINE q == Tp1Done(o, Half(o))
      <4>1. q.qty \in 1..Unit BY <3>2 DEF Acting, Objects
      <4> HIDE DEF q
      <4>2. BooksInv => exch[Id(m)] <= q.qty
        BY <3>2, <4>1, BoundsAssumption DEF BooksInv
      <4>3. QED BY <1>1, <3>2, <4>2, EffectKeeps DEF q
    <3>3. QED BY <2>2, <2>9, <3>1, <3>2, FinishStage1Effect
  <2>10. ASSUME NEW pc \in {"soft", "tp1sync", "trail"}, StartSync(m, pc, o)
         PROVE  ExchangeKept
    BY <1>1, <2>2, <2>3, <2>10, StartSyncEffect, EffectKeeps
  <2>11. ASSUME Stage2(m, o) PROVE ExchangeKept
    BY <1>1, <2>2, <2>3, <2>11, Stage2Effect, EffectKeeps
  <2>12. CASE DecideHold(m)
    BY <2>9, <2>10, <2>11, <2>12 DEF DecideHold, Stage1, o
  <2>13. CASE SyncDone(m)
    BY <2>9, <2>11, <2>13 DEF SyncDone, Stage2, o
  <2>14. CASE SyncFails(m)
    <3>1. Abort(m) /\ UNCHANGED <<memory, database>> BY <2>14 DEF SyncFails
    <3>2. PICK r \in Calls : call' = [call EXCEPT ![m] = r] /\ r.fill = 0 /\ r.pc # "close"
      BY <2>2, <3>1, AbortCall
    <3>3. QED BY <1>1, <1>2, <3>1, <3>2, CallMovesKeeps
  <2>15. CASE ReduceDone(m)
    <3> DEFINE k == call[m].fill
    <3>1. k \in 0..Unit /\ k < o.qty
      BY <2>15, <2>2, <2>4, BoundsAssumption
      DEF ReduceDone, CallInv, Reducing, o, Obj, Id, Calls
    <3>2. BooksInv => exch[Id(m)] <= o.qty - k
      BY <1>2, <2>4, <2>15, <3>1, BoundsAssumption DEF BooksInv, ReduceDone, Reducing, o, Obj, Id
    <3>3. CASE SaveAndContinue(m, [o EXCEPT !.qty = @ - k])
      <4> DEFINE q == [o EXCEPT !.qty = @ - k]
      <4>1. q \in Objects /\ q.qty = o.qty - k
        BY <2>2, <2>4, <3>1, BoundsAssumption DEF Objects
      <4>2. Acting(m, q) BY <1>2, <2>2, <4>1 DEF Acting
      <4>3. Effect(m, q) BY <3>3, <4>2, SaveAndContinueEffect
      <4> HIDE DEF q
      <4>4. QED BY <1>1, <3>2, <4>1, <4>2, <4>3, EffectKeeps
    <3>4. CASE StartSync(m, "tp1sync", Tp1Done(o, k))
      <4> DEFINE q == Tp1Done(o, k)
      <4>1. q \in Objects /\ q.qty = o.qty - k BY <2>2, <3>1, Tp1DoneType
      <4>2. Acting(m, q) BY <1>2, <2>2, <4>1 DEF Acting
      <4>3. Effect(m, q) BY <3>4, <4>2, StartSyncEffect
      <4> HIDE DEF q
      <4>4. QED BY <1>1, <3>2, <4>1, <4>2, <4>3, EffectKeeps
    <3>5. QED BY <2>15, <3>3, <3>4 DEF ReduceDone, o
  <2>16. QED
    BY <1>4, <2>5, <2>6, <2>7, <2>8, <2>12, <2>13, <2>14, <2>15 DEF PassStep
<1>5. QED BY <1>3, <1>4

LEMMA FillExchange ==
  ASSUME IInv, IInv', NEW c \in Callers, OrderFills(c)
  PROVE  ExchangeKept
<1>1. PICK k \in 0..Unit :
        /\ k <= call[c].want /\ k <= exch[Id(c)]
        /\ k >= MinFill \/ k = call[c].want \/ k = exch[Id(c)]
        /\ call' = [call EXCEPT ![c].fill = IF k = 0 THEN call[c].want ELSE k]
        /\ exch' = [exch EXCEPT ![Id(c)] = @ - k]
  BY DEF OrderFills
<1>2. /\ call[c].pc \in Ordering /\ call[c].want > 0 /\ exch[Id(c)] > 0
      /\ UNCHANGED <<memory, database>>
  BY DEF OrderFills
<1>3. /\ call[c] \in Calls /\ Id(c) \in Ids /\ exch[Id(c)] \in 0..Unit
      /\ call[c].want \in 0..Unit /\ Unit \in Nat \ {0} /\ MinFill \in Nat
  BY <1>2, BoundsAssumption, Types
  DEF Ordering, Id, Calls, IInv, CallsInv, CallInv, WorldTypeOK
<1> DEFINE f == IF k = 0 THEN call[c].want ELSE k
           r == [call[c] EXCEPT !.fill = f]
<1>4. r.fill = f /\ r.pc = call[c].pc /\ r.cur = Id(c) /\ r.want = call[c].want
  BY <1>3 DEF Calls, Id
<1>5. \A d \in Callers : call'[d] = IF d = c THEN r ELSE call[d]
  BY <1>1 DEF IInv, CallsInv
<1>6. MinFill >= 1 => k > 0 /\ f = k BY <1>1, <1>2, <1>3
<1>7. MinFill >= Unit /\ exch[Id(c)] <= call[c].want => k = exch[Id(c)]
  BY <1>1, <1>3
<1> HIDE DEF f, r
<1>8. \A id \in Ids : /\ exch[id] \in Nat /\ exch'[id] \in Nat
                      /\ exch'[id] = IF id = Id(c) THEN exch[id] - k ELSE exch[id]
                      /\ exch'[id] <= exch[id]
                      /\ exch[id] = 0 => exch'[id] = 0
  BY <1>1, <1>3, BoundsAssumption DEF IInv, WorldTypeOK
<1>9. \A d \in Callers : call[d].pc # "idle" => call[d].cur \in Ids
  BY Types
<1>10. ASSUME MinFill >= 1, BooksInv PROVE BooksInv'
  <2>1. \A id \in PaperIds : exch'[id] = 0
    BY <1>8, <1>10 DEF BooksInv, Ids
  <2>2. \A id \in Ids : exch'[id] <= obj'[id].qty
    BY <1>2, <1>8, <1>10, Types, BoundsAssumption DEF BooksInv, memory
  <2>3. \A id \in Saved' : exch'[id] <= rows'[id].qty
    BY <1>2, <1>8, <1>10, Types, BoundsAssumption DEF BooksInv, database, Saved
  <2>4. ASSUME NEW d \in Callers, call'[d].pc \in Reducing
        PROVE  exch'[call'[d].cur] + call'[d].fill <= obj'[call'[d].cur].qty
    <3>1. CASE d = c
      <4>1. call'[d] = r /\ exch'[r.cur] + r.fill = exch[Id(c)]
        BY <1>3, <1>4, <1>5, <1>6, <1>8, <1>10, <3>1
      <4>2. QED BY <1>2, <1>3, <1>4, <1>10, <4>1 DEF BooksInv, memory
    <3>2. CASE d # c
      <4>1. call'[d] = call[d] /\ call[d].cur \in Ids
        BY <1>5, <1>9, <2>4, <3>2 DEF Reducing
      <4>2. call[d].fill \in Nat /\ obj[call[d].cur].qty \in Nat
        BY <4>1, Types, BoundsAssumption DEF Calls
      <4>3. exch[call[d].cur] + call[d].fill <= obj[call[d].cur].qty
        BY <1>10, <2>4, <4>1 DEF BooksInv
      <4>4. QED BY <1>2, <1>8, <4>1, <4>2, <4>3 DEF memory
    <3>3. QED BY <3>1, <3>2
  <2>5. QED BY <2>1, <2>2, <2>3, <2>4 DEF BooksInv
<1>11. ASSUME MinFill >= Unit, FlatInv PROVE FlatInv'
  <2>1. \A id \in LiveIds \cap closedRows' : exch'[id] = 0
    BY <1>2, <1>8, <1>11 DEF FlatInv, database, Ids
  <2>2. ASSUME NEW d \in Callers, call'[d].pc = "close"
        PROVE  /\ exch'[call'[d].cur] <= call'[d].want
               /\ call'[d].fill > 0 => exch'[call'[d].cur] = 0
    <3>1. CASE d = c
      <4>1. call'[d] = r /\ call[c].pc = "close" BY <1>4, <1>5, <2>2, <3>1
      <4>2. exch[Id(c)] <= call[c].want BY <4>1, <1>11 DEF FlatInv, Id
      <4>3. exch'[Id(c)] = 0 BY <1>3, <1>7, <1>8, <1>11, <4>2
      <4>4. QED BY <1>3, <1>4, <4>1, <4>3
    <3>2. CASE d # c
      <4>1. call'[d] = call[d] /\ call[d].cur \in Ids
        BY <1>5, <1>9, <2>2, <3>2
      <4>2. call[d].want \in Nat BY Types, BoundsAssumption DEF Calls
      <4>3. QED BY <1>8, <1>11, <2>2, <4>1, <4>2 DEF FlatInv
    <3>3. QED BY <3>1, <3>2
  <2>3. QED BY <2>1, <2>2 DEF FlatInv
<1>12. QED BY <1>10, <1>11 DEF ExchangeKept

LEMMA OrderExchange ==
  ASSUME IInv, IInv', NEW c \in Callers, OrderStep(c)
  PROVE  ExchangeKept
<1> DEFINE o == Obj(c)
<1>1. call[c].pc # "idle" /\ opened' = opened
  BY DEF OrderStep, SendClose, OrderFills, OrderRaises, CloseDone, Ordering, world
<1>2. /\ Acting(c, o) /\ o \in Objects /\ Id(c) \in Ids
      /\ call[c] \in Calls /\ CallInv(c)
  BY <1>1, PassActs
<1>3. BooksInv => exch[Id(c)] <= o.qty BY <1>2 DEF BooksInv, Obj
<1>4. o.qty \in 0..Unit BY <1>2, BoundsAssumption DEF Objects
<1> HIDE DEF o
<1>5. CASE SendClose(c)
  <2>1. Suspend(c, "close", o.qty) /\ UNCHANGED <<memory, database, exch>>
    BY <1>5 DEF SendClose, world, o
  <2>2. QED BY <1>2, <1>3, <1>4, <2>1, SuspendOnly DEF AwaitPoints, o
<1>6. CASE OrderFills(c) BY <1>6, FillExchange
<1>7. CASE OrderRaises(c)
  BY <1>2, <1>3, <1>7, LiveFailureEffect, EffectKeeps DEF OrderRaises, world, o
<1>8. CASE CloseDone(c)
  <2>1. /\ call[c].pc = "close" /\ call[c].fill > 0
        /\ Archive(Id(c), o) /\ Continue(c) /\ exch' = exch
    BY <1>8 DEF CloseDone, world, o
  <2>2. PICK r \in Calls : call' = [call EXCEPT ![c] = r] /\ r.fill = 0 /\ r.pc # "close"
    BY <1>2, <2>1, ContinueCall
  <2>3. BooksInv => BooksInv'
    <3>1. \A d \in Callers : call'[d] = IF d = c THEN r ELSE call[d]
      BY <2>2 DEF IInv, CallsInv
    <3>2. r.pc \in Reducing => r.cur \in Ids
      BY <3>1 DEF IInv, StoreInv, StoreTypeOK, Saved, CallsInv, CallInv, Reducing
    <3>3. obj' = obj BY <1>2, <2>1, Types DEF Archive, o, Obj
    <3>4. Saved' = Saved \ {Id(c)} /\ \A id \in Saved' : rows'[id] = rows[id]
      BY <1>2, <2>1, Types DEF Archive, Saved
    <3>5. QED
      BY <2>1, <2>2, <3>1, <3>2, <3>3, <3>4, Types, BoundsAssumption DEF BooksInv
  <2>4. FlatInv => FlatInv'
    <3>1. FlatInv => exch[Id(c)] = 0 BY <1>2, <2>1 DEF FlatInv, Acting, Id
    <3>2. \A d \in Callers : call'[d].pc = "close" => call'[d] = call[d]
      BY <2>2 DEF IInv, CallsInv
    <3>3. QED BY <2>1, <3>1, <3>2 DEF FlatInv, Archive
  <2>5. QED BY <2>3, <2>4 DEF ExchangeKept
<1>9. QED BY <1>5, <1>6, <1>7, <1>8 DEF OrderStep

LEMMA ManualCloseExchange ==
  ASSUME IInv, IInv', NEW op \in Operators, NEW id \in Ids, ManualClose(op, id)
  PROVE  ExchangeKept
<1>1. exch' = exch /\ op \in Callers BY DEF ManualClose, world, Callers
<1>2. CASE id \in PaperIds /\ Archive(id, obj[id]) /\ UNCHANGED call
  <2>1. obj' = obj BY <1>2, Types DEF Archive
  <2>2. Saved' = Saved \ {id} /\ \A i \in Saved' : rows'[i] = rows[i]
    BY <1>2, Types DEF Archive, Saved
  <2>3. BooksInv => BooksInv' BY <1>1, <1>2, <2>1, <2>2 DEF BooksInv
  <2>4. FlatInv => FlatInv'
    BY <1>1, <1>2, IdsAssumption DEF FlatInv, Archive
  <2>5. QED BY <2>3, <2>4 DEF ExchangeKept
<1>3. CASE /\ call' = [call EXCEPT ![op] = Awaiting("closing", id, {}, 0)]
           /\ UNCHANGED <<memory, database>>
  <2>1. Awaiting("closing", id, {}, 0) \in Calls
    BY BoundsAssumption DEF Calls, AwaitPoints, Awaiting
  <2>2. QED BY <1>1, <1>3, <2>1, CallMovesKeeps DEF Awaiting
<1>4. QED BY <1>2, <1>3 DEF ManualClose

LEMMA OpenExchange ==
  ASSUME IInv, IInv', NEW id \in Ids, OpenPaper(id) \/ OpenLive(id)
  PROVE  ExchangeKept
<1>1. /\ id \notin opened /\ Add(id, NewObject) /\ UNCHANGED call
      /\ \/ exch' = exch
         \/ id \in LiveIds /\ exch' = [exch EXCEPT ![id] = Unit]
  BY DEF OpenPaper, OpenLive
<1>2. NewObject.qty = Unit BY DEF NewObject
<1>3. \A c \in Callers : call[c].pc # "idle" => call[c].cur \in Ids \ {id}
  BY <1>1, Types
<1>4. \A i \in Ids \ {id} : exch'[i] = exch[i] /\ obj'[i] = obj[i] /\ rows'[i] = rows[i]
  BY <1>1, Types DEF Add
<1>5. obj'[id] = NewObject /\ rows'[id] = NewObject /\ exch'[id] <= Unit
  BY <1>1, Types, BoundsAssumption DEF Add
<1>6. id \in PaperIds => exch'[id] = exch[id] BY <1>1, IdsAssumption
<1>7. BooksInv => BooksInv'
  <2> SUFFICES ASSUME BooksInv PROVE BooksInv' OBVIOUS
  <2>1. \A i \in PaperIds : exch'[i] = 0 BY <1>4, <1>6 DEF BooksInv, Ids
  <2>2. \A i \in Ids : exch'[i] <= obj'[i].qty
    BY <1>2, <1>4, <1>5 DEF BooksInv
  <2>3. \A i \in Saved' : exch'[i] <= rows'[i].qty
    BY <1>2, <1>4, <1>5 DEF BooksInv, Saved
  <2>4. \A c \in Callers : call'[c].pc \in Reducing =>
          exch'[call'[c].cur] + call'[c].fill <= obj'[call'[c].cur].qty
    BY <1>1, <1>3, <1>4 DEF BooksInv, Reducing
  <2>5. QED BY <2>1, <2>2, <2>3, <2>4 DEF BooksInv
<1>8. FlatInv => FlatInv'
  <2>1. id \notin closedRows /\ closedRows' = closedRows /\ closedRows \subseteq Ids
    BY <1>1 DEF IInv, StoreInv, StoreTypeOK, Add
  <2>2. QED BY <1>1, <1>3, <1>4, <2>1 DEF FlatInv
<1>9. QED BY <1>7, <1>8 DEF ExchangeKept

LEMMA RestartExchange == ASSUME IInv, IInv', Restart PROVE ExchangeKept
<1>1. PICK aged \in SUBSET Saved :
        obj' = [id \in Ids |->
                  CASE id \in aged         -> [rows[id] EXCEPT !.restored = TRUE]
                    [] id \in Saved \ aged -> rows[id]
                    [] OTHER               -> obj[id]]
  BY DEF Restart
<1>2. /\ exch' = exch /\ rows' = rows /\ closedRows' = closedRows
      /\ \A c \in Callers : call'[c] = Idle
  BY DEF Restart, database
<1>3. \A id \in Saved : rows[id] \in Objects BY Types DEF Saved
<1>4. \A id \in aged : [rows[id] EXCEPT !.restored = TRUE].qty = rows[id].qty
  BY <1>3 DEF Objects
<1>5. \A id \in Ids : obj'[id].qty = IF id \in Saved THEN rows[id].qty ELSE obj[id].qty
  BY <1>1, <1>4
<1>6. BooksInv => BooksInv'
  BY <1>2, <1>5 DEF BooksInv, Saved, Idle, Awaiting, Reducing
<1>7. FlatInv => FlatInv' BY <1>2 DEF FlatInv, Idle, Awaiting
<1>8. QED BY <1>6, <1>7 DEF ExchangeKept

LEMMA EnvironmentExchange ==
  ASSUME IInv, IInv',
         \/ \E id \in Ids : ProtectionFires(id) \/ PriceMoves(id)
         \/ LiveSwitchedOff
         \/ UNCHANGED vars
  PROVE  ExchangeKept
<1>1. UNCHANGED <<memory, database, call>>
  BY DEF ProtectionFires, PriceMoves, LiveSwitchedOff, vars
<1>2. \/ exch' = exch
      \/ \E id \in Ids : exch' = [exch EXCEPT ![id] = 0]
  BY DEF ProtectionFires, PriceMoves, LiveSwitchedOff, vars, world
<1>3. \A id \in Ids : exch'[id] <= exch[id]
  BY <1>2, Types, BoundsAssumption
<1>4. QED BY <1>1, <1>3, WorldMovesKeeps

------------------------------------------------------------------------------
(* The theorems.                                                           *)

LEMMA InitExchange == Init => BooksInv /\ FlatInv
BY BoundsAssumption
DEF Init, BooksInv, FlatInv, Saved, NewObject, Idle, Awaiting, Reducing, Ids

LEMMA NextExchange == IInv /\ IInv' /\ [Next]_vars => ExchangeKept
<1> SUFFICES ASSUME IInv, IInv', [Next]_vars PROVE ExchangeKept OBVIOUS
<1>1. ASSUME NEW m \in Managers, PassStep(m) PROVE ExchangeKept
  BY <1>1, PassExchange
<1>2. ASSUME NEW c \in Callers, OrderStep(c) PROVE ExchangeKept
  BY <1>2, OrderExchange
<1>3. ASSUME NEW id \in Ids, IdStep(id) PROVE ExchangeKept
  BY <1>3, OpenExchange, ManualCloseExchange, EnvironmentExchange DEF IdStep
<1>4. CASE Restart BY <1>4, RestartExchange
<1>5. CASE LiveSwitchedOff \/ UNCHANGED vars BY <1>5, EnvironmentExchange
<1>6. QED BY <1>1, <1>2, <1>3, <1>4, <1>5 DEF Next

\* When an accepted order always executes something, the exchange never holds
\* more of a tracked position than the books say: lost answers, failed syncs,
\* crashes between an order and its save, and overlapping closes only make the
\* books overstate (partial_reduce subtracts min(quantity, executedQty)).
THEOREM BooksAreSafe ==
  ASSUME MinFill >= 1
  PROVE  Spec => []BooksCoverExchange
<1>1. Init => IInv /\ BooksInv BY InitIInv, InitExchange
<1>2. IInv /\ BooksInv /\ [Next]_vars => (IInv /\ BooksInv)'
  BY NextIInv, NextExchange DEF ExchangeKept
<1>3. IInv /\ BooksInv => BooksCoverExchange
  BY DEF BooksInv, BooksCoverExchange, Ids
<1>4. QED BY <1>1, <1>2, <1>3, PTL DEF Spec

\* When an accepted order always executes completely, a live position is
\* archived only after the exchange holds nothing for it, whatever interleaves
\* with the close between its order and its archive (managed_close).
THEOREM ArchivedPositionsAreFlat ==
  ASSUME MinFill >= Unit
  PROVE  Spec => []ArchivedIsFlat
<1>1. MinFill >= 1 BY BoundsAssumption
<1>2. Init => IInv /\ BooksInv /\ FlatInv BY InitIInv, InitExchange
<1>3. IInv /\ BooksInv /\ FlatInv /\ [Next]_vars => (IInv /\ BooksInv /\ FlatInv)'
  BY <1>1, NextIInv, NextExchange DEF ExchangeKept
<1>4. FlatInv => ArchivedIsFlat BY DEF FlatInv, ArchivedIsFlat
<1>5. QED BY <1>2, <1>3, <1>4, PTL DEF Spec

-----------------------------------------------------------------------------
(***************************************************************************)
(* Without manual closes, PositionLifecycle implements PositionLedger: the *)
(* manage lock alone makes every position open once and close once, for    *)
(* any number of callers of manage_all, positions and restarts.            *)
(***************************************************************************)

\* A running pass holds an open position and goes on to other open positions.
PassInv(m) ==
  call[m].pc # "idle" =>
    /\ call[m].cur \in open /\ call[m].todo \subseteq open
    /\ call[m].cur \notin call[m].todo

QuietInv ==
  /\ open \cap closedRows = {}
  /\ \A id \in Ids : /\ archives[id] <= 1
                     /\ archives[id] > 0 => id \in closedRows
  /\ \A m \in Managers : PassInv(m)

\* The call record r of m is idle or at the next position of the snapshot.
GoesOn(m, r) ==
  r.pc # "idle" => r.cur \in call[m].todo /\ r.todo = call[m].todo \ {r.cur}

\* The two effects a step of a pass has on the position it holds.
Stays(m) ==
  /\ open' = open /\ closedRows' = closedRows /\ archives' = archives
  /\ \E r \in Calls :
       /\ call' = [call EXCEPT ![m] = r]
       /\ \/ GoesOn(m, r)
          \/ r.cur = Id(m) /\ r.todo = call[m].todo

Goes(m) ==
  /\ open' = open \ {Id(m)} /\ closedRows' = closedRows \cup {Id(m)}
  /\ archives' = [archives EXCEPT ![Id(m)] = IF @ = 0 THEN 1 ELSE 2]
  /\ \E r \in Calls : call' = [call EXCEPT ![m] = r] /\ GoesOn(m, r)

Holding(m) == IInv /\ m \in Managers /\ call[m].pc # "idle" /\ Id(m) \in open

------------------------------------------------------------------------------

LEMMA HoldingTypes ==
  ASSUME NEW m, Holding(m)
  PROVE  /\ m \in Callers /\ call \in [Callers -> Calls] /\ call[m] \in Calls
         /\ Idle \in Calls /\ Idle.pc = "idle"
         /\ \A id \in call[m].todo : Awaiting("quote", id, call[m].todo \ {id}, 0) \in Calls
<1>1. m \in Callers /\ call \in [Callers -> Calls] /\ call[m] \in Calls
  BY DEF Holding, IInv, CallsInv, Callers
<1>2. Idle \in Calls /\ Idle.pc = "idle"
  BY <1>1, IdleFits DEF Fits, Idle, Awaiting
<1>3. \A id \in call[m].todo : Awaiting("quote", id, call[m].todo \ {id}, 0) \in Calls
  BY <1>1, BoundsAssumption DEF Calls, AwaitPoints, Awaiting
<1>4. QED BY <1>1, <1>2, <1>3

LEMMA ContinueGoesOn ==
  ASSUME NEW m, Holding(m), Continue(m)
  PROVE  \E r \in Calls : call' = [call EXCEPT ![m] = r] /\ GoesOn(m, r)
<1>1. CASE call' = [call EXCEPT ![m] = Idle]
  BY <1>1, HoldingTypes DEF GoesOn
<1>2. ASSUME NEW id \in call[m].todo,
             call' = [call EXCEPT ![m] = Awaiting("quote", id, call[m].todo \ {id}, 0)]
      PROVE  \E r \in Calls : call' = [call EXCEPT ![m] = r] /\ GoesOn(m, r)
  <2> DEFINE r == Awaiting("quote", id, call[m].todo \ {id}, 0)
  <2>1. r \in Calls BY HoldingTypes
  <2>2. GoesOn(m, r) BY DEF GoesOn, Awaiting
  <2>3. QED BY <1>2, <2>1, <2>2
<1>3. QED BY <1>1, <1>2 DEF Continue, NextPosition

LEMMA GoingOnStays ==
  ASSUME NEW m, open' = open, closedRows' = closedRows, archives' = archives,
         NEW r \in Calls, call' = [call EXCEPT ![m] = r], GoesOn(m, r)
  PROVE  Stays(m)
BY DEF Stays

LEMMA AbortGoesOn ==
  ASSUME NEW m, Holding(m), Abort(m)
  PROVE  \E r \in Calls : call' = [call EXCEPT ![m] = r] /\ GoesOn(m, r)
BY HoldingTypes DEF Abort, GoesOn

LEMMA SuspendStays ==
  ASSUME NEW m, Holding(m), NEW pc \in AwaitPoints, NEW want \in 0..Unit,
         Suspend(m, pc, want), UNCHANGED <<open, closedRows, archives>>
  PROVE  Stays(m)
<1>1. Awaiting(pc, call[m].cur, call[m].todo, want) \in Calls
  BY HoldingTypes, BoundsAssumption DEF Calls, Awaiting
<1>2. QED BY <1>1, HoldingTypes DEF Suspend, Stays, Awaiting, Id

LEMMA LiveFailureStays ==
  ASSUME NEW m, NEW o, Holding(m), LiveFailure(m, o) PROVE Stays(m)
<1>1. UNCHANGED <<open, closedRows, archives>> BY DEF LiveFailure, Add, Holding
<1>2. \E r \in Calls : call' = [call EXCEPT ![m] = r] /\ GoesOn(m, r)
  BY AbortGoesOn DEF LiveFailure
<1>3. QED BY <1>1, <1>2, GoingOnStays

LEMMA SaveStays ==
  ASSUME NEW m, NEW o, Holding(m), SaveAndContinue(m, o) PROVE Stays(m)
<1>1. UNCHANGED <<open, closedRows, archives>> BY DEF SaveAndContinue, Add, Holding
<1>2. \E r \in Calls : call' = [call EXCEPT ![m] = r] /\ GoesOn(m, r)
  BY ContinueGoesOn DEF SaveAndContinue
<1>3. QED BY <1>1, <1>2, GoingOnStays

LEMMA StartCloseMoves ==
  ASSUME NEW m, NEW o, Holding(m), StartClose(m, o) PROVE Stays(m) \/ Goes(m)
<1>1. CASE Archive(Id(m), o) /\ Continue(m)
  BY <1>1, ContinueGoesOn DEF Archive, Goes
<1>2. CASE Mutate(Id(m), o) /\ Suspend(m, "closing", 0)
  BY <1>2, SuspendStays, BoundsAssumption DEF Mutate, database, AwaitPoints
<1>3. CASE LiveFailure(m, o) BY <1>3, LiveFailureStays
<1>4. QED BY <1>1, <1>2, <1>3 DEF StartClose

LEMMA StartSyncStays ==
  ASSUME NEW m, NEW o, Holding(m), NEW pc \in AwaitPoints, StartSync(m, pc, o)
  PROVE  Stays(m)
<1>1. UNCHANGED <<open, closedRows, archives>>
  BY DEF StartSync, Mutate, database
<1>2. CASE Suspend(m, pc, 0) BY <1>1, <1>2, SuspendStays, BoundsAssumption
<1>3. CASE Abort(m)
  <2>1. \E r \in Calls : call' = [call EXCEPT ![m] = r] /\ GoesOn(m, r)
    BY <1>3, AbortGoesOn
  <2>2. QED BY <1>1, <2>1, GoingOnStays
<1>4. QED BY <1>2, <1>3 DEF StartSync

LEMMA Stage2Moves ==
  ASSUME NEW m, NEW o, Holding(m), Stage2(m, o) PROVE Stays(m) \/ Goes(m)
<1>1. "trail" \in AwaitPoints BY DEF AwaitPoints
<1>2. QED
  BY <1>1, StartCloseMoves, SaveStays, StartSyncStays DEF Stage2, FinishStage2

LEMMA FinishStage1Moves ==
  ASSUME NEW m, NEW o \in Objects, Holding(m), FinishStage1(m, o)
  PROVE  Stays(m) \/ Goes(m)
<1>1. CASE SaveAndContinue(m, o) BY <1>1, SaveStays
<1>2. CASE Stage2(m, Tp1Done(o, Half(o))) BY <1>2, Stage2Moves
<1>3. CASE Mutate(Id(m), o) /\ Suspend(m, "tp1", Half(o))
  <2>1. Half(o) \in 0..Unit BY HalfBounds DEF Half, Objects
  <2>2. QED BY <1>3, <2>1, SuspendStays DEF Mutate, database, AwaitPoints
<1>4. CASE LiveFailure(m, o) BY <1>4, LiveFailureStays
<1>5. QED BY <1>1, <1>2, <1>3, <1>4 DEF FinishStage1

LEMMA PassMoves ==
  ASSUME NEW m, Holding(m), PassStep(m), ~BeginPass(m)
  PROVE  Stays(m) \/ Goes(m)
<1> DEFINE o == Obj(m)
<1>1. o \in Objects
  BY DEF Holding, IInv, StoreInv, StoreTypeOK, Obj
<1>2. {"review", "reduce", "soft", "tp1sync"} \subseteq AwaitPoints
  BY DEF AwaitPoints
<1> HIDE DEF o
<1>3. CASE StaleQuote(m) BY <1>3, SaveStays DEF StaleQuote
<1>4. CASE QuoteCloses(m) \/ DecideExit(m)
  BY <1>4, StartCloseMoves DEF QuoteCloses, DecideExit
<1>5. CASE QuoteHolds(m)
  BY <1>2, <1>5, SuspendStays, BoundsAssumption DEF QuoteHolds, memory, database
<1>6. CASE DecideReduce(m)
  <2>1. PICK k \in 0..Half(o) :
          \/ SaveAndContinue(m, [o EXCEPT !.qty = @ - k])
          \/ Suspend(m, "reduce", k) /\ UNCHANGED <<memory, database>>
          \/ LiveFailure(m, o)
    BY <1>6 DEF DecideReduce, o
  <2>2. k \in 0..Unit
    BY <1>1, HalfBounds, BoundsAssumption DEF Half, Objects
  <2>3. QED
    BY <1>2, <2>1, <2>2, SaveStays, SuspendStays, LiveFailureStays
    DEF memory, database
<1>7. CASE DecideHold(m)
  BY <1>1, <1>2, <1>7, FinishStage1Moves, StartSyncStays, Stage2Moves
  DEF DecideHold, Stage1, o
<1>8. CASE SyncDone(m)
  BY <1>1, <1>8, FinishStage1Moves, Stage2Moves DEF SyncDone, Stage2, o
<1>9. CASE SyncFails(m)
  <2>1. UNCHANGED <<open, closedRows, archives>> /\ Abort(m)
    BY <1>9 DEF SyncFails, memory, database
  <2>2. \E r \in Calls : call' = [call EXCEPT ![m] = r] /\ GoesOn(m, r)
    BY <2>1, AbortGoesOn
  <2>3. QED BY <2>1, <2>2, GoingOnStays
<1>10. CASE ReduceDone(m)
  BY <1>2, <1>10, SaveStays, StartSyncStays DEF ReduceDone
<1>11. QED
  BY <1>3, <1>4, <1>5, <1>6, <1>7, <1>8, <1>9, <1>10 DEF PassStep

LEMMA OrderMoves ==
  ASSUME NEW m, Holding(m), OrderStep(m)
  PROVE  Stays(m) \/ Goes(m)
<1>1. CASE SendClose(m)
  <2>1. Obj(m).qty \in 0..Unit
    BY BoundsAssumption DEF Holding, IInv, StoreInv, StoreTypeOK, Obj, Objects
  <2>2. QED
    BY <1>1, <2>1, SuspendStays DEF SendClose, memory, database, AwaitPoints
<1>2. CASE OrderFills(m)
  <2>1. PICK f \in 0..Unit : call' = [call EXCEPT ![m].fill = f]
    BY <1>2, HoldingTypes, BoundsAssumption DEF OrderFills, Calls
  <2> DEFINE r == [call[m] EXCEPT !.fill = f]
  <2>2. r \in Calls /\ r.cur = Id(m) /\ r.todo = call[m].todo
    BY HoldingTypes DEF Calls, Id
  <2>3. QED BY <1>2, <2>1, <2>2 DEF OrderFills, Stays, memory, database
<1>3. CASE OrderRaises(m) BY <1>3, LiveFailureStays DEF OrderRaises
<1>4. CASE CloseDone(m)
  BY <1>4, ContinueGoesOn DEF CloseDone, Archive, Goes
<1>5. QED BY <1>1, <1>2, <1>3, <1>4 DEF OrderStep

------------------------------------------------------------------------------
(* Every step keeps QuietInv and is a step of the ledger, or none.          *)

LedgerStep == Ledger!Next \/ UNCHANGED phase
Quiet == QuietInv' /\ LedgerStep

\* All calls but the one that acts are idle.
LEMMA OthersIdle ==
  ASSUME Operators = {}, NEW m, Holding(m)
  PROVE  /\ m \in Managers
         /\ \A d \in Managers \ {m} : call[d].pc = "idle"
BY DEF Holding, IInv, CallsInv, CallInv, Callers

\* Positions keep their phase when they keep their tables.
LEMMA SamePhase ==
  ASSUME IInv, IInv', open' = open, closedRows' = closedRows
  PROVE  LedgerStep
<1>1. Saved' = Saved BY DEF IInv, StoreInv
<1>2. QED BY <1>1 DEF LedgerStep, phase

LEMMA StaysIsQuiet ==
  ASSUME Operators = {}, QuietInv, IInv', NEW m, Holding(m), Stays(m)
  PROVE  Quiet
<1>1. LedgerStep BY SamePhase DEF Stays, Holding
<1>2. PICK r \in Calls :
        /\ call' = [call EXCEPT ![m] = r]
        /\ \/ GoesOn(m, r)
           \/ r.cur = Id(m) /\ r.todo = call[m].todo
  BY DEF Stays
<1>3. PassInv(m) BY OthersIdle DEF QuietInv
<1>4. ASSUME NEW d \in Managers PROVE PassInv(d)'
  <2>1. CASE d = m
    <3>1. call'[m] = r BY <1>2, HoldingTypes
    <3>2. QED
      BY <1>2, <1>3, <2>1, <3>1 DEF PassInv, Stays, GoesOn, Holding, Id
  <2>2. CASE d # m
    BY <1>2, <2>2, OthersIdle, HoldingTypes DEF PassInv
  <2>3. QED BY <2>1, <2>2
<1>5. QuietInv' BY <1>4 DEF QuietInv, Stays
<1>6. QED BY <1>1, <1>5 DEF Quiet

LEMMA GoesIsQuiet ==
  ASSUME Operators = {}, QuietInv, IInv', NEW m, Holding(m), Goes(m)
  PROVE  Quiet
<1> DEFINE id == Id(m)
<1>1. /\ id \in Ids /\ id \in open /\ id \notin closedRows
      /\ archives \in [Ids -> 0..2] /\ archives[id] = 0
  BY DEF Holding, QuietInv, IInv, StoreInv, StoreTypeOK
<1>2. /\ open' = open \ {id} /\ closedRows' = closedRows \cup {id}
      /\ archives' = [archives EXCEPT ![id] = 1]
  BY <1>1 DEF Goes
<1>3. LedgerStep
  <2>1. Saved = open /\ Saved' = open'
    BY DEF Holding, IInv, StoreInv
  <2>2. phase[id] = "open" BY <1>1, <2>1 DEF phase
  <2>3. phase' = [phase EXCEPT ![id] = "closed"]
    BY <1>1, <1>2, <2>1 DEF phase
  <2>4. QED BY <1>1, <2>2, <2>3 DEF LedgerStep, Ledger!Next, Ledger!Close
<1>4. PICK r \in Calls : call' = [call EXCEPT ![m] = r] /\ GoesOn(m, r)
  BY DEF Goes
<1>5. PassInv(m) BY OthersIdle DEF QuietInv
<1>6. ASSUME NEW d \in Managers PROVE PassInv(d)'
  <2>1. CASE d = m
    <3>1. call'[m] = r BY <1>4, HoldingTypes
    <3>2. QED
      BY <1>2, <1>4, <1>5, <2>1, <3>1 DEF PassInv, GoesOn, Holding, Id
  <2>2. CASE d # m
    BY <1>4, <2>2, OthersIdle, HoldingTypes DEF PassInv
  <2>3. QED BY <2>1, <2>2
<1>7. QuietInv'
  <2>1. open' \cap closedRows' = {} BY <1>2 DEF QuietInv
  <2>2. \A i \in Ids : /\ archives'[i] <= 1
                       /\ archives'[i] > 0 => i \in closedRows'
    BY <1>1, <1>2 DEF QuietInv
  <2>3. QED BY <2>1, <2>2, <1>6 DEF QuietInv
<1>8. QED BY <1>3, <1>7 DEF Quiet

LEMMA BeginPassIsQuiet ==
  ASSUME Operators = {}, IInv, IInv', QuietInv, NEW m \in Managers, BeginPass(m)
  PROVE  Quiet
<1>1. PICK id \in open :
        call' = [call EXCEPT ![m] = Awaiting("quote", id, open \ {id}, 0)]
  BY DEF BeginPass
<1>2. open' = open /\ closedRows' = closedRows /\ archives' = archives
  BY DEF BeginPass, memory, database
<1>3. LedgerStep BY <1>2, SamePhase
<1>4. \A d \in Managers : call'[d] = IF d = m
                                     THEN Awaiting("quote", id, open \ {id}, 0)
                                     ELSE call[d]
  BY <1>1 DEF IInv, CallsInv, Callers
<1>5. \A d \in Managers : PassInv(d)'
  BY <1>2, <1>4 DEF QuietInv, PassInv, Awaiting
<1>6. QED BY <1>2, <1>3, <1>5 DEF Quiet, QuietInv

LEMMA OpenIsQuiet ==
  ASSUME Operators = {}, IInv, IInv', QuietInv, NEW id \in Ids,
         OpenPaper(id) \/ OpenLive(id)
  PROVE  Quiet
<1>1. /\ id \notin opened /\ open' = open \cup {id}
      /\ UNCHANGED <<call, archives, closedRows>>
  BY DEF OpenPaper, OpenLive, Add
<1>2. id \notin open /\ id \notin closedRows /\ Saved = open /\ Saved' = open'
  BY <1>1 DEF IInv, StoreInv
<1>3. phase[id] = "new" /\ phase' = [phase EXCEPT ![id] = "open"]
  BY <1>1, <1>2 DEF phase
<1>4. LedgerStep BY <1>3 DEF LedgerStep, Ledger!Next, Ledger!Open
<1>5. QuietInv' BY <1>1, <1>2 DEF QuietInv, PassInv
<1>6. QED BY <1>4, <1>5 DEF Quiet

LEMMA RestartIsQuiet ==
  ASSUME IInv, IInv', QuietInv, Restart
  PROVE  Quiet
<1>1. /\ open' = open /\ closedRows' = closedRows
      /\ archives' = [id \in Ids |-> 0]
      /\ \A d \in Callers : call'[d] = Idle
  BY DEF Restart, database, IInv, StoreInv
<1>2. LedgerStep BY <1>1, SamePhase
<1>3. \A d \in Managers : PassInv(d)'
  BY <1>1 DEF PassInv, Idle, Awaiting, Callers
<1>4. QED BY <1>1, <1>2, <1>3 DEF Quiet, QuietInv

LEMMA EnvironmentIsQuiet ==
  ASSUME IInv, IInv', QuietInv,
         \/ \E id \in Ids : ProtectionFires(id) \/ PriceMoves(id)
         \/ LiveSwitchedOff
         \/ UNCHANGED vars
  PROVE  Quiet
<1>1. UNCHANGED <<open, closedRows, archives, call>>
  BY DEF ProtectionFires, PriceMoves, LiveSwitchedOff, vars, memory, database
<1>2. LedgerStep BY <1>1, SamePhase
<1>3. QuietInv' BY <1>1 DEF QuietInv, PassInv
<1>4. QED BY <1>2, <1>3 DEF Quiet

LEMMA NextIsQuiet ==
  ASSUME Operators = {}
  PROVE  IInv /\ IInv' /\ QuietInv /\ [Next]_vars => Quiet
<1> SUFFICES ASSUME IInv, IInv', QuietInv, [Next]_vars PROVE Quiet OBVIOUS
<1>1. ASSUME NEW m \in Managers, PassStep(m) \/ OrderStep(m) PROVE Quiet
  <2>1. CASE BeginPass(m) BY <2>1, BeginPassIsQuiet
  <2>2. CASE PassStep(m) /\ ~BeginPass(m)
    <3>1. call[m].pc # "idle"
      BY <2>2 DEF PassStep, StaleQuote, QuoteCloses, QuoteHolds, DecideExit,
             DecideReduce, DecideHold, SyncDone, SyncFails, ReduceDone
    <3>2. Holding(m) BY <3>1 DEF Holding, QuietInv, PassInv, Id
    <3>3. QED BY <2>2, <3>2, PassMoves, StaysIsQuiet, GoesIsQuiet
  <2>3. CASE OrderStep(m)
    <3>1. call[m].pc # "idle"
      BY <2>3 DEF OrderStep, SendClose, OrderFills, OrderRaises, CloseDone, Ordering
    <3>2. Holding(m) BY <3>1 DEF Holding, QuietInv, PassInv, Id
    <3>3. QED BY <2>3, <3>2, OrderMoves, StaysIsQuiet, GoesIsQuiet
  <2>4. QED BY <1>1, <2>1, <2>2, <2>3
<1>2. ASSUME NEW id \in Ids, IdStep(id) PROVE Quiet
  BY <1>2, OpenIsQuiet, EnvironmentIsQuiet DEF IdStep
<1>3. CASE Restart BY <1>3, RestartIsQuiet
<1>4. CASE LiveSwitchedOff \/ UNCHANGED vars BY <1>4, EnvironmentIsQuiet
<1>5. Callers = Managers BY DEF Callers
<1>6. QED BY <1>1, <1>2, <1>3, <1>4, <1>5 DEF Next

LEMMA InitIsQuiet == Init => QuietInv /\ Ledger!Init
<1> SUFFICES ASSUME Init PROVE QuietInv /\ Ledger!Init OBVIOUS
<1>1. \A m \in Managers : PassInv(m)
  BY DEF Init, PassInv, Idle, Awaiting, Callers
<1>2. QuietInv BY <1>1 DEF Init, QuietInv
<1>3. Saved = {} /\ closedRows = {} BY DEF Init, Saved
<1>4. Ledger!Init BY <1>3 DEF Ledger!Init, phase
<1>5. QED BY <1>2, <1>4

------------------------------------------------------------------------------
(* The theorems.                                                           *)

\* Without manual closes a closed position stays closed and is archived once:
\* manage_all's lock and its "already locked, return" exclude the race that
\* brings a closed position back.
THEOREM ClosedStaysClosed ==
  ASSUME Operators = {}
  PROVE  Spec => []ClosedIsFinal
<1>1. Init => IInv /\ QuietInv BY InitIInv, InitIsQuiet
<1>2. IInv /\ QuietInv /\ [Next]_vars => (IInv /\ QuietInv)'
  BY NextIInv, NextIsQuiet DEF Quiet
<1>3. IInv /\ QuietInv => ClosedIsFinal
  BY DEF IInv, StoreInv, StoreTypeOK, QuietInv, ClosedIsFinal
<1>4. QED BY <1>1, <1>2, <1>3, PTL DEF Spec

\* Without manual closes the lifecycle implements the ledger: opens, passes,
\* partial exits, failures and restarts show as one Open and one Close per id.
THEOREM LedgerIsImplemented ==
  ASSUME Operators = {}
  PROVE  Spec => LedgerSpec
<1>1. Init => IInv /\ QuietInv /\ Ledger!Init BY InitIInv, InitIsQuiet
<1>2. IInv /\ QuietInv /\ [Next]_vars => (IInv /\ QuietInv)'
  BY NextIInv, NextIsQuiet DEF Quiet
<1>3. IInv /\ IInv' /\ QuietInv /\ [Next]_vars => [Ledger!Next]_phase
  BY NextIsQuiet DEF Quiet, LedgerStep
<1>4. QED BY <1>1, <1>2, <1>3, PTL DEF Spec, LedgerSpec, Ledger!Spec
=============================================================================
