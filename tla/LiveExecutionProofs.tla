------------------------ MODULE LiveExecutionProofs ------------------------
(***************************************************************************)
(* A position of LiveExecution that was opened with its protection keeps a *)
(* stop on the exchange, for any strategies, coroutines, refusals, lost    *)
(* answers and restarts, if market closes fill completely.                 *)
(* If every order gets an answer too, whoever is left without a stop has   *)
(* frozen trading.  And, with no assumption at all, no entry follows a     *)
(* reconciliation that missed what was amiss when it began.                *)
(***************************************************************************)
EXTENDS LiveExecution, TLAPS

\* market_close leaves no rest.
FullFills == "partial" \notin Faults

OpenPoints == {"entry", "stop", "tp", "force", "undo"}
ReplacePoints == {"rstop", "rtp", "rcancel", "save"}
ClosePoints == {"close", "ccancel"}

\* Who works on a strategy, and where, follows from its status.
Opening(c) ==
  /\ call[c].pc \in OpenPoints
  /\ status[Of(c)] = "tried"
  /\ call[c].got \subseteq {"sl", "tp"}

Managing(c) ==
  /\ call[c].pc \in ClosePoints \cup (IF c = Manager THEN ReplacePoints ELSE {})
  /\ status[Of(c)] \in {"open", "closed"}

Phases ==
  /\ \A c \in Openers : At(c, "idle") \/ Opening(c)
  /\ \A c \in Closers : At(c, "idle") \/ Managing(c)
  /\ \A c, d \in Openers :
       ~At(c, "idle") /\ ~At(d, "idle") /\ Of(c) = Of(d) => c = d

\* Only what was sold or never bought is finished, undone or untried.
Flats ==
  /\ \A s \in Strategies : status[s] \in {"new", "closed"} => s \notin held
  /\ \A c \in Callers : At(c, "undo") \/ At(c, "ccancel") => Of(c) \notin held

\* The object and its row are empty until the position is recorded.
Unrecorded ==
  \A s \in Strategies : status[s] \in {"new", "tried"} => known[s] = {} /\ saved[s] = {}

\* A replacement stop that the object or the row knows rests on the exchange.
KnownRests ==
  \A s \in held : "slr" \in known[s] \cup saved[s] => "slr" \in orders[s]

\* The stop of a call that has placed one.
StopPlaced ==
  \A c \in Callers : Of(c) \in held =>
    /\ At(c, "tp") => "sl" \in orders[Of(c)]
    /\ At(c, "rtp") \/ At(c, "rcancel") => "slr" \in orders[Of(c)] \ known[Of(c)]

Protection == Phases /\ Flats /\ Unrecorded /\ KnownRests /\ StopPlaced /\ StaysProtected
IInv == TypeOK /\ Protection

------------------------------------------------------------------------------
(* Types.                                                                  *)

USE CallersAssumption, FaultsAssumption

\* The type of the suspended coroutines.
CallOK ==
  /\ call \in [Callers -> Calls]
  /\ \A c \in Callers : At(c, "idle") <=> Of(c) = NoOne

\* A suspended coroutine works on a strategy.
LEMMA BusyOnStrategy ==
  ASSUME CallOK, NEW c \in Callers, ~At(c, "idle")
  PROVE  Of(c) \in Strategies
BY DEF CallOK, Calls, At, Of

\* A call starts on its strategy and leaves the other coroutines alone.
LEMMA Starts ==
  ASSUME CallOK, NEW c \in Callers, NEW pc \in Points \ {"idle"},
         NEW s \in Strategies, Start(c, pc, s)
  PROVE  /\ CallOK' /\ At(c, pc)' /\ Of(c)' = s /\ call'[c].got = {}
         /\ \A d \in Callers \ {c} : call'[d] = call[d]
<1> DEFINE first == [Idle EXCEPT !.pc = pc, !.s = s]
<1>1. first \in Calls /\ first.pc = pc /\ first.s = s /\ first.got = {}
  BY DEF Idle, Calls
<1>2. call \in [Callers -> Calls] /\ call' = [call EXCEPT ![c] = first]
  BY DEF CallOK, Start
<1> HIDE DEF first
<1>3. /\ call' \in [Callers -> Calls] /\ call'[c] = first
      /\ \A d \in Callers \ {c} : call'[d] = call[d]
  BY <1>1, <1>2
<1>4. QED BY <1>1, <1>3 DEF CallOK, At, Of

\* Returning makes a coroutine idle and leaves the others alone.
LEMMA Returns ==
  ASSUME CallOK, NEW c \in Callers, Return(c)
  PROVE  /\ CallOK' /\ At(c, "idle")'
         /\ \A d \in Callers \ {c} : call'[d] = call[d]
<1>1. Idle \in Calls /\ Idle.pc = "idle" /\ Idle.s = NoOne
  BY DEF Idle, Calls, Points
<1>2. call' = [d \in Callers |-> IF d = c THEN Idle ELSE call[d]]
  BY DEF CallOK, Return
<1>3. \A d \in Callers \ {c} : call'[d] = call[d]
  BY <1>2
<1>4. call'[c] = Idle
  BY <1>2
<1>5. call' \in [Callers -> Calls]
  BY <1>1, <1>2 DEF CallOK
<1>6. QED BY <1>1, <1>3, <1>4, <1>5 DEF CallOK, At, Of

\* Going on keeps the strategy and leaves the other coroutines alone.
LEMMA GoesOn ==
  ASSUME CallOK, NEW c \in Callers, ~At(c, "idle"),
         NEW pc \in Points \ {"idle"}, NEW got \in SUBSET Kinds, GoTo(c, pc, got)
  PROVE  /\ CallOK' /\ At(c, pc)' /\ Of(c)' = Of(c) /\ call'[c].got = got
         /\ \A d \in Callers \ {c} : call'[d] = call[d]
<1> DEFINE moved == [call[c] EXCEPT !.pc = pc]
           next == [moved EXCEPT !.got = got]
           mid == [call EXCEPT ![c] = moved]
<1>1. call \in [Callers -> Calls] /\ call[c] \in Calls
  BY DEF CallOK
<1>2. moved \in Calls /\ moved.pc = pc /\ moved.s = Of(c)
  BY <1>1 DEF Calls, Of
<1>3. next \in Calls /\ next.pc = pc /\ next.s = Of(c) /\ next.got = got
  BY <1>2 DEF Calls
<1>4. mid[c] = moved /\ mid = [call EXCEPT ![c].pc = pc]
  BY <1>1
<1>5. call' = [mid EXCEPT ![c].got = got]
  BY <1>4 DEF GoTo
<1>6. call' = [mid EXCEPT ![c] = next]
  BY <1>4, <1>5
<1>7. call' = [call EXCEPT ![c] = next]
  BY <1>1, <1>6
<1> HIDE DEF moved, next, mid
<1>8. /\ call' \in [Callers -> Calls] /\ call'[c] = next
      /\ \A d \in Callers \ {c} : call'[d] = call[d]
  BY <1>1, <1>3, <1>7
<1>9. QED BY <1>3, <1>8 DEF CallOK, At, Of

\* The types of what the exchange and the registry hold.
BookOK ==
  /\ held \subseteq Strategies
  /\ orders \in [Strategies -> SUBSET Kinds]
  /\ status \in [Strategies -> Statuses]
  /\ known \in [Strategies -> SUBSET Kinds]
  /\ saved \in [Strategies -> SUBSET Kinds]
  /\ incidents \subseteq Strategies
  /\ freeze \in BOOLEAN

\* The types of the reconciliation.
MonitorOK ==
  /\ scan \in [Scanners -> Scans]
  /\ refreshing \in BOOLEAN /\ report \in Reports
  /\ crashes \in 0..MaxCrashes

LEMMA IdleMonitor == NoScan \in Scans /\ NoReport \in Reports
BY DEF NoScan, NoOrders, NoReport, Scans, Reports

LEMMA TypeParts == TypeOK <=> BookOK /\ CallOK /\ MonitorOK
BY DEF TypeOK, BookOK, CallOK, MonitorOK

\* An opening never disturbs a type.
LEMMA OpenTypes ==
  ASSUME TypeOK, NEW c \in Openers,
         OpenStep(c) \/ \E s \in Strategies : BeginOpen(c, s)
  PROVE  BookOK' /\ CallOK' /\ UNCHANGED <<monitor, crashes>>
<1>0. BookOK /\ CallOK /\ c \in Callers /\ call[c] \in Calls
  BY TypeParts DEF CallOK, Callers
<1>1. ~At(c, "idle") => Of(c) \in Strategies
  BY <1>0, BusyOnStrategy
<1>2. Return(c) => CallOK'
  BY <1>0, Returns
<1>3. ~At(c, "idle") => \A pc \in Points \ {"idle"}, got \in SUBSET Kinds :
                          GoTo(c, pc, got) => CallOK'
  BY <1>0, GoesOn
<1>4. call[c].got \in SUBSET Kinds
  BY <1>0 DEF Calls
<1>5. CASE \E s \in Strategies : BeginOpen(c, s)
  <2>1. PICK s \in Strategies : BeginOpen(c, s)
    BY <1>5
  <2>2. BookOK'
    BY <1>0, <2>1 DEF BeginOpen, BookOK, Statuses
  <2>3. CallOK'
    BY <1>0, <2>1, Starts DEF BeginOpen, Points
  <2>4. QED BY <2>1, <2>2, <2>3 DEF BeginOpen, monitor
<1>6. CASE EntryRaises(c)
  BY <1>0, <1>1, <1>2, <1>6 DEF EntryRaises, At, BookOK, local, monitor
<1>7. CASE EntryFills(c)
  <2>1. PICK b \in BOOLEAN :
          call' = [call EXCEPT ![c] = [@ EXCEPT !.pc = "stop", !.filled = b]]
    BY <1>7 DEF EntryFills
  <2>2. CallOK'
    BY <1>0, <1>1, <1>7, <2>1 DEF EntryFills, CallOK, Calls, Points, At, Of
  <2>3. QED BY <1>0, <1>1, <1>7, <2>2 DEF EntryFills, At, BookOK, local, monitor
<1>8. CASE AttachStop(c)
  BY <1>0, <1>1, <1>3, <1>4, <1>8 DEF AttachStop, Placed, Raised, At, BookOK, Kinds, Points, local, monitor
<1>9. CASE AttachTp(c)
  BY <1>0, <1>1, <1>2, <1>3, <1>4, <1>9
     DEF AttachTp, Raised, Add, At, BookOK, Kinds, Points, Statuses, local, monitor
<1>10. CASE ForceClose(c)
  BY <1>0, <1>1, <1>2, <1>3, <1>4, <1>10
     DEF ForceClose, Sold, SaleRaises, Add, At, BookOK, Points, Statuses, local, monitor
<1>11. CASE UndoAttach(c)
  BY <1>0, <1>1, <1>2, <1>11 DEF UndoAttach, Cancelled, At, BookOK, local, monitor
<1>12. QED BY <1>5, <1>6, <1>7, <1>8, <1>9, <1>10, <1>11 DEF OpenStep

\* Nor does a replacement of protection orders, or a close.
LEMMA ManageTypes ==
  ASSUME TypeOK, NEW c \in Closers,
         \/ ReplaceStep(c) \/ CloseStep(c)
         \/ \E s \in Strategies : BeginReplace(s) \/ BeginClose(c, s)
  PROVE  BookOK' /\ CallOK' /\ UNCHANGED <<monitor, crashes>>
<1>0. BookOK /\ CallOK /\ c \in Callers /\ call[c] \in Calls /\ Manager \in Callers
  BY TypeParts DEF CallOK, Callers, Closers
<1>1. ~At(c, "idle") => Of(c) \in Strategies
  BY <1>0, BusyOnStrategy
<1>2. Return(c) => CallOK'
  BY <1>0, Returns
<1>3. ~At(c, "idle") => \A pc \in Points \ {"idle"}, got \in SUBSET Kinds :
                          GoTo(c, pc, got) => CallOK'
  BY <1>0, GoesOn
<1>4. call[c].got \in SUBSET Kinds
  BY <1>0 DEF Calls
<1>5. CASE \E s \in Strategies : BeginReplace(s) \/ BeginClose(c, s)
  <2>1. PICK s \in Strategies : BeginReplace(s) \/ BeginClose(c, s)
    BY <1>5
  <2>2. CallOK'
    BY <1>0, <2>1, Starts DEF BeginReplace, BeginClose, Points
  <2>3. CASE BeginReplace(s)
    BY <1>0, <2>2, <2>3 DEF BeginReplace, BookOK, local, monitor
  <2>4. CASE BeginClose(c, s)
    BY <1>0, <2>2, <2>4 DEF BeginClose, BookOK, local, monitor
  <2>5. QED BY <2>1, <2>3, <2>4
<1>6. CASE ReplaceNotTried(c)
  BY <1>0, <1>2, <1>6 DEF ReplaceNotTried, BookOK, local, monitor
<1>7. CASE ReplaceStop(c)
  <2>1. UNCHANGED <<held, status, known, saved, incidents, monitor, crashes>>
    BY <1>7 DEF ReplaceStop
  <2>2. freeze' \in BOOLEAN
    BY <1>0, <1>7 DEF ReplaceStop, ReplaceFails, BookOK
  <2>3. orders' \in [Strategies -> SUBSET Kinds]
    BY <1>0, <1>1, <1>7 DEF ReplaceStop, Placed, Raised, At, BookOK, Kinds
  <2>4. CallOK'
    BY <1>2, <1>3, <1>4, <1>7
       DEF ReplaceStop, ReplaceFails, Placed, At, Kinds, Points
  <2>5. QED BY <1>0, <2>1, <2>2, <2>3, <2>4 DEF BookOK, monitor
<1>8. CASE ReplaceTp(c)
  <2>1. UNCHANGED <<held, status, known, saved, incidents, monitor, crashes>>
    BY <1>8 DEF ReplaceTp
  <2>2. freeze' \in BOOLEAN
    BY <1>0, <1>8 DEF ReplaceTp, ReplaceFails, BookOK
  <2>3. orders' \in [Strategies -> SUBSET Kinds]
    BY <1>0, <1>1, <1>8 DEF ReplaceTp, Placed, Raised, At, BookOK, Kinds
  <2>4. CallOK'
    BY <1>2, <1>3, <1>4, <1>8
       DEF ReplaceTp, ReplaceFails, Placed, At, Kinds, Points
  <2>5. QED BY <1>0, <2>1, <2>2, <2>3, <2>4 DEF BookOK, monitor
<1>9. CASE CancelReplaced(c)
  <2>1. UNCHANGED <<held, status, saved, incidents, monitor, crashes>>
    BY <1>9 DEF CancelReplaced
  <2>2. freeze' \in BOOLEAN
    BY <1>0, <1>9 DEF CancelReplaced, ReplaceFails, BookOK
  <2>3. orders' \in [Strategies -> SUBSET Kinds]
    BY <1>0, <1>1, <1>9 DEF CancelReplaced, Cancelled, At, BookOK
  <2>4. known' \in [Strategies -> SUBSET Kinds]
    BY <1>0, <1>1, <1>9 DEF CancelReplaced, At, BookOK, Kinds
  <2>5. CallOK'
    BY <1>2, <1>3, <1>4, <1>9 DEF CancelReplaced, ReplaceFails, At, Points
  <2>6. QED BY <1>0, <2>1, <2>2, <2>3, <2>4, <2>5 DEF BookOK, monitor
<1>10. CASE SaveReplaced(c)
  BY <1>0, <1>1, <1>2, <1>10 DEF SaveReplaced, Add, At, BookOK, Statuses, monitor
<1>11. CASE CloseSells(c)
  BY <1>0, <1>1, <1>3, <1>11 DEF CloseSells, Sold, At, BookOK, Points, local, monitor
<1>12. CASE CloseRaises(c)
  BY <1>0, <1>1, <1>2, <1>12
     DEF CloseRaises, SaleRaises, Add, At, BookOK, Statuses, monitor
<1>13. CASE CloseEnds(c)
  BY <1>0, <1>1, <1>2, <1>13 DEF CloseEnds, Cancelled, At, BookOK, Statuses, monitor
<1>14. QED
  BY <1>5, <1>6, <1>7, <1>8, <1>9, <1>10, <1>11, <1>12, <1>13 DEF ReplaceStep, CloseStep

\* Nor does a refresh of the report.
LEMMA RefreshTypes ==
  ASSUME TypeOK, NEW v \in Scanners, RefreshStep(v)
  PROVE  MonitorOK' /\ UNCHANGED <<held, orders, local, call>>
<1>0. BookOK /\ MonitorOK /\ scan[v] \in Scans
  BY TypeParts DEF MonitorOK
<1>1. CASE BeginRefresh(v)
  BY <1>0, <1>1 DEF BeginRefresh, MonitorOK, Scans, NoScan, NoOrders
<1>2. CASE ReadPositions(v)
  BY <1>0, <1>2 DEF ReadPositions, MonitorOK, BookOK, Scans
<1>3. CASE ReadOrders(v)
  BY <1>0, <1>3 DEF ReadOrders, MonitorOK, BookOK, Scans
<1>4. NoScan \in Scans /\ NoReport \in Reports
  BY IdleMonitor
<1>5. CASE RefreshFails(v)
  BY <1>0, <1>4, <1>5 DEF RefreshFails, MonitorOK, Scans
<1>6. CASE EndRefresh(v)
  BY <1>0, <1>4, <1>6 DEF EndRefresh, MonitorOK, Scans, Reports, Clean
<1>7. QED BY <1>1, <1>2, <1>3, <1>5, <1>6 DEF RefreshStep

LEMMA TypeInit == Init => TypeOK
<1> SUFFICES ASSUME Init PROVE TypeOK
  OBVIOUS
<1>1. BookOK
  BY DEF Init, BookOK, NoOrders, Statuses
<1>2. CallOK
  BY DEF Init, CallOK, Idle, Calls, Points, At, Of
<1>3. MonitorOK
  <2>1. scan \in [Scanners -> Scans]
    BY IdleMonitor DEF Init
  <2>2. refreshing \in BOOLEAN
    BY DEF Init
  <2>3. report \in Reports
    BY IdleMonitor DEF Init
  <2>4. crashes \in 0..MaxCrashes
    BY DEF Init
  <2>5. QED BY <2>1, <2>2, <2>3, <2>4 DEF MonitorOK
<1>4. QED BY <1>1, <1>2, <1>3, TypeParts

LEMMA TypeStep == TypeOK /\ [Next]_vars => TypeOK'
<1> SUFFICES ASSUME TypeOK, [Next]_vars PROVE TypeOK'
  OBVIOUS
<1>0. BookOK /\ CallOK /\ MonitorOK
  BY TypeParts
<1>p. BookOK' /\ CallOK' /\ MonitorOK' => TypeOK'
  BY DEF TypeOK, BookOK, CallOK, MonitorOK
<1>c. UNCHANGED call => CallOK'
  BY <1>0 DEF CallOK, At, Of
<1>1. UNCHANGED <<monitor, crashes>> => MonitorOK'
  BY <1>0 DEF MonitorOK, monitor
<1>2. UNCHANGED <<held, orders, local, call>> => BookOK' /\ CallOK'
  BY <1>0, <1>c DEF BookOK, local
<1>3. ASSUME NEW c \in Openers, OpenStep(c) \/ \E s \in Strategies : BeginOpen(c, s)
      PROVE  TypeOK'
  BY <1>1, <1>3, OpenTypes, <1>p
<1>4. ASSUME NEW c \in Closers,
             \/ ReplaceStep(c) \/ CloseStep(c)
             \/ \E s \in Strategies : BeginReplace(s) \/ BeginClose(c, s)
      PROVE  TypeOK'
  BY <1>1, <1>4, ManageTypes, <1>p
<1>5. ASSUME NEW v \in Scanners, RefreshStep(v)
      PROVE  TypeOK'
  BY <1>2, <1>5, RefreshTypes, <1>p
<1>6. ASSUME NEW s \in Strategies, ProtectionFires(s)
      PROVE  TypeOK'
  <2>1. BookOK'
    BY <1>0, <1>6 DEF ProtectionFires, Cancelled, BookOK, local
  <2>2. QED BY <1>1, <1>6, <1>c, <1>p, <2>1 DEF ProtectionFires
<1>7. CASE ReportAges
  BY <1>0, <1>2, <1>7, <1>p, IdleMonitor DEF ReportAges, MonitorOK
<1>8. CASE Restart
  <2>1. BookOK'
    BY <1>0, <1>8 DEF Restart, BookOK
  <2>2. CallOK'
    BY <1>0, <1>8 DEF Restart, CallOK, Idle, Calls, Points, At, Of
  <2>3. MonitorOK'
    <3>1. scan' \in [Scanners -> Scans]
      BY <1>8, IdleMonitor DEF Restart
    <3>2. refreshing' \in BOOLEAN
      BY <1>8 DEF Restart
    <3>3. report' \in Reports
      BY <1>8, IdleMonitor DEF Restart
    <3>4. crashes' \in 0..MaxCrashes
      BY <1>0, <1>8 DEF Restart, MonitorOK
    <3>5. QED BY <3>1, <3>2, <3>3, <3>4 DEF MonitorOK
  <2>4. QED BY <2>1, <2>2, <2>3, <1>p
<1>9. CASE UNCHANGED vars
  BY <1>0, <1>1, <1>2, <1>9, <1>p DEF vars
<1>10. Manager \in Closers
  BY DEF Closers
<1>11. QED BY <1>3, <1>4, <1>5, <1>6, <1>7, <1>8, <1>9, <1>10 DEF Next

\* Every variable keeps its type, and a coroutine works on a strategy exactly
\* while it is suspended (LiveExecutor's locals die with the call).
THEOREM TypeCorrectness == Spec => []TypeOK
<1>1. QED BY TypeInit, TypeStep, PTL DEF Spec
------------------------------------------------------------------------------
(* Protection.                                                             *)

\* Nothing about the other strategies changes.
Untouched(s) ==
  \A r \in Strategies \ {s} :
    /\ (r \in held' <=> r \in held) /\ (r \in incidents' <=> r \in incidents)
    /\ orders'[r] = orders[r] /\ status'[r] = status[r]
    /\ known'[r] = known[r] /\ saved'[r] = saved[r]

\* Nothing about the other coroutines changes.
OthersWait(c) == \A d \in Callers \ {c} : call'[d] = call[d]

\* An opening has its strategy to itself.
LEMMA Alone ==
  ASSUME Phases, NEW c \in Openers, ~At(c, "idle"),
         NEW d \in Callers, d # c, ~At(d, "idle")
  PROVE  Of(d) # Of(c)
BY DEF Phases, Opening, Managing, Callers

\* What a step of an opening has to show.
LEMMA OpenFrame ==
  ASSUME IInv, TypeOK', NEW c \in Openers, NEW s \in Strategies,
         Untouched(s), OthersWait(c),
         \A d \in Callers \ {c} : ~At(d, "idle") => Of(d) # s,
         status'[s] \in {"tried", "open"},
         At(c, "idle")' \/ (Opening(c)' /\ Of(c)' = s),
         At(c, "undo")' => s \notin held',
         At(c, "tp")' /\ s \in held' => "sl" \in orders'[s],
         status'[s] = "tried" => known'[s] = {} /\ saved'[s] = {},
         "slr" \notin known'[s] \cup saved'[s],
         s \in held' /\ status'[s] = "open" /\ s \notin incidents' => Guarding(s)'
  PROVE  Protection'
<1>0. /\ Phases /\ Flats /\ Unrecorded /\ KnownRests /\ StopPlaced /\ StaysProtected
      /\ held' \subseteq Strategies /\ c \in Callers
  BY DEF IInv, Protection, TypeOK, Callers
<1>1. \A d \in Callers \ {c} :
        /\ \A pc \in Points : At(d, pc)' <=> At(d, pc)
        /\ Of(d)' = Of(d) /\ call'[d] = call[d]
  BY DEF OthersWait, At, Of
<1>2. \A d \in Callers : ~At(d, "idle") => Of(d) \in Strategies
  BY TypeParts, BusyOnStrategy DEF IInv
<1>3. \A d \in Callers \ {c} : ~At(d, "idle") =>
        Of(d) \in Strategies \ {s} /\ status'[Of(d)] = status[Of(d)]
  BY <1>2 DEF Untouched
<1>4. Phases'
  <2>1. ASSUME NEW d \in Openers PROVE At(d, "idle")' \/ Opening(d)'
    BY <1>0, <1>1, <1>3, <2>1 DEF Phases, Opening, Callers, At, Of
  <2>2. ASSUME NEW d \in Closers PROVE At(d, "idle")' \/ Managing(d)'
    <3>1. d # c /\ d \in Callers
      BY CallersAssumption DEF Closers, Callers
    <3>2. QED BY <1>0, <1>1, <1>3, <3>1 DEF Phases, Managing, At, Of
  <2>3. ASSUME NEW d \in Openers, NEW e \in Openers,
               ~At(d, "idle")', ~At(e, "idle")', Of(d)' = Of(e)'
        PROVE  d = e
    BY <1>0, <1>1, <1>3, <2>3 DEF Phases, Callers, Opening, At, Of
  <2>4. QED BY <2>1, <2>2, <2>3 DEF Phases
<1>5. Flats'
  <2>1. ASSUME NEW r \in Strategies PROVE status'[r] \in {"new", "closed"} => r \notin held'
    BY <1>0 DEF Flats, Untouched
  <2>2. ASSUME NEW d \in Callers, At(d, "undo")' \/ At(d, "ccancel")' PROVE Of(d)' \notin held'
    BY <1>0, <1>1, <1>3, <2>2 DEF Flats, Untouched, Opening, OpenPoints, At, Of
  <2>3. QED BY <2>1, <2>2 DEF Flats
<1>6. Unrecorded'
  BY <1>0 DEF Unrecorded, Untouched
<1>7. KnownRests'
  BY <1>0 DEF KnownRests, Untouched
<1>8. StopPlaced'
  <2>1. ASSUME NEW d \in Callers \ {c}, Of(d)' \in held'
        PROVE  /\ At(d, "tp")' => "sl" \in orders'[Of(d)']
               /\ At(d, "rtp")' \/ At(d, "rcancel")' =>
                    "slr" \in orders'[Of(d)'] \ known'[Of(d)']
    BY <1>0, <1>1, <1>3, <2>1 DEF StopPlaced, Untouched, At, Of
  <2>2. ~At(c, "rtp")' /\ ~At(c, "rcancel")'
    BY DEF Opening, OpenPoints, At
  <2>3. ASSUME Of(c)' \in held', At(c, "tp")' PROVE "sl" \in orders'[Of(c)']
    BY <2>3 DEF At
  <2>4. QED BY <2>1, <2>2, <2>3 DEF StopPlaced
<1>9. StaysProtected'
  BY <1>0 DEF StaysProtected, Guarding, Untouched
<1>10. QED BY <1>4, <1>5, <1>6, <1>7, <1>8, <1>9 DEF Protection

\* What a step of a replacement or a close has to show.
LEMMA ManageFrame ==
  ASSUME IInv, TypeOK', NEW c \in Closers, NEW s \in Strategies,
         Untouched(s), OthersWait(c),
         status[s] \in {"open", "closed"}, status'[s] \in {"open", "closed"},
         At(c, "idle")' \/ (Managing(c)' /\ Of(c)' = s),
         s \in held' => s \in held,
         status'[s] = "closed" => s \notin held',
         At(c, "ccancel")' => s \notin held',
         s \in held' /\ "slr" \in known'[s] \cup saved'[s] => "slr" \in orders'[s],
         s \in held' /\ (At(c, "rtp")' \/ At(c, "rcancel")') =>
           "slr" \in orders'[s] \ known'[s],
         c # Manager /\ s \in held' => orders'[s] = orders[s] /\ known'[s] = known[s],
         s \in held' /\ status'[s] = "open" /\ s \notin incidents' => Guarding(s)'
  PROVE  Protection'
<1>0. /\ Phases /\ Flats /\ Unrecorded /\ KnownRests /\ StopPlaced /\ StaysProtected
      /\ held' \subseteq Strategies /\ c \in Callers /\ c \notin Openers
  BY CallersAssumption DEF IInv, Protection, TypeOK, Callers, Closers
<1>1. \A d \in Callers \ {c} :
        /\ \A pc \in Points : At(d, pc)' <=> At(d, pc)
        /\ Of(d)' = Of(d) /\ call'[d] = call[d]
  BY DEF OthersWait, At, Of
<1>2. \A d \in Callers : ~At(d, "idle") => Of(d) \in Strategies
  BY TypeParts, BusyOnStrategy DEF IInv
<1>3. \A d \in Openers : ~At(d, "idle") =>
        Of(d) \in Strategies \ {s} /\ status'[Of(d)] = status[Of(d)]
  BY <1>0, <1>2 DEF Untouched, Phases, Opening, Callers
<1>4. Phases'
  <2>1. ASSUME NEW d \in Openers PROVE At(d, "idle")' \/ Opening(d)'
    BY <1>0, <1>1, <1>3, <2>1 DEF Phases, Opening, Callers, At, Of
  <2>2. ASSUME NEW d \in Closers PROVE At(d, "idle")' \/ Managing(d)'
    <3>1. CASE d = c
      BY <3>1
    <3>2. CASE d # c
      <4>1. d \in Callers /\ call'[d] = call[d]
        BY <1>1, <3>2 DEF Closers, Callers
      <4>2. ~At(d, "idle") => status'[Of(d)] \in {"open", "closed"}
        BY <1>0, <1>2, <4>1 DEF Phases, Managing, Untouched
      <4>3. QED BY <1>0, <4>1, <4>2 DEF Phases, Managing, At, Of
    <3>3. QED BY <3>1, <3>2
  <2>3. ASSUME NEW d \in Openers, NEW e \in Openers,
               ~At(d, "idle")', ~At(e, "idle")', Of(d)' = Of(e)'
        PROVE  d = e
    BY <1>0, <1>1, <2>3 DEF Phases, Callers, At, Of
  <2>4. QED BY <2>1, <2>2, <2>3 DEF Phases
<1>5. Flats'
  <2>1. ASSUME NEW r \in Strategies PROVE status'[r] \in {"new", "closed"} => r \notin held'
    BY <1>0 DEF Flats, Untouched
  <2>2. ASSUME NEW d \in Callers, At(d, "undo")' \/ At(d, "ccancel")' PROVE Of(d)' \notin held'
    <3>1. CASE d = c
      BY <2>2, <3>1 DEF Managing, ClosePoints, ReplacePoints, At
    <3>2. CASE d # c
      BY <1>0, <1>1, <1>2, <2>2, <3>2 DEF Flats, Untouched, At, Of
    <3>3. QED BY <3>1, <3>2
  <2>3. QED BY <2>1, <2>2 DEF Flats
<1>6. Unrecorded'
  BY <1>0 DEF Unrecorded, Untouched
<1>7. KnownRests'
  BY <1>0 DEF KnownRests, Untouched
<1>8. StopPlaced'
  <2>1. ASSUME NEW d \in Callers \ {c}, Of(d)' \in held'
        PROVE  /\ At(d, "tp")' => "sl" \in orders'[Of(d)']
               /\ At(d, "rtp")' \/ At(d, "rcancel")' =>
                    "slr" \in orders'[Of(d)'] \ known'[Of(d)']
    <3>1. At(d, "tp") => d \in Openers
      BY <1>0 DEF Phases, Managing, ClosePoints, ReplacePoints, Closers, Callers, At
    <3>2. At(d, "rtp") \/ At(d, "rcancel") => d = Manager
      BY <1>0 DEF Phases, Opening, OpenPoints, Managing, ClosePoints, Closers, Callers, At
    <3>4. ASSUME At(d, "tp") PROVE "sl" \in orders'[Of(d)]
      BY <1>0, <1>1, <1>3, <2>1, <3>1, <3>4 DEF StopPlaced, Untouched, At
    <3>5. ASSUME At(d, "rtp") \/ At(d, "rcancel")
          PROVE  "slr" \in orders'[Of(d)] \ known'[Of(d)]
      BY <1>0, <1>1, <1>2, <2>1, <3>2, <3>5 DEF StopPlaced, Untouched, At
    <3>6. QED BY <1>1, <3>4, <3>5 DEF At, Of
  <2>2. ~At(c, "tp")'
    BY DEF Managing, ClosePoints, ReplacePoints, At
  <2>3. ASSUME Of(c)' \in held', At(c, "rtp")' \/ At(c, "rcancel")'
        PROVE  "slr" \in orders'[Of(c)'] \ known'[Of(c)']
    BY <2>3 DEF At
  <2>4. QED BY <2>1, <2>2, <2>3 DEF StopPlaced
<1>9. StaysProtected'
  BY <1>0 DEF StaysProtected, Guarding, Untouched
<1>10. QED BY <1>4, <1>5, <1>6, <1>7, <1>8, <1>9 DEF Protection

LEMMA BeginOpenProtects ==
  ASSUME IInv, TypeOK', NEW c \in Openers, NEW s \in Strategies, BeginOpen(c, s)
  PROVE  Protection'
<1>0. /\ Phases /\ Flats /\ Unrecorded /\ CallOK /\ BookOK /\ c \in Callers
  BY TypeParts DEF IInv, Protection, Callers
<1>1. /\ OthersWait(c) /\ At(c, "entry")' /\ Of(c)' = s /\ call'[c].got = {}
  BY <1>0, Starts DEF BeginOpen, OthersWait, Points
<1>2. Untouched(s) /\ status'[s] = "tried" /\ UNCHANGED <<held, known, saved>>
  BY <1>0 DEF BeginOpen, Untouched, BookOK
<1>3. \A d \in Callers \ {c} : ~At(d, "idle") => Of(d) # s
  BY <1>0 DEF BeginOpen, Phases, Opening, Managing, Callers
<1>4. known[s] = {} /\ saved[s] = {}
  BY <1>0 DEF BeginOpen, Unrecorded
<1>5. Opening(c)'
  BY <1>1, <1>2 DEF Opening, OpenPoints, At
<1>6. ~At(c, "undo")' /\ ~At(c, "tp")'
  BY <1>1 DEF At
<1>7. QED BY <1>1, <1>2, <1>3, <1>4, <1>5, <1>6, OpenFrame

LEMMA OpeningProtects ==
  ASSUME FullFills, IInv, TypeOK', NEW c \in Openers, OpenStep(c)
  PROVE  Protection'
<1>0. /\ Phases /\ Flats /\ Unrecorded /\ StopPlaced /\ CallOK /\ BookOK /\ c \in Callers
      /\ call[c].got \in SUBSET Kinds
  BY TypeParts DEF IInv, Protection, Callers, CallOK, Calls
<1>1. ~At(c, "idle")
  BY DEF OpenStep, EntryRaises, EntryFills, AttachStop, AttachTp, ForceClose, UndoAttach, At
<1>s. PICK s \in Strategies : s = Of(c)
  BY <1>0, <1>1, BusyOnStrategy
<1>2. status[s] = "tried" /\ call[c].got \subseteq {"sl", "tp"}
  BY <1>0, <1>1, <1>s DEF Phases, Opening
<1>3. \A d \in Callers \ {c} : ~At(d, "idle") => Of(d) # s
  BY <1>0, <1>1, <1>s, Alone
<1>4. known[s] = {} /\ saved[s] = {}
  BY <1>0, <1>2 DEF Unrecorded
<1>5. Return(c) => OthersWait(c) /\ At(c, "idle")' /\ ~At(c, "undo")' /\ ~At(c, "tp")'
  BY <1>0, Returns DEF OthersWait, At
<1>6. ASSUME NEW pc \in Points \ {"idle"}, NEW got \in SUBSET Kinds, GoTo(c, pc, got)
      PROVE  OthersWait(c) /\ At(c, pc)' /\ Of(c)' = s /\ call'[c].got = got
  BY <1>0, <1>1, <1>6, <1>s, GoesOn DEF OthersWait
<1>7. CASE EntryRaises(c)
  <2>1. Untouched(s) /\ UNCHANGED <<status, known, saved>>
    BY <1>0, <1>s, <1>7 DEF EntryRaises, Untouched, local
  <2>2. QED BY <1>2, <1>3, <1>4, <1>5, <1>7, <2>1, OpenFrame DEF EntryRaises
<1>8. CASE EntryFills(c)
  <2>1. Untouched(s) /\ UNCHANGED <<status, known, saved>>
    BY <1>0, <1>s, <1>8 DEF EntryFills, Untouched, local
  <2>2. OthersWait(c) /\ At(c, "stop")' /\ Of(c)' = s /\ call'[c].got = call[c].got
    BY <1>0, <1>s, <1>8 DEF EntryFills, CallOK, Calls, OthersWait, At, Of
  <2>3. Opening(c)' /\ ~At(c, "undo")' /\ ~At(c, "tp")'
    BY <1>2, <2>1, <2>2 DEF Opening, OpenPoints, At
  <2>4. QED BY <1>2, <1>3, <1>4, <2>1, <2>2, <2>3, OpenFrame
<1>9. CASE AttachStop(c)
  <2>1. Untouched(s) /\ UNCHANGED <<held, status, known, saved>>
    BY <1>0, <1>s, <1>9 DEF AttachStop, Placed, Raised, Untouched, BookOK, local
  <2>2. CASE Placed(c, "sl", "tp")
    <3>1. OthersWait(c) /\ At(c, "tp")' /\ Of(c)' = s
          /\ call'[c].got = call[c].got \cup {"sl"}
      BY <1>0, <1>6, <2>2 DEF Placed, Kinds, Points
    <3>2. "sl" \in orders'[s]
      BY <1>0, <1>s, <1>2, <2>2 DEF Placed, BookOK
    <3>3. Opening(c)' /\ ~At(c, "undo")'
      BY <1>2, <2>1, <3>1 DEF Opening, OpenPoints, At
    <3>4. QED BY <1>2, <1>3, <1>4, <2>1, <3>1, <3>2, <3>3, OpenFrame
  <2>3. CASE GoTo(c, "force", call[c].got)
    <3>1. OthersWait(c) /\ At(c, "force")' /\ Of(c)' = s /\ call'[c].got = call[c].got
      BY <1>0, <1>6, <2>3 DEF Points
    <3>2. Opening(c)' /\ ~At(c, "undo")' /\ ~At(c, "tp")'
      BY <1>2, <2>1, <3>1 DEF Opening, OpenPoints, At
    <3>3. QED BY <1>2, <1>3, <1>4, <2>1, <3>1, <3>2, OpenFrame
  <2>4. QED BY <1>9, <2>2, <2>3 DEF AttachStop
<1>10. CASE AttachTp(c)
  <2>1. UNCHANGED held /\ (s \in held => "sl" \in orders[s])
    BY <1>0, <1>s, <1>10 DEF AttachTp, StopPlaced
  <2>2. CASE Return(c) /\ Add(s, {"sl", "tp"}) /\ UNCHANGED incidents
             /\ orders' = [orders EXCEPT ![s] = @ \cup {"tp"}]
    <3>1. Untouched(s) /\ UNCHANGED held
      BY <1>0, <1>10, <2>2 DEF AttachTp, Add, Untouched, BookOK
    <3>2. /\ status'[s] = "open" /\ known'[s] = {"sl", "tp"} /\ saved'[s] = {"sl", "tp"}
          /\ orders'[s] = orders[s] \cup {"tp"}
      BY <1>0, <1>2, <2>2 DEF Add, BookOK
    <3>3. s \in held' => Guarding(s)'
      BY <2>1, <3>2 DEF Guarding, Stops
    <3>4. "slr" \notin known'[s] \cup saved'[s]
      BY <3>2
    <3>5. QED BY <1>2, <1>3, <1>5, <2>2, <3>1, <3>2, <3>3, <3>4, OpenFrame
  <2>3. CASE Return(c) /\ UNCHANGED local /\ orders' = [orders EXCEPT ![s] = @ \cup {"tp"}]
    <3>1. Untouched(s) /\ UNCHANGED <<status, known, saved>>
      BY <1>0, <1>10, <2>3 DEF AttachTp, Untouched, BookOK, local
    <3>2. QED BY <1>2, <1>3, <1>4, <1>5, <2>3, <3>1, OpenFrame
  <2>4. CASE Raised(c, "tp") /\ GoTo(c, "force", call[c].got) /\ UNCHANGED local
    <3>1. Untouched(s) /\ UNCHANGED <<status, known, saved>>
      BY <1>0, <1>s, <1>10, <2>4 DEF AttachTp, Raised, Untouched, BookOK, local
    <3>2. OthersWait(c) /\ At(c, "force")' /\ Of(c)' = s /\ call'[c].got = call[c].got
      BY <1>0, <1>6, <2>4 DEF Points
    <3>3. Opening(c)' /\ ~At(c, "undo")' /\ ~At(c, "tp")'
      BY <1>2, <3>1, <3>2 DEF Opening, OpenPoints, At
    <3>4. QED BY <1>2, <1>3, <1>4, <3>1, <3>2, <3>3, OpenFrame
  <2>5. QED BY <1>10, <1>s, <2>2, <2>3, <2>4 DEF AttachTp
<1>11. CASE ForceClose(c)
  <2>1. CASE Sold(s) /\ GoTo(c, "undo", call[c].got) /\ UNCHANGED local
    <3>1. Untouched(s) /\ UNCHANGED <<status, known, saved>> /\ s \notin held'
      BY <1>0, <1>11, <2>1 DEF ForceClose, Sold, FullFills, Untouched, local
    <3>2. OthersWait(c) /\ At(c, "undo")' /\ Of(c)' = s /\ call'[c].got = call[c].got
      BY <1>0, <1>6, <2>1 DEF Points
    <3>3. Opening(c)'
      BY <1>2, <3>1, <3>2 DEF Opening, OpenPoints, At
    <3>4. QED BY <1>2, <1>3, <1>4, <3>1, <3>2, <3>3, OpenFrame
  <2>2. CASE SaleRaises(s) /\ Return(c) /\ Add(s, call[c].got)
             /\ incidents' = incidents \cup {s}
    <3>1. Untouched(s)
      BY <1>0, <1>11, <2>2 DEF ForceClose, SaleRaises, Add, Untouched, BookOK
    <3>2. /\ status'[s] = "open" /\ s \in incidents'
          /\ known'[s] = call[c].got /\ saved'[s] = call[c].got
      BY <1>0, <1>2, <2>2 DEF Add, BookOK
    <3>3. QED BY <1>2, <1>3, <1>5, <2>2, <3>1, <3>2, OpenFrame
  <2>3. QED BY <1>11, <1>s, <2>1, <2>2 DEF ForceClose
<1>12. CASE UndoAttach(c)
  <2>1. Untouched(s) /\ UNCHANGED <<held, status, known, saved>> /\ s \notin held
    BY <1>0, <1>s, <1>12 DEF UndoAttach, Cancelled, Flats, Untouched, BookOK, local
  <2>2. QED BY <1>2, <1>3, <1>4, <1>5, <1>12, <2>1, OpenFrame DEF UndoAttach
<1>13. QED BY <1>7, <1>8, <1>9, <1>10, <1>11, <1>12 DEF OpenStep

LEMMA BeginManageProtects ==
  ASSUME IInv, TypeOK', NEW c \in Closers, NEW s \in Strategies,
         (c = Manager /\ BeginReplace(s)) \/ BeginClose(c, s)
  PROVE  Protection'
<1>0. /\ KnownRests /\ StaysProtected /\ CallOK /\ BookOK /\ c \in Callers
  BY TypeParts DEF IInv, Protection, Callers, Closers
<1>1. PICK pc \in {"rstop", "close"} : Start(c, pc, s) /\ (pc = "rstop" => c = Manager)
  BY DEF BeginReplace, BeginClose
<1>2. /\ OthersWait(c) /\ At(c, pc)' /\ Of(c)' = s
  BY <1>0, <1>1, Starts DEF OthersWait, Points
<1>3. UNCHANGED <<held, orders, status, known, saved, incidents>> /\ status[s] = "open"
  BY DEF BeginReplace, BeginClose, local
<1>4. Untouched(s)
  BY <1>3 DEF Untouched
<1>5. Managing(c)'
  BY <1>1, <1>2, <1>3 DEF Managing, ReplacePoints, ClosePoints, At
<1>6. ~At(c, "ccancel")' /\ ~At(c, "rtp")' /\ ~At(c, "rcancel")'
  BY <1>2 DEF At
<1>7. s \in held' /\ "slr" \in known'[s] \cup saved'[s] => "slr" \in orders'[s]
  BY <1>0, <1>3 DEF KnownRests
<1>8. s \in held' /\ status'[s] = "open" /\ s \notin incidents' => Guarding(s)'
  BY <1>0, <1>3 DEF StaysProtected, Guarding
<1>9. QED BY <1>2, <1>3, <1>4, <1>5, <1>6, <1>7, <1>8, ManageFrame

LEMMA ManagingProtects ==
  ASSUME FullFills, IInv, TypeOK', NEW c \in Closers,
         (c = Manager /\ ReplaceStep(c)) \/ CloseStep(c)
  PROVE  Protection'
<1>0. /\ Phases /\ Flats /\ KnownRests /\ StopPlaced /\ StaysProtected /\ CallOK /\ BookOK
      /\ c \in Callers /\ call[c].got \in SUBSET Kinds
  BY TypeParts DEF IInv, Protection, Callers, Closers, CallOK, Calls
<1>1. ~At(c, "idle")
  BY DEF ReplaceStep, CloseStep, ReplaceNotTried, ReplaceStop, ReplaceTp, CancelReplaced,
         SaveReplaced, CloseSells, CloseRaises, CloseEnds, At
<1>s. PICK s \in Strategies : s = Of(c)
  BY <1>0, <1>1, BusyOnStrategy
<1>2. status[s] \in {"open", "closed"}
  BY <1>0, <1>1, <1>s DEF Phases, Managing
<1>3. Return(c) => /\ OthersWait(c) /\ At(c, "idle")'
                   /\ ~At(c, "ccancel")' /\ ~At(c, "rtp")' /\ ~At(c, "rcancel")'
  BY <1>0, Returns DEF OthersWait, At
<1>4. ASSUME NEW pc \in Points \ {"idle"}, NEW got \in SUBSET Kinds, GoTo(c, pc, got)
      PROVE  OthersWait(c) /\ At(c, pc)' /\ Of(c)' = s
  BY <1>0, <1>1, <1>4, <1>s, GoesOn DEF OthersWait
<1>5. status[s] = "closed" => s \notin held
  BY <1>0 DEF Flats
<1>6. s \in held /\ "slr" \in known[s] \cup saved[s] => "slr" \in orders[s]
  BY <1>0 DEF KnownRests
<1>7. s \in held /\ status[s] = "open" /\ s \notin incidents => Guarding(s)
  BY <1>0 DEF StaysProtected
<1>8. s \in held /\ (At(c, "rtp") \/ At(c, "rcancel")) => "slr" \in orders[s] \ known[s]
  BY <1>0, <1>s DEF StopPlaced
<1>9. CASE ReplaceNotTried(c)
  <2>1. Untouched(s) /\ UNCHANGED <<held, orders, status, known, saved, incidents>> /\ c = Manager
    BY <1>9 DEF ReplaceNotTried, Untouched, CloseStep, CloseSells, CloseRaises, CloseEnds, At, local
  <2>2. QED
    BY <1>2, <1>3, <1>5, <1>6, <1>7, <1>9, <2>1, ManageFrame DEF ReplaceNotTried, Guarding
<1>10. CASE c = Manager /\ ReplaceStop(c)
  <2>1. Untouched(s) /\ UNCHANGED <<held, status, known, saved, incidents>>
    BY <1>0, <1>s, <1>10 DEF ReplaceStop, Placed, Raised, Untouched, BookOK
  <2>2. orders[s] \subseteq orders'[s]
    BY <1>0, <1>s, <1>10 DEF ReplaceStop, Placed, Raised, BookOK
  <2>3. CASE Placed(c, "slr", "rtp")
    <3>1. OthersWait(c) /\ At(c, "rtp")' /\ Of(c)' = s
      BY <1>0, <1>4, <2>3 DEF Placed, Kinds, Points
    <3>2. "slr" \in orders'[s] /\ "slr" \notin orders[s] /\ s \in held
      BY <1>0, <1>s, <2>3 DEF Placed, Placeable, BookOK
    <3>3. Managing(c)' /\ ~At(c, "ccancel")'
      BY <1>2, <1>10, <2>1, <3>1 DEF Managing, ReplacePoints, At
    <3>4. "slr" \notin known'[s] \cup saved'[s]
      BY <1>6, <2>1, <3>2
    <3>5. Guarding(s)'
      BY <3>2 DEF Guarding, Stops
    <3>6. QED BY <1>2, <1>5, <1>10, <2>1, <3>1, <3>2, <3>3, <3>4, <3>5, ManageFrame
  <2>4. CASE Return(c)
    <3>1. s \in held' /\ status'[s] = "open" /\ s \notin incidents' => Guarding(s)'
      BY <1>7, <2>1, <2>2 DEF Guarding
    <3>2. QED BY <1>2, <1>3, <1>5, <1>6, <1>10, <2>1, <2>2, <2>4, <3>1, ManageFrame
  <2>5. QED BY <1>10, <2>3, <2>4 DEF ReplaceStop, ReplaceFails
<1>11. CASE c = Manager /\ ReplaceTp(c)
  <2>1. Untouched(s) /\ UNCHANGED <<held, status, known, saved, incidents>>
    BY <1>0, <1>s, <1>11 DEF ReplaceTp, Placed, Raised, Untouched, BookOK
  <2>2. orders[s] \subseteq orders'[s]
    BY <1>0, <1>s, <1>11 DEF ReplaceTp, Placed, Raised, BookOK
  <2>3. s \in held' => "slr" \in orders'[s] \ known'[s]
    BY <1>8, <1>11, <2>1, <2>2 DEF ReplaceTp
  <2>4. s \in held' /\ status'[s] = "open" /\ s \notin incidents' => Guarding(s)'
    BY <1>7, <2>1, <2>2 DEF Guarding
  <2>5. CASE Placed(c, "tpr", "rcancel")
    <3>1. OthersWait(c) /\ At(c, "rcancel")' /\ Of(c)' = s
      BY <1>0, <1>4, <2>5 DEF Placed, Kinds, Points
    <3>2. Managing(c)' /\ ~At(c, "ccancel")'
      BY <1>2, <1>11, <2>1, <3>1 DEF Managing, ReplacePoints, At
    <3>3. QED
      BY <1>2, <1>5, <1>6, <1>11, <2>1, <2>2, <2>3, <2>4, <3>1, <3>2, ManageFrame
  <2>6. CASE Return(c)
    BY <1>2, <1>3, <1>5, <1>6, <1>11, <2>1, <2>2, <2>4, <2>6, ManageFrame
  <2>7. QED BY <1>11, <2>5, <2>6 DEF ReplaceTp, ReplaceFails
<1>12. CASE c = Manager /\ CancelReplaced(c)
  <2>0. PICK kinds \in Removed(s, known[s]) :
          /\ Cancelled(s, kinds)
          /\ \/ known' = [known EXCEPT ![s] = {"slr", "tpr"}] /\ GoTo(c, "save", call[c].got)
             \/ Return(c) /\ UNCHANGED known
    BY <1>s, <1>12 DEF CancelReplaced, ReplaceFails
  <2>1. /\ kinds \subseteq known[s]
        /\ orders' = [orders EXCEPT ![s] = @ \ kinds]
    BY <2>0 DEF Cancelled, Removed
  <2>2. Untouched(s) /\ UNCHANGED <<held, status, saved, incidents>>
    BY <1>0, <1>12, <2>0, <2>1 DEF CancelReplaced, Untouched, BookOK
  <2>3. s \in held' => "slr" \in orders'[s]
    BY <1>0, <1>8, <1>12, <2>1, <2>2 DEF CancelReplaced, BookOK
  <2>4. s \in held' => Guarding(s)'
    BY <2>3 DEF Guarding, Stops
  <2>5. CASE GoTo(c, "save", call[c].got)
    <3>1. OthersWait(c) /\ At(c, "save")' /\ Of(c)' = s
      BY <1>0, <1>4, <2>5 DEF Points
    <3>2. Managing(c)' /\ ~At(c, "ccancel")' /\ ~At(c, "rtp")' /\ ~At(c, "rcancel")'
      BY <1>2, <1>12, <2>2, <3>1 DEF Managing, ReplacePoints, At
    <3>3. QED BY <1>2, <1>5, <1>12, <2>2, <2>3, <2>4, <3>1, <3>2, ManageFrame
  <2>6. CASE Return(c)
    BY <1>2, <1>3, <1>5, <1>12, <2>2, <2>3, <2>4, <2>6, ManageFrame
  <2>7. QED BY <2>0, <2>5, <2>6
<1>13. CASE c = Manager /\ SaveReplaced(c)
  <2>1. Untouched(s) /\ UNCHANGED <<held, orders, incidents>>
    BY <1>0, <1>s, <1>13 DEF SaveReplaced, Add, Untouched, BookOK
  <2>2. status'[s] = "open" /\ known'[s] = known[s] /\ saved'[s] = known[s]
    BY <1>0, <1>s, <1>13 DEF SaveReplaced, Add, BookOK
  <2>3. s \in held' /\ s \notin incidents' => Guarding(s)'
    BY <1>2, <1>5, <1>7, <2>1 DEF Guarding
  <2>4. QED BY <1>2, <1>3, <1>6, <1>13, <2>1, <2>2, <2>3, ManageFrame DEF SaveReplaced
<1>14. CASE CloseSells(c)
  <2>1. Untouched(s) /\ UNCHANGED <<orders, status, known, saved, incidents>> /\ s \notin held'
    BY <1>0, <1>s, <1>14 DEF CloseSells, Sold, FullFills, Untouched, local
  <2>2. OthersWait(c) /\ At(c, "ccancel")' /\ Of(c)' = s
    BY <1>4, <1>14 DEF CloseSells, Points
  <2>3. Managing(c)'
    BY <1>2, <2>1, <2>2 DEF Managing, ClosePoints, At
  <2>4. QED BY <1>2, <2>1, <2>2, <2>3, ManageFrame
<1>15. CASE CloseRaises(c)
  <2>1. Untouched(s) /\ UNCHANGED <<orders, incidents>> /\ (s \in held' => s \in held)
    BY <1>0, <1>s, <1>15 DEF CloseRaises, SaleRaises, Add, Untouched, BookOK
  <2>2. status'[s] = "open" /\ known'[s] = known[s] /\ saved'[s] = known[s]
    BY <1>0, <1>s, <1>15 DEF CloseRaises, Add, BookOK
  <2>3. s \in held' /\ s \notin incidents' => Guarding(s)'
    BY <1>2, <1>5, <1>7, <2>1 DEF Guarding
  <2>4. QED BY <1>2, <1>3, <1>6, <1>15, <2>1, <2>2, <2>3, ManageFrame DEF CloseRaises
<1>16. CASE CloseEnds(c)
  <2>1. Untouched(s) /\ UNCHANGED <<held, known, saved, incidents>> /\ s \notin held
    BY <1>0, <1>s, <1>16 DEF CloseEnds, Cancelled, Flats, Untouched, BookOK
  <2>2. status'[s] = "closed"
    BY <1>0, <1>s, <1>16 DEF CloseEnds, BookOK
  <2>3. QED BY <1>2, <1>3, <1>16, <2>1, <2>2, ManageFrame DEF CloseEnds
<1>17. QED
  BY <1>9, <1>10, <1>11, <1>12, <1>13, <1>14, <1>15, <1>16 DEF ReplaceStep, CloseStep

LEMMA ProtectionInit == Init => Protection
BY DEF Init, Protection, Phases, Flats, Unrecorded, KnownRests, StopPlaced, StaysProtected,
       NoOrders, Idle, At, Of, Callers, Closers

LEMMA ProtectionStep ==
  ASSUME FullFills, IInv, [Next]_vars, TypeOK'
  PROVE  Protection'
<1>0. /\ Phases /\ Flats /\ Unrecorded /\ KnownRests /\ StopPlaced /\ StaysProtected
      /\ CallOK /\ BookOK /\ Manager \in Closers
  BY TypeParts DEF IInv, Protection, Closers
<1>1. ASSUME UNCHANGED <<held, orders, status, known, saved, incidents, call>>
      PROVE  Protection'
  BY <1>0, <1>1 DEF Protection, Phases, Opening, Managing, Flats, Unrecorded, KnownRests,
                    StopPlaced, StaysProtected, Guarding, At, Of
<1>2. ASSUME NEW s \in Strategies, ProtectionFires(s)
      PROVE  Protection'
  <2>1. /\ held' = held \ {s} /\ UNCHANGED <<status, known, saved, incidents, call>>
        /\ \A r \in Strategies \ {s} : orders'[r] = orders[r]
    BY <1>0, <1>2 DEF ProtectionFires, Cancelled, BookOK, local
  <2>2. Phases'
    BY <1>0, <2>1 DEF Phases, Opening, Managing, At, Of
  <2>3. Flats' /\ Unrecorded'
    BY <1>0, <2>1 DEF Flats, Unrecorded, At, Of
  <2>4. KnownRests' /\ StaysProtected'
    BY <1>0, <2>1 DEF KnownRests, StaysProtected, Guarding, BookOK
  <2>5. StopPlaced'
    BY <1>0, <2>1 DEF StopPlaced, BookOK, At, Of
  <2>6. QED BY <2>2, <2>3, <2>4, <2>5 DEF Protection
<1>3. CASE Restart
  <2>1. /\ UNCHANGED <<held, orders, status, saved, incidents>> /\ known' = saved
        /\ \A c \in Callers : At(c, "idle")' /\ ~At(c, "undo")' /\ ~At(c, "ccancel")'
                             /\ ~At(c, "tp")' /\ ~At(c, "rtp")' /\ ~At(c, "rcancel")'
    BY <1>3 DEF Restart, Idle, At
  <2>2. Phases'
    BY <2>1 DEF Phases, Callers, Closers
  <2>3. Flats' /\ Unrecorded' /\ KnownRests' /\ StopPlaced' /\ StaysProtected'
    BY <1>0, <2>1 DEF Flats, Unrecorded, KnownRests, StopPlaced, StaysProtected, Guarding
  <2>4. QED BY <2>2, <2>3 DEF Protection
<1>4. ASSUME NEW v \in Scanners, RefreshStep(v)
      PROVE  Protection'
  BY <1>1, <1>4, RefreshTypes DEF IInv, local
<1>5. CASE ReportAges
  BY <1>1, <1>5 DEF ReportAges, local
<1>6. CASE UNCHANGED vars
  BY <1>1, <1>6 DEF vars, local
<1>7. QED
  BY <1>0, <1>2, <1>3, <1>4, <1>5, <1>6,
     BeginOpenProtects, OpeningProtects, BeginManageProtects, ManagingProtects DEF Next

\* The inductive invariant, if market closes fill completely.
LEMMA Invariance == ASSUME FullFills PROVE Spec => []IInv
<1>1. Init => IInv
  BY TypeInit, ProtectionInit DEF IInv
<1>2. IInv /\ [Next]_vars => IInv'
  BY TypeStep, ProtectionStep DEF IInv
<1>3. QED BY <1>1, <1>2, PTL DEF Spec

\* If market closes fill completely, a position that was opened with its
\* protection has a stop on the exchange at every await of a replacement or a
\* close, whatever is refused, lost or interrupted by a restart.
THEOREM ProtectedAtEveryAwait ==
  ASSUME FullFills
  PROVE  Spec => []StaysProtected
<1>1. IInv => StaysProtected
  BY DEF IInv, Protection
<1>2. QED BY <1>1, Invariance, PTL

------------------------------------------------------------------------------
(* Positions without a stop.                                               *)

\* No answer of the exchange is lost.
AllAnswered == "lost" \notin Faults

Naked(s) == s \in held /\ ~Guarding(s)

\* An opening has the strategy between its entry and its stop, or while it is
\* undoing an entry whose stop was refused.
Exposed(c, s) == Of(c) = s /\ (At(c, "stop") \/ At(c, "force"))

\* In the first life of the process a position that was tried and is naked is
\* in the hands of the opening that tried it, and incidents freeze trading.
NakedInv ==
  /\ IInv
  /\ incidents # {} => freeze
  /\ crashes = 0 => \A s \in Strategies :
       Naked(s) /\ status[s] = "tried" => \E c \in Openers : Exposed(c, s)

\* Incidents are only added, together with the freeze, which nothing lifts.
LEMMA IncidentsFreeze ==
  ASSUME TypeOK, [Next]_vars, incidents # {} => freeze
  PROVE  incidents' # {} => freeze'
<1>1. ASSUME NEW c \in Openers, OpenStep(c) \/ \E s \in Strategies : BeginOpen(c, s)
      PROVE  incidents' # {} => freeze'
  BY <1>1 DEF OpenStep, BeginOpen, EntryRaises, EntryFills, AttachStop, AttachTp, ForceClose,
              UndoAttach, Add, local
<1>2. ASSUME ReplaceStep(Manager) \/ \E s \in Strategies : BeginReplace(s)
      PROVE  incidents' # {} => freeze'
  BY <1>2 DEF ReplaceStep, BeginReplace, ReplaceNotTried, ReplaceStop, ReplaceTp, ReplaceFails,
              CancelReplaced, SaveReplaced, local
<1>3. ASSUME NEW c \in Closers, CloseStep(c) \/ \E s \in Strategies : BeginClose(c, s)
      PROVE  incidents' # {} => freeze'
  BY <1>3 DEF CloseStep, BeginClose, CloseSells, CloseRaises, CloseEnds, local
<1>4. ASSUME NEW v \in Scanners, RefreshStep(v) PROVE incidents' # {} => freeze'
  BY <1>4 DEF RefreshStep, BeginRefresh, ReadPositions, ReadOrders, RefreshFails, EndRefresh, local
<1>5. ASSUME NEW s \in Strategies, ProtectionFires(s) PROVE incidents' # {} => freeze'
  BY <1>5 DEF ProtectionFires, local
<1>6. ASSUME ReportAges \/ Restart \/ UNCHANGED vars PROVE incidents' # {} => freeze'
  BY <1>6 DEF ReportAges, Restart, vars, local
<1> QED BY <1>1, <1>2, <1>3, <1>4, <1>5, <1>6 DEF Next

\* The position s is tried before and after a step of opening c and naked after
\* it: somebody has it.
LEMMA OpeningExposes ==
  ASSUME FullFills, AllAnswered, NakedInv, crashes = 0, NEW s \in Strategies,
         NEW c \in Openers, OpenStep(c), Naked(s)', status[s] = "tried", status'[s] = "tried"
  PROVE  \E d \in Openers : Exposed(d, s)'
<1>0. CallOK /\ BookOK /\ c \in Callers /\ Phases /\ Flats /\ Openers \subseteq Callers
  BY TypeParts DEF NakedInv, IInv, Protection, Callers
<1>1. ASSUME NEW d \in Openers, Exposed(d, s), call'[d] = call[d] PROVE Exposed(d, s)'
  BY <1>1 DEF Exposed, At, Of
<1>2. CASE EntryRaises(c)
  <2>1. UNCHANGED <<held, orders>> /\ Return(c) /\ ~At(c, "stop") /\ ~At(c, "force")
    BY <1>2 DEF EntryRaises, AllAnswered, At
  <2>2. PICK d \in Openers : Exposed(d, s)
    BY <2>1 DEF NakedInv, Naked, Guarding
  <2>3. d # c BY <2>1, <2>2 DEF Exposed
  <2> QED BY <1>0, <1>1, <2>1, <2>2, <2>3, Returns
<1>3. CASE EntryFills(c)
  <2>1. held' = held \cup {Of(c)} /\ UNCHANGED orders BY <1>3 DEF EntryFills
  <2>2. PICK f \in BOOLEAN : call' = [call EXCEPT ![c] = [@ EXCEPT !.pc = "stop", !.filled = f]]
    BY <1>3 DEF EntryFills
  <2>3. call'[c].pc = "stop" /\ call'[c].s = call[c].s /\ (\A d \in Openers \ {c} : call'[d] = call[d])
    BY <1>0, <2>2 DEF CallOK, Calls
  <2>4. CASE Of(c) = s BY <2>3, <2>4 DEF Exposed, At, Of
  <2>5. CASE Of(c) # s
    <3>1. PICK d \in Openers : Exposed(d, s)
      BY <2>1, <2>5 DEF NakedInv, Naked, Guarding
    <3>2. d # c BY <2>5, <3>1 DEF Exposed
    <3> QED BY <1>1, <2>3, <3>1, <3>2
  <2> QED BY <2>4, <2>5
<1>4. CASE AttachStop(c)
  <2>0. At(c, "stop") /\ ~At(c, "idle") /\ UNCHANGED held /\ Of(c) \in Strategies
    BY <1>0, <1>4, BusyOnStrategy DEF AttachStop, At
  <2>1. CASE Placed(c, "sl", "tp")
    <3>1. orders' = [orders EXCEPT ![Of(c)] = @ \cup {"sl"}] BY <2>1 DEF Placed
    <3>2. s # Of(c) BY <1>0, <2>0, <3>1 DEF Naked, Guarding, Stops, BookOK
    <3>3. Naked(s) BY <1>0, <2>0, <3>1, <3>2 DEF Naked, Guarding, BookOK
    <3>4. PICK d \in Openers : Exposed(d, s) BY <3>3 DEF NakedInv
    <3>5. d # c BY <3>2, <3>4 DEF Exposed
    <3>6. call'[d] = call[d] BY <1>0, <2>1, <3>5 DEF Placed, GoTo, CallOK
    <3> QED BY <1>1, <3>4, <3>6
  <2>2. CASE Raised(c, "sl") /\ GoTo(c, "force", call[c].got)
    <3>1. UNCHANGED orders BY <2>2 DEF Raised, AllAnswered
    <3>2. PICK d \in Openers : Exposed(d, s) BY <2>0, <3>1 DEF NakedInv, Naked, Guarding
    <3>3. At(c, "force")' /\ Of(c)' = Of(c) /\ \A e \in Callers \ {c} : call'[e] = call[e]
      BY <1>0, <2>2 DEF GoTo, CallOK, Calls, At, Of
    <3> QED BY <1>0, <1>1, <3>2, <3>3 DEF Exposed
  <2> QED BY <1>4, <2>1, <2>2 DEF AttachStop
<1>5. CASE AttachTp(c)
  <2>1. At(c, "tp") /\ UNCHANGED held /\ Of(c) \in Strategies
    BY <1>0, <1>5, BusyOnStrategy DEF AttachTp, At
  <2>2. \A r \in Strategies : orders[r] \subseteq orders'[r]
    BY <1>0, <1>5, <2>1 DEF AttachTp, Raised, BookOK
  <2>3. Naked(s) BY <2>1, <2>2 DEF Naked, Guarding
  <2>4. PICK d \in Openers : Exposed(d, s) BY <2>3 DEF NakedInv
  <2>5. d # c BY <2>1, <2>4 DEF Exposed, At
  <2>6. call'[d] = call[d] BY <1>0, <1>5, <2>5 DEF AttachTp, Return, GoTo, CallOK
  <2> QED BY <1>1, <2>4, <2>6
<1>6. CASE ForceClose(c)
  <2>0. At(c, "force") /\ UNCHANGED orders /\ Of(c) \in Strategies
    BY <1>0, <1>6, BusyOnStrategy DEF ForceClose, At
  <2>1. s # Of(c)
    <3>1. CASE Sold(Of(c)) BY <3>1 DEF Sold, FullFills, Naked
    <3>2. CASE Add(Of(c), call[c].got) BY <1>0, <2>0, <3>2 DEF Add, BookOK, Statuses
    <3> QED BY <1>6, <3>1, <3>2 DEF ForceClose
  <2>2. held' \subseteq held BY <1>6 DEF ForceClose, Sold, SaleRaises
  <2>3. Naked(s) BY <2>0, <2>2 DEF Naked, Guarding
  <2>4. PICK d \in Openers : Exposed(d, s) BY <2>3 DEF NakedInv
  <2>5. d # c BY <2>1, <2>4 DEF Exposed
  <2>6. call'[d] = call[d] BY <1>0, <1>6, <2>5 DEF ForceClose, Return, GoTo, CallOK
  <2> QED BY <1>1, <2>4, <2>6
<1>7. CASE UndoAttach(c)
  <2>1. At(c, "undo") /\ UNCHANGED held /\ Return(c) BY <1>7 DEF UndoAttach
  <2>2. Of(c) \notin held BY <1>0, <2>1 DEF Flats
  <2>3. s # Of(c) BY <2>1, <2>2 DEF Naked
  <2>4. orders'[s] = orders[s] BY <1>0, <1>7, <2>3 DEF UndoAttach, Cancelled, BookOK
  <2>5. Naked(s) BY <2>1, <2>4 DEF Naked, Guarding
  <2>6. PICK d \in Openers : Exposed(d, s) BY <2>5 DEF NakedInv
  <2>7. d # c BY <2>1, <2>6 DEF Exposed, At
  <2> QED BY <1>0, <1>1, <2>1, <2>6, <2>7, Returns
<1> QED BY <1>2, <1>3, <1>4, <1>5, <1>6, <1>7 DEF OpenStep

\* A step that no opening takes leaves a tried position as naked as it was.
LEMMA OthersExpose ==
  ASSUME NakedInv, crashes = 0, NEW s \in Strategies, Naked(s)', status[s] = "tried",
         \A d \in Openers : call'[d] = call[d],
         s \in held' => s \in held, orders'[s] = orders[s]
  PROVE  \E d \in Openers : Exposed(d, s)'
<1>1. Naked(s) BY DEF Naked, Guarding
<1>2. PICK d \in Openers : Exposed(d, s) BY <1>1 DEF NakedInv
<1> QED BY <1>2 DEF Exposed, At, Of

LEMMA ManagingExposes ==
  ASSUME NakedInv, crashes = 0, NEW s \in Strategies,
         NEW c \in Closers, (c = Manager /\ ReplaceStep(c)) \/ CloseStep(c),
         Naked(s)', status[s] = "tried"
  PROVE  \E d \in Openers : Exposed(d, s)'
<1>0. CallOK /\ BookOK /\ c \in Callers /\ Phases /\ \A d \in Openers : d \in Callers \ {c}
  BY TypeParts, CallersAssumption DEF NakedInv, IInv, Protection, Callers, Closers
<1>1. ~At(c, "idle")
  BY DEF ReplaceStep, ReplaceNotTried, ReplaceStop, ReplaceTp, CancelReplaced, SaveReplaced,
         CloseStep, CloseSells, CloseRaises, CloseEnds, At
<1>2. Of(c) \in Strategies /\ s # Of(c)
  BY <1>0, <1>1, BusyOnStrategy DEF Phases, Managing
<1>3. \A d \in Openers : call'[d] = call[d]
  BY <1>0 DEF ReplaceStep, ReplaceNotTried, ReplaceStop, ReplaceTp, CancelReplaced, SaveReplaced,
              CloseStep, CloseSells, CloseRaises, CloseEnds, Placed, ReplaceFails, GoTo, Return, CallOK
<1>4. orders'[s] = orders[s]
  BY <1>0, <1>2 DEF ReplaceStep, ReplaceNotTried, ReplaceStop, ReplaceTp, CancelReplaced, SaveReplaced,
              CloseStep, CloseSells, CloseRaises, CloseEnds, Placed, Raised, Cancelled, BookOK
<1>5. held' \subseteq held
  BY DEF ReplaceStep, ReplaceNotTried, ReplaceStop, ReplaceTp, CancelReplaced, SaveReplaced,
         CloseStep, CloseSells, CloseRaises, CloseEnds, Sold, SaleRaises
<1> QED BY <1>3, <1>4, <1>5, OthersExpose

\* A position comes to be tried when it is not held, and an open or closed one
\* is never tried again.
LEMMA TriedBefore ==
  ASSUME NakedInv, [Next]_vars, NEW s \in Strategies, status'[s] = "tried", s \in held'
  PROVE  status[s] = "tried"
<1>0. CallOK /\ BookOK /\ Flats BY TypeParts DEF NakedInv, IInv, Protection
<1>1. ASSUME NEW c \in Openers, NEW r \in Strategies, BeginOpen(c, r) PROVE status[s] = "tried"
  BY <1>0, <1>1 DEF BeginOpen, BookOK, Flats
<1>2. ASSUME NEW c \in Openers, OpenStep(c) PROVE status[s] = "tried"
  BY <1>0, <1>2 DEF OpenStep, EntryRaises, EntryFills, AttachStop, AttachTp, ForceClose,
                    UndoAttach, Add, BookOK, Statuses, local
<1>3. ASSUME ReplaceStep(Manager) \/ \E r \in Strategies : BeginReplace(r) PROVE status[s] = "tried"
  BY <1>0, <1>3 DEF ReplaceStep, BeginReplace, ReplaceNotTried, ReplaceStop, ReplaceTp,
                    CancelReplaced, SaveReplaced, Add, BookOK, Statuses, local
<1>4. ASSUME NEW c \in Closers, CloseStep(c) \/ \E r \in Strategies : BeginClose(c, r)
      PROVE  status[s] = "tried"
  BY <1>0, <1>4 DEF CloseStep, BeginClose, CloseSells, CloseRaises, CloseEnds, Add, BookOK, Statuses, local
<1>5. ASSUME NEW v \in Scanners, RefreshStep(v) PROVE status[s] = "tried"
  BY <1>5 DEF RefreshStep, BeginRefresh, ReadPositions, ReadOrders, RefreshFails, EndRefresh, local
<1>6. ASSUME NEW r \in Strategies, ProtectionFires(r) PROVE status[s] = "tried"
  BY <1>6 DEF ProtectionFires, local
<1>7. ASSUME ReportAges \/ Restart \/ UNCHANGED vars PROVE status[s] = "tried"
  BY <1>7 DEF ReportAges, Restart, vars, local
<1> QED BY <1>1, <1>2, <1>3, <1>4, <1>5, <1>6, <1>7 DEF Next

LEMMA NakedStep ==
  ASSUME FullFills, AllAnswered, NakedInv, [Next]_vars
  PROVE  NakedInv'
<1>0. TypeOK /\ IInv' /\ CallOK /\ BookOK /\ crashes \in Nat /\ Phases
  BY TypeStep, ProtectionStep, TypeParts DEF NakedInv, IInv, Protection, TypeOK
<1>1. incidents' # {} => freeze'
  BY <1>0, IncidentsFreeze DEF NakedInv
<1>2. ASSUME crashes' = 0, NEW s \in Strategies, Naked(s)', status'[s] = "tried"
      PROVE  \E c \in Openers : Exposed(c, s)'
  <2>1. status[s] = "tried" BY <1>2, TriedBefore DEF Naked
  <2>2. ASSUME NEW c \in Openers, OpenStep(c) PROVE \E d \in Openers : Exposed(d, s)'
    <3>1. crashes = 0
      BY <1>2, <2>2 DEF OpenStep, EntryRaises, EntryFills, AttachStop, AttachTp, ForceClose, UndoAttach
    <3> QED BY <1>2, <2>1, <2>2, <3>1, OpeningExposes
  <2>3. ASSUME NEW c \in Openers, NEW r \in Strategies, BeginOpen(c, r)
        PROVE  \E d \in Openers : Exposed(d, s)'
    <3>1. crashes = 0 /\ UNCHANGED <<held, orders>> /\ At(c, "idle") /\ Start(c, "entry", r)
      BY <1>2, <2>3 DEF BeginOpen
    <3>2. PICK d \in Openers : Exposed(d, s)
      BY <1>2, <2>1, <3>1 DEF NakedInv, Naked, Guarding
    <3>3. d # c BY <3>1, <3>2 DEF Exposed, At
    <3>4. call'[d] = call[d] BY <1>0, <3>1, <3>3 DEF Start, CallOK
    <3> QED BY <3>2, <3>4 DEF Exposed, At, Of
  <2>4. ASSUME NEW c \in Closers, (c = Manager /\ ReplaceStep(c)) \/ CloseStep(c)
        PROVE  \E d \in Openers : Exposed(d, s)'
    <3>1. crashes = 0
      BY <1>2, <2>4 DEF ReplaceStep, ReplaceNotTried, ReplaceStop, ReplaceTp, CancelReplaced,
                        SaveReplaced, CloseStep, CloseSells, CloseRaises, CloseEnds
    <3> QED BY <1>2, <2>1, <2>4, <3>1, ManagingExposes
  <2>5. ASSUME NEW c \in Closers, NEW r \in Strategies,
               (c = Manager /\ BeginReplace(r)) \/ BeginClose(c, r)
        PROVE  \E d \in Openers : Exposed(d, s)'
    <3>1. crashes = 0 /\ UNCHANGED <<held, orders>>
          /\ \E pc \in Points : Start(c, pc, r)
      BY <1>2, <2>5 DEF BeginReplace, BeginClose, Points
    <3>2. \A d \in Openers : d # c /\ d \in Callers
      BY CallersAssumption DEF Closers, Callers
    <3>3. \A d \in Openers : call'[d] = call[d]
      BY <1>0, <3>1, <3>2 DEF Start, CallOK
    <3> QED BY <1>2, <2>1, <3>1, <3>3, OthersExpose
  <2>6. ASSUME NEW v \in Scanners, RefreshStep(v) PROVE \E d \in Openers : Exposed(d, s)'
    <3>1. UNCHANGED <<held, orders, call, crashes>>
      BY <2>6 DEF RefreshStep, BeginRefresh, ReadPositions, ReadOrders, RefreshFails, EndRefresh
    <3> QED BY <1>2, <2>1, <3>1, OthersExpose
  <2>7. ASSUME NEW r \in Strategies, ProtectionFires(r) PROVE \E d \in Openers : Exposed(d, s)'
    <3>1. held' = held \ {r} /\ UNCHANGED <<call, crashes>> /\ (s # r => orders'[s] = orders[s])
      BY <1>0, <2>7 DEF ProtectionFires, Cancelled, BookOK
    <3> QED BY <1>2, <2>1, <3>1, OthersExpose DEF Naked
  <2>8. ASSUME ReportAges \/ UNCHANGED vars PROVE \E d \in Openers : Exposed(d, s)'
    <3>1. UNCHANGED <<held, orders, call, crashes>> BY <2>8 DEF ReportAges, vars
    <3> QED BY <1>2, <2>1, <3>1, OthersExpose
  <2>9. ~Restart BY <1>0, <1>2 DEF Restart
  <2>10. Manager \in Closers BY DEF Closers
  <2> QED BY <2>2, <2>3, <2>4, <2>5, <2>6, <2>7, <2>8, <2>9, <2>10 DEF Next
<1> QED BY <1>0, <1>1, <1>2 DEF NakedInv

\* If sales fill completely and no answer is lost, a position without a stop
\* that no coroutine is working on is a recorded incident that has frozen
\* trading, until the process is restarted (_record_unprotected_live_position).
THEOREM NakedPositionsFreeze ==
  ASSUME FullFills, AllAnswered
  PROVE  Spec => []NakedIsFrozen
<1>1. Init => NakedInv
  BY TypeInit, ProtectionInit DEF Init, NakedInv, IInv, Naked
<1>2. NakedInv /\ [Next]_vars => NakedInv'
  BY NakedStep
<1>3. NakedInv => NakedIsFrozen
  <2> SUFFICES ASSUME NakedInv, crashes = 0, NEW s \in held, ~Guarding(s), ~Busy(s)
      PROVE  s \in incidents /\ status[s] = "open" /\ freeze
    BY DEF NakedIsFrozen
  <2>0. s \in Strategies /\ status[s] \in Statuses /\ Flats /\ StaysProtected
    BY DEF NakedInv, IInv, Protection, TypeOK
  <2>1. status[s] # "tried"
    <3>1. ASSUME NEW c \in Openers, Exposed(c, s) PROVE FALSE
      BY <3>1 DEF Exposed, Busy, At, Callers
    <3> QED BY <2>0, <3>1 DEF NakedInv, Naked
  <2>2. status[s] = "open" BY <2>0, <2>1 DEF Flats, Statuses
  <2>3. s \in incidents BY <2>0, <2>2 DEF StaysProtected
  <2> QED BY <2>2, <2>3 DEF NakedInv
<1>4. QED BY <1>1, <1>2, <1>3, PTL DEF Spec

------------------------------------------------------------------------------
(* The reconciliation gate.                                                *)

\* What nobody is working on and nobody may take up again.
Dead(s) == status[s] \in {"tried", "closed"} /\ ~Busy(s)

Blank == \A s \in Strategies : status[s] = "new" => s \notin held /\ orders[s] = {} /\ ~Busy(s)

Gone(s) == s \notin held /\ orders[s] = {}

\* What was amiss when a refresh began is dead, so it can only go away: a
\* refresh that no longer sees its position or its orders is right for good.
Vetting(v) ==
  \A r \in scan[v].vetted :
    /\ Dead(r)
    /\ scan[v].pc \in {"orders", "local"} /\ r \notin scan[v].seen => r \notin held
    /\ scan[v].pc = "local" /\ scan[v].resting[r] = {} => orders[r] = {}
GateInv ==
  /\ TypeOK /\ Blank
  /\ \A v \in Scanners : Vetting(v)
  /\ \A r \in report.vetted : Dead(r) /\ Gone(r)

\* What a step of a call on strategy t may touch.
Within(c, t) ==
  /\ \A r \in Strategies \ {t} :
       (r \in held' => r \in held) /\ orders'[r] = orders[r] /\ status'[r] = status[r]
  /\ OthersWait(c)
  /\ At(c, "idle")' \/ Of(c)' = t
  /\ status'[t] # "new"

\* The dead stay dead, and only lose what they have.
DeadFade ==
  \A s \in Strategies :
    Dead(s) => Dead(s)' /\ (s \in held' => s \in held) /\ orders'[s] \subseteq orders[s]

LEMMA WithinFades ==
  ASSUME TypeOK, Blank, NEW c \in Callers, NEW t \in Strategies, Within(c, t), ~Dead(t)
  PROVE  Blank' /\ DeadFade
<1>1. ASSUME NEW s \in Strategies \ {t}, Busy(s)'  PROVE Busy(s)
  <2>1. PICK d \in Callers : call'[d].pc # "idle" /\ call'[d].s = s
    BY <1>1 DEF Busy, Of
  <2>2. d # c
    BY <1>1, <2>1 DEF Within, At, Of
  <2> QED BY <2>1, <2>2 DEF Within, OthersWait, Busy, Of
<1>2. Blank'
  BY <1>1 DEF Blank, Within
<1>3. DeadFade
  BY <1>1 DEF DeadFade, Dead, Within
<1> QED BY <1>2, <1>3

LEMMA CallsFade ==
  ASSUME TypeOK, Blank, NEW c \in Callers, OpenStep(c) \/ ReplaceStep(c) \/ CloseStep(c)
  PROVE  Blank' /\ DeadFade
<1>0. BookOK /\ CallOK
  BY TypeParts
<1>1. ~At(c, "idle")
  BY DEF OpenStep, ReplaceStep, CloseStep, EntryRaises, EntryFills, AttachStop, AttachTp, ForceClose, UndoAttach,
         ReplaceNotTried, ReplaceStop, ReplaceTp, CancelReplaced, SaveReplaced, CloseSells, CloseRaises, CloseEnds, At
<1>2. PICK t \in Strategies : t = Of(c)
  BY <1>0, <1>1, BusyOnStrategy
<1>3. Busy(t) /\ status[t] # "new"
  BY <1>1, <1>2 DEF Busy, At, Blank
<1>4. OthersWait(c) /\ (At(c, "idle")' \/ Of(c)' = t)
  <2>1. CASE Return(c)
    BY <1>0, <2>1, Returns DEF OthersWait
  <2>2. ASSUME NEW pc \in Points \ {"idle"}, NEW got \in SUBSET Kinds, GoTo(c, pc, got)
        PROVE  OthersWait(c) /\ Of(c)' = t
    BY <1>0, <1>1, <1>2, <2>2, GoesOn DEF OthersWait
  <2>3. CASE EntryFills(c)
    <3>1. PICK f \in BOOLEAN : call' = [call EXCEPT ![c] = [@ EXCEPT !.pc = "stop", !.filled = f]]
      BY <2>3 DEF EntryFills
    <3> QED BY <1>0, <1>2, <3>1 DEF CallOK, Calls, Of, OthersWait
  <2>4. Return(c) \/ EntryFills(c) \/ \E pc \in Points \ {"idle"}, got \in SUBSET Kinds : GoTo(c, pc, got)
    <3>1. call[c].got \in SUBSET Kinds
      BY <1>0 DEF CallOK, Calls
    <3>2. \A kind \in Kinds : call[c].got \cup {kind} \in SUBSET Kinds
      BY <3>1
    <3>3. {"sl", "tp", "slr", "tpr"} \subseteq Kinds /\ {} \subseteq Kinds
          /\ {"tp", "force", "undo", "rtp", "rcancel", "save", "ccancel"} \subseteq Points \ {"idle"}
      BY DEF Kinds, Points
    <3>4. CASE OpenStep(c)
      BY <3>1, <3>2, <3>3, <3>4 DEF OpenStep, EntryRaises, AttachStop, AttachTp, ForceClose, UndoAttach, Placed
    <3>5. CASE ReplaceStep(c)
      BY <3>1, <3>2, <3>3, <3>5
         DEF ReplaceStep, ReplaceNotTried, ReplaceStop, ReplaceTp, CancelReplaced, SaveReplaced, ReplaceFails, Placed
    <3>6. CASE CloseStep(c)
      BY <3>3, <3>6 DEF CloseStep, CloseSells, CloseRaises, CloseEnds
    <3> QED BY <3>4, <3>5, <3>6
  <2> QED BY <2>1, <2>2, <2>3, <2>4
<1>5. /\ \A r \in Strategies \ {t} :
           (r \in held' => r \in held) /\ orders'[r] = orders[r] /\ status'[r] = status[r]
      /\ status'[t] # "new"
  <2>1. CASE EntryRaises(c) \/ EntryFills(c)
    BY <1>2, <1>3, <2>1 DEF EntryRaises, EntryFills, local
  <2>2. CASE AttachStop(c)
    BY <1>0, <1>2, <1>3, <2>2 DEF AttachStop, Placed, Raised, local, BookOK
  <2>3. CASE AttachTp(c)
    BY <1>0, <1>2, <1>3, <2>3 DEF AttachTp, Raised, Add, local, BookOK
  <2>4. CASE ForceClose(c) \/ UndoAttach(c)
    BY <1>0, <1>2, <1>3, <2>4 DEF ForceClose, UndoAttach, Sold, SaleRaises, Cancelled, Add, local, BookOK
  <2>5. CASE ReplaceNotTried(c) \/ ReplaceStop(c) \/ ReplaceTp(c)
    BY <1>0, <1>2, <1>3, <2>5 DEF ReplaceNotTried, ReplaceStop, ReplaceTp, Placed, Raised, local, BookOK
  <2>6. CASE CancelReplaced(c) \/ SaveReplaced(c)
    BY <1>0, <1>2, <1>3, <2>6 DEF CancelReplaced, SaveReplaced, Cancelled, Add, BookOK
  <2>7. CASE CloseStep(c)
    BY <1>0, <1>2, <1>3, <2>7 DEF CloseStep, CloseSells, CloseRaises, CloseEnds, Sold, SaleRaises, Cancelled, Add, local, BookOK
  <2> QED BY <2>1, <2>2, <2>3, <2>4, <2>5, <2>6, <2>7 DEF OpenStep, ReplaceStep
<1> QED BY <1>3, <1>4, <1>5, WithinFades DEF Within, Dead

LEMMA BeginsFade ==
  ASSUME TypeOK, Blank, NEW c \in Callers, NEW s \in Strategies,
         BeginOpen(c, s) \/ (c = Manager /\ BeginReplace(s)) \/ BeginClose(c, s)
  PROVE  Blank' /\ DeadFade
<1>0. BookOK /\ CallOK
  BY TypeParts
<1>1. PICK pc \in Points \ {"idle"} : Start(c, pc, s)
  BY DEF BeginOpen, BeginReplace, BeginClose, Points
<1>2. OthersWait(c) /\ Of(c)' = s
  BY <1>0, <1>1, Starts DEF OthersWait
<1>3. /\ UNCHANGED <<held, orders>> /\ status'[s] # "new"
      /\ \A r \in Strategies \ {s} : status'[r] = status[r]
  BY <1>0 DEF BeginOpen, BeginReplace, BeginClose, local, BookOK
<1>4. ~Dead(s)
  BY DEF BeginOpen, BeginReplace, BeginClose, Dead
<1> QED BY <1>2, <1>3, <1>4, WithinFades DEF Within

\* A step that leaves the reconciliation alone keeps the invariant.
LEMMA FadeKeeps ==
  ASSUME GateInv, TypeOK', Blank', DeadFade, UNCHANGED monitor
  PROVE  GateInv'
<1>1. \A v \in Scanners : scan[v].vetted \subseteq Strategies
  BY DEF GateInv, TypeOK, Scans
<1>2. report.vetted \subseteq Strategies
  BY DEF GateInv, TypeOK, Reports
<1>3. ASSUME NEW v \in Scanners, NEW r \in scan[v].vetted
      PROVE  /\ Dead(r)'
             /\ scan[v].pc \in {"orders", "local"} /\ r \notin scan[v].seen => r \notin held'
             /\ scan[v].pc = "local" /\ scan[v].resting[r] = {} => orders'[r] = {}
  BY <1>1, <1>3 DEF GateInv, Vetting, DeadFade
<1>4. ASSUME NEW r \in report.vetted  PROVE Dead(r)' /\ Gone(r)'
  BY <1>2, <1>4 DEF GateInv, DeadFade, Gone
<1> QED BY <1>3, <1>4 DEF GateInv, Vetting, monitor

LEMMA RefreshKeeps ==
  ASSUME GateInv, TypeOK', NEW v \in Scanners, RefreshStep(v)
  PROVE  GateInv'
<1>0. /\ scan \in [Scanners -> Scans] /\ UNCHANGED <<held, orders, local, call>>
      /\ status \in [Strategies -> Statuses] /\ orders \in [Strategies -> SUBSET Kinds]
  BY DEF RefreshStep, BeginRefresh, ReadPositions, ReadOrders, RefreshFails, EndRefresh, GateInv, TypeOK
<1>1. \A s \in Strategies : (Dead(s)' <=> Dead(s)) /\ (Gone(s)' <=> Gone(s))
  BY <1>0 DEF Dead, Gone, Busy, Of, local
<1>2. Blank'
  BY <1>0 DEF GateInv, Blank, Busy, Of, local
<1>3. /\ \A w \in Scanners : scan[w].vetted \subseteq Strategies
      /\ report.vetted \subseteq Strategies
  BY DEF GateInv, TypeOK, Scans, Reports
<1>4. ASSUME NEW w \in Scanners, scan'[w] = scan[w]  PROVE Vetting(w)'
  BY <1>0, <1>1, <1>3, <1>4 DEF GateInv, Vetting
<1>5. ASSUME NEW x, scan' = [scan EXCEPT ![v] = x]
      PROVE  scan'[v] = x /\ \A w \in Scanners \ {v} : scan'[w] = scan[w]
  BY <1>0, <1>5
<1>6. NoScan.vetted = {} /\ NoReport.vetted = {}
  BY DEF NoScan, NoReport
<1>7. report' = report => \A r \in report'.vetted : Dead(r)' /\ Gone(r)'
  BY <1>1, <1>3 DEF GateInv
<1>8. CASE BeginRefresh(v)
  <2>1. PICK x : x = [NoScan EXCEPT !.pc = "positions", !.vetted = {s \in Strategies : Amiss(s)}]
    OBVIOUS
  <2>2. x.pc = "positions" /\ x.vetted = {s \in Strategies : Amiss(s)}
    BY <2>1 DEF NoScan
  <2>3. \A s \in Strategies : Amiss(s) => Dead(s)
    BY <1>0 DEF Amiss, Untracked, Orphaned, Dead, GateInv, Blank, Statuses
  <2>4. scan'[v] = x /\ \A w \in Scanners \ {v} : scan'[w] = scan[w]
    BY <1>5, <1>8, <2>1 DEF BeginRefresh
  <2>5. Vetting(v)'
    BY <1>1, <2>2, <2>3, <2>4 DEF Vetting
  <2> QED BY <1>2, <1>4, <1>7, <1>8, <2>4, <2>5 DEF BeginRefresh, GateInv
<1>9. CASE ReadPositions(v)
  <2>1. PICK x : x = [scan[v] EXCEPT !.pc = "orders", !.seen = held]
    OBVIOUS
  <2>2. x.pc = "orders" /\ x.vetted = scan[v].vetted /\ x.seen = held
    BY <1>0, <2>1 DEF Scans
  <2>3. scan' = [scan EXCEPT ![v] = x]
    BY <1>0, <1>9, <2>1 DEF ReadPositions
  <2>4. scan'[v] = x /\ \A w \in Scanners \ {v} : scan'[w] = scan[w]
    BY <1>5, <2>3
  <2>5. Vetting(v)'
    BY <1>0, <1>1, <1>3, <2>2, <2>4 DEF GateInv, Vetting
  <2> QED BY <1>2, <1>4, <1>7, <1>9, <2>4, <2>5 DEF ReadPositions, GateInv
<1>10. CASE ReadOrders(v)
  <2>1. PICK x : x = [scan[v] EXCEPT !.pc = "local", !.resting = orders]
    OBVIOUS
  <2>2. x.pc = "local" /\ x.vetted = scan[v].vetted /\ x.seen = scan[v].seen /\ x.resting = orders
    BY <1>0, <2>1 DEF Scans
  <2>3. scan' = [scan EXCEPT ![v] = x]
    BY <1>0, <1>10, <2>1 DEF ReadOrders
  <2>4. scan'[v] = x /\ \A w \in Scanners \ {v} : scan'[w] = scan[w]
    BY <1>5, <2>3
  <2>5. Vetting(v)'
    BY <1>0, <1>1, <1>3, <1>10, <2>2, <2>4 DEF GateInv, Vetting, ReadOrders
  <2> QED BY <1>2, <1>4, <1>7, <1>10, <2>4, <2>5 DEF ReadOrders, GateInv
<1>11. CASE RefreshFails(v)
  <2>1. scan'[v] = NoScan /\ \A w \in Scanners \ {v} : scan'[w] = scan[w]
    BY <1>5, <1>11 DEF RefreshFails
  <2>2. Vetting(v)'
    BY <1>6, <2>1 DEF Vetting
  <2> QED BY <1>2, <1>4, <1>6, <1>11, <2>1, <2>2 DEF RefreshFails, GateInv
<1>12. CASE EndRefresh(v)
  <2>1. scan'[v] = NoScan /\ \A w \in Scanners \ {v} : scan'[w] = scan[w]
    BY <1>5, <1>12 DEF EndRefresh
  <2>2. Vetting(v)'
    BY <1>6, <2>1 DEF Vetting
  <2>3. CASE Clean(scan[v])
    <3>1. report'.vetted = scan[v].vetted
      BY <1>12, <2>3 DEF EndRefresh
    <3>2. ASSUME NEW r \in scan[v].vetted  PROVE Dead(r) /\ Gone(r)
      <4>1. r \in Strategies /\ Dead(r)
        BY <1>3 DEF GateInv, Vetting
      <4>2. status[r] # "open"
        BY <4>1 DEF Dead
      <4>3. r \notin scan[v].seen /\ scan[v].resting[r] = {}
        BY <2>3, <4>1, <4>2 DEF Clean
      <4> QED BY <1>12, <4>1, <4>3 DEF EndRefresh, GateInv, Vetting, Gone
    <3> QED BY <1>1, <1>2, <1>3, <1>4, <2>1, <2>2, <3>1, <3>2 DEF GateInv
  <2>4. CASE ~Clean(scan[v])
    BY <1>2, <1>4, <1>6, <1>12, <2>1, <2>2, <2>4 DEF EndRefresh, GateInv
  <2> QED BY <2>3, <2>4
<1> QED BY <1>8, <1>9, <1>10, <1>11, <1>12 DEF RefreshStep

LEMMA GateStep == GateInv /\ [Next]_vars => GateInv'
<1> SUFFICES ASSUME GateInv, [Next]_vars PROVE GateInv'
  OBVIOUS
<1>0. TypeOK' /\ TypeOK /\ Blank
  BY TypeStep DEF GateInv
<1>1. ASSUME NEW c \in Callers, OpenStep(c) \/ ReplaceStep(c) \/ CloseStep(c)  PROVE GateInv'
  <2>1. UNCHANGED monitor
    BY <1>1 DEF OpenStep, ReplaceStep, CloseStep, EntryRaises, EntryFills, AttachStop, AttachTp, ForceClose, UndoAttach,
         ReplaceNotTried, ReplaceStop, ReplaceTp, CancelReplaced, SaveReplaced, CloseSells, CloseRaises, CloseEnds
  <2> QED BY <1>0, <1>1, <2>1, CallsFade, FadeKeeps
<1>2. ASSUME NEW c \in Callers, NEW s \in Strategies,
             BeginOpen(c, s) \/ (c = Manager /\ BeginReplace(s)) \/ BeginClose(c, s)
      PROVE  GateInv'
  <2>1. UNCHANGED monitor
    BY <1>2 DEF BeginOpen, BeginReplace, BeginClose
  <2> QED BY <1>0, <1>2, <2>1, BeginsFade, FadeKeeps
<1>3. ASSUME NEW v \in Scanners, RefreshStep(v)  PROVE GateInv'
  BY <1>0, <1>3, RefreshKeeps
<1>4. ASSUME NEW s \in Strategies, ProtectionFires(s)  PROVE GateInv'
  <2>1. /\ held' \subseteq held /\ UNCHANGED <<local, call, monitor>>
        /\ \A r \in Strategies : orders'[r] \subseteq orders[r]
    BY <1>0, <1>4 DEF ProtectionFires, Cancelled, TypeOK
  <2>2. Blank' /\ DeadFade
    BY <1>0, <2>1 DEF Blank, DeadFade, Dead, Busy, Of, local
  <2> QED BY <1>0, <2>1, <2>2, FadeKeeps
<1>5. NoScan.vetted = {} /\ NoReport.vetted = {}
  BY DEF NoScan, NoReport
<1>6. CASE ReportAges
  <2>1. report' = NoReport /\ UNCHANGED <<held, orders, local, call, scan>>
    BY <1>6 DEF ReportAges
  <2> QED BY <1>0, <1>5, <2>1 DEF GateInv, Blank, Vetting, Dead, Busy, Of, local
<1>7. CASE Restart
  <2>1. /\ UNCHANGED <<held, orders, status>> /\ report' = NoReport
        /\ \A v \in Scanners : scan'[v] = NoScan
        /\ \A c \in Callers : call'[c].pc = "idle"
    BY <1>7 DEF Restart, Idle
  <2>2. \A s \in Strategies : ~Busy(s)'
    BY <2>1 DEF Busy
  <2>3. Blank'
    BY <1>0, <2>1, <2>2 DEF Blank
  <2> QED BY <1>0, <1>5, <2>1, <2>3 DEF GateInv, Vetting
<1>8. CASE UNCHANGED vars
  BY <1>0, <1>8 DEF vars, monitor, GateInv, Blank, Vetting, Dead, Gone, Busy, Of, local
<1>9. Openers \subseteq Callers /\ Closers \subseteq Callers /\ Manager \in Closers
  BY DEF Callers, Closers
<1> QED BY <1>1, <1>2, <1>3, <1>4, <1>6, <1>7, <1>8, <1>9 DEF Next

\* For any strategies, faults, refreshes that overlap and restarts: no entry
\* begins while something is amiss that was so before the refresh began whose
\* report lets the entry through, although the refresh reads positions, orders
\* and registry at three times (verify_reconciliation_report).
THEOREM EntriesAreVetted == Spec => AmissBlocksEntry
<1>1. Init => GateInv
  <2>1. NoScan.vetted = {} /\ NoReport.vetted = {} /\ Idle.pc = "idle"
    BY DEF NoScan, NoReport, Idle
  <2> QED BY <2>1, TypeInit DEF Init, GateInv, Blank, Vetting, Busy, NoOrders
<1>2. GateInv => \A r \in report.vetted : ~Amiss(r)
  BY DEF GateInv, Amiss, Untracked, Orphaned, Gone
<1>3. GateInv /\ [Next]_vars =>
        [\A s \in Strategies : status[s] = "new" /\ status'[s] = "tried" =>
           \A r \in report.vetted : ~Amiss(r)]_vars
  BY <1>2
<1>4. QED BY <1>1, <1>3, GateStep, PTL DEF Spec, AmissBlocksEntry
=============================================================================
