------------------------------ MODULE EntryBook ------------------------------
(***************************************************************************)
(* What every opener of positions together promises, whichever coroutine   *)
(* opens and however long it deliberated: a book of at most MaxOpen        *)
(* positions, in which the auto trader never doubles a symbol.             *)
(***************************************************************************)
EXTENDS Integers, FiniteSets

CONSTANTS Symbols, Ids, MaxOpen

VARIABLE open   \* position_registry.open

Entries == [id : Ids, sym : Symbols, by : {"trader", "acceptance"}]

Init == open = {}

Enter(p) ==
  /\ Cardinality(open) < MaxOpen
  /\ \A q \in open : q.id # p.id
  /\ p.by = "trader" => \A q \in open : q.sym # p.sym
  /\ open' = open \cup {p}

Leave(p) == p \in open /\ open' = open \ {p}

Next == \E p \in Entries : Enter(p) \/ Leave(p)

Spec == Init /\ [][Next]_open
=============================================================================
