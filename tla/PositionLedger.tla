---------------------------- MODULE PositionLedger ----------------------------
(***************************************************************************)
(* What the position store promises its users: an id is opened once, is    *)
(* open until it is closed, is closed once and stays closed.  Restarts,    *)
(* passes, partial exits and requests are not visible here.                *)
(***************************************************************************)
CONSTANT Ids
VARIABLE phase   \* "new", "open" or "closed", by id

Init == phase = [id \in Ids |-> "new"]

Open(id) ==
  /\ phase[id] = "new"
  /\ phase' = [phase EXCEPT ![id] = "open"]

Close(id) ==
  /\ phase[id] = "open"
  /\ phase' = [phase EXCEPT ![id] = "closed"]

Next == \E id \in Ids : Open(id) \/ Close(id)

Spec == Init /\ [][Next]_phase
=============================================================================
