------------------------- MODULE MCPositionLifecycle -------------------------
(* Instances of PositionLifecycle for TLC; the .cfg files choose the ids,   *)
(* the callers and the bounds.                                              *)
EXTENDS PositionLifecycle
=============================================================================
