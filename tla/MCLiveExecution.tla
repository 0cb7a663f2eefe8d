-------------------------- MODULE MCLiveExecution --------------------------
(* Instances of LiveExecution for TLC; the .cfg files choose the           *)
(* strategies, the callers and the faults.                                 *)
EXTENDS LiveExecution, TLC

MCOrderFaults == {"reject", "cancel", "unfilled"}
MCRejected == {"reject"}
MCLost == {"lost"}
MCLostOrPartial == {"lost", "partial"}
\* Strategies are interchangeable: no property of the run is about liveness.
MCSymmetry == Permutations(Strategies)
=============================================================================
