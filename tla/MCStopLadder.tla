---------------------------- MODULE MCStopLadder ----------------------------
(* StopLadder on a grid of prices around the entry, with the stop, the soft *)
(* lock and both targets, for either side; the signals reach every branch   *)
(* of the rule decision.                                                    *)
EXTENDS StopLadder

MCPrices == {10 + d : d \in {-7, -5, -4, 4, 5, 7}}
MCNoises == {16}
MCTrails == {2, 6}
MCSignals == {NoSignal, {"strong_reverse"}, {"decayed"},
              {"against", "fund_weak"}}
=============================================================================
