---- MODULE MCLearning ----
\* What the program learns from shares no state: a behaviour runs one part.
EXTENDS StrategyLearning, MarketBacktest, MarketEvidence, AnomalyTraining,
        StrategyAlpha, PerformanceGuard, LiveGraduation, TradeAttribution

VARIABLE part

MCPnls == {-1, 2}
MCGuardPnls == {-1, 2}
PairSymmetry == Permutations(Pairs)
MCLevels == {-12, -4, 1, 12, 21}
MCShapes == {c \in [best : MCLevels, worst : MCLevels, close : {-4, 1, 12}] :
               c.worst <= c.close /\ c.close <= c.best}
MCRows == {[px |-> 1, side |-> "LONG", score |-> 1],
           [px |-> 3, side |-> "LONG", score |-> 0],
           [px |-> 2, side |-> "SHORT", score |-> 1]}
MCParams == {[horizon |-> 1, goal |-> 20, floor |-> 1],
             [horizon |-> 2, goal |-> 10, floor |-> 0]}
MCSeeds == <<[horizon |-> 2, goal |-> 20, floor |-> 1]>>

LearningInit ==
  /\ LearnInit /\ BtInit /\ EvInit /\ AnomalyInit /\ AlphaInit /\ GuardInit /\ GradInit
  /\ AttributionInit
  /\ part \in {"strategies", "backtest", "evidence", "anomaly", "alpha", "guard", "live",
               "attribution"}
  /\ samples /\ ~graded

LearningNext ==
  /\ part' = part
  /\ \/ /\ part = "strategies" /\ LearnNext
        /\ UNCHANGED <<btVars, evVars, anomalyVars, alphaVars, guardVars, gradVars, attributionVars>>
     \/ /\ part = "backtest" /\ BtNext
        /\ UNCHANGED <<learnVars, evVars, anomalyVars, alphaVars, guardVars, gradVars, attributionVars>>
     \/ /\ part = "evidence" /\ EvNext
        /\ UNCHANGED <<learnVars, btVars, anomalyVars, alphaVars, guardVars, gradVars, attributionVars>>
     \/ /\ part = "anomaly" /\ AnomalyNext
        /\ UNCHANGED <<learnVars, btVars, evVars, alphaVars, guardVars, gradVars, attributionVars>>
     \/ /\ part = "alpha" /\ AlphaNext
        /\ UNCHANGED <<learnVars, btVars, evVars, anomalyVars, guardVars, gradVars, attributionVars>>
     \/ /\ part = "guard" /\ GuardNext
        /\ UNCHANGED <<learnVars, btVars, evVars, anomalyVars, alphaVars, gradVars, attributionVars>>
     \/ /\ part = "live" /\ GradNext
        /\ UNCHANGED <<learnVars, btVars, evVars, anomalyVars, alphaVars, guardVars,
                       attributionVars>>
     \/ /\ part = "attribution" /\ AttributionNext
        /\ UNCHANGED <<learnVars, btVars, evVars, anomalyVars, alphaVars, guardVars, gradVars>>

LearningSpec ==
  /\ LearningInit
  /\ [][LearningNext]_<<part, learnVars, btVars, evVars, anomalyVars, alphaVars,
                       guardVars, gradVars, attributionVars>>
====
