---- MODULE MCServices ----
\* The services around the desk share no state: a behaviour runs one of them.
EXTENDS ActivePool, MarketStream, MarketFeed, TaskWorkers, StrategyGeneration, MarketDownload

VARIABLE part

MCSettings == {<<"codex_cli", TRUE>>, <<"deepseek", FALSE>>,
               <<"deepseek", TRUE>>, <<"rule", FALSE>>}

ServicesInit ==
  /\ PoolInit /\ StreamInit /\ FeedInit /\ TaskInit /\ GenInit /\ DownInit
  /\ part \in {"pool", "stream", "feed", "tasks", "generation", "download"}
  /\ part # "generation" => provider = "rule"

ServicesNext ==
  /\ part' = part
  /\ \/ /\ part = "pool" /\ PoolNext
        /\ UNCHANGED <<streamVars, feedVars, taskVars, genVars, downVars>>
     \/ /\ part = "stream" /\ StreamNext
        /\ UNCHANGED <<poolVars, feedVars, taskVars, genVars, downVars>>
     \/ /\ part = "feed" /\ FeedNext
        /\ UNCHANGED <<poolVars, streamVars, taskVars, genVars, downVars>>
     \/ /\ part = "tasks" /\ TaskNext
        /\ UNCHANGED <<poolVars, streamVars, feedVars, genVars, downVars>>
     \/ /\ part = "generation" /\ GenNext
        /\ UNCHANGED <<poolVars, streamVars, feedVars, taskVars, downVars>>
     \/ /\ part = "download" /\ DownNext
        /\ UNCHANGED <<poolVars, streamVars, feedVars, taskVars, genVars>>

\* Before it is chosen a part has no action that fairness speaks of.
ServicesSpec ==
  /\ ServicesInit
  /\ [][ServicesNext]_<<part, poolVars, streamVars, feedVars, taskVars, genVars, downVars>>
  /\ TaskFairness
  /\ GenFairness
  /\ DownFairness

\* Whatever is begun comes to its end, one way or another: a task behind other
\* scans, a call to the model however long it is silent, the download of a
\* symbol through its pages and retries.
WhatBeginsEnds == TaskEnds /\ CallsEnd /\ DownloadEnds
====
