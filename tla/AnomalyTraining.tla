-------------------------- MODULE AnomalyTraining --------------------------
(* Training of the universal anomaly classifier                            *)
(* (backend/radar/universal_anomaly_*.py): the radar's snapshots become    *)
(* labelled samples, the auto-training thread fits a candidate beside the  *)
(* artifact and promotes it through its acceptance gate, an operator's     *)
(* request trains straight over the artifact, and the runtime model serves *)
(* what its own validation lets through.  The thread and the request run   *)
(* in parallel: each step below is what one of them does between two       *)
(* accesses to shared state.  A score is the balanced accuracy the fit     *)
(* happens to reach; prices take two levels.  The calibrator only rewrites *)
(* a feature of samples in place and is left out.                          *)
EXTENDS Integers, FiniteSets, Sequences, Functions, FiniteSetsExt

CONSTANTS Ahead,        \* horizon of a label, in scans
          LastScan,     \* bound: scans of a behaviour
          MaxGaps,      \* bound: scans that store nothing
          MaxFits,      \* bound: trainings of a behaviour
          TrainLimit, SampleCap, MinSamples, MinFresh, MinSplit,
          Floor, BestScore,
          NoModel       \* no artifact

ASSUME AnomalyAssumption ==
  /\ {Ahead, TrainLimit, SampleCap} \subseteq Nat \ {0}
  /\ Floor \in 1..BestScore /\ LastScan \in Nat

VARIABLES snaps,     \* price of each scan, 0 where it stored nothing
          labelled,  \* samples in the order they were inserted
          artifact,  \* the model file
          serving,   \* the runtime model's artifact
          trainer,   \* the auto-training thread: where it is and what it read
          byHand,    \* the model the operator's training is about to serve
          lastCount, \* samples of the last promoted candidate
          fits

anomalyVars ==
  <<snaps, labelled, artifact, serving, trainer, byHand, lastCount, fits>>

Labels == {"LONG", "SHORT", "NEUTRAL"}
Idling == [at |-> "sleep", saw |-> NoModel, model |-> NoModel]

----------------------------------------------------------------------------
(* Samples *)

(* The label of snapshot i: the sign of the return to the first snapshot    *)
(* at least the horizon later.                                              *)
LabelAt(i) ==
  LET later == {j \in i+Ahead..Len(snaps) : snaps[j] > 0}
      j == Min(later)
  IN IF later = {} THEN "none"
     ELSE IF snaps[j] > snaps[i] THEN "LONG"
     ELSE IF snaps[j] < snaps[i] THEN "SHORT" ELSE "NEUTRAL"

(* Newest source first; a sample already stored is ignored.                 *)
Collected ==
  LET fresh == {i \in DOMAIN snaps :
                  snaps[i] > 0 /\ LabelAt(i) # "none"
                  /\ \A k \in DOMAIN labelled : labelled[k].src # i}
  IN labelled \o [k \in 1..Cardinality(fresh) |->
       LET i == CHOOSE i \in fresh : Cardinality({j \in fresh : j >= i}) = k
       IN [src |-> i, label |-> LabelAt(i)]]

(* The cap keeps the samples inserted last.                                 *)
Pruned(rows) ==
  SubSeq(rows, IF Len(rows) > SampleCap THEN Len(rows) - SampleCap + 1 ELSE 1,
         Len(rows))

LabelsOf(rows) == {x.label : x \in rows}

----------------------------------------------------------------------------
(* Fitting *)

(* The latest insertions, back in the order of their sources.               *)
TrainingRows ==
  LET latest == {k \in DOMAIN labelled : k + TrainLimit > Len(labelled)}
  IN {[at    |-> Cardinality({j \in latest : labelled[j].src <= labelled[k].src}),
       src   |-> labelled[k].src,
       label |-> labelled[k].label] : k \in latest}

OfLabel(rows, label) == {x \in rows : x.label = label}
MostOf(rows) == Max({Cardinality(OfLabel(rows, label)) : label \in Labels})

(* The tail held out for the score: at least one row per class, a quarter   *)
(* of the rows, and never all of them.                                      *)
TailSize(rows) ==
  Min({Max({Cardinality(LabelsOf(rows)), (Cardinality(rows) + 2) \div 4}),
       Cardinality(rows) - 1})

Sources(rows) == {x.src : x \in rows}

(* A fitted model: the rows its score was learned from and measured on.     *)
(* Without a tail, or with a single class before it, there is no score (0). *)
Fitted(rows, score, who) ==
  LET cut    == Cardinality(rows) - TailSize(rows)
      before == {x \in rows : x.at <= cut}
      split  == /\ Cardinality(rows) >= MinSplit
                /\ \A l \in LabelsOf(rows) : Cardinality(OfLabel(rows, l)) >= 2
                /\ Cardinality(LabelsOf(before)) >= 2
  IN [who   |-> who,
      count |-> Cardinality(rows),
      score |-> IF split THEN score ELSE 0,
      learn |-> IF split THEN Sources(before) ELSE {},
      tail  |-> IF split THEN Sources(rows \ before) ELSE {},
      lopsided |-> MostOf(rows) * 10 >= 9 * Cardinality(rows)]

Trainable(rows, floor) ==
  Cardinality(rows) >= floor /\ Cardinality(LabelsOf(rows)) >= 2

(* What the runtime model serves after being given an artifact: one its     *)
(* validation rejects leaves it with none.                                  *)
ServedFrom(model) ==
  IF model = NoModel \/ model.score < Floor \/ model.lopsided
  THEN NoModel ELSE model

----------------------------------------------------------------------------
(* The auto-training thread *)

Scan ==
  /\ Len(snaps) < LastScan
  /\ \E price \in 0..2 :
       /\ price = 0 =>
            Cardinality({i \in DOMAIN snaps : snaps[i] = 0}) < MaxGaps
       /\ snaps' = Append(snaps, price)
  /\ UNCHANGED <<labelled, artifact, serving, trainer, byHand, lastCount, fits>>

(* collect when it is due, and prune; the rest of step waits until training *)
(* is due and for its gates: enough samples, every class among them, enough *)
(* new ones since the model served or, without one, since the last promoted.*)
Fresh(total) ==
  LET known == IF serving # NoModel THEN serving.count ELSE lastCount
  IN known > 0 => total >= known + MinFresh

BeginStep ==
  /\ trainer.at = "sleep"
  /\ \E due \in BOOLEAN :
       labelled' = Pruned(IF due THEN Collected ELSE labelled)
  /\ IF /\ fits < MaxFits
        /\ Len(labelled') >= MinSamples
        /\ LabelsOf(Range(labelled')) = Labels
        /\ Fresh(Len(labelled'))
     THEN trainer' = [at |-> "fit", saw |-> serving, model |-> NoModel]
     ELSE labelled' # labelled /\ UNCHANGED trainer
  /\ UNCHANGED <<snaps, artifact, serving, byHand, lastCount, fits>>

\* Mutant of FitCandidate: the candidate is written over the artifact.
FitCandidateInPlace ==
  /\ trainer.at = "fit"
  /\ fits' = fits + 1
  /\ IF Trainable(TrainingRows, MinSamples)
     THEN \E score \in 1..BestScore :
            /\ trainer' = [trainer EXCEPT !.at = "judge",
                             !.model = Fitted(TrainingRows, score, "auto")]
            /\ artifact' = trainer'.model
     ELSE trainer' = Idling /\ UNCHANGED artifact
  /\ UNCHANGED <<snaps, labelled, serving, byHand, lastCount>>

(* The candidate is written to a file of its own.                           *)
FitCandidate ==
  /\ trainer.at = "fit"
  /\ fits' = fits + 1
  /\ IF Trainable(TrainingRows, MinSamples)
     THEN \E score \in 1..BestScore :
            trainer' = [trainer EXCEPT !.at = "judge",
                          !.model = Fitted(TrainingRows, score, "auto")]
     ELSE trainer' = Idling
  /\ UNCHANGED <<snaps, labelled, artifact, serving, byHand, lastCount>>

(* The gate: a score, at the floor, not below the score of the model read   *)
(* at the start of the step.                                                *)
Accepted(model, current) ==
  /\ model.score >= Floor
  /\ current # NoModel => model.score >= current.score

JudgeCandidate ==
  /\ trainer.at = "judge"
  /\ IF Accepted(trainer.model, trainer.saw)
     THEN artifact' = trainer.model /\ trainer' = [trainer EXCEPT !.at = "serve"]
     ELSE trainer' = Idling /\ UNCHANGED artifact
  /\ UNCHANGED <<snaps, labelled, serving, byHand, lastCount, fits>>

Promote ==
  /\ trainer.at = "serve"
  /\ serving' = ServedFrom(trainer.model)
  /\ lastCount' = trainer.model.count
  /\ trainer' = Idling
  /\ UNCHANGED <<snaps, labelled, artifact, byHand, fits>>

(* Anything a step calls may raise: the loop catches it and starts over.    *)
StepRaises ==
  /\ trainer.at \in {"fit", "judge", "serve"}
  /\ trainer' = Idling
  /\ UNCHANGED <<snaps, labelled, artifact, serving, byHand, lastCount, fits>>

----------------------------------------------------------------------------
(* The operator's training, and a restart *)

(* train over the artifact, with a floor of the caller's.                   *)
TrainByHand ==
  /\ byHand = NoModel /\ fits < MaxFits
  /\ fits' = fits + 1
  /\ Trainable(TrainingRows, 2)
  /\ \E score \in 1..BestScore :
       /\ byHand' = Fitted(TrainingRows, score, "hand")
       /\ artifact' = byHand'
  /\ UNCHANGED <<snaps, labelled, serving, trainer, lastCount>>

ServeByHand ==
  /\ byHand # NoModel
  /\ serving' = ServedFrom(byHand)
  /\ byHand' = NoModel
  /\ UNCHANGED <<snaps, labelled, artifact, trainer, lastCount, fits>>

(* startup activates the artifact it finds.                                 *)
RestartTraining ==
  /\ serving' = ServedFrom(artifact)
  /\ trainer' = Idling /\ byHand' = NoModel
  /\ serving' # serving \/ trainer # Idling \/ byHand # NoModel
  /\ UNCHANGED <<snaps, labelled, artifact, lastCount, fits>>

AnomalyInit ==
  /\ snaps = <<>> /\ labelled = <<>>
  /\ artifact = NoModel /\ serving = NoModel
  /\ trainer = Idling /\ byHand = NoModel
  /\ lastCount = 0 /\ fits = 0

AnomalyNext ==
  \/ Scan \/ BeginStep \/ FitCandidate \/ JudgeCandidate \/ Promote
  \/ StepRaises \/ TrainByHand \/ ServeByHand \/ RestartTraining

AnomalySpec == AnomalyInit /\ [][AnomalyNext]_anomalyVars

----------------------------------------------------------------------------
(* Properties *)

(* Every score the acceptance gate or the runtime validation compares was   *)
(* measured on snapshots later than all those it was learned from, although *)
(* the samples are stored and listed newest source first; and the file a    *)
(* restart would load never holds a candidate of the thread that did not    *)
(* reach the floor, also if the process dies while the candidate is being   *)
(* judged (trainer.train, _fit_and_score, _promote_artifact).               *)
ModelIsEarned ==
  /\ \A model \in {artifact, serving, trainer.model, byHand} \ {NoModel} :
       \A i \in model.learn, j \in model.tail : i < j
  /\ artifact # NoModel /\ artifact.who = "auto" => artifact.score >= Floor
=============================================================================
