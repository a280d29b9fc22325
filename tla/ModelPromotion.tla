--------------------------- MODULE ModelPromotion ---------------------------
(***************************************************************************)
(* From a training run to the model in Production: run_experiment of       *)
(* src/training/train.py, scripts/promote_model.py and the registry calls  *)
(* of src/training/registry.py.  One model type, that is one MLflow        *)
(* experiment and one registered model; any number of training processes   *)
(* and of promotions beside each other.                                    *)
(*                                                                         *)
(* A promotion registers at most one version, so a version is named by the *)
(* promotion that registered it.  rank orders runs by the metric of        *)
(* BEST_METRIC, best last (f1 upwards, mae_pct downwards); rank 0 is a     *)
(* metric that is 0 or NaN.  good says that check_thresholds passes: the   *)
(* ranking metric is one of those it looks at, so some rank is needed, but *)
(* precision or recall may fail where f1 does not.                         *)
(***************************************************************************)
EXTENDS Integers, FiniteSets

CONSTANTS
    Runs,        \* training processes, each with its MLflow run
    Promotions,  \* processes of promote_model.py, each with its version
    MaxRank,     \* how many values of the metric are told apart
    PassRank,    \* the threshold of the ranking metric
    Faults,
    None

\* "train": a training process raises.  "call": a call to MLflow raises,
\* after it took effect or before.
AllFaults == {"train", "call"}

ASSUME FaultsAssumption == Faults \subseteq AllFaults
ASSUME RankAssumption == MaxRank \in Nat /\ PassRank \in 1..MaxRank
ASSUME NoneAssumption == None \notin Runs

Metrics == {m \in [rank : 0..MaxRank, good : BOOLEAN] : m.good => m.rank >= PassRank}

ASSUME NoneIsNoMetrics == None \notin Metrics

VARIABLES
    status,  \* status[r]: of the MLflow run
    logged,  \* logged[r]: its metrics
    models,  \* runs whose model is logged
    pc,      \* pc[p]: the next MLflow call of promotion p
    forced,  \* promotions with --force-promote
    best,    \* best[p]: run_id
    seen,    \* history: seen[p]: valid runs that search_runs returned
    stage    \* stage[p]: of the version registered by p

training  == <<status, logged, models>>
promotion == <<pc, best, seen, stage>>
vars      == <<training, promotion, forced>>

Calls  == {"register", "staging", "check"}
Stages == {"None", "Staging", "Production", "Archived"}
Absent == "absent"

TypeOK ==
    /\ status \in [Runs -> {Absent, "RUNNING", "FINISHED", "FAILED"}]
    /\ logged \in [Runs -> Metrics \cup {None}]
    /\ models \subseteq Runs
    /\ pc \in [Promotions -> Calls \cup {"search", "done", "refused", "aborted"}]
    /\ forced \subseteq Promotions
    /\ best \in [Promotions -> Runs \cup {None}]
    /\ seen \in [Promotions -> SUBSET Runs]
    /\ stage \in [Promotions -> Stages \cup {Absent}]

Init ==
    /\ status = [r \in Runs |-> Absent]
    /\ logged = [r \in Runs |-> None]
    /\ models = {}
    /\ pc = [p \in Promotions |-> "search"]
    /\ forced \in SUBSET Promotions
    /\ best = [p \in Promotions |-> None]
    /\ seen = [p \in Promotions |-> {}]
    /\ stage = [p \in Promotions |-> Absent]

-----------------------------------------------------------------------------
(* run_experiment: each call to the tracking server is visible at once.    *)

StartRun(r) ==
    /\ status[r] = Absent
    /\ status' = [status EXCEPT ![r] = "RUNNING"]
    /\ UNCHANGED <<logged, models, promotion, forced>>

LogMetrics(r) ==
    /\ status[r] = "RUNNING"
    /\ logged[r] = None
    /\ \E m \in Metrics : logged' = [logged EXCEPT ![r] = m]
    /\ UNCHANGED <<status, models, promotion, forced>>

LogModel(r) ==
    /\ status[r] = "RUNNING"
    /\ logged[r] # None
    /\ models' = models \cup {r}
    /\ UNCHANGED <<status, logged, promotion, forced>>

EndRun(r) ==
    /\ status[r] = "RUNNING"
    /\ r \in models
    /\ status' = [status EXCEPT ![r] = "FINISHED"]
    /\ UNCHANGED <<logged, models, promotion, forced>>

\* No features, a fit that raises, a call that fails: the run keeps what it
\* has logged.
RunFails(r) ==
    /\ "train" \in Faults
    /\ status[r] = "RUNNING"
    /\ status' = [status EXCEPT ![r] = "FAILED"]
    /\ UNCHANGED <<logged, models, promotion, forced>>

-----------------------------------------------------------------------------
(* get_best_run_id                                                         *)

\* Runs of any status count, those that are still training and those that
\* failed included.
ValidRuns == {r \in Runs : logged[r] # None /\ logged[r].rank > 0}

\* Mutant of IsBest: the metric is sorted the other way round.
IsBestReversed(r) == \A q \in ValidRuns : logged[q].rank >= logged[r].rank

\* Of several best runs, any may come first.
IsBest(r) == \A q \in ValidRuns : logged[q].rank <= logged[r].rank

Search(p) ==
    /\ pc[p] = "search"
    /\ \E r \in ValidRuns :
          /\ IsBest(r)
          /\ best' = [best EXCEPT ![p] = r]
    /\ seen' = [seen EXCEPT ![p] = ValidRuns]
    /\ pc' = [pc EXCEPT ![p] = "register"]
    /\ UNCHANGED <<training, forced, stage>>

\* ValueError: no run, or none with a valid metric.
NothingFound(p) ==
    /\ pc[p] = "search"
    /\ ValidRuns = {}
    /\ pc' = [pc EXCEPT ![p] = "aborted"]
    /\ UNCHANGED <<training, forced, best, seen, stage>>

-----------------------------------------------------------------------------
(* The version and its stages                                              *)

\* MLflow registers a model of the run, and raises if the run has none.
CanRegister(p) == best[p] \in models

Passed(p) == logged[best[p]].good

\* Mutant of MayPromote: the thresholds are not looked at.
MayPromoteAny(p) == TRUE

\* passed or args.force_promote
MayPromote(p) == Passed(p) \/ p \in forced

\* Mutant of ArchivesExisting: no transition archives.
ArchivesExistingNever(target) == FALSE

\* archive_existing_versions
ArchivesExisting(target) == target = "Production"

\* transition_model_version_stage, one transaction of the server.
Transition(p, target) ==
    [q \in Promotions |->
        IF q = p THEN target
        ELSE IF stage[q] = target /\ ArchivesExisting(target) THEN "Archived" ELSE stage[q]]

\* A call returns and the script goes on; or it raises, whether or not it took
\* effect, and the exception ends the script.
Answered(p, effect, next) ==
    /\ \/ stage' = effect /\ pc' = [pc EXCEPT ![p] = next]
       \/ /\ "call" \in Faults
          /\ stage' \in {stage, effect}
          /\ pc' = [pc EXCEPT ![p] = "aborted"]
    /\ UNCHANGED <<training, forced, best, seen>>

Register(p) ==
    /\ pc[p] = "register"
    /\ CanRegister(p)
    /\ Answered(p, [stage EXCEPT ![p] = "None"], "staging")

ToStaging(p) ==
    /\ pc[p] = "staging"
    /\ Answered(p, Transition(p, "Staging"), "check")

ToProduction(p) ==
    /\ pc[p] = "check"
    /\ MayPromote(p)
    /\ Answered(p, Transition(p, "Production"), "done")

NoModel(p) ==
    /\ pc[p] = "register"
    /\ ~CanRegister(p)
    /\ pc' = [pc EXCEPT ![p] = "aborted"]
    /\ UNCHANGED <<training, forced, best, seen, stage>>

\* exit 1: the version stays in Staging.
Refuse(p) ==
    /\ pc[p] = "check"
    /\ ~MayPromote(p)
    /\ pc' = [pc EXCEPT ![p] = "refused"]
    /\ UNCHANGED <<training, forced, best, seen, stage>>

Train(r) == StartRun(r) \/ LogMetrics(r) \/ LogModel(r) \/ EndRun(r) \/ RunFails(r)

Promote(p) ==
    \/ Search(p) \/ NothingFound(p) \/ NoModel(p) \/ Refuse(p)
    \/ Register(p) \/ ToStaging(p) \/ ToProduction(p)

Next == (\E r \in Runs : Train(r)) \/ (\E p \in Promotions : Promote(p))

Spec == Init /\ [][Next]_vars
-----------------------------------------------------------------------------
(* Properties.                                                             *)

Production == {p \in Promotions : stage[p] = "Production"}

Rank(p) == logged[best[p]].rank

\* load_production_model and get_latest_version find one version, whatever
\* promotions overlap, fail between two calls or lose the reply of one: only
\* the transition to Production archives, and the stages that are left
\* behind are others.
OneProduction == \A p, q \in Production : p = q

\* What is or was in Production has a model and passed the thresholds, or was
\* forced: best runs are picked before they have ended, and may fail after
\* their metrics were logged.
ProductionVetted ==
    \A p \in Promotions :
        stage[p] \in {"Production", "Archived"} =>
            best[p] \in models /\ (p \in forced \/ logged[best[p]].good)

\* A promotion replaces a model by a worse one only if it searched before the
\* better run had its metrics: an old promotion may overtake a new one, and
\* nothing else puts Production back.
NoRegression ==
    [][\A p, q \in Promotions :
          (p # q /\ stage[q] = "Production" /\ stage[p] # "Production"
                 /\ stage'[p] = "Production")
              => (Rank(q) <= Rank(p) \/ best[q] \notin seen[p])]_vars
=============================================================================
