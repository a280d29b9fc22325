------------------------ MODULE ModelPromotionProofs ------------------------
(***************************************************************************)
(* Theorems of ModelPromotion, for any number of training runs and of      *)
(* promotions, any ranks and any faults.                                   *)
(***************************************************************************)
EXTENDS ModelPromotion, TLAPS

\* A promotion past its search has a run with metrics.
BestLogged ==
    \A p \in Promotions :
        (pc[p] \in Calls \/ stage[p] # Absent) =>
            best[p] \in Runs /\ logged[best[p]] \in Metrics

\* A version was registered from a model.
BestHasModel ==
    \A p \in Promotions :
        (pc[p] \in {"staging", "check"} \/ stage[p] # Absent) => best[p] \in models

\* Metrics stay as they were logged, so the best run stays the best of those
\* the search has seen.
BestOfSeen ==
    \A p \in Promotions :
        \/ best[p] = None /\ seen[p] = {}
        \/ /\ best[p] \in Runs /\ logged[best[p]] \in Metrics
           /\ \A r \in seen[p] :
                 r \in Runs /\ logged[r] \in Metrics /\ logged[r].rank <= logged[best[p]].rank

\* A version is registered by the call that is next after the search.
NoVersionYet ==
    \A p \in Promotions : pc[p] \in {"search", "register"} => stage[p] = Absent

PromotionInv ==
    /\ TypeOK /\ NoVersionYet /\ BestLogged /\ BestHasModel /\ BestOfSeen
    /\ OneProduction /\ ProductionVetted

USE DEF Calls, Stages, Absent

LEMMA InitInv == Init => PromotionInv
BY DEF Init, PromotionInv, TypeOK, NoVersionYet, BestLogged, BestHasModel, BestOfSeen,
       OneProduction, ProductionVetted, Production

\* The steps of a training process only add: metrics where there were none,
\* and models.
LEMMA TrainStep ==
    ASSUME PromotionInv, NEW r \in Runs, Train(r)
    PROVE  PromotionInv'
<1>1. UNCHANGED <<promotion, forced>>
  BY DEF Train, StartRun, LogMetrics, LogModel, EndRun, RunFails
<1>2. models \subseteq models' /\ models' \subseteq Runs
  BY DEF Train, StartRun, LogMetrics, LogModel, EndRun, RunFails, PromotionInv, TypeOK
<1>3. /\ logged' \in [Runs -> Metrics \cup {None}]
      /\ \A q \in Runs : logged[q] \in Metrics => logged'[q] = logged[q]
  BY NoneIsNoMetrics
     DEF Train, StartRun, LogMetrics, LogModel, EndRun, RunFails, PromotionInv, TypeOK
<1>4. status' \in [Runs -> {Absent, "RUNNING", "FINISHED", "FAILED"}]
  BY DEF Train, StartRun, LogMetrics, LogModel, EndRun, RunFails, PromotionInv, TypeOK
<1>5. TypeOK'
  BY <1>1, <1>2, <1>3, <1>4 DEF PromotionInv, TypeOK, promotion
<1>6. NoVersionYet' /\ BestLogged' /\ BestHasModel'
  BY <1>1, <1>2, <1>3 DEF PromotionInv, NoVersionYet, BestLogged, BestHasModel, promotion
<1>7. BestOfSeen'
  BY <1>1, <1>3 DEF PromotionInv, BestOfSeen, promotion
<1>8. OneProduction'
  BY <1>1 DEF PromotionInv, OneProduction, Production, promotion
<1>9. ProductionVetted'
  BY <1>1, <1>2, <1>3 DEF PromotionInv, ProductionVetted, BestLogged, promotion
<1>10. QED
  BY <1>5, <1>6, <1>7, <1>8, <1>9 DEF PromotionInv

LEMMA SearchStep ==
    ASSUME PromotionInv, NEW p \in Promotions, Search(p)
    PROVE  PromotionInv'
<1>1. ValidRuns \subseteq Runs /\ \A r \in ValidRuns : logged[r] \in Metrics
  BY DEF ValidRuns, PromotionInv, TypeOK
<1>2. PICK r \in ValidRuns : IsBest(r) /\ best' = [best EXCEPT ![p] = r]
  BY DEF Search
<1>3. /\ pc' = [pc EXCEPT ![p] = "register"] /\ seen' = [seen EXCEPT ![p] = ValidRuns]
      /\ UNCHANGED <<status, logged, models, forced, stage>>
  BY DEF Search, training
<1>4. stage[p] = Absent
  BY DEF Search, PromotionInv, NoVersionYet
<1>5. TypeOK'
  BY <1>1, <1>2, <1>3 DEF PromotionInv, TypeOK
<1>6. NoVersionYet' /\ BestLogged' /\ BestHasModel'
  BY <1>1, <1>2, <1>3, <1>4
     DEF PromotionInv, TypeOK, NoVersionYet, BestLogged, BestHasModel
<1>7. BestOfSeen'
  BY <1>1, <1>2, <1>3 DEF PromotionInv, TypeOK, BestOfSeen, IsBest
<1>8. OneProduction'
  BY <1>3 DEF PromotionInv, OneProduction, Production
<1>9. ProductionVetted'
  BY <1>2, <1>3, <1>4 DEF PromotionInv, TypeOK, ProductionVetted
<1>10. QED
  BY <1>5, <1>6, <1>7, <1>8, <1>9 DEF PromotionInv

\* The parts of the invariant that no promotion step but Search can change
\* are those about runs; the others follow from where the step leaves the
\* version of p and the one in Production.
LEMMA StageStep ==
    ASSUME PromotionInv, NEW p \in Promotions, NEW c,
           c \in {"staging", "check", "done", "aborted", "refused"},
           pc' = [pc EXCEPT ![p] = c],
           stage' \in [Promotions -> Stages \cup {Absent}],
           UNCHANGED <<status, logged, models, forced, best, seen>>,
           c \in Calls \/ stage'[p] # stage[p] => best[p] \in models /\ pc[p] \in Calls,
           \A q \in Promotions \ {p} : stage'[q] = Absent <=> stage[q] = Absent,
           \A q \in Promotions \ {p} : stage'[q] = "Production" => stage[q] = "Production",
           \A q \in Promotions \ {p} :
              stage'[q] = "Archived" => stage[q] \in {"Archived", "Production"},
           stage'[p] \in {"Production", "Archived"} /\ stage'[p] # stage[p] =>
              /\ stage'[p] = "Production"
              /\ p \in forced \/ logged[best[p]].good
              /\ \A q \in Promotions \ {p} : stage'[q] # "Production"
    PROVE  PromotionInv'
<1>1. TypeOK'
  BY DEF PromotionInv, TypeOK
<1>2. NoVersionYet' /\ BestLogged' /\ BestHasModel'
  BY DEF PromotionInv, TypeOK, NoVersionYet, BestLogged, BestHasModel
<1>3. BestOfSeen'
  BY DEF PromotionInv, BestOfSeen
<1>4. OneProduction'
  BY DEF PromotionInv, TypeOK, OneProduction, Production
<1>5. ProductionVetted'
  BY DEF PromotionInv, TypeOK, ProductionVetted
<1>6. QED
  BY <1>1, <1>2, <1>3, <1>4, <1>5 DEF PromotionInv

LEMMA PromoteStep ==
    ASSUME PromotionInv, NEW p \in Promotions, Promote(p)
    PROVE  PromotionInv'
<1>1. CASE Search(p)
  BY <1>1, SearchStep
<1>2. CASE NothingFound(p) \/ NoModel(p) \/ Refuse(p)
  <2>1. /\ stage' = stage /\ UNCHANGED <<status, logged, models, forced, best, seen>>
        /\ pc' = [pc EXCEPT ![p] = "aborted"] \/ pc' = [pc EXCEPT ![p] = "refused"]
    BY <1>2 DEF NothingFound, NoModel, Refuse, training
  <2>2. QED
    BY <2>1, StageStep DEF PromotionInv, TypeOK
<1>3. CASE Register(p)
  <2>1. best[p] \in models /\ pc[p] = "register"
    BY <1>3 DEF Register, CanRegister
  <2>2. CASE stage' = [stage EXCEPT ![p] = "None"]
    BY <1>3, <2>1, <2>2, StageStep DEF Register, Answered, training, PromotionInv, TypeOK
  <2>3. CASE stage' = stage /\ pc' = [pc EXCEPT ![p] = "aborted"]
    BY <1>3, <2>1, <2>3, StageStep DEF Register, Answered, training, PromotionInv, TypeOK
  <2>4. QED
    BY <1>3, <2>2, <2>3 DEF Register, Answered
<1>4. CASE ToStaging(p)
  <2>1. best[p] \in models /\ pc[p] = "staging"
    BY <1>4 DEF ToStaging, PromotionInv, BestHasModel
  <2>2. CASE stage' = Transition(p, "Staging")
    BY <1>4, <2>1, <2>2, StageStep
       DEF ToStaging, Answered, Transition, ArchivesExisting, training, PromotionInv, TypeOK
  <2>3. CASE stage' = stage /\ pc' = [pc EXCEPT ![p] = "aborted"]
    BY <1>4, <2>1, <2>3, StageStep DEF ToStaging, Answered, training, PromotionInv, TypeOK
  <2>4. QED
    BY <1>4, <2>2, <2>3 DEF ToStaging, Answered
<1>5. CASE ToProduction(p)
  <2>1. best[p] \in models /\ pc[p] = "check" /\ (p \in forced \/ logged[best[p]].good)
    BY <1>5 DEF ToProduction, MayPromote, Passed, PromotionInv, BestHasModel
  <2>2. CASE stage' = Transition(p, "Production")
    BY <1>5, <2>1, <2>2, StageStep
       DEF ToProduction, Answered, Transition, ArchivesExisting, training, PromotionInv, TypeOK
  <2>3. CASE stage' = stage /\ pc' = [pc EXCEPT ![p] = "aborted"]
    BY <1>5, <2>1, <2>3, StageStep DEF ToProduction, Answered, training, PromotionInv, TypeOK
  <2>4. QED
    BY <1>5, <2>2, <2>3 DEF ToProduction, Answered
<1>6. QED
  BY <1>1, <1>2, <1>3, <1>4, <1>5 DEF Promote

LEMMA StutterStep == PromotionInv /\ UNCHANGED vars => PromotionInv'
BY DEF vars, training, promotion, PromotionInv, TypeOK, NoVersionYet, BestLogged,
       BestHasModel, BestOfSeen, OneProduction, Production, ProductionVetted

LEMMA Invariance == Spec => []PromotionInv
<1>1. PromotionInv /\ [Next]_vars => PromotionInv'
  BY TrainStep, PromoteStep, StutterStep DEF Next
<1>2. QED
  BY <1>1, InitInv, PTL DEF Spec

\* Type correctness of runs, promotions and versions.
THEOREM TypeCorrect == Spec => []TypeOK
BY Invariance, PTL DEF PromotionInv

\* At any time at most one version is in Production (registry.py,
\* transition_stage archives the version it replaces).
THEOREM OneModelServed == Spec => []OneProduction
BY Invariance, PTL DEF PromotionInv

\* Nothing reaches Production without a model, or without the thresholds or
\* --force-promote (promote_model.py, passed or args.force_promote).
THEOREM VettedInProduction == Spec => []ProductionVetted
BY Invariance, PTL DEF PromotionInv

\* Production gets worse only through a promotion that searched too early
\* (promote_model.py, get_best_run_id).
THEOREM RegressionIsStale == Spec => NoRegression
<1> DEFINE Keeps ==
      \A p, q \in Promotions :
          (p # q /\ stage[q] = "Production" /\ stage[p] # "Production"
                 /\ stage'[p] = "Production")
              => (Rank(q) <= Rank(p) \/ best[q] \notin seen[p])
<1>1. PromotionInv => Keeps
  BY DEF PromotionInv, TypeOK, BestOfSeen, BestLogged, Rank
<1>2. PromotionInv /\ [Next]_vars => [Keeps]_vars
  BY <1>1
<1>3. QED
  BY <1>2, Invariance, PTL DEF Spec, NoRegression
=============================================================================
