---------------------------- MODULE Study_proofs ----------------------------
(***************************************************************************)
(* For any number of workers, trials, tiers and launches, each of which    *)
(* may fail anywhere: workers in a session together train the same trial   *)
(* with the same parameters; the release is trained with a trial that is   *)
(* optimal; Vizier and MLflow agree on every completed trial; nothing is   *)
(* done twice; and a launch without a failure accounts for its trials.     *)
(*                                                                         *)
(* What leads there.  The first half is about where the workers are.  The  *)
(* second is about the stores: one round of suggestions creates all trials *)
(* of a launch, the last of the study, and keeps them all in their order   *)
(* unless there are fewer tiers than trials, when the loop does not end;   *)
(* so worker 0's turn tells the state of each of them, which trial the run *)
(* in progress is of, and that no earlier run is of the same.              *)
(***************************************************************************)
EXTENDS Study, SequenceTheorems, FiniteSetTheorems, WellFoundedInduction,
        NaturalsInduction, TLAPS

ChiefPlaces == {"share", "at_trial", "train", "session", "end_run", "metadata", "complete"}

(* What worker 0 holds, wherever it is.                                    *)
ChiefHolds ==
  /\ at[0] \in {"start", "parent", "at_vizier", "suggest", "best"} => turn[0] = 1
  /\ at[0] = "best" => phase = "train-best"
  /\ phase = "train-best" => at[0] \notin {"at_vizier", "suggest", "metadata", "complete"}
  /\ phase = "tune" /\ at[0] \in ChiefPlaces => hparams[0] = suggested[turn[0]]
  /\ phase = "train-best" /\ at[0] \in {"share", "at_trial", "train", "session"} =>
       hparams[0] \in Optimal

(* The run in progress is of the trial worker 0 trains.                    *)
RunHolds ==
  /\ \E S : runs \in Seq(S)
  /\ at[0] = "session" => runs[Len(runs)].trial = hparams[0]

(* A parent run is started where there is none.                            *)
ParentHolds ==
  /\ at[0] = "parent" => parents[phase] = 0
  /\ OneParentRun

(* A worker that waits with worker 0 holds what worker 0 holds.            *)
Together ==
  \A w \in Workers :
    /\ at[0] = "at_trial" /\ at[w] = "at_trial" => hparams[w] = hparams[0]
    /\ at[0] \in {"train", "session"} /\ at[w] = "session" =>
         hparams[w] = hparams[0] /\ turn[w] = turn[0]

(* The inductive invariant.                                                *)
StudyInv == TypeOK /\ ChiefHolds /\ RunHolds /\ ParentHolds /\ Together

LEMMA ZeroIsWorker == 0 \in Workers
  BY StudyAssumption, SMT DEF Workers

LEMMA InitStudyInv == Init => StudyInv
<1>. SUFFICES ASSUME Init PROVE StudyInv
  OBVIOUS
<1>1. TypeOK
  BY SMT DEF Init, TypeOK, Phases
<1>2. ChiefHolds /\ Together
  BY ZeroIsWorker DEF Init, ChiefHolds, Together, ChiefPlaces
<1>3. runs \in Seq({})
  BY DEF Init
<1>4. RunHolds
  BY <1>3, ZeroIsWorker DEF Init, RunHolds
<1>5. ParentHolds
  BY ZeroIsWorker, SMT DEF Init, ParentHolds, OneParentRun
<1>. QED
  BY <1>1, <1>2, <1>4, <1>5 DEF StudyInv

LEMMA NextTypeOK == TypeOK /\ [Next]_vars => TypeOK'
<1>. SUFFICES ASSUME TypeOK, [Next]_vars PROVE TypeOK'
  OBVIOUS
<1>. USE ZeroIsWorker DEF TypeOK, localVars, storeVars
<1>1. CASE Launch
  BY <1>1, SMT DEF Launch, GoApart
<1>2. CASE OpenExperiment
  BY <1>2, SMT DEF OpenExperiment, Go, AfterParent
<1>3. CASE StartParentRun
  BY <1>3, SMT DEF StartParentRun, Go, AfterParent
<1>4. CASE PassVizierBarrier
  BY <1>4 DEF PassVizierBarrier, GoApart
<1>5. CASE Suggest
  BY <1>5, Zenon DEF Suggest
<1>6. CASE FinishSuggestions
  BY <1>6 DEF FinishSuggestions, Go
<1>7. CASE GetBest
  BY <1>7 DEF GetBest, Go
<1>8. CASE NoBestTrial
  BY <1>8 DEF NoBestTrial, Go
<1>9. CASE ShareParams
  BY <1>9 DEF ShareParams
<1>10. CASE PassTrialBarrier
  BY <1>10 DEF PassTrialBarrier, GoApart
<1>11. CASE StartRun
  BY <1>11 DEF StartRun, Go
<1>12. CASE TrainSession
  BY <1>12, SMT DEF TrainSession, AfterTrial
<1>13. CASE EndRun
  BY <1>13 DEF EndRun, Go
<1>14. CASE UpdateMetadata
  BY <1>14 DEF UpdateMetadata, Go
<1>15. CASE Complete
  BY <1>15, SMT DEF Complete, Go, AfterTrial
<1>16. CASE RaiseInSession
  BY <1>16 DEF RaiseInSession, Go
<1>17. ASSUME NEW w \in Workers, Fail(w) PROVE TypeOK'
  BY <1>17 DEF Fail, Go
<1>18. CASE UNCHANGED vars
  BY <1>18 DEF vars
<1>. QED
  BY <1>1, <1>2, <1>3, <1>4, <1>5, <1>6, <1>7, <1>8, <1>9, <1>10, <1>11, <1>12,
     <1>13, <1>14, <1>15, <1>16, <1>17, <1>18 DEF Next, Step, Teardown

(* Sequences of whatever kind.                                             *)
LEMMA AppendedLast ==
  ASSUME NEW S, NEW s \in Seq(S), NEW e
  PROVE  /\ Append(s, e) \in Seq(S \cup {e})
         /\ Append(s, e)[Len(Append(s, e))] = e
<1>1. s \in Seq(S \cup {e}) /\ e \in S \cup {e}
  BY SMT
<1>. QED
  BY <1>1, AppendProperties

LEMMA ReplacedLast ==
  ASSUME NEW S, NEW s \in Seq(S), NEW e
  PROVE  \E T : [s EXCEPT ![Len(s)] = e] \in Seq(T)
<1>. DEFINE f == [s EXCEPT ![Len(s)] = e]
<1>1. Len(s) \in Nat /\ f \in [1 .. Len(s) -> S \cup {e}]
  BY LenProperties
<1>2. f \in Seq(S \cup {e})
  BY <1>1, SMT
<1>. QED
  BY <1>2
-----------------------------------------------------------------------------
LEMMA NextChiefHolds == TypeOK /\ ChiefHolds /\ [Next]_vars => ChiefHolds'
<1>. SUFFICES ASSUME TypeOK, ChiefHolds, [Next]_vars PROVE ChiefHolds'
  OBVIOUS
<1>. USE ZeroIsWorker DEF TypeOK, ChiefHolds, ChiefPlaces, localVars, storeVars
<1>1. CASE Launch
  BY <1>1 DEF Launch, GoApart, Phases
<1>2. CASE OpenExperiment
  BY <1>2 DEF OpenExperiment, Go, AfterParent, Optimal, Completed, Phases
<1>3. CASE StartParentRun
  BY <1>3 DEF StartParentRun, Go, AfterParent, Optimal, Completed, Phases
<1>4. CASE PassVizierBarrier
  BY <1>4 DEF PassVizierBarrier, All, GoApart
<1>5. CASE Suggest
  BY <1>5, Zenon DEF Suggest
<1>6. CASE FinishSuggestions
  BY <1>6 DEF FinishSuggestions, Go
<1>7. CASE GetBest
  BY <1>7 DEF GetBest, Go, Optimal, Completed
<1>8. CASE NoBestTrial
  BY <1>8 DEF NoBestTrial, Go
<1>9. CASE ShareParams
  BY <1>9 DEF ShareParams, All, Optimal, Completed
<1>10. CASE PassTrialBarrier
  BY <1>10 DEF PassTrialBarrier, All, GoApart, Optimal, Completed
<1>11. CASE StartRun
  BY <1>11 DEF StartRun, Go, Optimal, Completed
<1>12. CASE TrainSession
  BY <1>12 DEF TrainSession, All
<1>13. CASE EndRun
  BY <1>13 DEF EndRun, Go, Phases
<1>14. CASE UpdateMetadata
  BY <1>14 DEF UpdateMetadata, Go, Phases
<1>15. CASE Complete
  BY <1>15 DEF Complete, Go, AfterTrial, Phases
<1>16. CASE RaiseInSession
  BY <1>16 DEF RaiseInSession, Go
<1>17. ASSUME NEW w \in Workers, Fail(w) PROVE ChiefHolds'
  BY <1>17 DEF Fail, Go, Optimal, Completed
<1>18. CASE UNCHANGED vars
  BY <1>18 DEF vars, Optimal, Completed
<1>. QED
  BY <1>1, <1>2, <1>3, <1>4, <1>5, <1>6, <1>7, <1>8, <1>9, <1>10, <1>11, <1>12,
     <1>13, <1>14, <1>15, <1>16, <1>17, <1>18 DEF Next, Step, Teardown

LEMMA NextRunHolds == TypeOK /\ RunHolds /\ [Next]_vars => RunHolds'
<1>. SUFFICES ASSUME TypeOK, RunHolds, [Next]_vars PROVE RunHolds'
  OBVIOUS
<1>1. CASE StartRun
  <2>. DEFINE r == [phase |-> phase, trial |-> hparams[0], state |-> "RUNNING",
                    metric |-> -1, launch |-> launches]
  <2>1. PICK S : runs \in Seq(S)
    BY DEF RunHolds
  <2>2. runs' = Append(runs, r) /\ hparams' = hparams
    BY <1>1 DEF StartRun, localVars
  <2>3. r.trial = hparams[0]
    OBVIOUS
  <2>. HIDE DEF r
  <2>4. runs' \in Seq(S \cup {r}) /\ runs'[Len(runs')] = r
    BY <2>1, <2>2, AppendedLast
  <2>. QED
    BY <2>2, <2>3, <2>4 DEF RunHolds
<1>2. CASE EndRun \/ RaiseInSession
  <2>1. PICK S : runs \in Seq(S)
    BY DEF RunHolds
  <2>2. \E T : runs' \in Seq(T)
    BY <1>2, <2>1, ReplacedLast DEF EndRun, RaiseInSession, FinishedRuns
  <2>3. at'[0] # "session"
    BY <1>2, ZeroIsWorker DEF EndRun, RaiseInSession, Go, TypeOK
  <2>. QED
    BY <2>2, <2>3 DEF RunHolds
<1>3. CASE runs' = runs /\ (at'[0] = "session" => at[0] = "session" /\ hparams'[0] = hparams[0])
  BY <1>3 DEF RunHolds
<1>4. ASSUME Launch \/ OpenExperiment \/ StartParentRun \/ PassVizierBarrier \/ Suggest
             \/ FinishSuggestions \/ GetBest \/ NoBestTrial
      PROVE  runs' = runs /\ at'[0] # "session"
  BY <1>4, ZeroIsWorker DEF Launch, OpenExperiment, StartParentRun, PassVizierBarrier, Suggest,
     FinishSuggestions, GetBest, NoBestTrial, Go, GoApart, AfterParent, TypeOK, storeVars
<1>5. ASSUME ShareParams \/ PassTrialBarrier \/ TrainSession \/ UpdateMetadata \/ Complete
      PROVE  runs' = runs /\ at'[0] # "session"
  BY <1>5, ZeroIsWorker DEF ShareParams, PassTrialBarrier, TrainSession, UpdateMetadata,
     Complete, AfterTrial, Go, GoApart, TypeOK, storeVars
<1>6. ASSUME NEW w \in Workers, Fail(w)
      PROVE  runs' = runs /\ (at'[0] = "session" => at[0] = "session" /\ hparams' = hparams)
  BY <1>6, ZeroIsWorker DEF Fail, Go, TypeOK, localVars, storeVars
<1>7. ASSUME UNCHANGED vars PROVE runs' = runs /\ at' = at /\ hparams' = hparams
  BY <1>7 DEF vars, localVars, storeVars
<1>. QED
  BY <1>1, <1>2, <1>3, <1>4, <1>5, <1>6, <1>7 DEF Next, Step, Teardown

LEMMA NextParentHolds == TypeOK /\ ParentHolds /\ [Next]_vars => ParentHolds'
<1>. SUFFICES ASSUME TypeOK, ParentHolds, [Next]_vars PROVE ParentHolds'
  OBVIOUS
<1>0. ParentHolds' \/ ~(parents' = parents /\ (at'[0] = "parent" => at[0] = "parent" /\ phase' = phase))
  BY DEF ParentHolds, OneParentRun
<1>1. CASE OpenExperiment
  <2>1. \A p \in Phases : parents'[p] \in Nat \cup {-1} /\ parents'[p] <= 1
    BY <1>1, SMT DEF OpenExperiment, ParentHolds, OneParentRun, TypeOK
  <2>2. at'[0] = "parent" => parents'[phase'] = 0
    BY <1>1, ZeroIsWorker, SMT DEF OpenExperiment, ParentHolds, OneParentRun, TypeOK,
       Go, AfterParent
  <2>. QED
    BY <2>1, <2>2 DEF ParentHolds, OneParentRun
<1>2. CASE StartParentRun
  <2>1. at'[0] # "parent"
    BY <1>2, ZeroIsWorker DEF StartParentRun, Go, AfterParent, TypeOK
  <2>2. \A p \in Phases : parents'[p] <= 1
    BY <1>2, SMT DEF StartParentRun, ParentHolds, OneParentRun, TypeOK
  <2>. QED
    BY <2>1, <2>2 DEF ParentHolds, OneParentRun
<1>3. ASSUME Launch \/ PassVizierBarrier \/ Suggest \/ FinishSuggestions \/ GetBest
             \/ NoBestTrial \/ ShareParams \/ PassTrialBarrier \/ StartRun
      PROVE  parents' = parents /\ at'[0] # "parent"
  BY <1>3, ZeroIsWorker DEF Launch, PassVizierBarrier, Suggest, FinishSuggestions, GetBest,
     NoBestTrial, ShareParams, PassTrialBarrier, StartRun, Go, GoApart, TypeOK, storeVars
<1>4. ASSUME TrainSession \/ EndRun \/ UpdateMetadata \/ Complete \/ RaiseInSession
      PROVE  parents' = parents /\ at'[0] # "parent"
  BY <1>4, ZeroIsWorker DEF TrainSession, EndRun, UpdateMetadata, Complete, RaiseInSession,
     AfterTrial, Go, TypeOK, storeVars
<1>5. ASSUME NEW w \in Workers, Fail(w)
      PROVE  parents' = parents /\ phase' = phase /\ (at'[0] = "parent" => at[0] = "parent")
  BY <1>5, ZeroIsWorker DEF Fail, Go, TypeOK, storeVars
<1>6. ASSUME UNCHANGED vars PROVE parents' = parents /\ phase' = phase /\ at' = at
  BY <1>6 DEF vars, storeVars
<1>. QED
  BY <1>0, <1>1, <1>2, <1>3, <1>4, <1>5, <1>6 DEF Next, Step, Teardown
-----------------------------------------------------------------------------
LEMMA NextTogether == TypeOK /\ Together /\ [Next]_vars => Together'
<1>. SUFFICES ASSUME TypeOK, Together, [Next]_vars, NEW w \in Workers
     PROVE  /\ at'[0] = "at_trial" /\ at'[w] = "at_trial" => hparams'[w] = hparams'[0]
            /\ at'[0] \in {"train", "session"} /\ at'[w] = "session" =>
                 hparams'[w] = hparams'[0] /\ turn'[w] = turn'[0]
  BY DEF Together
<1>. USE ZeroIsWorker DEF TypeOK
<1>1. ASSUME Launch \/ OpenExperiment \/ StartParentRun \/ PassVizierBarrier \/ FinishSuggestions
             \/ GetBest \/ NoBestTrial \/ TrainSession \/ EndRun \/ UpdateMetadata \/ Complete
             \/ RaiseInSession
      PROVE  at'[0] \notin {"at_trial", "train", "session"}
  BY <1>1 DEF Launch, OpenExperiment, StartParentRun, PassVizierBarrier, FinishSuggestions,
     GetBest, NoBestTrial, TrainSession, EndRun, UpdateMetadata, Complete, RaiseInSession,
     Go, GoApart, AfterParent, AfterTrial
<1>2. ASSUME Suggest PROVE at' = at /\ at[0] = "suggest"
  BY <1>2, Zenon DEF Suggest
<1>3. ASSUME ShareParams
      PROVE  at'[0] = "at_trial" /\ hparams'[w] = hparams'[0]
  BY <1>3 DEF ShareParams
<1>4. ASSUME PassTrialBarrier
      PROVE  at'[0] # "at_trial" /\ hparams'[w] = hparams'[0] /\ turn'[w] = turn'[0]
  BY <1>4 DEF PassTrialBarrier, All, GoApart, Together
<1>5. ASSUME StartRun
      PROVE  /\ at[0] = "train" /\ at'[0] = "session" /\ hparams' = hparams /\ turn' = turn
             /\ w # 0 => at'[w] = at[w]
  BY <1>5 DEF StartRun, Go, localVars
<1>6. ASSUME NEW o \in Workers, Fail(o)
      PROVE  /\ hparams' = hparams /\ turn' = turn
             /\ at'[0] \in {at[0], "off"} /\ at'[w] \in {at[w], "off"}
  BY <1>6 DEF Fail, Go, localVars
<1>7. ASSUME UNCHANGED vars PROVE at' = at /\ hparams' = hparams /\ turn' = turn
  BY <1>7 DEF vars, localVars
<1>8. CASE w = 0
  BY <1>8
<1>9. CASE w # 0
  BY <1>1, <1>2, <1>3, <1>4, <1>5, <1>6, <1>7, <1>9 DEF Next, Step, Teardown, Together
<1>. QED
  BY <1>8, <1>9

THEOREM StudyInvariant == Spec => []StudyInv
<1>1. Init => StudyInv
  BY InitStudyInv
<1>2. StudyInv /\ [Next]_vars => StudyInv'
  BY NextTypeOK, NextChiefHolds, NextRunHolds, NextParentHolds, NextTogether DEF StudyInv
<1>. QED
  BY <1>1, <1>2, PTL DEF Spec

(* What the workers move by keeps its type.                                *)
THEOREM StudyTypeCorrect == Spec => []TypeOK
<1>1. StudyInv => TypeOK
  BY DEF StudyInv
<1>. QED
  BY <1>1, StudyInvariant, PTL

(* Workers in a session train the same trial, in the same round, and it is *)
(* the one the run is of and the metric will be reported to.               *)
THEOREM SameParametersAlways == Spec => []SameParameters
<1>1. StudyInv => SameParameters
  <2>. SUFFICES ASSUME StudyInv, All("session")
       PROVE  /\ \A v, w \in Workers : hparams[v] = hparams[w] /\ turn[v] = turn[w]
              /\ phase = "tune" => hparams[0] = suggested[turn[0]]
              /\ runs[Len(runs)].trial = hparams[0]
    BY DEF SameParameters
  <2>1. \A w \in Workers : hparams[w] = hparams[0] /\ turn[w] = turn[0]
    BY ZeroIsWorker DEF StudyInv, Together, All
  <2>2. at[0] = "session"
    BY ZeroIsWorker DEF All
  <2>. QED
    BY <2>1, <2>2 DEF StudyInv, ChiefHolds, ChiefPlaces, RunHolds
<1>. QED
  BY <1>1, StudyInvariant, PTL

(* The training for the release is with a trial that is optimal when the   *)
(* session begins, and still is when it ends.                              *)
THEOREM BestIsAlwaysTrained == Spec => []BestIsTrained
<1>1. StudyInv => BestIsTrained
  BY ZeroIsWorker DEF StudyInv, ChiefHolds, BestIsTrained, All
<1>. QED
  BY <1>1, StudyInvariant, PTL

(* No failure between the experiment and its parent run leaves a phase     *)
(* with two of them.                                                       *)
THEOREM NoSecondParentRun == Spec => []OneParentRun
<1>1. StudyInv => OneParentRun
  BY DEF StudyInv, ParentHolds
<1>. QED
  BY <1>1, StudyInvariant, PTL
-----------------------------------------------------------------------------
(* Numbers: a set of them has a least, so what holds of 0 and is handed on *)
(* holds of all of them, and a function may be given by its steps.         *)

Less == {ss \in Nat \X Nat : ss[1] < ss[2]}

LEMMA LessWellFounded == IsWellFoundedOn(Less, Nat)
  BY NatLessThanWellFounded DEF OpToRel, Less

LEMMA LeastOf ==
  ASSUME NEW S, S \subseteq Nat, S # {}
  PROVE  \E x \in S : \A y \in S : x <= y
<1>1. PICK x \in S : \A y \in S : ~ (<<y, x>> \in Less)
  BY LessWellFounded, WFMin
<1>2. ASSUME NEW y \in S PROVE x <= y
  <2>1. x \in Nat /\ y \in Nat
    BY <1>1
  <2>2. ~(<<y, x>>[1] < <<y, x>>[2])
    BY <1>1, <2>1, <1>2, Zenon DEF Less
  <2>. QED
    BY <2>1, <2>2, SMT
<1>. QED
  BY <1>2

LEMMA HandedOn ==
  ASSUME NEW G, NEW n \in Nat, 0 \in G, \A i \in 1 .. n : i - 1 \in G => i \in G
  PROVE  \A i \in 0 .. n : i \in G
<1>. DEFINE Bad == {i \in Nat : i <= n /\ i \notin G}
<1>. SUFFICES ASSUME Bad # {} PROVE FALSE
  BY SMT
<1>1. PICK x \in Bad : \A y \in Bad : x <= y
  BY LeastOf
<1>2. x # 0 /\ x \in 1 .. n /\ x - 1 \in Nat /\ x - 1 <= n
  BY <1>1, SMT
<1>3. x - 1 \notin Bad
  BY <1>1, <1>2, SMT
<1>. QED
  BY <1>1, <1>2, <1>3

GoesBy(f, base, n, F) == f[0] = base /\ \A i \in 1 .. n : f[i] = F[<<i, f[i - 1]>>]

LEMMA StepsMakeFunction ==
  ASSUME NEW T, NEW base \in T, NEW n \in Nat, NEW F \in [(1 .. n) \X T -> T]
  PROVE  \E f \in [0 .. n -> T] : GoesBy(f, base, n, F)
<1>. DEFINE Upto(m, f) == GoesBy(f, base, m, F)
            G == {m \in 0 .. n : \E f \in [0 .. m -> T] : Upto(m, f)}
<1>1. 0 \in G
  <2>. DEFINE f == [i \in 0 .. 0 |-> base]
  <2>1. f \in [0 .. 0 -> T] /\ f[0] = base
    BY SMT
  <2>2. Upto(0, f)
    BY <2>1, SMT DEF GoesBy
  <2>3. 0 \in 0 .. n
    BY SMT
  <2>. HIDE DEF f, Upto
  <2>. QED
    BY <2>1, <2>2, <2>3
<1>2. ASSUME NEW m \in 1 .. n, m - 1 \in G PROVE m \in G
  <2>1. PICK g \in [0 .. m - 1 -> T] : Upto(m - 1, g)
    BY <1>2
  <2>2. g[m - 1] \in T
    BY <2>1, SMT
  <2>3. F[<<m, g[m - 1]>>] \in T
    BY <2>2
  <2>. DEFINE v == F[<<m, g[m - 1]>>]
              f == [i \in 0 .. m |-> IF i = m THEN v ELSE g[i]]
  <2>4. f \in [0 .. m -> T] /\ f[m] = v /\ \A i \in 0 .. m - 1 : f[i] = g[i]
    <3>. HIDE DEF v
    <3>. QED
      BY <2>1, <2>3, SMT DEF v
  <2>5. Upto(m, f)
    <3>1. f[0] = base
      BY <2>1, <2>4, SMT DEF GoesBy
    <3>2. ASSUME NEW i \in 1 .. m PROVE f[i] = F[<<i, f[i - 1]>>]
      <4>1. CASE i = m
        <5>1. f[i] = v /\ f[i - 1] = g[m - 1]
          BY <2>4, <4>1, SMT
        <5>. QED
          BY <5>1, <4>1
      <4>2. CASE i # m
        <5>1. i \in 1 .. m - 1 /\ f[i] = g[i] /\ f[i - 1] = g[i - 1]
          BY <2>4, <4>2, SMT
        <5>. QED
          BY <5>1, <2>1 DEF GoesBy
      <4>. QED
        BY <4>1, <4>2
    <3>. QED
      BY <3>1, <3>2 DEF GoesBy
  <2>6. m \in 0 .. n
    BY SMT
  <2>. HIDE DEF f, Upto
  <2>. QED
    BY <2>4, <2>5, <2>6
<1>3. n \in G
  <2>. HIDE DEF G
  <2>1. \A i \in 0 .. n : i \in G
    BY <1>1, <1>2, HandedOn
  <2>. QED
    BY <2>1, SMT
<1>. QED
  BY <1>3
-----------------------------------------------------------------------------
(* A round of suggestions: the trials kept and those set aside, one given  *)
(* trial after the other.                                                  *)

Piles(D) == [keep : Seq(D), drop : SUBSET D]

LEMMA SortKeepsPiles ==
  ASSUME NEW D, NEW kept \in Piles(D), NEW t \in D, NEW tierOf
  PROVE  Sort(kept, t, tierOf) \in Piles(D)
<1>1. kept = [keep |-> kept.keep, drop |-> kept.drop] /\ kept.keep \in Seq(D) /\ kept.drop \subseteq D
  BY DEF Piles
<1>2. Append(kept.keep, t) \in Seq(D)
  BY <1>1, AppendProperties
<1>3. [kept EXCEPT !.drop = @ \cup {t}] \in Piles(D)
  BY <1>1 DEF Piles
<1>4. [kept EXCEPT !.keep = Append(@, t)] \in Piles(D)
  BY <1>1, <1>2 DEF Piles
<1>. QED
  BY <1>3, <1>4 DEF Sort

SortedBy(f, given, tierOf) ==
  /\ f[0] = [keep |-> suggested, drop |-> extras]
  /\ \A i \in 1 .. Len(given) : f[i] = Sort(f[i - 1], given[i], tierOf)
  /\ Sorted(given, tierOf) = f[Len(given)]

LEMMA SortedSteps ==
  ASSUME NEW D, suggested \in Seq(D), extras \subseteq D, NEW given \in Seq(D), NEW tierOf
  PROVE  \E f \in [0 .. Len(given) -> Piles(D)] : SortedBy(f, given, tierOf)
<1>. DEFINE T == Piles(D)
            n == Len(given)
            base == [keep |-> suggested, drop |-> extras]
            F == [p \in (1 .. n) \X T |-> Sort(p[2], given[p[1]], tierOf)]
            Rec(f) == [i \in 0 .. n |-> IF i = 0 THEN base ELSE Sort(f[i - 1], given[i], tierOf)]
            kept == CHOOSE f : f = Rec(f)
<1>1. n \in Nat /\ base \in T /\ \A i \in 1 .. n : given[i] \in D
  BY LenProperties, ElementOfSeq DEF Piles
<1>2. Sorted(given, tierOf) = kept[n]
  BY DEF Sorted
<1>3. \A i \in 1 .. n, k \in T : Sort(k, given[i], tierOf) \in T
  BY <1>1, SortKeepsPiles
<1>. HIDE DEF T, n, base
<1>4. F \in [(1 .. n) \X T -> T]
  BY <1>3
<1>5. PICK g \in [0 .. n -> T] : GoesBy(g, base, n, F)
  <2>. HIDE DEF F
  <2>. QED
    BY <1>1, <1>4, StepsMakeFunction
<1>6. g = Rec(g)
  <2>1. \A i \in 1 .. n : i - 1 \in 0 .. n
    BY <1>1, SMT
  <2>2. \A i \in 1 .. n : g[i] = Sort(g[i - 1], given[i], tierOf)
    BY <1>5, <2>1 DEF GoesBy
  <2>3. \A i \in 0 .. n : i = 0 \/ i \in 1 .. n
    BY <1>1, SMT
  <2>. QED
    BY <1>5, <2>2, <2>3 DEF GoesBy
<1>7. kept = Rec(kept)
  <2>. HIDE DEF Rec
  <2>. QED
    BY <1>6, Zenon
<1>8. kept[0] = base /\ \A i \in 1 .. n : kept[i] = Sort(kept[i - 1], given[i], tierOf)
  <2>. HIDE DEF kept
  <2>1. \A i \in 0 .. n : kept[i] = IF i = 0 THEN base ELSE Sort(kept[i - 1], given[i], tierOf)
    BY <1>7, Zenon
  <2>. QED
    BY <1>1, <2>1, SMT
<1>9. \A i \in 0 .. n : kept[i] \in T
  <2>. DEFINE G == {i \in 0 .. n : kept[i] \in T}
  <2>. HIDE DEF kept
  <2>1. 0 \in G
    BY <1>1, <1>8, SMT
  <2>2. \A i \in 1 .. n : i - 1 \in G => i \in G
    <3>1. \A i \in 1 .. n : i \in 0 .. n
      BY <1>1, SMT
    <3>. QED
      BY <1>3, <1>8, <3>1
  <2>. HIDE DEF G
  <2>3. \A i \in 0 .. n : i \in G
    BY <1>1, <2>1, <2>2, HandedOn
  <2>. QED
    BY <2>3 DEF G
<1>10. kept \in [0 .. n -> T]
  <2>1. DOMAIN kept = 0 .. n /\ kept = [i \in 0 .. n |-> kept[i]]
    <3>. HIDE DEF kept
    <3>. QED
      BY <1>7, Zenon
  <2>. HIDE DEF kept
  <2>. QED
    BY <1>9, <2>1, Zenon
<1>. HIDE DEF kept
<1>. QED
  BY <1>2, <1>8, <1>10, Zenon DEF T, n, base, SortedBy

(* Trials of as many tiers, given to a launch that has none, are all kept. *)
LEMMA SortedDistinct ==
  ASSUME NEW D, suggested = <<>>, extras = {}, NEW given \in Seq(D), NEW tierOf,
         \A i, j \in 1 .. Len(given) : tierOf[given[i]] = tierOf[given[j]] => i = j
  PROVE  Sorted(given, tierOf) = [keep |-> given, drop |-> {}]
<1>. DEFINE n == Len(given)
<1>1. n \in Nat /\ given \in [1 .. n -> D]
  BY LenProperties
<1>2. PICK f \in [0 .. n -> Piles(D)] : SortedBy(f, given, tierOf)
  <2>1. suggested \in Seq(D) /\ extras \subseteq D
    BY EmptySeq
  <2>. QED
    BY <2>1, SortedSteps
<1>. DEFINE Whole(i) == /\ f[i].drop = {} /\ Len(f[i].keep) = i
                        /\ \A j \in 1 .. i : f[i].keep[j] = given[j]
            G == {i \in 0 .. n : Whole(i)}
<1>3. 0 \in G
  <2>1. f[0].keep = <<>> /\ f[0].drop = {}
    BY <1>2 DEF SortedBy
  <2>2. 0 \in 0 .. n
    BY <1>1, SMT
  <2>. QED
    BY <2>1, <2>2, SMT
<1>4. ASSUME NEW i \in 1 .. n, i - 1 \in G PROVE i \in G
  <2>. DEFINE k == f[i - 1]
  <2>1. i - 1 \in 0 .. n /\ i \in 0 .. n /\ given[i] \in D
    BY <1>1, SMT
  <2>2. k \in Piles(D) /\ Whole(i - 1)
    BY <1>2, <2>1, <1>4
  <2>3. k.keep \in Seq(D) /\ Len(k.keep) = i - 1 /\ DOMAIN k.keep = 1 .. i - 1
    BY <2>2, LenProperties DEF Piles
  <2>4. ~ \E j \in DOMAIN k.keep : tierOf[k.keep[j]] = tierOf[given[i]]
    <3>. SUFFICES ASSUME NEW j \in DOMAIN k.keep, tierOf[k.keep[j]] = tierOf[given[i]] PROVE FALSE
      OBVIOUS
    <3>1. j \in 1 .. n /\ j # i /\ j \in 1 .. i - 1
      BY <2>3, <1>1, SMT
    <3>2. k.keep[j] = given[j]
      BY <2>2, <3>1
    <3>. QED
      BY <3>1, <3>2
  <2>5. f[i] = [k EXCEPT !.keep = Append(k.keep, given[i])]
    BY <1>2, <2>4 DEF Sort, SortedBy
  <2>6. f[i].keep = Append(k.keep, given[i]) /\ f[i].drop = k.drop
    BY <2>5, <2>2 DEF Piles
  <2>. HIDE DEF k
  <2>7. Len(f[i].keep) = i
    BY <2>1, <2>3, <2>6, AppendProperties, SMT
  <2>8. \A j \in 1 .. i : f[i].keep[j] = given[j]
    <3>1. \A j \in 1 .. i - 1 : f[i].keep[j] = k.keep[j]
      BY <2>1, <2>3, <2>6, AppendProperties, SMT
    <3>2. f[i].keep[i] = given[i]
      BY <2>1, <2>3, <2>6, AppendProperties, SMT
    <3>3. \A j \in 1 .. i : j = i \/ j \in 1 .. i - 1
      BY SMT
    <3>. QED
      BY <3>1, <3>2, <3>3, <2>2 DEF k
  <2>9. f[i].drop = {}
    BY <2>2, <2>6 DEF k
  <2>. QED
    BY <2>1, <2>7, <2>8, <2>9
<1>5. n \in G
  <2>. HIDE DEF G
  <2>1. \A i \in 0 .. n : i \in G
    BY <1>1, <1>3, <1>4, HandedOn
  <2>. QED
    BY <1>1, <2>1, SMT
<1>6. f[n] \in Piles(D) /\ f[n].keep \in Seq(D)
  BY <1>1, <1>2, SMT DEF Piles
<1>7. f[n].keep = given
  BY <1>5, <1>6, SeqEqual
<1>. QED
  BY <1>2, <1>5, <1>6, <1>7 DEF Piles, SortedBy
(* Trials nearer to each other than there are tiers are of other tiers.    *)
LEMMA TierInRange == \A t \in Nat \ {0} : GridTier(t) \in 0 .. NumTiers - 1
  BY StudyAssumption, SMT DEF GridTier

LEMMA TiersApart ==
  ASSUME NEW t \in Nat \ {0}, NEW u \in Nat \ {0}, t - u < NumTiers, u - t < NumTiers,
         GridTier(t) = GridTier(u)
  PROVE  t = u
<1>. DEFINE d == (t - 1) \div NumTiers
            e == (u - 1) \div NumTiers
<1>1. NumTiers \in Nat \ {0} /\ t - 1 \in Nat /\ u - 1 \in Nat
  BY StudyAssumption, SMT
<1>2. d \in Int /\ t - 1 = NumTiers * d + GridTier(t)
  BY <1>1, SMT DEF GridTier
<1>3. e \in Int /\ u - 1 = NumTiers * e + GridTier(u)
  BY <1>1, SMT DEF GridTier
<1>. HIDE DEF d, e
<1>4. GridTier(t) \in Nat
  BY TierInRange, <1>1, SMT
<1>5. t - u = NumTiers * (d - e)
  BY <1>1, <1>2, <1>3, <1>4, SMT
<1>6. CASE d - e >= 1
  <2>1. NumTiers * (d - e) >= NumTiers
    BY <1>1, <1>2, <1>3, <1>6, SMT
  <2>. QED
    BY <1>1, <1>5, <2>1, SMT
<1>7. CASE e - d >= 1
  <2>1. NumTiers * (e - d) >= NumTiers
    BY <1>1, <1>2, <1>3, <1>7, SMT
  <2>2. u - t = NumTiers * (e - d)
    BY <1>1, <1>2, <1>3, <1>4, SMT
  <2>. QED
    BY <1>1, <2>1, <2>2, SMT
<1>. QED
  BY <1>2, <1>3, <1>4, <1>6, <1>7, SMT
-----------------------------------------------------------------------------
(* The stores, and what worker 0 was given by Vizier.                      *)

Trial == [tier : 0 .. NumTiers - 1, state : {"ACTIVE", "COMPLETED", "DELETED"},
          client : Nat, metric : Scores \cup {-1}, run : Nat]

Run == [phase : Phases, trial : Nat, state : {"RUNNING", "FINISHED"},
        metric : Scores \cup {-1}, launch : Nat]

StoresOK ==
  /\ trials \in Seq(Trial) /\ runs \in Seq(Run) /\ hparams \in [Workers -> Nat]
  /\ \A t \in DOMAIN trials : trials[t].tier = GridTier(t) /\ trials[t].client <= launches
  /\ \A r \in DOMAIN runs : runs[r].launch <= launches

(* The trials of this launch are the last of the study.                    *)
First == Len(trials) - NumTrials

Unasked ==
  /\ suggested = <<>> /\ extras = {}
  /\ \A t \in DOMAIN trials : trials[t].client # launches

(* One round creates all trials of the launch.  When there are tiers enough *)
(* they are all kept, in their order; else the loop does not end.          *)
Asked ==
  /\ NumTrials <= Len(trials)
  /\ \A t \in DOMAIN trials : trials[t].client = launches <=> t > First
  /\ suggested \in Seq(DOMAIN trials) /\ extras \subseteq DOMAIN trials
  /\ NumTrials <= NumTiers => suggested = [i \in 1 .. NumTrials |-> First + i] /\ extras = {}

AskInv ==
  /\ Unasked \/ Asked
  /\ phase = "train-best" \/ at[0] \in {"start", "parent", "at_vizier"} => Unasked
  /\ at[0] = "suggest" =>
       \A t \in DOMAIN trials : trials[t].client = launches => trials[t].state = "ACTIVE"
  /\ phase = "tune" /\ at[0] \in ChiefPlaces \cup {"done"} => Asked /\ NumTrials <= NumTiers

LEMMA StoresAre ==
  ASSUME StoresOK
  PROVE  /\ Len(trials) \in Nat /\ DOMAIN trials = 1 .. Len(trials)
         /\ Len(runs) \in Nat /\ DOMAIN runs = 1 .. Len(runs)
         /\ \A t \in DOMAIN trials : trials[t] \in Trial
         /\ \A r \in DOMAIN runs : runs[r] \in Run
<1>1. trials \in Seq(Trial) /\ runs \in Seq(Run)
  BY DEF StoresOK
<1>. QED
  BY <1>1, LenProperties, ElementOfSeq

LEMMA HaveCounts ==
  ASSUME StoresOK, Asked
  PROVE  /\ NumTrials <= NumTiers => Cardinality(Have) = NumTrials
         /\ NumTiers < NumTrials => Cardinality(Have) < NumTrials
<1>0. NumTrials \in Nat \ {0} /\ NumTiers \in Nat \ {0}
  BY StudyAssumption
<1>1. Len(trials) \in Nat /\ DOMAIN trials = 1 .. Len(trials) /\ First \in Nat
  BY <1>0, StoresAre, SMT DEF Asked, First
<1>2. \A t \in DOMAIN trials : TierOf(t) = GridTier(t)
  BY DEF TierOf, StoresOK
<1>3. CASE NumTrials <= NumTiers
  <2>. DEFINE f == [i \in 1 .. NumTrials |-> TierOf(suggested[i])]
  <2>1. suggested = [i \in 1 .. NumTrials |-> First + i]
    BY <1>3 DEF Asked
  <2>2. DOMAIN suggested = 1 .. NumTrials /\ \A i \in 1 .. NumTrials : suggested[i] = First + i
    BY <2>1
  <2>3. \A i \in 1 .. NumTrials : First + i \in DOMAIN trials
    BY <1>0, <1>1, SMT DEF First
  <2>4. \A i \in 1 .. NumTrials : f[i] = GridTier(First + i)
    BY <1>2, <2>2, <2>3
  <2>5. ASSUME NEW i \in 1 .. NumTrials, NEW j \in 1 .. NumTrials, f[i] = f[j] PROVE i = j
    <3>1. GridTier(First + i) = GridTier(First + j)
      BY <2>4, <2>5
    <3>2. /\ First + i \in Nat \ {0} /\ First + j \in Nat \ {0}
          /\ (First + i) - (First + j) < NumTiers /\ (First + j) - (First + i) < NumTiers
      BY <1>0, <1>1, <1>3, SMT
    <3>. HIDE DEF First
    <3>3. First + i = First + j
      BY <3>1, <3>2, TiersApart
    <3>. QED
      BY <1>1, <3>3, SMT
  <2>6. f \in [1 .. NumTrials -> Have]
    BY <2>2 DEF Have
  <2>7. \A h \in Have : \E i \in 1 .. NumTrials : f[i] = h
    BY <2>2 DEF Have
  <2>. HIDE DEF f
  <2>8. f \in Bijection(1 .. NumTrials, Have)
    BY <2>5, <2>6, <2>7 DEF Bijection, Injection, Surjection, IsInjective
  <2>9. ExistsBijection(1 .. NumTrials, Have)
    BY <2>8 DEF ExistsBijection
  <2>10. IsFiniteSet(1 .. NumTrials) /\ Cardinality(1 .. NumTrials) = NumTrials
    <3>1. IsFiniteSet(1 .. NumTrials)
          /\ Cardinality(1 .. NumTrials) = IF 1 > NumTrials THEN 0 ELSE NumTrials - 1 + 1
      BY <1>0, FS_Interval
    <3>. QED
      BY <1>0, <3>1, SMT
  <2>. QED
    BY <1>0, <1>3, <2>9, <2>10, FS_Bijection, SMT
<1>4. CASE NumTiers < NumTrials
  <2>1. \A i \in DOMAIN suggested : suggested[i] \in DOMAIN trials
    BY LenProperties, ElementOfSeq DEF Asked
  <2>2. \A t \in DOMAIN trials : TierOf(t) \in 0 .. NumTiers - 1
    BY <1>1, <1>2, TierInRange, SMT
  <2>3. Have \subseteq 0 .. NumTiers - 1
    BY <2>1, <2>2 DEF Have
  <2>4. IsFiniteSet(0 .. NumTiers - 1) /\ Cardinality(0 .. NumTiers - 1) = NumTiers
    <3>1. NumTiers - 1 \in Int /\ 0 \in Int
      BY <1>0, SMT
    <3>2. /\ IsFiniteSet(0 .. NumTiers - 1)
          /\ Cardinality(0 .. NumTiers - 1) = IF 0 > NumTiers - 1 THEN 0 ELSE NumTiers - 1 - 0 + 1
      BY <3>1, FS_Interval
    <3>. QED
      BY <1>0, <3>2, SMT
  <2>5. IsFiniteSet(Have) /\ Cardinality(Have) <= NumTiers
    BY <2>3, <2>4, FS_Subset
  <2>6. Cardinality(Have) \in Nat
    BY <2>5, FS_CardinalityType
  <2>. QED
    BY <1>0, <1>4, <2>5, <2>6, SMT
<1>. QED
  BY <1>0, <1>3, <1>4, SMT
-----------------------------------------------------------------------------
(* A round that asks for the first time: all trials are new.               *)
LEMMA FirstRound ==
  ASSUME StoresOK, Unasked, launches \in Nat, Suggest
  PROVE  /\ trials' \in Seq(Trial) /\ Len(trials') = Len(trials) + NumTrials
         /\ \A t \in DOMAIN trials : trials'[t] = trials[t]
         /\ \A t \in DOMAIN trials' : t > Len(trials) =>
              trials'[t] = [tier |-> GridTier(t), state |-> "ACTIVE", client |-> launches,
                            metric |-> -1, run |-> 0]
         /\ suggested' \in Seq(DOMAIN trials') /\ extras' \subseteq DOMAIN trials'
         /\ NumTrials <= NumTiers =>
              suggested' = [i \in 1 .. NumTrials |-> Len(trials) + i] /\ extras' = {}
<1>. DEFINE n == Len(trials)
            entry(t) == [tier |-> GridTier(t), state |-> "ACTIVE", client |-> launches,
                         metric |-> -1, run |-> 0]
            made == [i \in 1 .. NumTrials |-> entry(n + i)]
            new == [i \in 1 .. NumTrials |-> n + i]
            D == DOMAIN trials'
            tierOf == [t \in D |-> trials'[t].tier]
<1>0. NumTrials \in Nat \ {0} /\ NumTiers \in Nat \ {0} /\ n \in Nat /\ DOMAIN trials = 1 .. n
      /\ trials \in Seq(Trial)
  BY StudyAssumption, StoresAre DEF StoresOK
<1>1. OwnActive(launches) = {}
  BY DEF OwnActive, Unasked
<1>2. Missing(NumTrials, launches) = NumTrials
  BY <1>0, <1>1, FS_EmptySet, SMT DEF Missing
<1>3. Created(NumTrials, launches) = made
  BY DEF Created
<1>4. \A t \in Nat \ {0} : entry(t) \in Trial
  BY TierInRange DEF Trial
<1>5. made \in Seq(Trial) /\ Len(made) = NumTrials
  <2>1. \A i \in 1 .. NumTrials : n + i \in Nat \ {0}
    BY <1>0, SMT
  <2>2. made \in [1 .. NumTrials -> Trial]
    BY <1>4, <2>1
  <2>. HIDE DEF made
  <2>. QED
    BY <1>0, <2>2, SMT
<1>6. trials' = trials \o made
  <2>1. trials' = trials \o Created(Missing(NumTrials, launches), launches)
    BY Zenon DEF Suggest, ClientId
  <2>. QED
    BY <2>1, <1>2, <1>3
<1>7. trials' \in Seq(Trial) /\ Len(trials') = n + NumTrials
      /\ \A i \in 1 .. n + NumTrials : trials'[i] = IF i <= n THEN trials[i] ELSE made[i - n]
  <2>. HIDE DEF made
  <2>. QED
    BY <1>0, <1>5, <1>6, ConcatProperties
<1>8. D = 1 .. n + NumTrials
  BY <1>7, LenProperties
<1>9. \A t \in DOMAIN trials : trials'[t] = trials[t]
  <2>1. \A t \in DOMAIN trials : t \in 1 .. n + NumTrials /\ t <= n
    BY <1>0, SMT
  <2>. HIDE DEF made, D
  <2>. QED
    BY <1>7, <2>1
<1>10. \A t \in D : t > n => trials'[t] = entry(t)
  <2>. SUFFICES ASSUME NEW t \in D, t > n PROVE trials'[t] = entry(t)
    OBVIOUS
  <2>1. t - n \in 1 .. NumTrials /\ n + (t - n) = t
    BY <1>0, <1>8, SMT
  <2>2. trials'[t] = made[t - n]
    <3>1. t \in 1 .. n + NumTrials /\ ~(t <= n)
      BY <1>0, <1>8, SMT
    <3>. HIDE DEF made, D
    <3>. QED
      BY <1>7, <3>1
  <2>. QED
    BY <2>1, <2>2
<1>11. new \in Seq(D) /\ Len(new) = NumTrials /\ \A i \in 1 .. NumTrials : new[i] = n + i
  <2>1. new \in [1 .. NumTrials -> D]
    BY <1>0, <1>8, SMT
  <2>2. \A i \in 1 .. NumTrials : new[i] = n + i
    OBVIOUS
  <2>. HIDE DEF new, D
  <2>. QED
    BY <1>0, <2>1, <2>2, SMT
<1>12. Given(NumTrials, launches) = new
  <2>1. InOrder(OwnActive(launches)) = <<>>
    <3>. DEFINE Ok(s) == \A i, j \in DOMAIN s : i < j => s[i] < s[j]
    <3>1. Cardinality(OwnActive(launches)) = 0 /\ 1 .. 0 = {}
      BY <1>1, FS_EmptySet, SMT
    <3>2. <<>> \in [1 .. 0 -> {}] /\ Ok(<<>>)
      BY <3>1
    <3>3. InOrder(OwnActive(launches)) = CHOOSE s \in [1 .. 0 -> {}] : Ok(s)
      BY <1>1, <3>1 DEF InOrder
    <3>4. \A s, u \in [1 .. 0 -> {}] : s = u
      BY <3>1
    <3>. HIDE DEF Ok
    <3>. QED
      BY <3>2, <3>3, <3>4
  <2>2. <<>> \o new = new
    <3>. HIDE DEF new, D
    <3>. QED
      BY <1>11, ConcatEmptySeq
  <2>3. Given(NumTrials, launches) = SubSeq(<<>> \o new, 1, NumTrials)
    BY <1>2, <2>1 DEF Given
  <2>. HIDE DEF new, D
  <2>. QED
    BY <1>11, <2>2, <2>3, SubSeqFull
<1>13. suggested' = Sorted(new, tierOf).keep /\ extras' = Sorted(new, tierOf).drop
  <2>1. /\ suggested' = Sorted(Given(NumTrials, launches), tierOf).keep
        /\ extras' = Sorted(Given(NumTrials, launches), tierOf).drop
    BY Zenon DEF Suggest, ClientId
  <2>. HIDE DEF new, tierOf
  <2>. QED
    BY <1>12, <2>1
<1>14. suggested' \in Seq(D) /\ extras' \subseteq D
  <2>1. suggested \in Seq(D) /\ extras \subseteq D
    BY EmptySeq DEF Unasked
  <2>2. NumTrials \in 0 .. NumTrials
    BY <1>0, SMT
  <2>. HIDE DEF D, new, tierOf
  <2>3. PICK f \in [0 .. Len(new) -> Piles(D)] : SortedBy(f, new, tierOf)
    BY <1>11, <2>1, SortedSteps
  <2>4. Sorted(new, tierOf) \in Piles(D)
    BY <1>11, <2>2, <2>3 DEF SortedBy
  <2>. QED
    BY <1>13, <2>4 DEF Piles
<1>15. ASSUME NumTrials <= NumTiers PROVE suggested' = new /\ extras' = {}
  <2>1. \A i \in 1 .. NumTrials : tierOf[new[i]] = GridTier(n + i)
    <3>1. \A i \in 1 .. NumTrials : n + i \in D /\ n + i > n
      BY <1>0, <1>8, SMT
    <3>. QED
      BY <3>1, <1>10
  <2>2. ASSUME NEW i \in 1 .. NumTrials, NEW j \in 1 .. NumTrials,
               tierOf[new[i]] = tierOf[new[j]]
        PROVE  i = j
    <3>1. GridTier(n + i) = GridTier(n + j)
      BY <2>1, <2>2
    <3>2. /\ n + i \in Nat \ {0} /\ n + j \in Nat \ {0}
          /\ (n + i) - (n + j) < NumTiers /\ (n + j) - (n + i) < NumTiers
      BY <1>0, <1>15, SMT
    <3>. HIDE DEF n
    <3>3. n + i = n + j
      BY <3>1, <3>2, TiersApart
    <3>. QED
      BY <1>0, <3>3, SMT
  <2>3. suggested = <<>> /\ extras = {}
    BY DEF Unasked
  <2>. HIDE DEF D, new, tierOf
  <2>4. Sorted(new, tierOf) = [keep |-> new, drop |-> {}]
    BY <1>11, <2>2, <2>3, SortedDistinct
  <2>. QED
    BY <1>13, <2>4
<1>. QED
  BY <1>7, <1>9, <1>10, <1>14, <1>15
(* A round that asks again is given the same trials, when there are more   *)
(* of them than tiers.                                                     *)
LEMMA LaterRound ==
  ASSUME StoresOK, Asked, launches \in Nat, Suggest,
         \A t \in DOMAIN trials : trials[t].client = launches => trials[t].state = "ACTIVE"
  PROVE  /\ trials' = trials /\ NumTiers < NumTrials
         /\ suggested' \in Seq(DOMAIN trials) /\ extras' \subseteq DOMAIN trials
<1>. DEFINE n == Len(trials)
            D == DOMAIN trials
            S == First + 1 .. n
            own == InOrder(S)
            tierOf == [t \in DOMAIN trials' |-> trials'[t].tier]
<1>0. NumTrials \in Nat \ {0} /\ NumTiers \in Nat \ {0} /\ n \in Nat /\ D = 1 .. n
      /\ trials \in Seq(Trial) /\ NumTrials <= n /\ First \in Nat /\ First + NumTrials = n
  BY StudyAssumption, StoresAre, SMT DEF StoresOK, Asked, First
<1>1. OwnActive(launches) = S
  <2>1. \A t \in D : (trials[t].state = "ACTIVE" /\ trials[t].client = launches) <=> t > First
    BY DEF Asked
  <2>2. OwnActive(launches) = {t \in D : t > First}
    BY <2>1 DEF OwnActive
  <2>. HIDE DEF First
  <2>. QED
    BY <1>0, <2>2, SMT
<1>2. Cardinality(S) = NumTrials
  <2>1. First + 1 \in Int /\ n \in Int
    BY <1>0, SMT
  <2>. HIDE DEF n
  <2>2. Cardinality(S) = IF First + 1 > n THEN 0 ELSE n - (First + 1) + 1
    BY <2>1, FS_Interval
  <2>. QED
    BY <1>0, <2>2, SMT
<1>. HIDE DEF S
<1>3. Missing(NumTrials, launches) = 0
  BY <1>0, <1>1, <1>2, SMT DEF Missing
<1>4. Created(0, launches) = <<>> /\ [i \in 1 .. 0 |-> Len(trials) + i] = <<>>
  BY SMT DEF Created
<1>5. trials' = trials
  <2>1. trials' = trials \o Created(Missing(NumTrials, launches), launches)
    BY Zenon DEF Suggest, ClientId
  <2>2. trials \o <<>> = trials
    BY <1>0, ConcatEmptySeq
  <2>. QED
    BY <2>1, <2>2, <1>3, <1>4
<1>6. own \in Seq(D) /\ Len(own) = NumTrials
  <2>. DEFINE Ok(s) == \A i, j \in DOMAIN s : i < j => s[i] < s[j]
              w == [i \in 1 .. NumTrials |-> First + i]
  <2>1. w \in [1 .. NumTrials -> S]
    BY <1>0, SMT DEF S
  <2>2. Ok(w)
    BY <1>0, SMT
  <2>3. own = CHOOSE s \in [1 .. NumTrials -> S] : Ok(s)
    BY <1>2 DEF InOrder
  <2>4. own \in [1 .. NumTrials -> S]
    <3>. HIDE DEF Ok, own, w
    <3>. QED
      BY <2>1, <2>2, <2>3
  <2>5. S \subseteq D
    BY <1>0, SMT DEF S
  <2>. HIDE DEF own, D
  <2>6. own \in [1 .. NumTrials -> D]
    BY <2>4, <2>5
  <2>. QED
    BY <1>0, <2>6, SMT
<1>7. Given(NumTrials, launches) = own
  <2>1. own \o <<>> = own
    BY <1>6, ConcatEmptySeq
  <2>2. Given(NumTrials, launches) = SubSeq(own \o <<>>, 1, NumTrials)
    BY <1>1, <1>3, <1>4 DEF Given
  <2>. HIDE DEF own
  <2>. QED
    BY <1>6, <2>1, <2>2, SubSeqFull
<1>8. suggested' = Sorted(own, tierOf).keep /\ extras' = Sorted(own, tierOf).drop
  <2>1. /\ suggested' = Sorted(Given(NumTrials, launches), tierOf).keep
        /\ extras' = Sorted(Given(NumTrials, launches), tierOf).drop
    BY Zenon DEF Suggest, ClientId
  <2>. HIDE DEF own, tierOf
  <2>. QED
    BY <1>7, <2>1
<1>9. suggested' \in Seq(D) /\ extras' \subseteq D
  <2>1. suggested \in Seq(D) /\ extras \subseteq D
    BY DEF Asked
  <2>2. NumTrials \in 0 .. NumTrials
    BY <1>0, SMT
  <2>. HIDE DEF D, own, tierOf
  <2>3. PICK f \in [0 .. Len(own) -> Piles(D)] : SortedBy(f, own, tierOf)
    BY <1>6, <2>1, SortedSteps
  <2>4. Sorted(own, tierOf) \in Piles(D)
    BY <1>6, <2>2, <2>3 DEF SortedBy
  <2>. QED
    BY <1>8, <2>4 DEF Piles
<1>10. NumTiers < NumTrials
  <2>1. Cardinality(Have) < NumTrials
    BY DEF Suggest
  <2>2. NumTrials <= NumTiers => Cardinality(Have) = NumTrials
    BY HaveCounts
  <2>. QED
    BY <1>0, <2>1, <2>2, SMT
<1>. QED
  BY <1>5, <1>9, <1>10
-----------------------------------------------------------------------------
(* What became of the trials and runs of the launch.                       *)

AtTrials == phase = "tune" /\ at[0] \in ChiefPlaces \cup {"done"}

(* The trials before worker 0's turn are completed, the others active.     *)
Progress ==
  AtTrials =>
    /\ turn[0] \in 1 .. NumTrials + 1
    /\ at[0] = "done" <=> turn[0] = NumTrials + 1
    /\ \A i \in 1 .. NumTrials :
         trials[First + i].state = IF i < turn[0] THEN "COMPLETED" ELSE "ACTIVE"

Recording == {"session", "end_run", "metadata", "complete"}

(* A tune run is of a trial of the launch that started it, so that runs of *)
(* other launches do not get in the way; those of this launch are of the   *)
(* trials before worker 0's turn, and the last while it is recorded.       *)
RunsInv ==
  /\ \A r \in DOMAIN runs : runs[r].phase = "tune" =>
       /\ runs[r].trial \in DOMAIN trials
       /\ trials[runs[r].trial].client = runs[r].launch
  /\ TrainedOnce
  /\ \A r \in DOMAIN runs : runs[r].phase = "tune" /\ runs[r].launch = launches =>
       /\ at[0] \in ChiefPlaces \cup {"done", "off"}
       /\ at[0] \in ChiefPlaces =>
            runs[r].trial < First + turn[0] \/ (at[0] \in Recording /\ r = Len(runs))
  /\ at[0] \in Recording =>
       /\ Len(runs) \in DOMAIN runs /\ runs[Len(runs)].phase = phase
       /\ phase = "tune" => runs[Len(runs)].trial = First + turn[0]

(* The steps of recording a trial, each of which finds the one before done. *)
Recorded ==
  /\ at[0] \in {"metadata", "complete"} =>
       runs[Len(runs)].state = "FINISHED" /\ runs[Len(runs)].metric = metric
  /\ at[0] = "complete" => trials[First + turn[0]].run = Len(runs)
  /\ \A t \in Completed : trials[t].run \in DOMAIN runs
  /\ MetricOfItsRun

(* What a step may do that touches neither the stores nor the suggestions. *)
QuietMove ==
  /\ UNCHANGED <<phase, launches, suggested, extras, trials, runs>> /\ turn'[0] = turn[0]
  /\ hparams' \in [Workers -> Nat]
  /\ metric' = metric \/ at'[0] \notin {"metadata", "complete"}
  /\ \/ at'[0] \in {at[0], "off"}
     \/ at[0] \in {"start", "parent"} /\ at'[0] \in {"parent", "at_vizier"}
     \/ at[0] \in {"start", "parent"} /\ at'[0] = "best" /\ phase = "train-best"
     \/ at[0] = "at_vizier" /\ at'[0] = "suggest"
     \/ at[0] = "best" /\ at'[0] = "share" /\ phase = "train-best"
     \/ at[0] = "share" /\ at'[0] = "at_trial"
     \/ at[0] = "at_trial" /\ at'[0] = "train"
     \/ at[0] = "session" /\ at'[0] = "end_run"

AccountInv == StoresOK /\ AskInv /\ Progress /\ RunsInv /\ Recorded

LEMMA QuietKeeps == TypeOK /\ AccountInv /\ QuietMove => AccountInv'
<1>. SUFFICES ASSUME TypeOK, AccountInv, QuietMove PROVE AccountInv'
  OBVIOUS
<1>1. /\ phase' = phase /\ launches' = launches /\ suggested' = suggested /\ extras' = extras
      /\ trials' = trials /\ runs' = runs /\ turn'[0] = turn[0] /\ hparams' \in [Workers -> Nat]
  BY DEF QuietMove
<1>2. First' = First /\ Completed' = Completed
  BY <1>1 DEF First, Completed
<1>3. MetricOfItsRun' = MetricOfItsRun /\ TrainedOnce' = TrainedOnce
      /\ Unasked' = Unasked /\ Asked' = Asked
  BY <1>1, <1>2 DEF MetricOfItsRun, TrainedOnce, Unasked, Asked
<1>4. /\ at'[0] \in ChiefPlaces \cup {"done"} /\ phase = "tune" =>
           at[0] \in ChiefPlaces \cup {"done"} /\ (at'[0] = "done" <=> at[0] = "done")
      /\ at'[0] \in Recording =>
           at[0] \in Recording /\ (at'[0] # "end_run" => at'[0] = at[0] /\ (metric' = metric \/ at'[0] = "session"))
  BY DEF QuietMove, ChiefPlaces, Recording
<1>5. StoresOK'
  BY <1>1 DEF AccountInv, StoresOK, GridTier
<1>6. AskInv'
  <2>1. Unasked \/ Asked
    BY DEF AccountInv, AskInv
  <2>2. phase = "train-best" \/ at'[0] \in {"start", "parent", "at_vizier"} => Unasked
    BY DEF AccountInv, AskInv, QuietMove
  <2>3. at'[0] = "suggest" =>
       \A t \in DOMAIN trials : trials[t].client = launches => trials[t].state = "ACTIVE"
    BY DEF AccountInv, AskInv, QuietMove, Unasked
  <2>4. phase = "tune" /\ at'[0] \in ChiefPlaces \cup {"done"} => Asked /\ NumTrials <= NumTiers
    BY <1>4, Zenon DEF AccountInv, AskInv
  <2>. QED
    BY <1>1, <1>3, <2>1, <2>2, <2>3, <2>4 DEF AskInv
<1>7. Progress'
  BY <1>1, <1>2, <1>4, Zenon DEF AccountInv, Progress, AtTrials
<1>8. RunsInv'
  <2>1. ASSUME NEW r \in DOMAIN runs, runs[r].phase = "tune", runs[r].launch = launches
        PROVE  /\ at'[0] \in ChiefPlaces \cup {"done", "off"}
               /\ at'[0] \in ChiefPlaces =>
                   runs[r].trial < First + turn[0] \/ (at'[0] \in Recording /\ r = Len(runs))
    <3>1. /\ at[0] \in ChiefPlaces \cup {"done", "off"}
          /\ at[0] \in ChiefPlaces =>
               runs[r].trial < First + turn[0] \/ (at[0] \in Recording /\ r = Len(runs))
      BY <2>1, Zenon DEF AccountInv, RunsInv
    <3>2. at'[0] \in ChiefPlaces \cup {"done", "off"} /\ (at'[0] \in ChiefPlaces => at[0] \in ChiefPlaces)
      BY <3>1 DEF QuietMove, ChiefPlaces
    <3>3. at[0] \in Recording => at'[0] \in Recording \cup {"off"}
      BY DEF QuietMove, Recording
    <3>. QED
      BY <3>1, <3>2, <3>3 DEF ChiefPlaces
  <2>. QED
    BY <1>1, <1>2, <1>3, <1>4, <2>1, Zenon DEF AccountInv, RunsInv
<1>9. Recorded'
  <2>1. at'[0] \in {"metadata", "complete"} => at'[0] = at[0] /\ metric' = metric
    BY <1>4 DEF Recording
  <2>. QED
    BY <1>1, <1>2, <1>3, <2>1 DEF AccountInv, Recorded
<1>. QED
  BY <1>5, <1>6, <1>7, <1>8, <1>9 DEF AccountInv
LEMMA QuietSteps ==
  ASSUME StudyInv, StoresOK,
         \/ OpenExperiment \/ StartParentRun \/ PassVizierBarrier \/ GetBest \/ NoBestTrial
         \/ ShareParams \/ PassTrialBarrier \/ TrainSession \/ UNCHANGED vars
         \/ \E w \in Workers : Fail(w)
  PROVE  QuietMove
<1>. USE ZeroIsWorker DEF localVars, storeVars
<1>0. /\ at \in [Workers -> {at[w] : w \in Workers}] /\ turn \in [Workers -> Nat]
      /\ hparams \in [Workers -> Nat] /\ phase \in Phases
  BY DEF StudyInv, TypeOK, StoresOK
<1>1. ASSUME OpenExperiment \/ StartParentRun PROVE QuietMove
  BY <1>0, <1>1 DEF OpenExperiment, StartParentRun, Go, AfterParent, QuietMove, Phases
<1>2. ASSUME PassVizierBarrier PROVE QuietMove
  BY <1>0, <1>2 DEF PassVizierBarrier, GoApart, All, QuietMove
<1>3. ASSUME GetBest PROVE QuietMove
  <2>1. Optimal \subseteq Nat
    BY StoresAre, SMT DEF Optimal, Completed
  <2>2. hparams' \in [Workers -> Nat]
    BY <1>0, <1>3, <2>1 DEF GetBest
  <2>3. phase = "train-best"
    BY <1>3 DEF GetBest, StudyInv, ChiefHolds
  <2>. QED
    BY <1>0, <1>3, <2>2, <2>3 DEF GetBest, Go, QuietMove
<1>4. ASSUME NoBestTrial PROVE QuietMove
  BY <1>0, <1>4 DEF NoBestTrial, Go, QuietMove
<1>5. ASSUME ShareParams PROVE QuietMove
  BY <1>0, <1>5 DEF ShareParams, All, QuietMove
<1>6. ASSUME PassTrialBarrier PROVE QuietMove
  BY <1>0, <1>6 DEF PassTrialBarrier, All, GoApart, QuietMove
<1>7. ASSUME TrainSession PROVE QuietMove
  BY <1>0, <1>7 DEF TrainSession, All, QuietMove
<1>8. ASSUME UNCHANGED vars PROVE QuietMove
  BY <1>0, <1>8 DEF vars, QuietMove
<1>9. ASSUME NEW w \in Workers, Fail(w) PROVE QuietMove
  BY <1>0, <1>9 DEF Fail, Go, QuietMove
<1>. QED
  BY <1>1, <1>2, <1>3, <1>4, <1>5, <1>6, <1>7, <1>8, <1>9

LEMMA LaunchKeeps ==
  ASSUME StudyInv, AccountInv, Launch
  PROVE  AccountInv'
<1>1. /\ trials' = trials /\ runs' = runs /\ suggested' = <<>> /\ extras' = {}
      /\ launches' = launches + 1 /\ launches \in Nat /\ at'[0] = "start"
      /\ hparams' \in [Workers -> Nat]
  BY ZeroIsWorker DEF Launch, GoApart, storeVars, StudyInv, TypeOK
<1>2. StoresOK /\ RunsInv /\ Recorded
  BY DEF AccountInv
<1>3. \A t \in DOMAIN trials : trials[t].client \in Nat /\ trials[t].client <= launches
  BY <1>2, StoresAre DEF StoresOK, Trial
<1>4. \A r \in DOMAIN runs : runs[r].launch \in Nat /\ runs[r].launch <= launches
  BY <1>2, StoresAre DEF StoresOK, Run
<1>5. /\ \A t \in DOMAIN trials : trials[t].client <= launches' /\ trials[t].client # launches'
      /\ \A r \in DOMAIN runs : runs[r].launch <= launches' /\ runs[r].launch # launches'
  BY <1>1, <1>3, <1>4, SMT
<1>6. StoresOK'
  BY <1>1, <1>2, <1>5 DEF StoresOK, GridTier
<1>7. Unasked'
  BY <1>1, <1>5 DEF Unasked
<1>8. AskInv' /\ Progress'
  BY <1>1, <1>7, Zenon DEF AskInv, Progress, AtTrials, ChiefPlaces
<1>9. RunsInv'
  BY <1>1, <1>2, <1>5 DEF RunsInv, TrainedOnce, Recording, ChiefPlaces
<1>10. Recorded'
  BY <1>1, <1>2 DEF Recorded, MetricOfItsRun, Completed
<1>. QED
  BY <1>6, <1>8, <1>9, <1>10 DEF AccountInv

LEMMA FinishSuggestionsKeeps ==
  ASSUME StudyInv, AccountInv, FinishSuggestions
  PROVE  AccountInv'
<1>0. StoresOK /\ AskInv /\ RunsInv /\ Recorded /\ at[0] = "suggest" /\ phase = "tune"
      /\ NumTrials \in Nat \ {0} /\ NumTiers \in Nat \ {0}
  BY StudyAssumption DEF AccountInv, FinishSuggestions, StudyInv, ChiefHolds, TypeOK, Phases
<1>1. Asked
  <2>1. ASSUME Unasked PROVE FALSE
    <3>1. Have = {}
      BY <2>1 DEF Unasked, Have
    <3>2. Cardinality(Have) = 0
      BY <3>1, FS_EmptySet
    <3>. QED
      BY <1>0, <3>2, SMT DEF FinishSuggestions
  <2>. QED
    BY <1>0, <2>1 DEF AskInv
<1>2. NumTrials <= NumTiers
  <2>1. ASSUME NumTiers < NumTrials PROVE FALSE
    <3>1. Cardinality(Have) < NumTrials
      BY <1>0, <1>1, <2>1, HaveCounts
    <3>2. Cardinality(Have) >= NumTrials
      BY DEF FinishSuggestions
    <3>3. Cardinality(Have) \in Int
      <4>1. Have \subseteq 0 .. NumTiers - 1
        <5>1. \A i \in DOMAIN suggested : suggested[i] \in DOMAIN trials
          BY <1>1, LenProperties, ElementOfSeq DEF Asked
        <5>2. \A t \in DOMAIN trials : TierOf(t) \in 0 .. NumTiers - 1
          BY <1>0, StoresAre DEF TierOf, Trial
        <5>. QED
          BY <5>1, <5>2 DEF Have
      <4>2. 0 \in Int /\ NumTiers - 1 \in Int
        BY <1>0, SMT
      <4>3. IsFiniteSet(0 .. NumTiers - 1)
        BY <4>2, FS_Interval
      <4>4. Cardinality(Have) \in Nat
        BY <4>1, <4>3, FS_Subset, FS_CardinalityType
      <4>. QED
        BY <4>4, SMT
    <3>. QED
      BY <1>0, <3>1, <3>2, <3>3, SMT
  <2>. QED
    BY <1>0, <2>1, SMT
<1>3. suggested = [i \in 1 .. NumTrials |-> First + i] /\ extras = {} /\ NumTrials <= Len(trials)
  BY <1>1, <1>2 DEF Asked
<1>4. Len(trials) \in Nat /\ DOMAIN trials = 1 .. Len(trials) /\ First \in Nat
  BY <1>0, <1>3, StoresAre, SMT DEF First
<1>5. trials' = trials
  <2>1. trials' = [t \in DOMAIN trials |-> trials[t]]
    BY <1>3 DEF FinishSuggestions
  <2>2. trials \in [1 .. Len(trials) -> Trial]
    BY <1>0, LenProperties DEF StoresOK
  <2>. QED
    BY <2>1, <2>2
<1>6. /\ runs' = runs /\ phase' = phase /\ launches' = launches /\ suggested' = suggested
      /\ extras' = {} /\ turn' = turn /\ at'[0] = "share"
  BY ZeroIsWorker DEF FinishSuggestions, Go, StudyInv, TypeOK
<1>7. hparams' \in [Workers -> Nat]
  <2>1. 1 \in 1 .. NumTrials
    BY <1>0, SMT
  <2>2. suggested[1] = First + 1
    BY <1>3, <2>1
  <2>3. suggested[1] \in Nat
    BY <1>4, <2>2, SMT
  <2>. QED
    BY <1>0, <2>3 DEF FinishSuggestions, StoresOK
<1>8. First' = First /\ Completed' = Completed /\ Asked'
  BY <1>1, <1>3, <1>5, <1>6 DEF First, Completed, Asked
<1>9. StoresOK'
  BY <1>0, <1>5, <1>6, <1>7 DEF StoresOK, GridTier
<1>10. AskInv'
  BY <1>0, <1>2, <1>6, <1>8, Zenon DEF AskInv, ChiefPlaces
<1>11. turn[0] = 1
  BY <1>0 DEF StudyInv, ChiefHolds
<1>12. Progress'
  <2>1. \A i \in 1 .. NumTrials : trials[First + i].state = "ACTIVE"
    <3>1. \A i \in 1 .. NumTrials : First + i \in DOMAIN trials /\ First + i > First
      BY <1>0, <1>3, <1>4, SMT DEF First
    <3>2. \A t \in DOMAIN trials : t > First => trials[t].client = launches
      BY <1>1 DEF Asked
    <3>. QED
      BY <1>0, <3>1, <3>2 DEF AskInv
  <2>2. \A i \in 1 .. NumTrials : ~(i < 1)
    BY <1>0, SMT
  <2>3. 1 \in 1 .. NumTrials + 1 /\ 1 # NumTrials + 1
    BY <1>0, SMT
  <2>. QED
    BY <1>5, <1>6, <1>8, <1>11, <2>1, <2>2, <2>3, Zenon DEF Progress
<1>13. RunsInv'
  <2>1. \A r \in DOMAIN runs : ~(runs[r].phase = "tune" /\ runs[r].launch = launches)
    BY <1>0 DEF RunsInv, ChiefPlaces
  <2>2. TrainedOnce'
    BY <1>0, <1>6 DEF RunsInv, TrainedOnce
  <2>. QED
    BY <1>0, <1>5, <1>6, <2>1, <2>2, Zenon DEF RunsInv, Recording
<1>14. Recorded'
  <2>1. MetricOfItsRun'
    BY <1>0, <1>5, <1>6, <1>8 DEF Recorded, MetricOfItsRun
  <2>. QED
    BY <1>0, <1>5, <1>6, <1>8, <2>1, Zenon DEF Recorded
<1>. QED
  BY <1>9, <1>10, <1>12, <1>13, <1>14 DEF AccountInv
LEMMA SuggestKeeps ==
  ASSUME StudyInv, AccountInv, Suggest
  PROVE  AccountInv'
<1>0. StoresOK /\ AskInv /\ RunsInv /\ Recorded /\ at[0] = "suggest" /\ phase = "tune"
      /\ NumTrials \in Nat \ {0} /\ launches \in Nat
  BY StudyAssumption DEF AccountInv, Suggest, StudyInv, ChiefHolds, TypeOK, Phases
<1>1. /\ at' = at /\ phase' = phase /\ launches' = launches /\ runs' = runs
      /\ hparams' = hparams
  BY Zenon DEF Suggest
<1>2. \A t \in DOMAIN trials : trials[t].client = launches => trials[t].state = "ACTIVE"
  BY <1>0 DEF AskInv
<1>3. Len(trials) \in Nat /\ DOMAIN trials = 1 .. Len(trials)
  BY <1>0, StoresAre
<1>. DEFINE Done == /\ StoresOK' /\ Asked'
                    /\ \A t \in DOMAIN trials : t \in DOMAIN trials' /\ trials'[t] = trials[t]
                    /\ \A t \in DOMAIN trials' \ DOMAIN trials :
                         trials'[t].state = "ACTIVE" /\ trials'[t].client = launches
<1>4. ASSUME Unasked PROVE Done
  <2>1. /\ trials' \in Seq(Trial) /\ Len(trials') = Len(trials) + NumTrials
        /\ \A t \in DOMAIN trials : trials'[t] = trials[t]
        /\ \A t \in DOMAIN trials' : t > Len(trials) =>
             trials'[t] = [tier |-> GridTier(t), state |-> "ACTIVE", client |-> launches,
                           metric |-> -1, run |-> 0]
        /\ suggested' \in Seq(DOMAIN trials') /\ extras' \subseteq DOMAIN trials'
        /\ NumTrials <= NumTiers =>
             suggested' = [i \in 1 .. NumTrials |-> Len(trials) + i] /\ extras' = {}
    BY <1>0, <1>4, FirstRound
  <2>2. DOMAIN trials' = 1 .. Len(trials) + NumTrials
    BY <2>1, LenProperties
  <2>3. First' = Len(trials) /\ NumTrials <= Len(trials')
    BY <1>0, <1>3, <2>1, SMT DEF First
  <2>4. \A t \in DOMAIN trials : t \in DOMAIN trials' /\ ~(t > Len(trials))
    BY <1>0, <1>3, <2>2, SMT
  <2>5. \A t \in DOMAIN trials' \ DOMAIN trials : t > Len(trials)
    BY <1>0, <1>3, <2>2, SMT
  <2>6. \A t \in DOMAIN trials' \ DOMAIN trials :
          /\ trials'[t].state = "ACTIVE" /\ trials'[t].client = launches
          /\ trials'[t].tier = GridTier(t)
    BY <2>1, <2>5
  <2>7. launches <= launches
    BY <1>0, SMT
  <2>8. StoresOK'
    <3>1. \A t \in DOMAIN trials' : trials'[t].tier = GridTier(t) /\ trials'[t].client <= launches
      BY <1>0, <2>1, <2>6, <2>7 DEF StoresOK
    <3>. QED
      BY <1>0, <1>1, <2>1, <3>1 DEF StoresOK, GridTier
  <2>9. \A t \in DOMAIN trials' : trials'[t].client = launches <=> t > Len(trials)
    BY <1>4, <2>1, <2>4, <2>5, <2>6 DEF Unasked
  <2>10. Asked'
    BY <1>1, <2>1, <2>3, <2>9 DEF Asked
  <2>. QED
    BY <2>1, <2>4, <2>6, <2>8, <2>10
<1>5. ASSUME Asked PROVE Done
  <2>1. /\ trials' = trials /\ NumTiers < NumTrials
        /\ suggested' \in Seq(DOMAIN trials) /\ extras' \subseteq DOMAIN trials
    BY <1>0, <1>2, <1>5, LaterRound
  <2>2. StoresOK'
    BY <1>0, <1>1, <2>1 DEF StoresOK, GridTier
  <2>3. First' = First /\ ~(NumTrials <= NumTiers)
    BY <2>1, StudyAssumption, SMT DEF First
  <2>4. Asked'
    BY <1>1, <1>5, <2>1, <2>3 DEF Asked
  <2>. QED
    BY <2>1, <2>2, <2>4
<1>6. Done
  BY <1>0, <1>4, <1>5 DEF AskInv
<1>7. \A t \in DOMAIN trials' : trials'[t].client = launches => trials'[t].state = "ACTIVE"
  BY <1>2, <1>6
<1>8. AskInv' /\ Progress'
  BY <1>0, <1>1, <1>6, <1>7, Zenon DEF AskInv, Progress, AtTrials, ChiefPlaces
<1>9. RunsInv'
  <2>1. \A r \in DOMAIN runs : ~(runs[r].phase = "tune" /\ runs[r].launch = launches)
    BY <1>0 DEF RunsInv, ChiefPlaces
  <2>2. \A r \in DOMAIN runs : runs[r].phase = "tune" =>
          runs[r].trial \in DOMAIN trials' /\ trials'[runs[r].trial].client = runs[r].launch
    BY <1>0, <1>6 DEF RunsInv
  <2>3. TrainedOnce'
    BY <1>0, <1>1 DEF RunsInv, TrainedOnce
  <2>. QED
    BY <1>0, <1>1, <2>1, <2>2, <2>3, Zenon DEF RunsInv, Recording
<1>10. Recorded'
  <2>1. \A t \in Completed' : t \in Completed /\ trials'[t] = trials[t]
    BY <1>6 DEF Completed
  <2>2. MetricOfItsRun'
    BY <1>0, <1>1, <2>1 DEF Recorded, MetricOfItsRun
  <2>. QED
    BY <1>0, <1>1, <2>1, <2>2, Zenon DEF Recorded
<1>. QED
  BY <1>6, <1>8, <1>9, <1>10 DEF AccountInv

(* While worker 0 is at its trials, its turn is at the one it trains.      *)
LEMMA TurnIs ==
  ASSUME StudyInv, AccountInv, phase = "tune", at[0] \in ChiefPlaces
  PROVE  /\ turn[0] \in 1 .. NumTrials /\ First \in Nat /\ Asked /\ NumTrials <= NumTiers
         /\ \A i \in 1 .. NumTrials : suggested[i] = First + i /\ First + i \in DOMAIN trials
         /\ trials[First + turn[0]].state = "ACTIVE"
         /\ trials[First + turn[0]].client = launches
         /\ hparams[0] = First + turn[0]
<1>1. StoresOK /\ AskInv /\ Progress /\ AtTrials /\ at[0] # "done"
      /\ NumTrials \in Nat \ {0} /\ NumTiers \in Nat \ {0}
  BY StudyAssumption DEF AccountInv, AtTrials, ChiefPlaces
<1>2. Asked /\ NumTrials <= NumTiers
  BY <1>1 DEF AskInv, AtTrials
<1>3. turn[0] \in 1 .. NumTrials
  BY <1>1, SMT DEF Progress
<1>4. Len(trials) \in Nat /\ DOMAIN trials = 1 .. Len(trials) /\ First \in Nat
  BY <1>1, <1>2, StoresAre, SMT DEF Asked, First
<1>5. \A i \in 1 .. NumTrials : suggested[i] = First + i
  BY <1>2 DEF Asked
<1>6. \A i \in 1 .. NumTrials : First + i \in DOMAIN trials /\ First + i > First
  BY <1>1, <1>2, <1>4, SMT DEF Asked, First
<1>7. trials[First + turn[0]].state = "ACTIVE"
  <2>1. ~(turn[0] < turn[0])
    BY <1>3, SMT
  <2>. QED
    BY <1>1, <1>3, <2>1 DEF Progress
<1>8. trials[First + turn[0]].client = launches
  BY <1>2, <1>3, <1>6 DEF Asked
<1>9. hparams[0] = First + turn[0]
  BY <1>3, <1>5 DEF StudyInv, ChiefHolds
<1>. QED
  BY <1>2, <1>3, <1>4, <1>5, <1>6, <1>7, <1>8, <1>9
LEMMA StartRunKeeps ==
  ASSUME StudyInv, AccountInv, StartRun
  PROVE  AccountInv'
<1>. DEFINE new == [phase |-> phase, trial |-> hparams[0], state |-> "RUNNING",
                    metric |-> -1, launch |-> launches]
            L == Len(runs)
<1>0. StoresOK /\ AskInv /\ Progress /\ RunsInv /\ Recorded /\ at[0] = "train"
      /\ launches \in Nat /\ phase \in Phases
  BY DEF AccountInv, StartRun, StudyInv, TypeOK
<1>1. /\ runs' = Append(runs, new) /\ at'[0] = "session"
      /\ phase' = phase /\ launches' = launches /\ suggested' = suggested /\ extras' = extras
      /\ turn' = turn /\ hparams' = hparams /\ metric' = metric /\ trials' = trials
  BY ZeroIsWorker DEF StartRun, Go, localVars, StudyInv, TypeOK
<1>2. new \in Run
  BY <1>0, ZeroIsWorker DEF StoresOK, Run
<1>3. new.phase = phase /\ new.trial = hparams[0] /\ new.launch = launches
  OBVIOUS
<1>. HIDE DEF new
<1>4. L \in Nat /\ DOMAIN runs = 1 .. L /\ runs \in Seq(Run)
  BY <1>0, StoresAre DEF StoresOK
<1>5. /\ runs' \in Seq(Run) /\ Len(runs') = L + 1 /\ runs'[L + 1] = new
      /\ \A r \in 1 .. L : runs'[r] = runs[r]
  BY <1>1, <1>2, <1>4, AppendProperties
<1>6. DOMAIN runs' = 1 .. L + 1
  BY <1>5, LenProperties
<1>7. /\ \A r \in DOMAIN runs : r \in DOMAIN runs' /\ runs'[r] = runs[r]
      /\ \A r \in DOMAIN runs' : r = L + 1 \/ r \in DOMAIN runs
      /\ L + 1 \in DOMAIN runs' /\ launches <= launches
  BY <1>0, <1>4, <1>5, <1>6, SMT
<1>8. First' = First /\ Completed' = Completed /\ Unasked' = Unasked /\ Asked' = Asked
  BY <1>1 DEF First, Completed, Unasked, Asked
<1>9. StoresOK'
  <2>1. \A r \in DOMAIN runs' : runs'[r].launch <= launches
    BY <1>0, <1>3, <1>5, <1>7 DEF StoresOK
  <2>. QED
    BY <1>0, <1>1, <1>5, <2>1 DEF StoresOK, GridTier
<1>10. AskInv' /\ Progress'
  BY <1>0, <1>1, <1>8, Zenon DEF AskInv, Progress, AtTrials, ChiefPlaces
<1>11. RunsInv'
  <2>1. CASE phase = "tune"
    <3>1. /\ turn[0] \in 1 .. NumTrials /\ hparams[0] = First + turn[0] /\ First \in Nat
          /\ First + turn[0] \in DOMAIN trials /\ trials[First + turn[0]].client = launches
      BY <1>0, <2>1, TurnIs DEF ChiefPlaces
    <3>2. \A r \in DOMAIN runs : runs[r].phase = "tune" /\ runs[r].launch = launches =>
            runs[r].trial < First + turn[0]
      BY <1>0 DEF RunsInv, ChiefPlaces, Recording
    <3>3. \A r \in DOMAIN runs : runs[r].phase = "tune" => runs[r].trial # First + turn[0]
      <4>1. ~(First + turn[0] < First + turn[0])
        BY <3>1, SMT
      <4>. QED
        BY <1>0, <3>1, <3>2, <4>1 DEF RunsInv
    <3>4. TrainedOnce'
      <4>1. ASSUME NEW q \in DOMAIN runs', NEW r \in DOMAIN runs', runs'[q].phase = "tune",
                   runs'[r].phase = "tune", runs'[q].trial = runs'[r].trial
            PROVE  q = r
        <5>1. CASE q \in DOMAIN runs /\ r \in DOMAIN runs
          BY <1>0, <1>7, <4>1, <5>1 DEF RunsInv, TrainedOnce
        <5>2. CASE q = L + 1 /\ r = L + 1
          BY <5>2
        <5>3. CASE q \in DOMAIN runs /\ r = L + 1
          BY <1>3, <1>5, <1>7, <3>1, <3>3, <4>1, <5>3
        <5>4. CASE q = L + 1 /\ r \in DOMAIN runs
          BY <1>3, <1>5, <1>7, <3>1, <3>3, <4>1, <5>4
        <5>. QED
          BY <1>7, <5>1, <5>2, <5>3, <5>4
      <4>. QED
        BY <4>1, Zenon DEF TrainedOnce
    <3>5. \A r \in DOMAIN runs' : runs'[r].phase = "tune" =>
            runs'[r].trial \in DOMAIN trials /\ trials[runs'[r].trial].client = runs'[r].launch
      BY <1>0, <1>3, <1>5, <1>7, <3>1 DEF RunsInv
    <3>6. \A r \in DOMAIN runs' : runs'[r].phase = "tune" /\ runs'[r].launch = launches =>
            runs'[r].trial < First + turn[0] \/ r = Len(runs')
      BY <1>5, <1>7, <3>2
    <3>7. Len(runs') \in DOMAIN runs' /\ runs'[Len(runs')].phase = phase
          /\ runs'[Len(runs')].trial = First + turn[0]
      BY <1>3, <1>5, <1>7, <3>1
    <3>. QED
      BY <1>1, <1>8, <3>4, <3>5, <3>6, <3>7, Zenon DEF RunsInv, ChiefPlaces, Recording
  <2>2. CASE phase = "train-best"
    <3>1. \A r \in DOMAIN runs' : runs'[r].phase = "tune" =>
            r \in DOMAIN runs /\ runs'[r] = runs[r]
      BY <1>3, <1>5, <1>7, <2>2
    <3>2. TrainedOnce'
      BY <1>0, <3>1 DEF RunsInv, TrainedOnce
    <3>3. Len(runs') \in DOMAIN runs' /\ runs'[Len(runs')].phase = phase
      BY <1>3, <1>5, <1>7
    <3>4. \A r \in DOMAIN runs' : runs'[r].phase = "tune" /\ runs'[r].launch = launches =>
            runs'[r].trial < First + turn[0]
      BY <1>0, <3>1 DEF RunsInv, ChiefPlaces, Recording
    <3>5. \A r \in DOMAIN runs' : runs'[r].phase = "tune" =>
            runs'[r].trial \in DOMAIN trials /\ trials[runs'[r].trial].client = runs'[r].launch
      BY <1>0, <3>1 DEF RunsInv
    <3>. QED
      BY <1>1, <1>8, <2>2, <3>2, <3>3, <3>4, <3>5, Zenon DEF RunsInv, ChiefPlaces, Recording
  <2>. QED
    BY <1>0, <2>1, <2>2 DEF Phases
<1>12. Recorded'
  <2>1. \A t \in Completed : trials[t].run \in DOMAIN runs' /\ runs'[trials[t].run] = runs[trials[t].run]
    BY <1>0, <1>7 DEF Recorded
  <2>2. MetricOfItsRun'
    BY <1>0, <1>1, <1>8, <2>1 DEF Recorded, MetricOfItsRun
  <2>. QED
    BY <1>1, <1>8, <2>1, <2>2, Zenon DEF Recorded
<1>. QED
  BY <1>9, <1>10, <1>11, <1>12 DEF AccountInv

LEMMA RunFinished ==
  ASSUME StoresOK, metric \in Scores \cup {-1}, Len(runs) \in DOMAIN runs, runs' = FinishedRuns
  PROVE  /\ runs' \in Seq(Run) /\ Len(runs') = Len(runs) /\ DOMAIN runs' = DOMAIN runs
         /\ \A r \in DOMAIN runs : /\ runs'[r].phase = runs[r].phase
                                   /\ runs'[r].trial = runs[r].trial
                                   /\ runs'[r].launch = runs[r].launch
                                   /\ r # Len(runs) => runs'[r] = runs[r]
         /\ runs'[Len(runs)].state = "FINISHED" /\ runs'[Len(runs)].metric = metric
<1>. DEFINE L == Len(runs)
            e == [runs[L] EXCEPT !.state = "FINISHED", !.metric = metric]
<1>1. runs \in Seq(Run) /\ DOMAIN runs = 1 .. L /\ L \in 1 .. L /\ runs[L] \in Run
  BY StoresAre DEF StoresOK
<1>2. e \in Run /\ e.phase = runs[L].phase /\ e.trial = runs[L].trial
      /\ e.launch = runs[L].launch /\ e.state = "FINISHED" /\ e.metric = metric
  BY <1>1 DEF Run
<1>3. runs' = [runs EXCEPT ![L] = e]
  BY DEF FinishedRuns
<1>. HIDE DEF e
<1>4. /\ runs' \in Seq(Run) /\ Len(runs') = L
      /\ \A r \in 1 .. L : runs'[r] = IF r = L THEN e ELSE runs[r]
  BY <1>1, <1>2, <1>3, ExceptSeq
<1>5. DOMAIN runs' = 1 .. L
  BY <1>4, LenProperties
<1>. QED
  BY <1>1, <1>2, <1>4, <1>5

LEMMA EndKeeps ==
  ASSUME StudyInv, AccountInv, EndRun \/ RaiseInSession
  PROVE  AccountInv'
<1>. DEFINE L == Len(runs)
<1>0. StoresOK /\ AskInv /\ Progress /\ RunsInv /\ Recorded /\ at[0] \in {"session", "end_run"}
      /\ launches \in Nat /\ phase \in Phases /\ metric \in Scores \cup {-1}
  BY DEF AccountInv, EndRun, RaiseInSession, StudyInv, TypeOK
<1>1. /\ runs' = FinishedRuns
      /\ phase' = phase /\ launches' = launches /\ suggested' = suggested /\ extras' = extras
      /\ turn' = turn /\ hparams' = hparams /\ metric' = metric /\ trials' = trials
      /\ at'[0] \in {"metadata", "done", "off"}
      /\ at'[0] = "metadata" => phase = "tune"
      /\ at'[0] = "done" => phase = "train-best"
  BY <1>0, ZeroIsWorker DEF EndRun, RaiseInSession, Go, localVars, StudyInv, TypeOK, Phases
<1>2. L \in DOMAIN runs /\ runs[L].phase = phase /\ (phase = "tune" => runs[L].trial = First + turn[0])
  BY <1>0 DEF RunsInv, Recording
<1>3. /\ runs' \in Seq(Run) /\ Len(runs') = L /\ DOMAIN runs' = DOMAIN runs
      /\ \A r \in DOMAIN runs : /\ runs'[r].phase = runs[r].phase
                                /\ runs'[r].trial = runs[r].trial
                                /\ runs'[r].launch = runs[r].launch
                                /\ r # L => runs'[r] = runs[r]
      /\ runs'[L].state = "FINISHED" /\ runs'[L].metric = metric
  BY <1>0, <1>1, <1>2, RunFinished
<1>4. First' = First /\ Completed' = Completed /\ Unasked' = Unasked /\ Asked' = Asked
  BY <1>1 DEF First, Completed, Unasked, Asked
<1>5. StoresOK'
  BY <1>0, <1>1, <1>3 DEF StoresOK, GridTier
<1>6. AskInv' /\ Progress'
  BY <1>0, <1>1, <1>4, Zenon DEF AskInv, Progress, AtTrials, ChiefPlaces
<1>7. RunsInv'
  <2>1. TrainedOnce'
    BY <1>0, <1>3 DEF RunsInv, TrainedOnce
  <2>2. \A r \in DOMAIN runs' : runs'[r].phase = "tune" /\ runs'[r].launch = launches =>
          runs'[r].trial < First + turn[0] \/ r = L
    BY <1>0, <1>3 DEF RunsInv, ChiefPlaces
  <2>3. \A r \in DOMAIN runs' : runs'[r].phase = "tune" =>
          runs'[r].trial \in DOMAIN trials /\ trials[runs'[r].trial].client = runs'[r].launch
    BY <1>0, <1>3 DEF RunsInv
  <2>4. at'[0] \in ChiefPlaces \cup {"done", "off"} /\ (at'[0] \in ChiefPlaces => at'[0] = "metadata")
    BY <1>1 DEF ChiefPlaces
  <2>5. \A r \in DOMAIN runs' : runs'[r].phase = "tune" /\ runs'[r].launch = launches =>
          /\ at'[0] \in ChiefPlaces \cup {"done", "off"}
          /\ at'[0] \in ChiefPlaces =>
               runs'[r].trial < First + turn[0] \/ (at'[0] \in Recording /\ r = Len(runs'))
    BY <1>3, <2>2, <2>4 DEF Recording
  <2>6. /\ Len(runs') \in DOMAIN runs' /\ runs'[Len(runs')].phase = phase
        /\ phase = "tune" => runs'[Len(runs')].trial = First + turn[0]
    BY <1>2, <1>3
  <2>. QED
    BY <1>1, <1>4, <2>1, <2>3, <2>5, <2>6, Zenon DEF RunsInv
<1>8. Recorded'
  <2>1. \A t \in Completed : trials[t].run # L
    <3>1. CASE phase = "tune"
      <4>1. trials[First + turn[0]].state = "ACTIVE"
        BY <1>0, <3>1, TurnIs DEF ChiefPlaces
      <4>. QED
        BY <1>0, <1>2, <3>1, <4>1 DEF Recorded, MetricOfItsRun, Completed
    <3>2. CASE phase = "train-best"
      BY <1>0, <1>2, <3>2 DEF Recorded, MetricOfItsRun
    <3>. QED
      BY <1>0, <3>1, <3>2 DEF Phases
  <2>2. \A t \in Completed : trials[t].run \in DOMAIN runs' /\ runs'[trials[t].run] = runs[trials[t].run]
    BY <1>0, <1>3, <2>1 DEF Recorded
  <2>3. MetricOfItsRun'
    BY <1>0, <1>1, <1>4, <2>2 DEF Recorded, MetricOfItsRun
  <2>. QED
    BY <1>1, <1>3, <1>4, <2>2, <2>3, Zenon DEF Recorded
<1>. QED
  BY <1>5, <1>6, <1>7, <1>8 DEF AccountInv
(* Worker 0 writes to the trial of its turn and to no other.               *)
LEMMA TrialWritten ==
  ASSUME StudyInv, AccountInv, phase = "tune", at[0] \in ChiefPlaces, NEW e \in Trial,
         e.tier = trials[First + turn[0]].tier, e.client = launches,
         trials' = [trials EXCEPT ![First + turn[0]] = e],
         runs' = runs, launches' = launches, suggested' = suggested, extras' = extras,
         hparams' \in [Workers -> Nat]
  PROVE  /\ StoresOK' /\ Asked' /\ First' = First /\ DOMAIN trials' = DOMAIN trials
         /\ First + turn[0] \in DOMAIN trials
         /\ trials'[First + turn[0]] = e
         /\ \A t \in DOMAIN trials : trials'[t].client = trials[t].client
         /\ \A t \in DOMAIN trials : t # First + turn[0] => trials'[t] = trials[t]
<1>. DEFINE k == First + turn[0]
<1>0. StoresOK
  BY DEF AccountInv
<1>1. /\ k \in DOMAIN trials /\ Asked /\ trials[k].client = launches
      /\ trials \in Seq(Trial) /\ DOMAIN trials = 1 .. Len(trials) /\ k \in 1 .. Len(trials)
  BY <1>0, TurnIs, StoresAre DEF StoresOK
<1>. HIDE DEF k
<1>2. trials' = [trials EXCEPT ![k] = e]
  BY DEF k
<1>3. /\ trials' \in Seq(Trial) /\ Len(trials') = Len(trials)
      /\ \A t \in 1 .. Len(trials) : trials'[t] = IF t = k THEN e ELSE trials[t]
  <2>1. /\ [trials EXCEPT ![k] = e] \in Seq(Trial)
        /\ Len([trials EXCEPT ![k] = e]) = Len(trials)
        /\ \A t \in 1 .. Len(trials) :
             [trials EXCEPT ![k] = e][t] = IF t = k THEN e ELSE trials[t]
    BY <1>1, ExceptSeq
  <2>. QED
    BY <1>2, <2>1, Zenon
<1>4. DOMAIN trials' = DOMAIN trials
  BY <1>1, <1>3, LenProperties
<1>5. \A t \in DOMAIN trials : trials'[t].client = trials[t].client /\ trials'[t].tier = trials[t].tier
  BY <1>1, <1>3 DEF k
<1>6. First' = First
  BY <1>3 DEF First
<1>7. StoresOK'
  BY <1>0, <1>3, <1>4, <1>5 DEF StoresOK, GridTier
<1>8. Asked'
  BY <1>1, <1>3, <1>4, <1>5, <1>6 DEF Asked
<1>. QED
  BY <1>1, <1>3, <1>4, <1>5, <1>6, <1>7, <1>8 DEF k

LEMMA UpdateMetadataKeeps ==
  ASSUME StudyInv, AccountInv, UpdateMetadata
  PROVE  AccountInv'
<1>. DEFINE k == First + turn[0]
            e == [trials[k] EXCEPT !.run = Len(runs)]
<1>0. StoresOK /\ AskInv /\ Progress /\ RunsInv /\ Recorded /\ at[0] = "metadata" /\ phase = "tune"
      /\ at[0] \in ChiefPlaces
  BY DEF AccountInv, UpdateMetadata, StudyInv, ChiefHolds, TypeOK, Phases, ChiefPlaces
<1>1. /\ turn[0] \in 1 .. NumTrials /\ suggested[turn[0]] = k /\ k \in DOMAIN trials
      /\ trials[k].state = "ACTIVE" /\ trials[k].client = launches /\ First \in Nat
      /\ NumTrials <= NumTiers
  BY <1>0, TurnIs
<1>2. /\ trials' = [trials EXCEPT ![k].run = Len(runs)] /\ at'[0] = "complete"
      /\ phase' = phase /\ launches' = launches /\ suggested' = suggested /\ extras' = extras
      /\ turn' = turn /\ hparams' = hparams /\ metric' = metric /\ runs' = runs
  BY <1>1, ZeroIsWorker DEF UpdateMetadata, Go, localVars, StudyInv, TypeOK
<1>3. trials[k] \in Trial /\ Len(runs) \in Nat
  BY <1>0, <1>1, StoresAre
<1>4. /\ e \in Trial /\ e.tier = trials[k].tier /\ e.client = launches
      /\ e.state = "ACTIVE" /\ e.run = Len(runs)
  BY <1>1, <1>3 DEF Trial
<1>5. trials' = [trials EXCEPT ![k] = e]
  BY <1>2
<1>6. hparams' \in [Workers -> Nat]
  BY <1>0, <1>2 DEF StoresOK
<1>. HIDE DEF e
<1>7. /\ StoresOK' /\ Asked' /\ First' = First /\ DOMAIN trials' = DOMAIN trials
      /\ trials'[k] = e
      /\ \A t \in DOMAIN trials : trials'[t].client = trials[t].client
      /\ \A t \in DOMAIN trials : t # k => trials'[t] = trials[t]
  BY <1>0, <1>2, <1>4, <1>5, <1>6, TrialWritten
<1>8. \A t \in DOMAIN trials : trials'[t].state = trials[t].state
  BY <1>1, <1>4, <1>7
<1>9. AskInv'
  BY <1>0, <1>1, <1>2, <1>7, Zenon DEF AskInv
<1>10. Progress'
  <2>1. \A i \in 1 .. NumTrials : First + i \in DOMAIN trials
    BY <1>0, TurnIs
  <2>2. \A i \in 1 .. NumTrials :
          trials'[First + i].state = IF i < turn[0] THEN "COMPLETED" ELSE "ACTIVE"
    BY <1>0, <1>8, <2>1 DEF Progress, AtTrials
  <2>3. turn[0] \in 1 .. NumTrials + 1 /\ turn[0] # NumTrials + 1
    BY <1>1, StudyAssumption, SMT
  <2>. QED
    BY <1>2, <1>7, <2>2, <2>3, Zenon DEF Progress
<1>11. RunsInv'
  <2>1. TrainedOnce'
    BY <1>0, <1>2 DEF RunsInv, TrainedOnce
  <2>2. \A r \in DOMAIN runs : runs[r].phase = "tune" =>
          runs[r].trial \in DOMAIN trials' /\ trials'[runs[r].trial].client = runs[r].launch
    BY <1>0, <1>7 DEF RunsInv
  <2>3. at'[0] \in Recording /\ at'[0] \in ChiefPlaces
    BY <1>2 DEF Recording, ChiefPlaces
  <2>4. \A r \in DOMAIN runs : runs[r].phase = "tune" /\ runs[r].launch = launches =>
          runs[r].trial < First + turn[0] \/ r = Len(runs)
    BY <1>0 DEF RunsInv
  <2>5. /\ Len(runs) \in DOMAIN runs /\ runs[Len(runs)].phase = phase
        /\ runs[Len(runs)].trial = First + turn[0]
    BY <1>0 DEF RunsInv, Recording
  <2>. QED
    BY <1>2, <1>7, <2>1, <2>2, <2>3, <2>4, <2>5, Zenon DEF RunsInv
<1>12. Recorded'
  <2>1. \A t \in Completed' : t \in Completed /\ t # k /\ trials'[t] = trials[t]
    BY <1>1, <1>4, <1>7 DEF Completed
  <2>2. MetricOfItsRun'
    BY <1>0, <1>2, <2>1 DEF Recorded, MetricOfItsRun
  <2>3. trials'[First' + turn'[0]].run = Len(runs')
    BY <1>2, <1>4, <1>7
  <2>4. runs'[Len(runs')].state = "FINISHED" /\ runs'[Len(runs')].metric = metric'
    BY <1>0, <1>2 DEF Recorded
  <2>5. \A t \in Completed' : trials'[t].run \in DOMAIN runs'
    BY <1>0, <1>2, <2>1 DEF Recorded
  <2>. QED
    BY <2>2, <2>3, <2>4, <2>5, Zenon DEF Recorded
<1>. QED
  BY <1>7, <1>9, <1>10, <1>11, <1>12 DEF AccountInv

LEMMA CompleteKeeps ==
  ASSUME StudyInv, AccountInv, Complete
  PROVE  AccountInv'
<1>. DEFINE k == First + turn[0]
            e == [trials[k] EXCEPT !.state = "COMPLETED", !.metric = metric]
            L == Len(runs)
<1>0. StoresOK /\ AskInv /\ Progress /\ RunsInv /\ Recorded /\ at[0] = "complete" /\ phase = "tune"
      /\ at[0] \in ChiefPlaces /\ metric \in Scores \cup {-1} /\ NumTrials \in Nat \ {0}
      /\ turn \in [Workers -> Nat]
  BY StudyAssumption DEF AccountInv, Complete, StudyInv, ChiefHolds, TypeOK, Phases, ChiefPlaces
<1>1. /\ turn[0] \in 1 .. NumTrials /\ suggested[turn[0]] = k /\ k \in DOMAIN trials
      /\ trials[k].state = "ACTIVE" /\ trials[k].client = launches /\ First \in Nat
      /\ NumTrials <= NumTiers
  BY <1>0, TurnIs
<1>2. /\ trials' = [trials EXCEPT ![k] = e]
      /\ at'[0] = IF turn[0] < NumTrials THEN "share" ELSE "done"
      /\ phase' = phase /\ launches' = launches /\ suggested' = suggested /\ extras' = extras
      /\ turn'[0] = turn[0] + 1 /\ metric' = metric /\ runs' = runs
  BY <1>0, <1>1, ZeroIsWorker DEF Complete, Go, AfterTrial, StudyInv, TypeOK
<1>3. trials[k] \in Trial /\ L \in Nat
  BY <1>0, <1>1, StoresAre
<1>4. /\ e \in Trial /\ e.tier = trials[k].tier /\ e.client = launches
      /\ e.state = "COMPLETED" /\ e.run = trials[k].run /\ e.metric = metric
  BY <1>0, <1>1, <1>3 DEF Trial
<1>6. hparams' \in [Workers -> Nat]
  <2>1. CASE turn[0] < NumTrials
    <3>1. turn[0] + 1 \in 1 .. NumTrials
      BY <1>0, <1>1, <2>1, SMT
    <3>2. suggested[turn[0] + 1] = First + (turn[0] + 1)
      BY <1>0, <3>1, TurnIs
    <3>3. suggested[turn[0] + 1] \in Nat
      BY <1>1, <3>1, <3>2, SMT
    <3>4. hparams' = [hparams EXCEPT ![0] = suggested[turn[0] + 1]]
      BY <2>1 DEF Complete
    <3>. QED
      BY <1>0, <3>3, <3>4 DEF StoresOK
  <2>2. CASE ~(turn[0] < NumTrials)
    BY <1>0, <2>2 DEF Complete, StoresOK
  <2>. QED
    BY <2>1, <2>2
<1>. HIDE DEF e
<1>7. /\ StoresOK' /\ Asked' /\ First' = First /\ DOMAIN trials' = DOMAIN trials
      /\ trials'[k] = e
      /\ \A t \in DOMAIN trials : trials'[t].client = trials[t].client
      /\ \A t \in DOMAIN trials : t # k => trials'[t] = trials[t]
  BY <1>0, <1>2, <1>4, <1>6, TrialWritten
<1>8. at'[0] \in {"share", "done"} /\ turn[0] + 1 \in 1 .. NumTrials + 1
      /\ (at'[0] = "done" <=> turn[0] + 1 = NumTrials + 1)
  BY <1>0, <1>1, <1>2, SMT
<1>9. AskInv'
  BY <1>0, <1>1, <1>2, <1>7, <1>8, Zenon DEF AskInv, ChiefPlaces
<1>10. Progress'
  <2>1. ASSUME NEW i \in 1 .. NumTrials
        PROVE  trials'[First + i].state = IF i < turn[0] + 1 THEN "COMPLETED" ELSE "ACTIVE"
    <3>1. First + i \in DOMAIN trials
      BY <1>0, TurnIs
    <3>2. trials[First + i].state = IF i < turn[0] THEN "COMPLETED" ELSE "ACTIVE"
      BY <1>0 DEF Progress, AtTrials
    <3>3. CASE i = turn[0]
      <4>1. i < turn[0] + 1
        BY <1>1, <3>3, SMT
      <4>. QED
        BY <1>4, <1>7, <3>3, <4>1
    <3>4. CASE i # turn[0]
      <4>1. First + i # k /\ (i < turn[0] + 1 <=> i < turn[0])
        BY <1>1, <3>4, SMT
      <4>. QED
        BY <1>7, <3>1, <3>2, <4>1
    <3>. QED
      BY <3>3, <3>4
  <2>. QED
    BY <1>2, <1>7, <1>8, <2>1, Zenon DEF Progress
<1>11. RunsInv'
  <2>1. TrainedOnce'
    BY <1>0, <1>2 DEF RunsInv, TrainedOnce
  <2>2. \A r \in DOMAIN runs : runs[r].phase = "tune" =>
          runs[r].trial \in DOMAIN trials' /\ trials'[runs[r].trial].client = runs[r].launch
    BY <1>0, <1>7 DEF RunsInv
  <2>3. at'[0] \notin Recording /\ at'[0] \in ChiefPlaces \cup {"done", "off"}
    BY <1>8 DEF Recording, ChiefPlaces
  <2>4. \A r \in DOMAIN runs : runs[r].phase = "tune" /\ runs[r].launch = launches =>
          runs[r].trial < First + turn[0] \/ runs[r].trial = First + turn[0]
    BY <1>0 DEF RunsInv, Recording
  <2>5. \A r \in DOMAIN runs : runs[r].phase = "tune" /\ runs[r].launch = launches =>
          runs[r].trial < First + (turn[0] + 1)
    <3>1. \A r \in DOMAIN runs : runs[r].trial \in Nat
      BY <1>0, StoresAre DEF Run
    <3>2. turn[0] \in Nat /\ First \in Nat
      BY <1>1, SMT
    <3>. QED
      BY <2>4, <3>1, <3>2, SMT
  <2>. QED
    BY <1>2, <1>7, <2>1, <2>2, <2>3, <2>5, Zenon DEF RunsInv
<1>12. Recorded'
  <2>1. \A t \in Completed' : t = k \/ (t \in Completed /\ trials'[t] = trials[t])
    BY <1>7 DEF Completed
  <2>2. /\ L \in DOMAIN runs /\ runs[L].phase = "tune" /\ runs[L].trial = k
        /\ runs[L].state = "FINISHED" /\ runs[L].metric = metric /\ trials[k].run = L /\ L # 0
    <3>1. L \in DOMAIN runs /\ runs[L].phase = "tune" /\ runs[L].trial = k
      BY <1>0 DEF RunsInv, Recording
    <3>2. L # 0
      BY <1>0, <3>1, StoresAre, SMT
    <3>. QED
      BY <1>0, <3>1, <3>2 DEF Recorded
  <2>3. MetricOfItsRun'
    BY <1>0, <1>2, <1>4, <1>7, <2>1, <2>2 DEF Recorded, MetricOfItsRun
  <2>4. \A t \in Completed' : trials'[t].run \in DOMAIN runs'
    BY <1>0, <1>2, <1>4, <1>7, <2>1, <2>2 DEF Recorded
  <2>5. at'[0] \notin {"metadata", "complete"}
    BY <1>8
  <2>. QED
    BY <2>3, <2>4, <2>5, Zenon DEF Recorded
<1>. QED
  BY <1>7, <1>9, <1>10, <1>11, <1>12 DEF AccountInv
-----------------------------------------------------------------------------
LEMMA InitAccountInv == Init => AccountInv
<1>. SUFFICES ASSUME Init PROVE AccountInv
  OBVIOUS
<1>1. /\ trials = <<>> /\ runs = <<>> /\ suggested = <<>> /\ extras = {} /\ at[0] = "off"
      /\ hparams \in [Workers -> Nat]
  BY ZeroIsWorker DEF Init
<1>2. trials \in Seq(Trial) /\ runs \in Seq(Run) /\ DOMAIN trials = {} /\ DOMAIN runs = {}
  BY <1>1, EmptySeq
<1>3. StoresOK /\ Unasked
  BY <1>1, <1>2 DEF StoresOK, Unasked
<1>4. AskInv /\ Progress
  BY <1>1, <1>3 DEF AskInv, Progress, AtTrials, ChiefPlaces
<1>5. RunsInv /\ Recorded
  BY <1>1, <1>2 DEF RunsInv, TrainedOnce, Recording, Recorded, MetricOfItsRun, Completed
<1>. QED
  BY <1>3, <1>4, <1>5 DEF AccountInv

LEMMA NextAccountInv == StudyInv /\ AccountInv /\ [Next]_vars => AccountInv'
<1>. SUFFICES ASSUME StudyInv, AccountInv, [Next]_vars PROVE AccountInv'
  OBVIOUS
<1>1. StoresOK /\ TypeOK
  BY DEF StudyInv, AccountInv
<1>2. ASSUME \/ OpenExperiment \/ StartParentRun \/ PassVizierBarrier \/ GetBest \/ NoBestTrial
             \/ ShareParams \/ PassTrialBarrier \/ TrainSession \/ UNCHANGED vars
             \/ \E w \in Workers : Fail(w)
      PROVE  AccountInv'
  <2>1. QuietMove
    BY <1>1, <1>2, QuietSteps
  <2>. QED
    BY <1>1, <2>1, QuietKeeps
<1>. QED
  BY <1>2, LaunchKeeps, SuggestKeeps, FinishSuggestionsKeeps, StartRunKeeps, EndKeeps,
     UpdateMetadataKeeps, CompleteKeeps, Zenon DEF Next, Step, Teardown

LEMMA IntervalSize ==
  ASSUME NEW a \in Nat, NEW n \in Nat \ {0}, NEW b \in Nat, a + n = b
  PROVE  Cardinality(a + 1 .. b) = n
<1>1. a + 1 \in Int /\ b \in Int
  OBVIOUS
<1>2. Cardinality(a + 1 .. b) = IF a + 1 > b THEN 0 ELSE b - (a + 1) + 1
  BY <1>1, FS_Interval
<1>. QED
  BY <1>2, SMT

(* Every trial of a launch is where worker 0's turn says, and every tune   *)
(* run is of a trial of the launch that started it.                        *)
THEOREM AccountInvariant == Spec => []AccountInv
<1>. USE InitStudyInv, InitAccountInv
<1>1. StudyInv /\ [Next]_vars => StudyInv'
  BY NextTypeOK, NextChiefHolds, NextRunHolds, NextParentHolds, NextTogether DEF StudyInv
<1>2. StudyInv /\ AccountInv /\ [Next]_vars => AccountInv'
  BY NextAccountInv
<1>. QED
  BY <1>1, <1>2, PTL DEF Spec

(* A completed trial names a finished tune run of this very trial with the *)
(* same metric, wherever the three writes that record a trial were cut.    *)
THEOREM StoresAgree == Spec => []MetricOfItsRun
<1>1. AccountInv => MetricOfItsRun
  BY DEF AccountInv, Recorded
<1>. QED
  BY <1>1, AccountInvariant, PTL

(* Launched again after any failure, tuning trains no trial for the second *)
(* time, and no phase gets a second parent run.                            *)
THEOREM NothingIsDoneTwice == Spec => []NothingTwice
<1>1. AccountInv /\ StudyInv => NothingTwice
  BY DEF AccountInv, RunsInv, StudyInv, ParentHolds, NothingTwice
<1>. QED
  BY <1>1, AccountInvariant, StudyInvariant, PTL

(* A tune launch in which nobody failed leaves a completed trial for each  *)
(* of its trial ids, each of another tier, and none active.                *)
THEOREM EveryTrialAccountedFor == Spec => []TuneAccounts
<1>1. AccountInv => TuneAccounts
  <2>. DEFINE mine == {t \in DOMAIN trials : trials[t].client = launches}
  <2>. SUFFICES ASSUME AccountInv, phase = "tune", All("done")
       PROVE  /\ mine \subseteq Completed /\ Cardinality(mine) = NumTrials
              /\ \A t, u \in mine : trials[t].tier = trials[u].tier => t = u
    BY DEF TuneAccounts
  <2>0. StoresOK /\ AtTrials /\ at[0] = "done" /\ NumTrials \in Nat \ {0} /\ NumTiers \in Nat \ {0}
    BY ZeroIsWorker, StudyAssumption DEF AccountInv, AtTrials, All
  <2>1. Asked /\ NumTrials <= NumTiers
    BY <2>0 DEF AccountInv, AskInv, AtTrials
  <2>2. Len(trials) \in Nat /\ DOMAIN trials = 1 .. Len(trials) /\ First \in Nat
        /\ First + NumTrials = Len(trials)
    BY <2>0, <2>1, StoresAre, SMT DEF Asked, First
  <2>3. \A t \in DOMAIN trials : t \in mine <=> t > First
    BY <2>1 DEF Asked
  <2>. HIDE DEF mine
  <2>4. \A t \in mine : t \in DOMAIN trials
    BY DEF mine
  <2>5. mine = First + 1 .. Len(trials)
    <3>1. \A t \in 1 .. Len(trials) : t > First <=> t \in First + 1 .. Len(trials)
      BY <2>2, SMT
    <3>2. \A t \in First + 1 .. Len(trials) : t \in 1 .. Len(trials)
      BY <2>2, SMT
    <3>3. \A t : t \in mine <=> t \in First + 1 .. Len(trials)
      BY <2>2, <2>3, <2>4, <3>1, <3>2, Zenon
    <3>. QED
      BY <3>3, Zenon
  <2>6. mine \subseteq Completed
    <3>. SUFFICES ASSUME NEW t \in mine PROVE trials[t].state = "COMPLETED"
      BY <2>4 DEF Completed
    <3>1. t - First \in 1 .. NumTrials /\ First + (t - First) = t /\ t - First < NumTrials + 1
      BY <2>0, <2>2, <2>5, SMT
    <3>2. turn[0] = NumTrials + 1
      BY <2>0 DEF AccountInv, Progress
    <3>. QED
      BY <2>0, <3>1, <3>2 DEF AccountInv, Progress
  <2>7. Cardinality(mine) = NumTrials
    BY <2>0, <2>2, <2>5, IntervalSize
  <2>8. ASSUME NEW t \in mine, NEW u \in mine, trials[t].tier = trials[u].tier PROVE t = u
    <3>1. GridTier(t) = GridTier(u)
      BY <2>0, <2>4, <2>8 DEF StoresOK
    <3>2. t \in Nat \ {0} /\ u \in Nat \ {0} /\ t - u < NumTiers /\ u - t < NumTiers
      BY <2>0, <2>1, <2>2, <2>5, SMT
    <3>. QED
      BY <3>1, <3>2, TiersApart
  <2>. QED
    BY <2>6, <2>7, <2>8
<1>. QED
  BY <1>1, AccountInvariant, PTL
=============================================================================
