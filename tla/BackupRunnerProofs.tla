------------------------- MODULE BackupRunnerProofs -------------------------
(***************************************************************************)
(* Proofs about BackupRunner, for any number of claims and of failures.    *)
(***************************************************************************)
EXTENDS BackupRunner, SequenceTheorems, TLAPS

MainPC == {"work", "patch", "dump", "drop", "forget", "restic", "note", "write", "record"}
StepName == ResticSteps \cup {"helper"}

\* The shape of the records that TypeOK says less of.
ShapeInv ==
  /\ main \in [pc : MainPC, step : Nat, failed : BOOLEAN]
  /\ stop \in [helpers : {"off", "close", "settle", "delete", "done"},
               restic : {"off", "signal", "wait", "done"},
               delete : SUBSET Pod, pc : {"off", "work", "webhook"}]
  /\ status \in [outcome : {"none", "ok", "failed", "stopped"},
                 check : {"none", "ok", "failed", "stopped"},
                 prune : {"none", "ok", "failed", "stopped"}]

\* What the main thread is at, and the step it is at it for.
PlaceInv ==
  /\ main.step <= Len(Steps) + 1
  /\ main.pc \in {"patch", "dump", "drop", "forget"} => Step = "helper"
  /\ main.pc = "restic" => Step \in ResticSteps
  /\ main.pc \in {"note", "write"} => mode = "check" /\ Step \in {"check", "prune"}

\* One claim: the run's holder is at its record, the stop's is past its start,
\* and the process exits by the holder's hand, the stop's when both its sides
\* are done.
ClaimInv ==
  /\ main.pc = "record" <=> claim = "run"
  /\ stop.pc # "off" <=> claim = "stop"
  /\ stop.pc = "off" => stop.helpers = "off" /\ stop.restic = "off"
  /\ stop.pc = "webhook" => stop.helpers = "done" /\ stop.restic = "done"
  /\ exited => claim = "run" \/ stop.pc = "webhook"

\* A pod that is not given up as undeleted is in the live set; the live set
\* holds the current step's pod at most, from before its apply until after its
\* delete.
PodInv ==
  /\ patches \subseteq {main.step} /\ (patches # {} => main.pc = "patch")
  /\ helpers.pods \subseteq {main.step}
  /\ helpers.pods # {} => \/ main.pc \in {"patch", "dump", "drop", "forget"}
                          \/ main.pc = "work" /\ Step = "helper"
  /\ main.pc = "patch" => main.step \in helpers.pods
  /\ pods \subseteq helpers.pods \cup undeleted
  /\ main.pc = "forget" => main.step \notin pods \/ main.step \in undeleted

\* What each side of the stop has closed stays closed, and what it has dealt
\* with stays dealt with.
StopInv ==
  /\ stop.helpers \in {"settle", "delete", "done"} => helpers.stopping
  /\ stop.helpers \in {"delete", "done"} => main.pc # "patch"
  /\ stop.helpers = "delete" => pods \subseteq stop.delete \cup undeleted
  /\ stop.helpers = "done" => pods \subseteq undeleted
  /\ stop.restic \in {"wait", "done"} => restic.stopping
  /\ stop.restic = "done" => ~restic.running

\* Nobody but the claimer writes a backup's outcome.
OutcomeInv ==
  mode = "backup" =>
    status.outcome \in
      {"none"} \cup (IF claim = "stop" THEN {"stopped"}
                    ELSE IF claim = "run" /\ exited
                         THEN {IF main.failed THEN "failed" ELSE "ok"} ELSE {})

-----------------------------------------------------------------------------
\* The steps of a backup: helper pods are named within Pod, and every other
\* step runs restic.
LEMMA BackupSteps ==
  /\ Backup \in Seq(StepName)
  /\ \A i \in 1..Len(Backup) : Backup[i] = "helper" => i \in Pod
<1> DEFINE A == <<"unlock">>
           B == [i \in 1..2 * Claims |-> IF i % 2 = 1 THEN "helper" ELSE "backup"]
           C == <<"backup">>
           D == IF Prunes THEN <<"prune">> ELSE <<>>
<1>0. Claims \in Nat /\ 2 * Claims \in Nat
  BY RunnerAssumption
<1>1. A \in Seq(StepName) /\ Len(A) = 1 /\ A[1] = "unlock"
  BY DEF StepName, ResticSteps
<1>2. B \in Seq(StepName) /\ Len(B) = 2 * Claims
  <2>1. \A i \in 1..2 * Claims : B[i] \in StepName
    BY DEF StepName, ResticSteps
  <2> QED
    BY <1>0, <2>1
<1>3. C \in Seq(StepName) /\ Len(C) = 1 /\ C[1] = "backup"
  BY DEF StepName, ResticSteps
<1>4. D \in Seq(StepName) /\ \A i \in 1..Len(D) : D[i] = "prune"
  <2>1. CASE Prunes
    <3>1. D = <<"prune">>
      BY <2>1
    <3>2. <<"prune">> \in Seq(StepName) /\ \A i \in 1..Len(<<"prune">>) : <<"prune">>[i] = "prune"
      BY DEF StepName, ResticSteps
    <3> QED
      BY <3>1, <3>2
  <2>2. CASE ~Prunes
    <3>1. D = <<>>
      BY <2>2
    <3> QED
      BY <3>1
  <2> QED
    BY <2>1, <2>2
<1>5. Backup = ((A \o B) \o C) \o D
  BY DEF Backup
<1> HIDE DEF A, B, C, D
<1>6. /\ A \o B \in Seq(StepName) /\ Len(A \o B) = 1 + 2 * Claims
  <2>1. A \o B \in Seq(StepName) /\ Len(A \o B) = Len(A) + Len(B)
    BY <1>1, <1>2, ConcatProperties, Zenon
  <2> QED
    BY <1>0, <1>1, <1>2, <2>1
<1>7. /\ (A \o B) \o C \in Seq(StepName) /\ Len((A \o B) \o C) = 2 + 2 * Claims
      /\ ((A \o B) \o C)[2 + 2 * Claims] = "backup"
  <2>1. 2 + 2 * Claims \in 1..(Len(A \o B) + Len(C)) /\ ~(2 + 2 * Claims <= Len(A \o B))
    BY <1>0, <1>3, <1>6
  <2>2. (2 + 2 * Claims) - Len(A \o B) = 1
    BY <1>0, <1>6
  <2>3. /\ (A \o B) \o C \in Seq(StepName)
        /\ Len((A \o B) \o C) = Len(A \o B) + Len(C)
        /\ \A i \in 1..(Len(A \o B) + Len(C)) :
             ((A \o B) \o C)[i] = IF i <= Len(A \o B) THEN (A \o B)[i] ELSE C[i - Len(A \o B)]
    BY <1>3, <1>6, ConcatProperties, Zenon
  <2> QED
    BY <1>0, <1>3, <1>6, <2>1, <2>2, <2>3
<1>8. Backup \in Seq(StepName)
  BY <1>4, <1>5, <1>7, ConcatProperties
<1>9. ASSUME NEW i \in 1..Len(Backup), Backup[i] = "helper"
      PROVE  i \in Pod
  <2>1. CASE i > 2 + 2 * Claims
    <3>1. Backup[i] = D[i - (2 + 2 * Claims)] /\ i - (2 + 2 * Claims) \in 1..Len(D)
      BY <1>0, <1>4, <1>5, <1>7, <1>9, <2>1, ConcatProperties
    <3> QED
      BY <1>4, <1>9, <3>1
  <2>2. CASE i = 2 + 2 * Claims
    <3>1. Backup[i] = ((A \o B) \o C)[i]
      BY <1>0, <1>4, <1>5, <1>7, <1>9, <2>2, ConcatProperties
    <3> QED
      BY <1>7, <1>9, <2>2, <3>1
  <2>3. CASE i <= 1 + 2 * Claims
    BY <1>0, <1>9, <2>3 DEF Pod
  <2> QED
    BY <1>0, <2>1, <2>2, <2>3
<1> QED
  BY <1>8, <1>9

\* The steps of a check all run restic, and none of them backs up.
LEMMA CheckSteps ==
  /\ Check \in Seq(ResticSteps \ {"backup"})
  /\ \A i \in 1..Len(Check) : Check[i] \in ResticSteps \ {"backup"}
<1> DEFINE A == <<"unlock", "check">>
           D == IF Prunes THEN <<"prune">> ELSE <<>>
           E == <<"stats">>
<1>1. A \in Seq(ResticSteps \ {"backup"}) /\ E \in Seq(ResticSteps \ {"backup"})
  BY DEF ResticSteps
<1>2. D \in Seq(ResticSteps \ {"backup"})
  <2>1. CASE Prunes
    <3>1. D = <<"prune">>
      BY <2>1
    <3>2. <<"prune">> \in Seq(ResticSteps \ {"backup"})
      BY DEF ResticSteps
    <3> QED
      BY <3>1, <3>2
  <2>2. CASE ~Prunes
    <3>1. D = <<>>
      BY <2>2
    <3> QED
      BY <3>1
  <2> QED
    BY <2>1, <2>2
<1>3. Check = (A \o D) \o E
  BY DEF Check
<1> HIDE DEF A, D, E
<1>4. Check \in Seq(ResticSteps \ {"backup"})
  BY <1>1, <1>2, <1>3, ConcatProperties
<1> QED
  BY <1>4

\* What a step is, whichever the Job.
LEMMA StepIs ==
  ASSUME main.step \in Nat
  PROVE  /\ Len(Steps) \in Nat
         /\ Step # "end" => main.step \in 1..Len(Steps) /\ Step \in StepName
         /\ Step = "helper" => main.step \in Pod
         /\ mode = "check" => Step \notin {"helper", "backup"}
<1>1. Len(Steps) \in Nat /\ DOMAIN Steps = 1..Len(Steps)
  BY BackupSteps, CheckSteps DEF Steps
<1>2. \A i \in 1..Len(Steps) :
        /\ Steps[i] \in StepName /\ (Steps[i] = "helper" => i \in Pod)
        /\ mode = "check" => Steps[i] \notin {"helper", "backup"}
  <2>1. CASE mode = "backup"
    BY <1>1, <2>1, BackupSteps DEF Steps
  <2>2. CASE mode # "backup"
    BY <1>1, <2>2, CheckSteps DEF Steps, StepName, ResticSteps
  <2> QED
    BY <2>1, <2>2
<1>3. "end" \notin StepName
  BY DEF StepName, ResticSteps
<1> QED
  BY <1>1, <1>2, <1>3 DEF Step

\* A step stays what it is while its number and the Job do.
LEMMA StepStays ==
  ASSUME mode' = mode
  PROVE  /\ Steps' = Steps
         /\ main'.step = main.step => Step' = Step
BY DEF Steps, Step

\* What the steps of the two threads leave alone.
MainFrame == ~exited /\ exited' = exited /\ UNCHANGED <<mode, claim, stop, stoppedIn>>
StopFrame == ~exited /\ UNCHANGED <<mode, main, phase, claim, patches>>

MainType == [pc : MainPC, step : 1..(Len(Steps) + 1), failed : BOOLEAN]
TypeInv == TypeOK /\ ShapeInv /\ PlaceInv

-----------------------------------------------------------------------------
\* The main thread stays at a step, with whatever it is at there.
LEMMA StayType ==
  ASSUME TypeInv, NEW c \in MainPC
  PROVE  /\ [main EXCEPT !.pc = c] \in MainType
         /\ \A f \in BOOLEAN : [main EXCEPT !.pc = c, !.failed = f] \in MainType
<1>1. main \in MainType
  BY Zenon DEF TypeInv, TypeOK, MainType, MainPC
<1> QED
  BY <1>1 DEF MainType

\* The main thread goes on to the next step, or past the last one.
LEMMA AdvanceType ==
  ASSUME TypeInv, Step # "end", NEW f \in BOOLEAN, Advance(f)
  PROVE  main' \in MainType /\ main'.pc = "work"
<1>1. main.step \in Nat /\ main.failed \in BOOLEAN
  BY DEF TypeInv, ShapeInv
<1>2. Len(Steps) \in Nat /\ main.step \in 1..Len(Steps)
  BY <1>1, StepIs
<1>3. (IF f THEN Len(Steps) + 1 ELSE main.step + 1) \in 1..(Len(Steps) + 1)
  BY <1>2
<1>4. (main.failed \/ f) \in BOOLEAN /\ "work" \in MainPC
  BY DEF MainPC
<1> QED
  BY <1>3, <1>4 DEF Advance, MainType

\* After restic the main thread goes on, or notes the result of a check run's
\* check or prune.
LEMMA AfterResticType ==
  ASSUME TypeInv, Step \in ResticSteps, NEW f \in BOOLEAN, AfterRestic(f)
  PROVE  /\ main' \in MainType
         /\ \/ main'.pc = "work"
            \/ /\ main'.pc = "note" /\ main'.step = main.step
               /\ mode = "check" /\ Step \in {"check", "prune"}
<1>1. Step # "end"
  BY DEF ResticSteps
<1>2. CASE Advance(f) \/ Advance(FALSE)
  BY <1>1, <1>2, AdvanceType
<1>3. CASE /\ mode = "check" /\ Step \in {"check", "prune"}
           /\ main' = [main EXCEPT !.pc = "note", !.failed = f]
  <2>1. main' \in MainType
    BY <1>3, StayType DEF MainPC
  <2>2. main'.pc = "note" /\ main'.step = main.step
    BY <1>3 DEF TypeInv, ShapeInv
  <2> QED
    BY <1>3, <2>1, <2>2
<1> QED
  BY <1>2, <1>3 DEF AfterRestic

\* A main thread with its type at a step that fits what it is at.
LEMMA PlacedType ==
  ASSUME TypeInv, mode' = mode, main' \in MainType,
         \/ main'.pc \in {"work", "record"}
         \/ /\ main'.step = main.step
            /\ \/ main'.pc \in {"patch", "dump", "drop", "forget"} /\ Step = "helper"
               \/ main'.pc = "restic" /\ Step \in ResticSteps
               \/ main'.pc \in {"note", "write"} /\ mode = "check" /\ Step \in {"check", "prune"}
  PROVE  /\ main' \in [pc : MainPC, step : 1..(Len(Steps') + 1), failed : BOOLEAN]
         /\ main' \in [pc : MainPC, step : Nat, failed : BOOLEAN]
         /\ PlaceInv'
<1>1. Steps' = Steps /\ (main'.step = main.step => Step' = Step)
  BY StepStays
<1>2. Len(Steps) \in Nat
  BY StepIs DEF TypeInv, ShapeInv
<1>3. main' \in [pc : MainPC, step : 1..(Len(Steps) + 1), failed : BOOLEAN]
  BY DEF MainType
<1>4. main' \in [pc : MainPC, step : Nat, failed : BOOLEAN] /\ main'.step <= Len(Steps) + 1
  BY <1>2, <1>3
<1>5. PlaceInv'
  BY <1>1, <1>4 DEF PlaceInv
<1> QED
  BY <1>1, <1>3, <1>4, <1>5

\* A failure is counted within its bound.
LEMMA ResultType ==
  ASSUME TypeInv, NEW f \in BOOLEAN, Result(f)
  PROVE  fails' \in 0..MaxFails
BY RunnerAssumption DEF TypeInv, TypeOK, Result

\* The rest of the types, which a step of the main thread hands on.
RestType ==
  /\ phase \in {"check", "prune", "stats"}
  /\ helpers \in [pods : SUBSET Pod, applying : BOOLEAN, stopping : BOOLEAN]
  /\ restic \in [running : BOOLEAN, stopping : BOOLEAN]
  /\ patches \subseteq Pod /\ pods \subseteq Pod /\ undeleted \subseteq Pod
  /\ fails \in 0..MaxFails
  /\ status \in [outcome : {"none", "ok", "failed", "stopped"},
                 check : {"none", "ok", "failed", "stopped"},
                 prune : {"none", "ok", "failed", "stopped"}]

\* A step of the main thread that leaves it well placed keeps the types.
LEMMA MainTypeStep ==
  ASSUME TypeInv, mode' = mode, claim' \in {"none", "run", "stop"}, stop' = stop,
         stoppedIn' = stoppedIn, exited' \in BOOLEAN, RestType',
         main' \in [pc : MainPC, step : 1..(Len(Steps') + 1), failed : BOOLEAN],
         main' \in [pc : MainPC, step : Nat, failed : BOOLEAN],
         PlaceInv', restic'.running => main'.pc = "restic",
         helpers'.applying <=> main'.pc = "patch"
  PROVE  TypeInv'
<1>1. ShapeInv'
  BY DEF TypeInv, ShapeInv, RestType
<1>2. DOMAIN status' = {"outcome", "check", "prune"}
      /\ \A o \in DOMAIN status' : status'[o] \in {"none", "ok", "failed", "stopped"}
  BY DEF RestType
<1>3. TypeOK'
  BY <1>2, Zenon DEF TypeInv, TypeOK, RestType, MainPC
<1> QED
  BY <1>1, <1>3 DEF TypeInv

\* Every step of the main thread before its record keeps the types.
LEMMA MainStepType ==
  ASSUME TypeInv, MainFrame,
         \/ BeginApply \/ ApplyAnswered \/ ApplyFails \/ ReplaceStale \/ DumpEnds \/ DropGuard
         \/ ForgetPod \/ StartRestic \/ ResticExits \/ ResticLost \/ NoteStep \/ WriteStep
  PROVE  TypeInv'
<1> USE MainTypeStep, PlacedType DEF MainFrame
<1>0. /\ main.step \in Nat /\ main.pc \in MainPC /\ main.failed \in BOOLEAN /\ RestType
      /\ (restic.running => main.pc = "restic") /\ (helpers.applying <=> main.pc = "patch")
      /\ PlaceInv /\ claim \in {"none", "run", "stop"} /\ exited \in BOOLEAN
  BY DEF TypeInv, TypeOK, ShapeInv, RestType
<1>a. main \in [pc : MainPC, step : Nat, failed : BOOLEAN]
  BY DEF TypeInv, ShapeInv
<1>1. CASE BeginApply
  <2>1. main.step \in Pod
    BY <1>0, <1>1, StepIs DEF BeginApply
  <2>2. /\ main' \in MainType /\ main'.step = main.step
        /\ main'.pc = IF helpers.stopping THEN "drop" ELSE "patch"
    BY <1>a, <1>1, StayType DEF BeginApply, Go, MainPC
  <2>3. RestType'
    <3>1. helpers' \in [pods : SUBSET Pod, applying : BOOLEAN, stopping : BOOLEAN]
      <4>1. helpers.pods \cup {main.step} \in SUBSET Pod
        BY <1>0, <2>1 DEF RestType
      <4>2. [helpers EXCEPT !.pods = @ \cup {main.step}, !.applying = TRUE]
              \in [pods : SUBSET Pod, applying : BOOLEAN, stopping : BOOLEAN]
        BY <1>0, <4>1 DEF RestType
      <4> QED
        BY <1>0, <1>1, <4>2 DEF BeginApply, RestType
    <3> QED
      BY <1>0, <1>1, <2>1, <3>1 DEF BeginApply, RestType
  <2>4. helpers'.applying <=> main'.pc = "patch"
    BY <1>0, <1>1, <2>2 DEF BeginApply, RestType
  <2> QED
    BY <1>0, <1>1, <2>2, <2>3, <2>4 DEF BeginApply
<1>2. CASE ApplyAnswered
  <2>1. main' \in MainType /\ main'.step = main.step /\ main'.pc = "dump"
    BY <1>a, <1>2, StayType DEF ApplyAnswered, Go, MainPC
  <2>2. RestType' /\ ~helpers'.applying
    BY <1>0, <1>2 DEF ApplyAnswered, RestType
  <2> QED
    BY <1>0, <1>2, <2>1, <2>2 DEF ApplyAnswered, PlaceInv
<1>3. CASE ApplyFails
  <2>1. main' \in MainType /\ main'.step = main.step /\ main'.pc = "drop"
    BY <1>a, <1>3, StayType DEF ApplyFails, MainPC
  <2>2. RestType' /\ ~helpers'.applying
    BY <1>0, <1>3, ResultType DEF ApplyFails, RestType
  <2> QED
    BY <1>0, <1>3, <2>1, <2>2 DEF ApplyFails, PlaceInv
<1>4. CASE ReplaceStale
  <2>1. main' \in MainType /\ main'.step = main.step /\ main'.pc = "work"
    BY <1>a, <1>4, StayType DEF ReplaceStale, Go, MainPC
  <2>2. RestType' /\ ~helpers'.applying
    BY <1>0, <1>4, ResultType DEF ReplaceStale, RestType
  <2> QED
    BY <1>0, <1>4, <2>1, <2>2 DEF ReplaceStale
<1>5. CASE DumpEnds
  <2>1. PICK f \in BOOLEAN : main' = [main EXCEPT !.pc = "drop", !.failed = f]
    BY <1>5 DEF DumpEnds
  <2>2. main' \in MainType /\ main'.step = main.step /\ main'.pc = "drop"
    BY <1>a, <2>1, StayType DEF MainPC
  <2>3. fails' \in 0..MaxFails
    BY <1>0, <1>5, ResultType DEF DumpEnds, RestType
  <2>4. RestType'
    BY <1>0, <1>5, <2>3 DEF DumpEnds, RestType
  <2> QED
    BY <1>0, <1>5, <2>2, <2>4 DEF DumpEnds, PlaceInv
<1>6. CASE DropGuard
  <2>1. main' \in MainType /\ main'.step = main.step /\ main'.pc = "forget"
    BY <1>a, <1>6, StayType DEF DropGuard, Go, MainPC
  <2>2. fails' \in 0..MaxFails
    BY <1>6, ResultType DEF DropGuard
  <2>3. RestType'
    BY <1>0, <1>6, <2>2 DEF DropGuard, Deleted, RestType
  <2> QED
    BY <1>0, <1>6, <2>1, <2>3 DEF DropGuard, PlaceInv
<1>7. CASE ForgetPod
  <2>1. main' \in MainType /\ main'.pc = "work"
    BY <1>0, <1>7, AdvanceType DEF ForgetPod, PlaceInv
  <2>2. RestType' /\ helpers'.applying = helpers.applying
    BY <1>0, <1>7 DEF ForgetPod, RestType
  <2> QED
    BY <1>0, <1>7, <2>1, <2>2 DEF ForgetPod
<1>8. CASE StartRestic
  <2>1. phase' \in {"check", "prune", "stats"}
    BY <1>0, <1>8, StepIs DEF StartRestic, RestType, ResticSteps
  <2>2. RestType'
    BY <1>0, <1>8, <2>1 DEF StartRestic, RestType
  <2>3. CASE restic.stopping
    <3>1. /\ main' \in MainType
          /\ \/ main'.pc = "work"
             \/ /\ main'.pc = "note" /\ main'.step = main.step
                /\ mode = "check" /\ Step \in {"check", "prune"}
      BY <1>8, <2>3, AfterResticType DEF StartRestic
    <3> QED
      BY <1>0, <1>8, <2>2, <2>3, <3>1 DEF StartRestic
  <2>4. CASE ~restic.stopping
    <3>1. main' \in MainType /\ main'.step = main.step /\ main'.pc = "restic"
      BY <1>a, <1>8, <2>4, StayType DEF StartRestic, Go, MainPC
    <3> QED
      BY <1>0, <1>8, <2>2, <2>4, <3>1 DEF StartRestic
  <2> QED
    BY <2>3, <2>4
<1>9. CASE ResticExits
  <2>1. /\ main' \in MainType
        /\ \/ main'.pc = "work"
           \/ /\ main'.pc = "note" /\ main'.step = main.step
              /\ mode = "check" /\ Step \in {"check", "prune"}
    BY <1>0, <1>9, AfterResticType DEF ResticExits, PlaceInv
  <2>2. fails' \in 0..MaxFails
    BY <1>0, <1>9, ResultType DEF ResticExits, RestType
  <2>3. RestType' /\ ~restic'.running
    BY <1>0, <1>9, <2>2 DEF ResticExits, RestType
  <2> QED
    BY <1>0, <1>9, <2>1, <2>3 DEF ResticExits
<1>10. CASE ResticLost
  <2>1. /\ main' \in MainType
        /\ \/ main'.pc = "work"
           \/ /\ main'.pc = "note" /\ main'.step = main.step
              /\ mode = "check" /\ Step \in {"check", "prune"}
    BY <1>0, <1>10, AfterResticType DEF ResticLost, PlaceInv
  <2>2. RestType'
    BY <1>0, <1>10 DEF ResticLost, RestType
  <2> QED
    BY <1>0, <1>10, <2>1, <2>2 DEF ResticLost
<1>11. CASE NoteStep
  <2>1. RestType'
    BY <1>0, <1>11 DEF NoteStep, RestType
  <2>2. CASE claim = "none"
    <3>1. main' \in MainType /\ main'.step = main.step /\ main'.pc = "write"
      BY <1>a, <1>11, <2>2, StayType DEF NoteStep, Go, MainPC
    <3> QED
      BY <1>0, <1>11, <2>1, <3>1 DEF NoteStep, PlaceInv
  <2>3. CASE claim # "none"
    <3>1. main' \in MainType /\ main'.pc = "work"
      BY <1>0, <1>11, <2>3, AdvanceType DEF NoteStep, PlaceInv
    <3> QED
      BY <1>0, <1>11, <2>1, <3>1 DEF NoteStep
  <2> QED
    BY <2>2, <2>3
<1>12. CASE WriteStep
  <2>1. main' \in MainType /\ main'.pc = "work"
    BY <1>0, <1>12, AdvanceType DEF WriteStep, PlaceInv
  <2>2. fails' \in 0..MaxFails
    BY <1>12, ResultType DEF WriteStep
  <2>3. RestType'
    BY <1>0, <1>12, <2>2 DEF WriteStep, RestType, PlaceInv
  <2> QED
    BY <1>0, <1>12, <2>1, <2>3 DEF WriteStep
<1> QED
  BY <1>1, <1>2, <1>3, <1>4, <1>5, <1>6, <1>7, <1>8, <1>9, <1>10, <1>11, <1>12

\* A step of the stop or of the apiserver leaves the main thread where it is.
LEMMA StopTypeStep ==
  ASSUME TypeInv, mode' = mode, main' = main, claim' \in {"none", "run", "stop"}, RestType',
         stoppedIn' \in {"none", "check", "prune", "stats"}, exited' \in BOOLEAN,
         stop' \in [helpers : {"off", "close", "settle", "delete", "done"},
                    restic : {"off", "signal", "wait", "done"},
                    delete : SUBSET Pod, pc : {"off", "work", "webhook"}],
         restic'.running => restic.running, helpers'.applying = helpers.applying
  PROVE  TypeInv'
<1>1. Steps' = Steps /\ Step' = Step
  BY StepStays
<1>2. ShapeInv'
  BY DEF TypeInv, ShapeInv, RestType
<1>3. PlaceInv'
  BY <1>1 DEF TypeInv, PlaceInv
<1>4. \A o \in DOMAIN status' : status'[o] \in {"none", "ok", "failed", "stopped"}
  BY DEF RestType
<1>5. stop'.pc \in {"off", "work", "webhook"} /\ stop'.delete \subseteq Pod
  OBVIOUS
<1>6. /\ restic'.running => main'.pc = "restic"
      /\ helpers'.applying <=> main'.pc = "patch"
  BY DEF TypeInv, TypeOK
<1>7. TypeOK'
  BY <1>1, <1>4, <1>5, <1>6, Zenon DEF TypeInv, TypeOK, RestType
<1> QED
  BY <1>2, <1>3, <1>7 DEF TypeInv

\* Every step keeps the types.
LEMMA TypeStep == TypeInv /\ [Next]_vars => TypeInv'
<1> SUFFICES ASSUME TypeInv, [Next]_vars PROVE TypeInv'
  OBVIOUS
<1>0. /\ main \in [pc : MainPC, step : Nat, failed : BOOLEAN] /\ RestType
      /\ stop \in [helpers : {"off", "close", "settle", "delete", "done"},
                   restic : {"off", "signal", "wait", "done"},
                   delete : SUBSET Pod, pc : {"off", "work", "webhook"}]
      /\ claim \in {"none", "run", "stop"} /\ exited \in BOOLEAN
      /\ stoppedIn \in {"none", "check", "prune", "stats"}
      /\ (restic.running => main.pc = "restic") /\ (helpers.applying <=> main.pc = "patch")
  BY DEF TypeInv, TypeOK, ShapeInv, RestType
<1>1. CASE MainFrame /\ \/ BeginApply \/ ApplyAnswered \/ ApplyFails \/ ReplaceStale \/ DumpEnds
                        \/ DropGuard \/ ForgetPod \/ StartRestic \/ ResticExits \/ ResticLost
                        \/ NoteStep \/ WriteStep
  BY <1>1, MainStepType
<1>2. CASE RecordOutcome /\ UNCHANGED <<mode, claim, stop, stoppedIn>>
  <2>1. fails' \in 0..MaxFails
    BY <1>0, <1>2, ResultType DEF RecordOutcome, RestType
  <2>2. RestType'
    BY <1>0, <1>2, <2>1 DEF RecordOutcome, RestType
  <2> QED
    BY <1>0, <1>2, <2>2, StopTypeStep DEF RecordOutcome
<1>3. CASE EndRun
  <2>1. main' \in MainType /\ main'.pc = "record" /\ main'.step = main.step
    BY <1>0, <1>3, StayType DEF EndRun, Go, MainPC
  <2>2. RestType'
    BY <1>0, <1>3 DEF EndRun, RestType
  <2> QED
    BY <1>0, <1>3, <2>1, <2>2, PlacedType, MainTypeStep DEF EndRun, Claim
<1>4. CASE BeginStop
  <2>1. RestType'
    BY <1>0, <1>4 DEF BeginStop, RestType
  <2> QED
    BY <1>0, <1>4, <2>1, StopTypeStep DEF BeginStop, Claim
<1>5. CASE StopFrame /\ CloseHelpers /\ UNCHANGED <<exited, stoppedIn>>
  <2>1. RestType'
    BY <1>0, <1>5 DEF StopFrame, CloseHelpers, RestType
  <2> QED
    BY <1>0, <1>5, <2>1, StopTypeStep DEF StopFrame, CloseHelpers, RestType
<1>6. CASE StopFrame /\ Settle /\ UNCHANGED <<exited, stoppedIn>>
  <2>1. RestType'
    BY <1>0, <1>6 DEF StopFrame, Settle, RestType
  <2> QED
    BY <1>0, <1>6, <2>1, StopTypeStep DEF StopFrame, Settle, RestType
<1>7. CASE StopFrame /\ DeleteHelpers /\ UNCHANGED <<exited, stoppedIn>>
  <2>1. fails' \in 0..MaxFails
    BY <1>7, ResultType DEF DeleteHelpers
  <2>2. RestType'
    BY <1>0, <1>7, <2>1 DEF StopFrame, DeleteHelpers, Deleted, RestType
  <2> QED
    BY <1>0, <1>7, <2>2, StopTypeStep DEF StopFrame, DeleteHelpers
<1>8. CASE StopFrame /\ ReleaseRestic /\ UNCHANGED <<exited, stoppedIn>>
  <2>1. RestType' /\ ~restic'.running
    BY <1>0, <1>8 DEF StopFrame, ReleaseRestic, RestType
  <2> QED
    BY <1>0, <1>8, <2>1, StopTypeStep DEF StopFrame, ReleaseRestic
<1>9. CASE StopFrame /\ RecordStop /\ UNCHANGED <<exited, stoppedIn>>
  <2>1. fails' \in 0..MaxFails
    BY <1>9, ResultType DEF RecordStop
  <2>2. RestType'
    BY <1>0, <1>9, <2>1 DEF StopFrame, RecordStop, StopRecord, RestType
  <2> QED
    BY <1>0, <1>9, <2>2, StopTypeStep DEF StopFrame, RecordStop
<1>10. CASE StopFrame /\ CloseAndSignal /\ UNCHANGED exited
  <2>1. RestType' /\ restic'.running = restic.running
    BY <1>0, <1>10 DEF StopFrame, CloseAndSignal, RestType
  <2>2. stoppedIn' \in {"none", "check", "prune", "stats"}
    BY <1>0, <1>10 DEF CloseAndSignal, RestType
  <2> QED
    BY <1>0, <1>10, <2>1, <2>2, StopTypeStep DEF StopFrame, CloseAndSignal
<1>11. CASE StopFrame /\ PostAndExit
  <2>1. RestType'
    BY <1>0, <1>11 DEF StopFrame, PostAndExit, RestType
  <2> QED
    BY <1>0, <1>11, <2>1, StopTypeStep DEF StopFrame, PostAndExit
<1>12. CASE ApiApplies
  <2>1. RestType'
    BY <1>0, <1>12 DEF ApiApplies, RestType
  <2> QED
    BY <1>0, <1>12, <2>1, StopTypeStep DEF ApiApplies
<1>13. CASE UNCHANGED vars
  <2>1. RestType'
    BY <1>0, <1>13 DEF vars, RestType
  <2> QED
    BY <1>0, <1>13, <2>1, StopTypeStep DEF vars
<1> QED
  BY <1>1, <1>2, <1>3, <1>4, <1>5, <1>6, <1>7, <1>8, <1>9, <1>10, <1>11, <1>12, <1>13, Zenon
     DEF Next, MainStep, StopStep, MainFrame, StopFrame

LEMMA TypeInit == Init => TypeInv
<1> SUFFICES ASSUME Init PROVE TypeInv
  OBVIOUS
<1>1. main \in [pc : MainPC, step : Nat, failed : BOOLEAN] /\ main.step = 1 /\ main.pc = "work"
  BY DEF Init, MainPC
<1>2. Len(Steps) \in Nat
  BY <1>1, StepIs
<1>3. main \in MainType
  BY <1>1, <1>2 DEF MainType
<1>4. ShapeInv /\ PlaceInv
  BY <1>1, <1>2 DEF Init, ShapeInv, PlaceInv
<1>5. \A o \in DOMAIN status : status[o] \in {"none", "ok", "failed", "stopped"}
  BY DEF Init
<1>6. TypeOK
  <2>1. helpers \in [pods : SUBSET Pod, applying : BOOLEAN, stopping : BOOLEAN]
        /\ restic \in [running : BOOLEAN, stopping : BOOLEAN]
        /\ ~restic.running /\ ~helpers.applying /\ main.pc = "work"
    BY DEF Init
  <2>2. stop.pc \in {"off", "work", "webhook"} /\ stop.delete \subseteq Pod
    BY DEF Init
  <2>3. fails \in 0..MaxFails
    BY RunnerAssumption DEF Init
  <2> QED
    BY <1>3, <1>5, <2>1, <2>2, <2>3 DEF Init, TypeOK, MainType, MainPC
<1> QED
  BY <1>4, <1>6 DEF TypeInv

\* The run and its stop keep the types of their shared state; a restic runs only
\* while the main thread waits for it, and an apply counts as under way exactly
\* until its answer (LiveResticChildren, ApplyInFlight).
THEOREM TypeCorrect == Spec => []TypeOK
<1>1. TypeInv => TypeOK
  BY DEF TypeInv
<1> QED
  BY <1>1, TypeInit, TypeStep, PTL DEF Spec

-----------------------------------------------------------------------------
(* Who exits, and what it leaves behind. *)

\* The steps of the main thread before its record.
RunStep == \/ BeginApply \/ ApplyAnswered \/ ApplyFails \/ ReplaceStale \/ DumpEnds \/ DropGuard
           \/ ForgetPod \/ StartRestic \/ ResticExits \/ ResticLost \/ NoteStep \/ WriteStep

\* Where restic's end takes the main thread.
LEMMA AfterResticGoes ==
  ASSUME TypeInv, NEW f \in BOOLEAN, AfterRestic(f)
  PROVE  main'.pc \in {"work", "note"}
<1>1. CASE Advance(f) \/ Advance(FALSE)
  BY <1>1 DEF Advance
<1>2. CASE main' = [main EXCEPT !.pc = "note", !.failed = f]
  BY <1>2 DEF TypeInv, ShapeInv
<1> QED
  BY <1>1, <1>2 DEF AfterRestic

\* The main thread reaches its record by EndRun alone.
LEMMA RunStepGoes ==
  ASSUME TypeInv, RunStep
  PROVE  main.pc # "record" /\ main'.pc # "record"
<1>0. main \in [pc : MainPC, step : Nat, failed : BOOLEAN]
  BY DEF TypeInv, ShapeInv
<1>1. CASE BeginApply
  BY <1>0, <1>1 DEF BeginApply, Go
<1>2. CASE ApplyAnswered
  BY <1>0, <1>2 DEF ApplyAnswered, Go
<1>3. CASE ApplyFails
  BY <1>0, <1>3 DEF ApplyFails
<1>4. CASE ReplaceStale
  BY <1>0, <1>4 DEF ReplaceStale, Go
<1>5. CASE DumpEnds
  BY <1>0, <1>5 DEF DumpEnds
<1>6. CASE DropGuard
  BY <1>0, <1>6 DEF DropGuard, Go
<1>7. CASE ForgetPod
  BY <1>7 DEF ForgetPod, Advance
<1>8. CASE StartRestic
  BY <1>0, <1>8, AfterResticGoes DEF StartRestic, Go
<1>9. CASE ResticExits
  BY <1>9, AfterResticGoes DEF ResticExits
<1>10. CASE ResticLost
  BY <1>10, AfterResticGoes DEF ResticLost
<1>11. CASE NoteStep
  BY <1>0, <1>11 DEF NoteStep, Go, Advance
<1>12. CASE WriteStep
  BY <1>12 DEF WriteStep, Advance
<1> QED
  BY <1>1, <1>2, <1>3, <1>4, <1>5, <1>6, <1>7, <1>8, <1>9, <1>10, <1>11, <1>12 DEF RunStep

\* Nobody takes a claim that is taken, and the process exits by its holder.
LEMMA ClaimStep == TypeInv /\ ClaimInv /\ [Next]_vars => ClaimInv'
<1> SUFFICES ASSUME TypeInv, ClaimInv, [Next]_vars PROVE ClaimInv'
  OBVIOUS
<1>0. /\ main \in [pc : MainPC, step : Nat, failed : BOOLEAN]
      /\ stop \in [helpers : {"off", "close", "settle", "delete", "done"},
                   restic : {"off", "signal", "wait", "done"},
                   delete : SUBSET Pod, pc : {"off", "work", "webhook"}]
      /\ claim \in {"none", "run", "stop"}
  BY DEF TypeInv, TypeOK, ShapeInv
<1> USE DEF ClaimInv
<1>1. CASE MainFrame /\ RunStep
  BY <1>1, RunStepGoes DEF MainFrame
<1>2. CASE RecordOutcome /\ UNCHANGED <<mode, claim, stop, stoppedIn>>
  BY <1>2 DEF RecordOutcome
<1>3. CASE EndRun
  BY <1>0, <1>3 DEF EndRun, Claim, Go
<1>4. CASE BeginStop
  BY <1>0, <1>4 DEF BeginStop, Claim
<1>5. CASE StopFrame /\ CloseHelpers /\ UNCHANGED <<exited, stoppedIn>>
  BY <1>0, <1>5 DEF StopFrame, CloseHelpers
<1>6. CASE StopFrame /\ Settle /\ UNCHANGED <<exited, stoppedIn>>
  BY <1>0, <1>6 DEF StopFrame, Settle
<1>7. CASE StopFrame /\ DeleteHelpers /\ UNCHANGED <<exited, stoppedIn>>
  BY <1>0, <1>7 DEF StopFrame, DeleteHelpers
<1>8. CASE StopFrame /\ ReleaseRestic /\ UNCHANGED <<exited, stoppedIn>>
  BY <1>0, <1>8 DEF StopFrame, ReleaseRestic
<1>9. CASE StopFrame /\ RecordStop /\ UNCHANGED <<exited, stoppedIn>>
  BY <1>0, <1>9 DEF StopFrame, RecordStop
<1>10. CASE StopFrame /\ CloseAndSignal /\ UNCHANGED exited
  BY <1>0, <1>10 DEF StopFrame, CloseAndSignal
<1>11. CASE StopFrame /\ PostAndExit
  BY <1>0, <1>11 DEF StopFrame, PostAndExit
<1>12. CASE ApiApplies
  BY <1>12 DEF ApiApplies
<1>13. CASE UNCHANGED vars
  BY <1>13 DEF vars
<1> HIDE DEF ClaimInv
<1> QED
  BY <1>1, <1>2, <1>3, <1>4, <1>5, <1>6, <1>7, <1>8, <1>9, <1>10, <1>11, <1>12, <1>13, Zenon
     DEF Next, MainStep, StopStep, MainFrame, StopFrame, RunStep

\* Between two helper pods the live set is empty, whatever the main thread does.
LEMMA NoPodsBetween ==
  ASSUME TypeInv, PodInv, helpers' = helpers, patches' = patches, pods' = pods,
         undeleted' = undeleted, mode' = mode,
         main.pc \in {"restic", "note", "write"} \/ (main.pc = "work" /\ Step # "helper"),
         main'.pc \in {"work", "restic", "note", "write", "record"}
  PROVE  PodInv'
<1>1. helpers.pods = {} /\ patches = {}
  BY DEF PodInv
<1> QED
  BY <1>1 DEF PodInv

\* A pod that may still be there is in the live set, which is why a stop that
\* deletes the live set misses none.
LEMMA PodStep == TypeInv /\ PodInv /\ [Next]_vars => PodInv'
<1> SUFFICES ASSUME TypeInv, PodInv, [Next]_vars PROVE PodInv'
  OBVIOUS
<1>0. /\ main \in [pc : MainPC, step : Nat, failed : BOOLEAN] /\ PlaceInv
      /\ helpers \in [pods : SUBSET Pod, applying : BOOLEAN, stopping : BOOLEAN]
  BY DEF TypeInv, TypeOK, ShapeInv
<1>a. mode' = mode
  BY DEF Next, MainStep, EndRun, BeginStop, StopStep, ApiApplies, vars
<1>b. main'.step = main.step => Step' = Step
  BY <1>a, StepStays
<1>1. CASE MainFrame /\ BeginApply
  <2>1. CASE helpers.stopping
    <3>1. main'.pc = "drop" /\ main'.step = main.step
      BY <1>0, <1>1, <2>1 DEF BeginApply
    <3> QED
      BY <1>1, <2>1, <3>1 DEF BeginApply, PodInv
  <2>2. CASE ~helpers.stopping
    <3>1. main'.pc = "patch" /\ main'.step = main.step
      BY <1>0, <1>1, <2>2 DEF BeginApply, Go
    <3>2. helpers'.pods = helpers.pods \cup {main.step} /\ patches' = patches \cup {main.step}
      BY <1>0, <1>1, <2>2 DEF BeginApply
    <3> QED
      BY <1>1, <3>1, <3>2 DEF BeginApply, PodInv
  <2> QED
    BY <2>1, <2>2
<1>2. CASE MainFrame /\ ApplyAnswered
  <2>1. main'.pc = "dump" /\ main'.step = main.step /\ helpers'.pods = helpers.pods
    BY <1>0, <1>2 DEF ApplyAnswered, Go
  <2> QED
    BY <1>2, <2>1 DEF ApplyAnswered, PodInv
<1>3. CASE MainFrame /\ ApplyFails
  <2>1. main'.pc = "drop" /\ main'.step = main.step /\ helpers'.pods = helpers.pods
    BY <1>0, <1>3 DEF ApplyFails
  <2> QED
    BY <1>3, <2>1 DEF ApplyFails, PodInv
<1>4. CASE MainFrame /\ ReplaceStale
  <2>1. main'.pc = "work" /\ main'.step = main.step /\ helpers'.pods = helpers.pods
    BY <1>0, <1>4 DEF ReplaceStale, Go
  <2>2. Step' = "helper"
    BY <1>0, <1>4, <1>b, <2>1 DEF ReplaceStale, PlaceInv
  <2> QED
    BY <1>4, <2>1, <2>2 DEF ReplaceStale, PodInv
<1>5. CASE MainFrame /\ DumpEnds
  <2>1. main'.pc = "drop" /\ main'.step = main.step
    BY <1>0, <1>5 DEF DumpEnds
  <2> QED
    BY <1>5, <2>1 DEF DumpEnds, PodInv
<1>6. CASE MainFrame /\ DropGuard
  <2>1. main'.pc = "forget" /\ main'.step = main.step
    BY <1>0, <1>6 DEF DropGuard, Go
  <2> QED
    BY <1>6, <2>1 DEF DropGuard, Deleted, PodInv
<1>7. CASE MainFrame /\ ForgetPod
  <2>1. main'.pc = "work" /\ helpers'.pods = {}
    BY <1>0, <1>7 DEF ForgetPod, Advance, PodInv
  <2> QED
    BY <1>7, <2>1 DEF ForgetPod, PodInv
<1>8. CASE MainFrame /\ StartRestic
  <2>1. main.pc = "work" /\ Step # "helper"
    BY <1>8 DEF StartRestic, ResticSteps
  <2>2. main'.pc \in {"work", "note", "restic"}
    BY <1>0, <1>8, AfterResticGoes DEF StartRestic, Go
  <2> QED
    BY <1>8, <2>1, <2>2, NoPodsBetween DEF MainFrame, StartRestic
<1>9. CASE MainFrame /\ (ResticExits \/ ResticLost)
  <2>1. main.pc = "restic" /\ main'.pc \in {"work", "note"}
    BY <1>9, AfterResticGoes DEF ResticExits, ResticLost
  <2>2. helpers' = helpers /\ patches' = patches /\ pods' = pods /\ undeleted' = undeleted
    BY <1>9 DEF MainFrame, ResticExits, ResticLost
  <2> QED
    BY <1>a, <2>1, <2>2, NoPodsBetween
<1>10. CASE MainFrame /\ (NoteStep \/ WriteStep)
  <2>1. main.pc \in {"note", "write"} /\ main'.pc \in {"work", "write"}
    BY <1>0, <1>10 DEF NoteStep, WriteStep, Go, Advance
  <2>2. helpers' = helpers /\ patches' = patches /\ pods' = pods /\ undeleted' = undeleted
    BY <1>10 DEF MainFrame, NoteStep, WriteStep
  <2> QED
    BY <1>a, <2>1, <2>2, NoPodsBetween
<1>11. CASE EndRun
  <2>1. main'.pc = "record"
    BY <1>0, <1>11 DEF EndRun, Go
  <2> QED
    BY <1>11, <2>1, NoPodsBetween DEF EndRun
<1>12. CASE StopFrame /\ (CloseHelpers \/ DeleteHelpers)
  <2>1. helpers'.pods = helpers.pods
    BY <1>0, <1>12 DEF CloseHelpers, DeleteHelpers
  <2>2. pods' \subseteq helpers.pods \cup undeleted' /\ pods' \subseteq pods /\ undeleted \subseteq undeleted'
    BY <1>12 DEF CloseHelpers, DeleteHelpers, Deleted, PodInv
  <2> QED
    BY <1>12, <1>b, <2>1, <2>2 DEF StopFrame, PodInv
<1>13. CASE ApiApplies
  BY <1>13, <1>b DEF ApiApplies, PodInv
<1>14. CASE UNCHANGED <<main, helpers, patches, pods, undeleted>>
  BY <1>14, <1>b DEF PodInv
<1> QED
  BY <1>1, <1>2, <1>3, <1>4, <1>5, <1>6, <1>7, <1>8, <1>9, <1>10, <1>11, <1>12, <1>13, <1>14
     DEF Next, MainStep, StopStep, MainFrame, StopFrame, vars, BeginStop, Settle, ReleaseRestic,
         RecordStop, CloseAndSignal, PostAndExit, RecordOutcome

\* What the main thread does to the state a stop has closed: it deletes pods and
\* starts neither an apply nor a restic.
LEMMA RunStepAfterClose ==
  ASSUME TypeInv, RunStep
  PROVE  /\ helpers'.stopping = helpers.stopping /\ restic'.stopping = restic.stopping
         /\ pods' \subseteq pods /\ undeleted \subseteq undeleted'
         /\ helpers.stopping /\ main.pc # "patch" => main'.pc # "patch"
         /\ restic.stopping /\ ~restic.running => ~restic'.running
<1>0. /\ main \in [pc : MainPC, step : Nat, failed : BOOLEAN]
      /\ helpers \in [pods : SUBSET Pod, applying : BOOLEAN, stopping : BOOLEAN]
      /\ restic \in [running : BOOLEAN, stopping : BOOLEAN]
  BY DEF TypeInv, TypeOK, ShapeInv
<1>1. CASE BeginApply
  <2>1. helpers'.stopping = helpers.stopping
    BY <1>0, <1>1 DEF BeginApply
  <2>2. helpers.stopping => main'.pc = "drop"
    BY <1>0, <1>1 DEF BeginApply
  <2> QED
    BY <1>1, <2>1, <2>2 DEF BeginApply
<1>2. CASE ApplyAnswered
  BY <1>0, <1>2 DEF ApplyAnswered, Go
<1>3. CASE ApplyFails
  BY <1>0, <1>3 DEF ApplyFails
<1>4. CASE ReplaceStale
  BY <1>0, <1>4 DEF ReplaceStale, Go
<1>5. CASE DumpEnds
  <2>1. main'.pc = "drop"
    BY <1>0, <1>5 DEF DumpEnds
  <2> QED
    BY <1>5, <2>1 DEF DumpEnds
<1>6. CASE DropGuard
  <2>1. main'.pc = "forget"
    BY <1>0, <1>6 DEF DropGuard, Go
  <2> QED
    BY <1>6, <2>1 DEF DropGuard, Deleted
<1>7. CASE ForgetPod
  BY <1>0, <1>7 DEF ForgetPod, Advance
<1>8. CASE StartRestic
  BY <1>0, <1>8, AfterResticGoes DEF StartRestic, Go
<1>9. CASE ResticExits
  BY <1>0, <1>9, AfterResticGoes DEF ResticExits
<1>10. CASE ResticLost
  BY <1>0, <1>10, AfterResticGoes DEF ResticLost
<1>11. CASE NoteStep
  BY <1>0, <1>11 DEF NoteStep, Go, Advance
<1>12. CASE WriteStep
  BY <1>0, <1>12 DEF WriteStep, Advance
<1> QED
  BY <1>1, <1>2, <1>3, <1>4, <1>5, <1>6, <1>7, <1>8, <1>9, <1>10, <1>11, <1>12 DEF RunStep

\* Once the stop has waited for the apply under way, no pod can appear that it
\* does not delete, and no restic outlives its side.
LEMMA StopInvStep ==
  ASSUME PromptApplies, TypeInv, ClaimInv, PodInv, StopInv, [Next]_vars
  PROVE  StopInv'
<1>0. /\ stop \in [helpers : {"off", "close", "settle", "delete", "done"},
                   restic : {"off", "signal", "wait", "done"},
                   delete : SUBSET Pod, pc : {"off", "work", "webhook"}]
      /\ main \in [pc : MainPC, step : Nat, failed : BOOLEAN]
      /\ helpers \in [pods : SUBSET Pod, applying : BOOLEAN, stopping : BOOLEAN]
      /\ restic \in [running : BOOLEAN, stopping : BOOLEAN]
      /\ (helpers.applying <=> main.pc = "patch")
  BY DEF TypeInv, TypeOK, ShapeInv
<1> USE DEF StopInv
<1>1. CASE MainFrame /\ RunStep
  BY <1>1, RunStepAfterClose DEF MainFrame
<1>2. CASE EndRun
  <2>1. main'.pc = "record"
    BY <1>0, <1>2 DEF EndRun, Go
  <2> QED
    BY <1>2, <2>1 DEF EndRun
<1>3. CASE BeginStop
  <2>1. stop'.helpers = "close" /\ stop'.restic = "signal"
    BY <1>0, <1>3 DEF BeginStop
  <2> QED
    BY <2>1
<1>4. CASE StopFrame /\ CloseHelpers
  <2>1. stop'.helpers = "settle" /\ stop'.restic = stop.restic /\ helpers'.stopping
    BY <1>0, <1>4 DEF CloseHelpers
  <2> QED
    BY <1>4, <2>1 DEF CloseHelpers, StopFrame
<1>5. CASE StopFrame /\ Settle
  <2>1. stop'.helpers = "delete" /\ stop'.restic = stop.restic /\ stop'.delete = helpers.pods
    BY <1>0, <1>5 DEF Settle
  <2>2. main.pc # "patch"
    BY <1>0, <1>5 DEF Settle
  <2> QED
    BY <1>5, <2>1, <2>2 DEF Settle, StopFrame, PodInv
<1>6. CASE StopFrame /\ DeleteHelpers
  <2>1. stop'.helpers = "done" /\ stop'.restic = stop.restic
    BY <1>0, <1>6 DEF DeleteHelpers
  <2>2. pods' \subseteq undeleted'
    BY <1>6 DEF DeleteHelpers, Deleted
  <2> QED
    BY <1>6, <2>1, <2>2 DEF DeleteHelpers, StopFrame
<1>7. CASE StopFrame /\ ReleaseRestic
  <2>1. /\ stop'.helpers = stop.helpers /\ stop'.restic = "done" /\ stop'.delete = stop.delete
        /\ ~restic'.running /\ restic'.stopping = restic.stopping
    BY <1>0, <1>7 DEF ReleaseRestic
  <2> QED
    BY <1>7, <2>1 DEF ReleaseRestic, StopFrame
<1>8. CASE StopFrame /\ RecordStop
  <2>1. stop'.helpers = stop.helpers /\ stop'.restic = stop.restic /\ stop'.delete = stop.delete
    BY <1>0, <1>8 DEF RecordStop
  <2> QED
    BY <1>8, <2>1 DEF RecordStop, StopFrame
<1>9. CASE StopFrame /\ CloseAndSignal
  <2>1. /\ stop'.helpers = stop.helpers /\ stop'.delete = stop.delete
        /\ stop'.restic = IF restic.running THEN "wait" ELSE "done"
        /\ restic'.running = restic.running /\ restic'.stopping
    BY <1>0, <1>9 DEF CloseAndSignal
  <2> QED
    BY <1>9, <2>1 DEF CloseAndSignal, StopFrame
<1>10. CASE ApiApplies
  <2>1. main.pc = "patch"
    BY <1>10 DEF ApiApplies, PodInv
  <2> QED
    BY <1>10, <2>1 DEF ApiApplies
<1>11. CASE UNCHANGED <<main, helpers, restic, stop, pods, undeleted>>
  BY <1>11
<1> HIDE DEF StopInv
<1> QED
  BY <1>1, <1>2, <1>3, <1>4, <1>5, <1>6, <1>7, <1>8, <1>9, <1>10, <1>11
     DEF Next, MainStep, StopStep, MainFrame, StopFrame, RunStep, vars, PostAndExit, RecordOutcome

\* The process of a run leaves no restic running, no helper pod but one whose
\* delete failed and none still to come, whoever ends it and whenever, if the
\* apiserver answers an apply while the stop waits for it (LiveHelperPods,
\* LiveResticChildren, stop_run_with).
THEOREM CleanExitEver ==
  ASSUME PromptApplies
  PROVE  Spec => []CleanExit
<1> DEFINE Inv == TypeInv /\ ClaimInv /\ PodInv /\ StopInv
<1>1. Init => Inv
  <2>1. Init => ClaimInv /\ PodInv /\ StopInv
    BY DEF Init, ClaimInv, PodInv, StopInv
  <2> QED
    BY <2>1, TypeInit
<1>2. Inv /\ [Next]_vars => Inv'
  BY TypeStep, ClaimStep, PodStep, StopInvStep
<1>3. Inv => CleanExit
  <2> SUFFICES ASSUME Inv, exited PROVE ~restic.running /\ pods \subseteq undeleted /\ patches = {}
    BY DEF CleanExit
  <2>1. CASE claim = "run"
    <3>1. main.pc = "record"
      BY <2>1 DEF ClaimInv
    <3> QED
      BY <3>1 DEF TypeInv, TypeOK, PodInv
  <2>2. CASE stop.pc = "webhook"
    <3>1. stop.helpers = "done" /\ stop.restic = "done"
      BY <2>2 DEF ClaimInv
    <3> QED
      BY <3>1 DEF StopInv, PodInv
  <2> QED
    BY <2>1, <2>2 DEF ClaimInv
<1> QED
  BY <1>1, <1>2, <1>3, PTL DEF Spec

\* Nobody but the claim's holder writes the outcome of a backup.
LEMMA OutcomeStep == TypeInv /\ ClaimInv /\ OutcomeInv /\ [Next]_vars => OutcomeInv'
<1> SUFFICES ASSUME TypeInv, ClaimInv, OutcomeInv, [Next]_vars PROVE OutcomeInv'
  OBVIOUS
<1>0. status \in [outcome : {"none", "ok", "failed", "stopped"},
                  check : {"none", "ok", "failed", "stopped"},
                  prune : {"none", "ok", "failed", "stopped"}]
  BY DEF TypeInv, ShapeInv
<1>a. mode' = mode
  BY DEF Next, MainStep, EndRun, BeginStop, StopStep, ApiApplies, vars
<1> SUFFICES ASSUME mode = "backup" PROVE OutcomeInv'
  BY <1>a DEF OutcomeInv
<1>1. CASE MainFrame /\ RunStep
  <2>1. main.pc # "record" /\ main'.pc # "record"
    BY <1>1, RunStepGoes
  <2>2. claim # "run" /\ claim' = claim
    BY <1>1, <2>1 DEF MainFrame, ClaimInv
  <2>3. status' = status
    BY <1>1 DEF RunStep, BeginApply, ApplyAnswered, ApplyFails, ReplaceStale, DumpEnds, DropGuard,
         ForgetPod, StartRestic, ResticExits, ResticLost, NoteStep, WriteStep, TypeInv, PlaceInv
  <2> QED
    BY <2>2, <2>3 DEF OutcomeInv
<1>2. CASE ~exited /\ RecordOutcome /\ UNCHANGED <<mode, claim, stop, stoppedIn>>
  <2>1. claim = "run" /\ status.outcome = "none"
    BY <1>2 DEF RecordOutcome, ClaimInv, OutcomeInv
  <2>2. status'.outcome \in {"none", IF main.failed THEN "failed" ELSE "ok"}
    BY <1>0, <1>2, <2>1 DEF RecordOutcome
  <2> QED
    BY <1>2, <2>1, <2>2 DEF RecordOutcome, OutcomeInv
<1>3. CASE EndRun \/ BeginStop
  BY <1>3 DEF EndRun, BeginStop, Claim, OutcomeInv
<1>4. CASE StopFrame /\ RecordStop
  <2>1. claim = "stop"
    BY <1>4 DEF RecordStop, ClaimInv
  <2>2. status'.outcome \in {status.outcome, "stopped"}
    BY <1>0, <1>4 DEF RecordStop, StopRecord
  <2> QED
    BY <1>4, <2>1, <2>2 DEF StopFrame, OutcomeInv
<1>5. CASE StopFrame /\ PostAndExit
  <2>1. claim = "stop"
    BY <1>5 DEF PostAndExit, ClaimInv
  <2> QED
    BY <1>5, <2>1 DEF StopFrame, PostAndExit, OutcomeInv
<1>6. CASE UNCHANGED <<main, claim, status, exited>>
  BY <1>a, <1>6 DEF OutcomeInv
<1> QED
  BY <1>1, <1>2, <1>3, <1>4, <1>5, <1>6
     DEF Next, MainStep, StopStep, MainFrame, StopFrame, RunStep, vars, CloseHelpers, Settle,
         DeleteHelpers, ReleaseRestic, CloseAndSignal, ApiApplies

\* A backup's status says what whoever claimed the outcome found, unless the
\* write was lost: neither the errors a stop brings about nor a stop that came
\* too late replace the record of the other (OutcomeClaim::claim).
THEOREM RecordedByClaimerEver == Spec => []RecordedByClaimer
<1> DEFINE Inv == TypeInv /\ ClaimInv /\ OutcomeInv
<1>1. Init => Inv
  <2>1. Init => ClaimInv /\ OutcomeInv
    BY DEF Init, ClaimInv, OutcomeInv
  <2> QED
    BY <2>1, TypeInit
<1>2. Inv /\ [Next]_vars => Inv'
  BY TypeStep, ClaimStep, OutcomeStep
<1>3. Inv => RecordedByClaimer
  <2>1. Inv => claim \in {"none", "run", "stop"} /\ (exited => claim # "none")
    BY DEF TypeInv, TypeOK, ClaimInv
  <2> QED
    BY <2>1 DEF OutcomeInv, RecordedByClaimer
<1> QED
  BY <1>1, <1>2, <1>3, PTL DEF Spec
=============================================================================
