------------------------- MODULE SharedVolumeProofs -------------------------
(***************************************************************************)
(* Proofs about SharedVolume, for every bound on time, failures and        *)
(* references.                                                             *)
(***************************************************************************)
EXTENDS SharedVolume, TLAPS

NoLateApply == \A w \in late : w.pc # "apply"

\* How the pass in progress, its clock and the stored volume belong together.
PassInv ==
  /\ sv.st = "absent" => ~sv.fin
  /\ sv.st = "deleting" => sv.fin
  /\ pass.pc \in WritingPC => sv.fin
  /\ pass.pc \in DeletePC => sv.st = "deleting"
  /\ pass.pc \in Timed => pass.age <= RequestTimeout
  /\ pass.pc = "deleted" => pass.age <= AnswerLag
  /\ pass.pc = "status" => pass.age = 0

\* Why the settle time is enough: an apply under way is no older than the entry
\* in sv_unsettled claims, and a PVC that has come back after the DELETE came
\* from such an apply.
SettleInv ==
  ~restarted =>
    /\ \A w \in late : w.pc = "apply" => unsettled # Settled /\ unsettled <= w.age
    /\ ~sv.fin => ~pvc /\ NoLateApply
    /\ pass.pc = "deleted" /\ pvc => unsettled # Settled /\ unsettled <= RequestTimeout + pass.age
    /\ pass.pc = "release" => ~pvc /\ NoLateApply

\* What the pass has counted is right, or somebody is on the way to say so.
CountInv == pass.pc = "status" => pass.count = refs \/ news \/ queued

---------------------------------------------------------------------------
\* A pass that goes on to its next request stays a pass.
LEMMA GoType ==
  ASSUME Types, NEW c \in {"idle"} \cup ProvisionPC \cup DeletePC
  PROVE  /\ [pass EXCEPT !.pc = c, !.age = 0] \in PassType
         /\ \A f \in BOOLEAN : [pass EXCEPT !.pc = c, !.age = 0, !.ready = f] \in PassType
         /\ [pass EXCEPT !.pc = c, !.age = 0, !.count = refs] \in PassType
<1>1. 0 \in 0 .. RequestTimeout + AnswerLag
  BY TimeAssumption
<1> QED
  BY <1>1, Zenon DEF PassType, Types

\* What a pass leaves behind is a request within its time.
LEMMA InFlightType ==
  ASSUME Types, PassInv
  PROVE  InFlight \subseteq LateType
<1>1. CASE pass.pc \in LateKinds
  <2>1. pass.age \in 0 .. RequestTimeout
    <3>1. pass.age \in 0 .. RequestTimeout + AnswerLag
      BY DEF Types, PassType
    <3>2. pass.pc \in Timed \/ pass.pc = "status"
      BY <1>1, LateAssumption DEF Timed
    <3>3. pass.age <= RequestTimeout
      BY <3>1, <3>2, TimeAssumption DEF PassInv
    <3> QED
      BY <3>1, <3>3, TimeAssumption
  <2>2. pass \in LateType
    BY <1>1, <2>1, Zenon DEF Types, PassType, LateType
  <2> QED
    BY <1>1, <2>2 DEF InFlight
<1>2. CASE pass.pc \notin LateKinds
  BY <1>2 DEF InFlight
<1> QED
  BY <1>1, <1>2

\* Every step keeps the types; the clock of a request goes with it when the
\* pass is given up.
LEMMA TypeStep == Types /\ PassInv /\ [Next]_vars => Types'
<1> SUFFICES ASSUME Types, PassInv, [Next]_vars PROVE Types'
  OBVIOUS
<1> USE TimeAssumption, LateAssumption DEF Types
<1>1. CASE Begin
  <2>1. pass' \in PassType
    BY <1>1, GoType DEF Begin, At, Go, ProvisionPC, DeletePC
  <2> QED
    BY <1>1, <2>1 DEF Begin, At, Go, Settled
<1>2. CASE AddFinalizer
  <2>1. pass' \in PassType
    BY <1>2, GoType DEF AddFinalizer, At, Go, ProvisionPC, DeletePC
  <2>2. sv' \in VolumeType
    BY <1>2 DEF AddFinalizer, At, Go, VolumeType
  <2> QED
    BY <1>2, <2>1, <2>2 DEF AddFinalizer, At, Go, Settled
<1>3. CASE SelectProvider
  <2>1. PICK found \in BOOLEAN :
          pass' = [pass EXCEPT !.pc = IF found THEN "apply" ELSE "count", !.age = 0, !.ready = found]
    BY <1>3 DEF SelectProvider
  <2>2. pass' \in PassType
    BY <2>1, GoType DEF ProvisionPC, DeletePC
  <2> QED
    BY <1>3, <2>2 DEF SelectProvider, At, Settled
<1>4. CASE ApplyCommits
  <2>1. pass' \in PassType
    BY <1>4, GoType DEF ApplyCommits, At, Go, ProvisionPC, DeletePC
  <2> QED
    BY <1>4, <2>1 DEF ApplyCommits, At, Go, Settled
<1>5. CASE ApplyAnswered
  <2>1. pass' \in PassType
    BY <1>5, GoType DEF ApplyAnswered, At, Go, ProvisionPC, DeletePC
  <2> QED
    BY <1>5, <2>1 DEF ApplyAnswered, At, Go, Settled
<1>6. CASE CountRefs
  <2>1. pass' \in PassType
    BY <1>6, GoType DEF CountRefs, At, ProvisionPC, DeletePC
  <2> QED
    BY <1>6, <2>1 DEF CountRefs, At, Settled
<1>7. CASE WriteStatus
  <2>1. pass' \in PassType
    BY <1>7 DEF WriteStatus, At, Idle, PassType, ProvisionPC, DeletePC
  <2>2. sv' \in VolumeType
    BY <1>7 DEF WriteStatus, At, Idle, VolumeType, PassType
  <2> QED
    BY <1>7, <2>1, <2>2 DEF WriteStatus, At, Idle, Settled
<1>8. CASE VolumeVanished
  <2>1. pass' \in PassType
    BY <1>8 DEF VolumeVanished, At, GiveUp, Idle, InFlight, PassType, ProvisionPC, DeletePC
  <2>2. late' \subseteq LateType
    BY <1>8, InFlightType DEF VolumeVanished, GiveUp
  <2> QED
    BY <1>8, <2>1, <2>2 DEF VolumeVanished, At, GiveUp, Idle, InFlight, Settled
<1>9. CASE BeginDelete
  <2>1. pass' \in PassType
    BY <1>9, GoType DEF BeginDelete, At, Go, ProvisionPC, DeletePC
  <2> QED
    BY <1>9, <2>1 DEF BeginDelete, At, Go, Settled
<1>10. CASE DeleteCommits
  <2>1. pass' \in PassType
    BY <1>10, GoType DEF DeleteCommits, At, Go, ProvisionPC, DeletePC
  <2> QED
    BY <1>10, <2>1 DEF DeleteCommits, At, Go, Settled
<1>11. CASE HoldFinalizer
  <2>1. pass' \in PassType
    BY <1>11 DEF HoldFinalizer, At, Idle, MustWait, PassType, ProvisionPC, DeletePC
  <2> QED
    BY <1>11, <2>1 DEF HoldFinalizer, At, Idle, MustWait, Settled
<1>12. CASE ForgetUnsettled
  <2>1. pass' \in PassType
    BY <1>12, GoType DEF ForgetUnsettled, At, Go, MustWait, Settled, ProvisionPC, DeletePC
  <2> QED
    BY <1>12, <2>1 DEF ForgetUnsettled, At, Go, MustWait, Settled, Settled
<1>13. CASE Release
  <2>1. pass' \in PassType
    BY <1>13 DEF Release, At, Gone, Idle, PassType, ProvisionPC, DeletePC
  <2>2. sv' \in VolumeType
    BY <1>13 DEF Release, At, Gone, Idle, VolumeType
  <2> QED
    BY <1>13, <2>1, <2>2 DEF Release, At, Gone, Idle, Settled
<1>14. CASE PassFails
  <2>1. pass' \in PassType
    BY <1>14 DEF PassFails, At, GiveUp, Idle, InFlight, PassType, ProvisionPC, DeletePC
  <2>2. late' \subseteq LateType
    BY <1>14, InFlightType DEF PassFails, GiveUp
  <2> QED
    BY <1>14, <2>1, <2>2 DEF PassFails, At, GiveUp, Idle, InFlight, Settled
<1>15. CASE Restart
  <2>1. pass' \in PassType
    BY <1>15 DEF Restart, Idle, InFlight, PassType, ProvisionPC, DeletePC
  <2>2. late' \subseteq LateType
    BY <1>15, InFlightType DEF Restart
  <2> QED
    BY <1>15, <2>1, <2>2 DEF Restart, Idle, InFlight, Settled
<1>16. ASSUME NEW w \in late, LateApply(w) PROVE Types'
  <2>1. late' \subseteq LateType
    BY <1>16 DEF LateApply, LateType, PassType, PassInv, Timed
  <2> QED
    BY <1>16, <2>1 DEF LateApply, Settled
<1>17. ASSUME NEW w \in late, LateDelete(w) PROVE Types'
  <2>1. late' \subseteq LateType
    BY <1>17 DEF LateDelete, LateType, PassType, PassInv, Timed
  <2> QED
    BY <1>17, <2>1 DEF LateDelete, Settled
<1>18. ASSUME NEW w \in late, LateStatus(w) PROVE Types'
  <2>1. sv' \in VolumeType
    BY <1>18 DEF LateStatus, VolumeType, LateType
  <2>2. late' \subseteq LateType
    BY <1>18 DEF LateStatus, LateType, PassType, PassInv, Timed
  <2> QED
    BY <1>18, <2>1, <2>2 DEF LateStatus, Settled
<1>19. ASSUME NEW w \in late, LateDies(w) PROVE Types'
  <2>1. late' \subseteq LateType
    BY <1>19 DEF LateDies, LateType, PassType, PassInv, Timed
  <2> QED
    BY <1>19, <2>1 DEF LateDies, Settled
<1>20. CASE Create
  <2>1. sv' \in VolumeType
    <3>1. 0 \in 0 .. MaxRefs
      OBVIOUS
    <3> QED
      BY <1>20, <3>1, Zenon DEF Create, Gone, VolumeType
  <2> QED
    BY <1>20, <2>1 DEF Create, Gone, Settled
<1>21. CASE Remove
  <2>1. sv' \in VolumeType
    BY <1>21 DEF Remove, Gone, VolumeType
  <2> QED
    BY <1>21, <2>1 DEF Remove, VolumeType
<1>22. CASE ClaimChanges
  BY <1>22 DEF ClaimChanges
<1>23. CASE MapClaim
  BY <1>23 DEF MapClaim
<1>24. CASE Requeue
  BY <1>24 DEF Requeue, At
<1>25. CASE Tick
  <2>1. pass' \in PassType
    BY <1>25 DEF Tick, At, Aged, Timed, Settled, PassType, ProvisionPC, DeletePC, PassInv
  <2>2. late' \subseteq LateType
    BY <1>25 DEF Tick, At, Aged, Timed, Settled, LateType, PassType, PassInv, Timed
  <2> QED
    BY <1>25, <2>1, <2>2 DEF Tick, At, Aged, Timed, Settled, Settled
<1>26. CASE UNCHANGED vars
  BY <1>26 DEF vars
<1> QED
  BY <1>1, <1>2, <1>3, <1>4, <1>5, <1>6, <1>7, <1>8, <1>9, <1>10, <1>11, <1>12, <1>13, <1>14, <1>15, <1>16, <1>17, <1>18, <1>19, <1>20, <1>21, <1>22, <1>23, <1>24, <1>25, <1>26 DEF Next, ProvisionStep, DeleteStep, FailureStep, LateStep, UserStep

\* Every step keeps pass and volume together.
LEMMA PassStep == Types /\ PassInv /\ [Next]_vars => PassInv'
<1> SUFFICES ASSUME Types, PassInv, [Next]_vars PROVE PassInv'
  OBVIOUS
<1> USE TimeAssumption, LateAssumption DEF Types, VolumeType, PassType, LateType, PassInv, WritingPC, ProvisionPC, DeletePC, Timed, Settled
<1>1. CASE Begin
  BY <1>1 DEF Begin, At, Go
<1>2. CASE AddFinalizer
  BY <1>2 DEF AddFinalizer, At, Go
<1>3. CASE SelectProvider
  BY <1>3 DEF SelectProvider, At
<1>4. CASE ApplyCommits
  BY <1>4 DEF ApplyCommits, At, Go
<1>5. CASE ApplyAnswered
  BY <1>5 DEF ApplyAnswered, At, Go
<1>6. CASE CountRefs
  BY <1>6 DEF CountRefs, At
<1>7. CASE WriteStatus
  BY <1>7 DEF WriteStatus, At, Idle
<1>8. CASE VolumeVanished
  BY <1>8 DEF VolumeVanished, At, GiveUp, Idle, InFlight
<1>9. CASE BeginDelete
  BY <1>9 DEF BeginDelete, At, Go
<1>10. CASE DeleteCommits
  BY <1>10 DEF DeleteCommits, At, Go
<1>11. CASE HoldFinalizer
  BY <1>11 DEF HoldFinalizer, At, Idle, MustWait
<1>12. CASE ForgetUnsettled
  BY <1>12 DEF ForgetUnsettled, At, Go, MustWait, Settled
<1>13. CASE Release
  BY <1>13 DEF Release, At, Gone, Idle
<1>14. CASE PassFails
  BY <1>14 DEF PassFails, At, GiveUp, Idle, InFlight
<1>15. CASE Restart
  BY <1>15 DEF Restart, Idle, InFlight
<1>16. CASE \E w \in late : LateApply(w)
  BY <1>16 DEF LateApply
<1>17. CASE \E w \in late : LateDelete(w)
  BY <1>17 DEF LateDelete
<1>18. CASE \E w \in late : LateStatus(w)
  BY <1>18 DEF LateStatus
<1>19. CASE \E w \in late : LateDies(w)
  BY <1>19 DEF LateDies
<1>20. CASE Create
  BY <1>20 DEF Create, Gone
<1>21. CASE Remove
  BY <1>21 DEF Remove, Gone
<1>22. CASE ClaimChanges
  BY <1>22 DEF ClaimChanges
<1>23. CASE MapClaim
  BY <1>23 DEF MapClaim
<1>24. CASE Requeue
  BY <1>24 DEF Requeue, At
<1>25. CASE Tick
  BY <1>25 DEF Tick, At, Aged, Timed, Settled
<1>26. CASE UNCHANGED vars
  BY <1>26 DEF vars
<1> QED
  BY <1>1, <1>2, <1>3, <1>4, <1>5, <1>6, <1>7, <1>8, <1>9, <1>10, <1>11, <1>12, <1>13, <1>14, <1>15, <1>16, <1>17, <1>18, <1>19, <1>20, <1>21, <1>22, <1>23, <1>24, <1>25, <1>26 DEF Next, ProvisionStep, DeleteStep, FailureStep, LateStep, UserStep

\* Every step keeps a request that may still create the PVC accounted for.
LEMMA SettleStep ==
  ASSUME PromptAnswers
  PROVE  Types /\ PassInv /\ SettleInv /\ [Next]_vars => SettleInv'
<1> SUFFICES ASSUME Types, PassInv, SettleInv, [Next]_vars PROVE SettleInv'
  OBVIOUS
<1> USE TimeAssumption, LateAssumption, PromptAnswers DEF Types, VolumeType, PassType, LateType, PassInv, SettleInv, NoLateApply, PromptAnswers, WritingPC, ProvisionPC, DeletePC, Timed, Settled
<1>1. CASE Begin
  BY <1>1 DEF Begin, At, Go
<1>2. CASE AddFinalizer
  BY <1>2 DEF AddFinalizer, At, Go
<1>3. CASE SelectProvider
  BY <1>3 DEF SelectProvider, At
<1>4. CASE ApplyCommits
  BY <1>4 DEF ApplyCommits, At, Go
<1>5. CASE ApplyAnswered
  BY <1>5 DEF ApplyAnswered, At, Go
<1>6. CASE CountRefs
  BY <1>6 DEF CountRefs, At
<1>7. CASE WriteStatus
  BY <1>7 DEF WriteStatus, At, Idle
<1>8. CASE VolumeVanished
  BY <1>8 DEF VolumeVanished, At, GiveUp, Idle, InFlight
<1>9. CASE BeginDelete
  BY <1>9 DEF BeginDelete, At, Go
<1>10. CASE DeleteCommits
  BY <1>10 DEF DeleteCommits, At, Go
<1>11. CASE HoldFinalizer
  BY <1>11 DEF HoldFinalizer, At, Idle, MustWait
<1>12. CASE ForgetUnsettled
  BY <1>12 DEF ForgetUnsettled, At, Go, MustWait, Settled
<1>13. CASE Release
  BY <1>13 DEF Release, At, Gone, Idle
<1>14. CASE PassFails
  BY <1>14 DEF PassFails, At, GiveUp, Idle, InFlight
<1>15. CASE Restart
  BY <1>15 DEF Restart, Idle, InFlight
<1>16. CASE \E w \in late : LateApply(w)
  BY <1>16 DEF LateApply
<1>17. CASE \E w \in late : LateDelete(w)
  BY <1>17 DEF LateDelete
<1>18. CASE \E w \in late : LateStatus(w)
  BY <1>18 DEF LateStatus
<1>19. CASE \E w \in late : LateDies(w)
  BY <1>19 DEF LateDies
<1>20. CASE Create
  BY <1>20 DEF Create, Gone
<1>21. CASE Remove
  BY <1>21 DEF Remove, Gone
<1>22. CASE ClaimChanges
  BY <1>22 DEF ClaimChanges
<1>23. CASE MapClaim
  BY <1>23 DEF MapClaim
<1>24. CASE Requeue
  BY <1>24 DEF Requeue, At
<1>25. CASE Tick
  BY <1>25 DEF Tick, At, Aged, Timed, Settled
<1>26. CASE UNCHANGED vars
  BY <1>26 DEF vars
<1> QED
  BY <1>1, <1>2, <1>3, <1>4, <1>5, <1>6, <1>7, <1>8, <1>9, <1>10, <1>11, <1>12, <1>13, <1>14, <1>15, <1>16, <1>17, <1>18, <1>19, <1>20, <1>21, <1>22, <1>23, <1>24, <1>25, <1>26 DEF Next, ProvisionStep, DeleteStep, FailureStep, LateStep, UserStep

\* Every step keeps the count right or a pass due.
LEMMA CountStep ==
  Types /\ PassInv /\ CountInv /\ RefCountSettles /\ [Next]_vars => CountInv' /\ RefCountSettles'
<1> SUFFICES ASSUME Types, PassInv, CountInv, RefCountSettles, [Next]_vars PROVE (CountInv /\ RefCountSettles)'
  OBVIOUS
<1> USE TimeAssumption, LateAssumption DEF Types, VolumeType, PassType, LateType, PassInv, CountInv, RefCountSettles, WritingPC, ProvisionPC, DeletePC, At
<1>1. CASE Begin
  BY <1>1 DEF Begin, At, Go
<1>2. CASE AddFinalizer
  BY <1>2 DEF AddFinalizer, At, Go
<1>3. CASE SelectProvider
  BY <1>3 DEF SelectProvider, At
<1>4. CASE ApplyCommits
  BY <1>4 DEF ApplyCommits, At, Go
<1>5. CASE ApplyAnswered
  BY <1>5 DEF ApplyAnswered, At, Go
<1>6. CASE CountRefs
  BY <1>6 DEF CountRefs, At
<1>7. CASE WriteStatus
  BY <1>7 DEF WriteStatus, At, Idle
<1>8. CASE VolumeVanished
  BY <1>8 DEF VolumeVanished, At, GiveUp, Idle, InFlight
<1>9. CASE BeginDelete
  BY <1>9 DEF BeginDelete, At, Go
<1>10. CASE DeleteCommits
  BY <1>10 DEF DeleteCommits, At, Go
<1>11. CASE HoldFinalizer
  BY <1>11 DEF HoldFinalizer, At, Idle, MustWait
<1>12. CASE ForgetUnsettled
  BY <1>12 DEF ForgetUnsettled, At, Go, MustWait, Settled
<1>13. CASE Release
  BY <1>13 DEF Release, At, Gone, Idle
<1>14. CASE PassFails
  BY <1>14 DEF PassFails, At, GiveUp, Idle, InFlight
<1>15. CASE Restart
  BY <1>15 DEF Restart, Idle, InFlight
<1>16. CASE \E w \in late : LateApply(w)
  BY <1>16 DEF LateApply
<1>17. CASE \E w \in late : LateDelete(w)
  BY <1>17 DEF LateDelete
<1>18. ASSUME NEW w \in late, LateStatus(w) PROVE (CountInv /\ RefCountSettles)'
  <2>1. CASE sv' = sv
    BY <1>18, <2>1 DEF LateStatus
  <2>2. CASE sv' # sv
    BY <1>18, <2>2 DEF LateStatus
  <2> QED
    BY <2>1, <2>2
<1>19. CASE \E w \in late : LateDies(w)
  BY <1>19 DEF LateDies
<1>20. CASE Create
  BY <1>20 DEF Create, Gone
<1>21. CASE Remove
  BY <1>21 DEF Remove, Gone
<1>22. CASE ClaimChanges
  BY <1>22 DEF ClaimChanges
<1>23. CASE MapClaim
  BY <1>23 DEF MapClaim
<1>24. CASE Requeue
  BY <1>24 DEF Requeue, At
<1>25. CASE Tick
  BY <1>25 DEF Tick, At, Aged, Timed, Settled
<1>26. CASE UNCHANGED vars
  BY <1>26 DEF vars
<1> QED
  BY <1>1, <1>2, <1>3, <1>4, <1>5, <1>6, <1>7, <1>8, <1>9, <1>10, <1>11, <1>12, <1>13, <1>14, <1>15, <1>16, <1>17, <1>18, <1>19, <1>20, <1>21, <1>22, <1>23, <1>24, <1>25, <1>26 DEF Next, ProvisionStep, DeleteStep, FailureStep, LateStep, UserStep

---------------------------------------------------------------------------
\* The types hold, and pass and volume belong together, in every behaviour of
\* reconcile_shared_volume.
LEMMA Typed == Spec => [](Types /\ PassInv)
<1>1. Init => Types /\ PassInv
  <2>1. /\ 0 \in 0 .. MaxRefs /\ 0 \in 0 .. MaxFails
        /\ 0 \in 0 .. RequestTimeout + AnswerLag
    BY TimeAssumption
  <2>2. Gone \in VolumeType /\ Idle \in PassType
    BY <2>1, Zenon DEF Gone, VolumeType, Idle, PassType
  <2>3. Init => Types
    BY <2>1, <2>2 DEF Init, Types
  <2>4. Init => PassInv
    BY DEF Init, Gone, Idle, PassInv, WritingPC, DeletePC, Timed
  <2> QED
    BY <2>3, <2>4
<1>2. Types /\ PassInv /\ [Next]_vars => (Types /\ PassInv)'
  BY TypeStep, PassStep
<1> QED
  BY <1>1, <1>2, PTL DEF Spec

\* The types hold, and no pass of reconcile_shared_volume asks for a PVC without the
\* finalizer in place, whatever fails and however long requests take.
THEOREM TypeCorrect == Spec => []TypeOK
<1>1. Types /\ PassInv => TypeOK
  BY DEF PassInv, TypeOK
<1> QED
  BY <1>1, Typed, PTL

\* No PVC is left behind by a process that lives: what DELETE_SETTLE is for.
\* The answer to the DELETE has to come in within the margin the settle time
\* has over the apiserver's timeout.
THEOREM NoOrphanEver ==
  ASSUME PromptAnswers
  PROVE  Spec => []NoOrphan
<1>1. Init => SettleInv
  BY DEF Init, SettleInv, NoLateApply, Gone, Idle
<1>2. Types /\ PassInv /\ SettleInv /\ [Next]_vars => SettleInv'
  BY SettleStep
<1>3. Types /\ PassInv /\ SettleInv => NoOrphan
  BY DEF Types, PassInv, SettleInv, NoOrphan
<1> QED
  BY <1>1, <1>2, <1>3, Typed, PTL DEF Spec

\* The `volume rm` guard reads the right figure whenever the controller has
\* nothing left to do for the volume, for any number of claims and failures.
THEOREM RefCountSettlesEver == Spec => []RefCountSettles
<1>1. Init => CountInv /\ RefCountSettles
  BY DEF Init, CountInv, RefCountSettles, Gone, Idle
<1>2. Types /\ PassInv /\ CountInv /\ RefCountSettles /\ [Next]_vars
      => (CountInv /\ RefCountSettles)'
  BY CountStep
<1> QED
  BY <1>1, <1>2, Typed, PTL DEF Spec

\* No pass deletes the PVC of a volume that is not being deleted.
THEOREM VolumeKeepsDataEver == Spec => VolumeKeepsData
<1>1. Types /\ PassInv /\ [Next]_vars
      => [pvc /\ ~pvc' => sv.st = "deleting" \/ \E w \in late : LateDelete(w)]_vars
  <2> SUFFICES ASSUME Types, PassInv, Next, pvc, ~pvc', ~\E w \in late : LateDelete(w)
              PROVE  sv.st = "deleting"
    BY DEF vars
  <2>1. DeleteCommits
    BY DEF Next, ProvisionStep, DeleteStep, FailureStep, LateStep, UserStep, Begin, AddFinalizer,
           SelectProvider, ApplyCommits, ApplyAnswered, CountRefs, WriteStatus, VolumeVanished,
           BeginDelete, HoldFinalizer, ForgetUnsettled, Release, PassFails, GiveUp, Restart,
           LateApply, LateStatus, LateDies, Create, Remove, ClaimChanges, MapClaim, Requeue, Tick
  <2> QED
    BY <2>1 DEF DeleteCommits, At, PassInv, DeletePC
<1> QED
  BY <1>1, Typed, PTL DEF Spec, VolumeKeepsData
=============================================================================
