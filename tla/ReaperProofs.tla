---------------------------- MODULE ReaperProofs ----------------------------
(***************************************************************************)
(* Proofs about Reaper, for any tenants, placements, dwell and failures.   *)
(***************************************************************************)
EXTENDS Reaper, TLAPS

TenantType == [st : {"absent", "live", "deleting"}, provider : BOOLEAN,
               instance : BOOLEAN, ready : BOOLEAN]
PassType == [pc : {"sleep", "claims", "retained", "shared", "list", "judge", "strip",
                   "verify", "delete", "end"},
             arm : Arm, listed : SUBSET Claim, veto : SUBSET Backend, cand : SUBSET Backend,
             same : SUBSET Backend, seen : SUBSET Backend, cur : Backend \cup {NoBackend}]

\* A sweep past its LIST of claims, and one past all three.
Swept == {"retained", "shared", "list", "judge", "strip", "verify", "delete", "end"}
Judging == {"list", "judge", "strip", "verify", "delete", "end"}
Reaping == {"strip", "verify", "delete"}

HomeInv == home \in [Tenant -> Backend]

\* What a tenant's status says once its pass has come as far.
TenantInv ==
  \A t \in Tenant :
    /\ tenant[t].ready \/ prov[t] # "idle" =>
         tenant[t].st # "absent" /\ (t \in Claim => tenant[t].provider)
    /\ tenant[t].ready \/ prov[t] = "reached" =>
         home[t] = "pg" \/ tenant[t].instance
    /\ tenant[t].ready => t \in Claim \/ tenant[t].instance
    /\ prov[t] = "allocated" => home[t] # "pg" /\ tenant[t].instance
    /\ t \in Claim /\ home[t] = "pg" => ~tenant[t].instance

\* The sweep names an instance only while it reaps it, one it did not veto, and
\* knows by uid which of those it listed are still there.
PassInv ==
  /\ pass.cur # NoBackend <=> pass.pc \in Reaping
  /\ pass.pc \in {"strip", "verify"} => pass.cur = "pg"
  /\ pass.cur \notin pass.veto
  /\ pass.pc \in Reaping \cup {"judge"} => pass.same \subseteq exists

\* The arm in progress judges its own instances; the sweep reports none before an
\* arm has listed them, and those it has judged and found referenced have no clock.
ClockInv ==
  /\ pass.pc \in {"sleep", "claims", "retained", "shared"} => pass.seen = {} /\ pass.cand = {}
  /\ pass.pc \in {"list", "end"} => pass.cand = {}
  /\ \A b \in pass.cand : ArmOf(b) = pass.arm
  /\ \A b \in pass.seen \cap pass.veto : b \in pass.cand \/ clock[b] = NoClock

\* Only the cluster owns its volume, and not when it is about to be deleted.
VolumeInv ==
  /\ \A b \in Backend : vol[b] = "owned" => b = "pg"
  /\ pass.pc = "delete" /\ pass.cur \in pass.same => vol[pass.cur] # "owned"

\* A claim that the LIST of claims gave no veto stays off its backend for the
\* rest of the sweep.
ClaimListInv ==
  pass.pc \in Swept =>
    \A c \in Claim : \/ home[c] \in pass.veto
                     \/ c \notin pass.listed /\ ~tenant[c].ready /\ prov[c] # "reached"

\* Every tenant that has stayed since the sweep began has its veto once its kind
\* has been listed.
SteadyInv ==
  /\ \A t \in steady : Occupies(t)
  /\ pass.pc \in Judging \cup {"shared"} => \A t \in steady \cap Claim : home[t] \in pass.veto
  /\ pass.pc \in Judging => \A t \in steady \cap Shared : home[t] \in pass.veto

\* A claim that is connected has its backend.
BackendInv ==
  \A c \in Claim : tenant[c].ready \/ prov[c] = "reached" => home[c] \in exists

-----------------------------------------------------------------------------
(* Types. *)

\* Backends are never called none.
LEMMA BackendNames == NoBackend \notin Backend /\ Dwell \in Nat /\ MaxFails \in Nat
BY ConstantsAssumption DEF NoBackend

\* The sweep keeps its type whatever it goes on to.
LEMMA PassTypes ==
  ASSUME Types
  PROVE  /\ pass \in PassType /\ Asleep \in PassType
         /\ \A b \in Backend : Judged(b) \in PassType
         /\ NextArm(pass) \in PassType /\ AfterFailedArm(pass) \in PassType
<1>1. pass \in PassType
  BY DEF Types, PassType
<1>2. Asleep \in PassType
  BY DEF Asleep, PassType, Arm, NoBackend
<1>3. \A b \in Backend : Judged(b) \in PassType
  BY <1>1 DEF Judged, PassType
<1>4. \A p \in PassType : NextArm(p) \in PassType
  BY DEF NextArm, PassType, Arm
<1>5. [pass EXCEPT !.seen = {b \in @ : ArmOf(b) # pass.arm}] \in PassType
  BY <1>1 DEF PassType
<1> QED
  BY <1>1, <1>2, <1>3, <1>4, <1>5 DEF AfterFailedArm

\* A step of the sweep keeps the types.
LEMMA SweepType ==
  ASSUME Types, HomeInv, PassInv, SweepStep, Remembered
  PROVE  Types'
<1>0. /\ pass \in PassType /\ steady' \subseteq Tenant
      /\ clock \in [Backend -> 0 .. Dwell \cup {NoClock}]
      /\ vol \in [Backend -> {"none", "owned", "kept"}]
      /\ exists \subseteq Backend
  BY DEF Types, PassType, Remembered
<1>1. CASE Wake
  <2>1. pass' \in PassType
    BY <1>0, <1>1 DEF Wake, Go, PassType
  <2>2. clock' \in [Backend -> 0 .. Dwell \cup {NoClock}]
    BY <1>0, <1>1, BackendNames DEF Wake
  <2> QED
    BY <1>0, <1>1, <2>1, <2>2 DEF Wake, Types, PassType
<1>2. CASE ListClaims
  <2>1. Homes({c \in Claim : ClaimVetoes(c)}) \subseteq Backend
    BY DEF Homes, HomeInv, Tenant
  <2>2. pass' \in PassType
    BY <1>0, <1>2, <2>1 DEF ListClaims, PassType
  <2> QED
    BY <1>0, <1>2, <2>2 DEF ListClaims, world, Types, PassType
<1>3. CASE ListRetained
  <2>1. UNION {RetainedVetoes(c) : c \in Claim} \subseteq Backend
    BY DEF RetainedVetoes
  <2>2. pass' \in PassType
    BY <1>0, <1>3, <2>1 DEF ListRetained, PassType
  <2> QED
    BY <1>0, <1>3, <2>2 DEF ListRetained, world, Types, PassType
<1>4. CASE ListShared
  <2>1. PICK listed \in SUBSET Shared :
          pass' = [pass EXCEPT !.pc = "list", !.veto = @ \cup Homes(listed)]
    BY <1>4 DEF ListShared
  <2>2. Homes(listed) \subseteq Backend
    BY DEF Homes, HomeInv, Tenant
  <2>3. pass' \in PassType
    BY <1>0, <2>1, <2>2 DEF PassType
  <2> QED
    BY <1>0, <1>4, <2>3 DEF ListShared, world, Types, PassType
<1>5. CASE ListInstances
  <2>1. pass' \in PassType
    BY <1>0, <1>5 DEF ListInstances, PassType
  <2> QED
    BY <1>0, <1>5, <2>1 DEF ListInstances, world, Types, PassType
<1>6. CASE ArmDone
  BY <1>0, <1>6, PassTypes DEF ArmDone, world, Types, PassType
<1>7. CASE EndPass
  <2>1. clock' \in [Backend -> 0 .. Dwell \cup {NoClock}]
    BY <1>0, <1>7 DEF EndPass
  <2> QED
    BY <1>0, <1>7, <2>1, PassTypes DEF EndPass, world, Types, PassType
<1>8. ASSUME NEW b \in Backend, Veto(b) PROVE Types'
  <2>1. clock' \in [Backend -> 0 .. Dwell \cup {NoClock}]
    BY <1>0, <1>8 DEF Veto
  <2> QED
    BY <1>0, <1>8, <2>1, PassTypes DEF Veto, world, Types, PassType
<1>9. ASSUME NEW b \in Backend, Dwells(b) PROVE Types'
  <2>1. clock' \in [Backend -> 0 .. Dwell \cup {NoClock}]
    BY <1>0, <1>9, BackendNames DEF Dwells
  <2> QED
    BY <1>0, <1>9, <2>1, PassTypes DEF Dwells, world, Types, PassType
<1>10. ASSUME NEW b \in Backend, Reap(b) PROVE Types'
  <2>1. pass' \in PassType
    BY <1>0, <1>10 DEF Reap, PassType
  <2> QED
    BY <1>0, <1>10, <2>1 DEF Reap, world, Types, PassType
<1>11. CASE Strip
  <2>1. pass' \in PassType /\ vol' \in [Backend -> {"none", "owned", "kept"}]
    BY <1>0, <1>11 DEF Strip, Go, PassType
  <2> QED
    BY <1>0, <1>11, <2>1 DEF Strip, Types, PassType
<1>12. CASE Verify
  <2>1. pass.cur \in Backend
    BY <1>0, <1>12 DEF Verify, At, PassInv, PassType, Reaping
  <2>2. pass' \in PassType
    <3>1. [pass EXCEPT !.pc = "delete"] \in PassType
      BY <1>0 DEF PassType
    <3> QED
      BY <1>12, <2>1, <3>1, PassTypes DEF Verify
  <2> QED
    BY <1>0, <1>12, <2>2 DEF Verify, world, Types, PassType
<1>13. CASE Delete
  <2>1. pass.cur \in Backend
    BY <1>0, <1>13 DEF Delete, At, PassInv, PassType, Reaping
  <2>2. pass' \in PassType
    <3>1. Judged(pass.cur) \in PassType
      BY <2>1, PassTypes
    <3> QED
      BY <1>0, <1>13, <3>1 DEF Delete, PassType
  <2>3. clock' \in [Backend -> 0 .. Dwell \cup {NoClock}]
    BY <1>0, <1>13 DEF Delete
  <2>4. exists' \subseteq Backend /\ vol' \in [Backend -> {"none", "owned", "kept"}]
    BY <1>0, <1>13 DEF Delete, Removed
  <2> QED
    BY <1>0, <1>13, <2>2, <2>3, <2>4 DEF Delete, Types, PassType
<1>14. CASE ArmFails
  <2>1. fails' \in 0 .. MaxFails
    BY <1>14, BackendNames DEF ArmFails, MayFail, Types
  <2> QED
    BY <1>0, <1>14, <2>1, PassTypes DEF ArmFails, world, Types, PassType
<1> QED
  BY <1>1, <1>2, <1>3, <1>4, <1>5, <1>6, <1>7, <1>8, <1>9, <1>10, <1>11, <1>12, <1>13, <1>14
     DEF SweepStep

\* A failure keeps the types.
LEMMA FailureType ==
  ASSUME Types, HomeInv, PassInv, FailureStep, Remembered
  PROVE  Types'
<1>0. /\ pass \in PassType /\ steady' \subseteq Tenant
      /\ vol \in [Backend -> {"none", "owned", "kept"}]
      /\ prov \in [Tenant -> {"idle", "ensured", "allocated", "reached"}]
      /\ exists \subseteq Backend
  BY DEF Types, PassType, Remembered
<1>1. MayFail => fails' \in 0 .. MaxFails
  BY BackendNames DEF MayFail, Types
<1>2. CASE AbortPass
  BY <1>0, <1>1, <1>2, PassTypes DEF AbortPass, world, Types, PassType
<1>3. CASE StripFails
  <2>1. pass.cur \in Backend
    BY <1>0, <1>3 DEF StripFails, PassInv, PassType, Reaping
  <2> QED
    BY <1>0, <1>1, <1>3, <2>1, PassTypes DEF StripFails, world, Types, PassType
<1>4. CASE DeleteErrs
  <2>1. exists' \subseteq Backend /\ vol' \in [Backend -> {"none", "owned", "kept"}]
    BY <1>0, <1>4 DEF DeleteErrs, Removed
  <2> QED
    BY <1>0, <1>1, <1>4, <2>1, PassTypes DEF DeleteErrs, Types, PassType
<1>5. CASE Restart
  <2>1. /\ clock' \in [Backend -> 0 .. Dwell \cup {NoClock}]
        /\ prov' \in [Tenant -> {"idle", "ensured", "allocated", "reached"}]
    BY <1>5 DEF Restart
  <2> QED
    BY <1>0, <1>1, <1>5, <2>1, PassTypes DEF Restart, Types, PassType
<1>6. CASE Readopt
  <2>1. vol' \in [Backend -> {"none", "owned", "kept"}]
    BY <1>0, <1>6 DEF Readopt
  <2> QED
    BY <1>0, <1>1, <1>6, <2>1 DEF Readopt, Types, PassType
<1>7. ASSUME NEW t \in Tenant, Requeue(t) PROVE Types'
  <2>1. prov' \in [Tenant -> {"idle", "ensured", "allocated", "reached"}]
    BY <1>0, <1>7 DEF Requeue
  <2> QED
    BY <1>0, <1>1, <1>7, <2>1 DEF Requeue, Types, PassType
<1> QED
  BY <1>2, <1>3, <1>4, <1>5, <1>6, <1>7 DEF FailureStep

\* A user, the scheduler, the grace period and a finalizer keep the types.
LEMMA EnvironmentType ==
  ASSUME Types, HomeInv, EnvironmentStep, Remembered
  PROVE  Types'
<1>0. /\ pass \in PassType /\ steady' \subseteq Tenant
      /\ tenant \in [Tenant -> TenantType]
      /\ retained \in [Claim -> Backend \cup {"pg", NoBackend, NoSnapshot}]
      /\ vol \in [Backend -> {"none", "owned", "kept"}]
      /\ exists \subseteq Backend
  BY DEF Types, PassType, TenantType, Remembered
<1>1. ASSUME NEW t \in Tenant, Create(t) PROVE Types'
  <2>1. tenant' \in [Tenant -> TenantType]
    BY <1>0, <1>1 DEF Create, TenantType
  <2> QED
    BY <1>0, <1>1, <2>1 DEF Create, Types, TenantType
<1>2. ASSUME NEW t \in Tenant, DeleteTenant(t) PROVE Types'
  <2>1. tenant' \in [Tenant -> TenantType]
    BY <1>0, <1>2 DEF DeleteTenant, TenantType
  <2> QED
    BY <1>0, <1>2, <2>1 DEF DeleteTenant, Types, TenantType
<1>3. ASSUME NEW t \in Tenant, Finalize(t) PROVE Types'
  <2>1. tenant' \in [Tenant -> TenantType]
    BY <1>0, <1>3 DEF Finalize, NoTenant, TenantType
  <2>2. \A c \in Claim : Snapshot(c) \in Backend \cup {"pg", NoBackend, NoSnapshot}
    BY DEF Snapshot, HomeInv, Tenant
  <2>3. retained' \in [Claim -> Backend \cup {"pg", NoBackend, NoSnapshot}]
    BY <1>0, <1>3, <2>2 DEF Finalize
  <2> QED
    BY <1>0, <1>3, <2>1, <2>3 DEF Finalize, Types, TenantType
<1>4. ASSUME NEW c \in Claim, Schedule(c) PROVE Types'
  <2>1. tenant' \in [Tenant -> TenantType]
    BY <1>0, <1>4 DEF Schedule, TenantType, Tenant
  <2> QED
    BY <1>0, <1>4, <2>1 DEF Schedule, Types, TenantType
<1>5. ASSUME NEW c \in Claim, Expire(c) PROVE Types'
  <2>1. retained' \in [Claim -> Backend \cup {"pg", NoBackend, NoSnapshot}]
    BY <1>0, <1>5 DEF Expire
  <2> QED
    BY <1>0, <1>5, <2>1 DEF Expire, Types
<1>6. ASSUME NEW b \in Backend, HumanDelete(b) PROVE Types'
  <2>1. exists' \subseteq Backend /\ vol' \in [Backend -> {"none", "owned", "kept"}]
    BY <1>0, <1>6 DEF HumanDelete, Removed
  <2>2. pass' \in PassType
    BY <1>0, <1>6 DEF HumanDelete, PassType
  <2> QED
    BY <1>0, <1>6, <2>1, <2>2 DEF HumanDelete, Types, PassType
<1> QED
  BY <1>1, <1>2, <1>3, <1>4, <1>5, <1>6 DEF EnvironmentStep

\* Provisioning keeps the types.
LEMMA ProvisionType ==
  ASSUME Types, HomeInv, NEW t \in Tenant, ProvisionStep(t), Remembered
  PROVE  Types'
<1>0. /\ steady' \subseteq Tenant
      /\ tenant \in [Tenant -> TenantType]
      /\ prov \in [Tenant -> {"idle", "ensured", "allocated", "reached"}]
      /\ retained \in [Claim -> Backend \cup {"pg", NoBackend, NoSnapshot}]
      /\ vol \in [Backend -> {"none", "owned", "kept"}]
      /\ exists \subseteq Backend /\ home[t] \in Backend
  BY DEF Types, TenantType, Remembered, HomeInv
<1>1. CASE Ensure(t)
  <2>1. vol' \in [Backend -> {"none", "owned", "kept"}]
    BY <1>0, <1>1 DEF Ensure
  <2> QED
    BY <1>0, <1>1, <2>1 DEF Ensure, Types, TenantType
<1>2. CASE Allocate(t)
  <2>1. tenant' \in [Tenant -> TenantType]
    BY <1>0, <1>2 DEF Allocate, TenantType
  <2> QED
    BY <1>0, <1>2, <2>1 DEF Allocate, Types, TenantType
<1>3. CASE Reach(t)
  <2>1. tenant' \in [Tenant -> TenantType]
    <3>1. PICK v \in BOOLEAN : tenant' = [tenant EXCEPT ![t].ready = v]
      BY <1>3 DEF Reach
    <3> QED
      BY <1>0, <3>1 DEF TenantType
  <2> QED
    BY <1>0, <1>3, <2>1 DEF Reach, Types, TenantType
<1>4. CASE Ready(t)
  <2>1. tenant' \in [Tenant -> TenantType]
    <3>1. PICK v \in BOOLEAN : tenant' = [tenant EXCEPT ![t] =
            IF tenant[t].st = "absent" THEN tenant[t]
            ELSE [tenant[t] EXCEPT !.instance = v, !.ready = TRUE]]
      BY <1>4 DEF Ready
    <3>2. tenant[t] \in TenantType
      BY <1>0
    <3>3. [tenant[t] EXCEPT !.instance = v, !.ready = TRUE] \in TenantType
      BY <3>2 DEF TenantType
    <3> QED
      BY <1>0, <3>1, <3>2, <3>3
  <2>2. retained' \in [Claim -> Backend \cup {"pg", NoBackend, NoSnapshot}]
    BY <1>0, <1>4 DEF Ready
  <2> QED
    BY <1>0, <1>4, <2>1, <2>2 DEF Ready, Types, TenantType
<1> QED
  BY <1>1, <1>2, <1>3, <1>4 DEF ProvisionStep

\* Every step keeps the types; no step moves a tenant.
LEMMA TypeStep ==
  ASSUME Types, HomeInv, PassInv, Next
  PROVE  Types' /\ HomeInv'
<1>1. Types'
  BY SweepType, FailureType, EnvironmentType, ProvisionType DEF Next
<1>2. HomeInv'
  BY DEF HomeInv, Next, Remembered
<1> QED
  BY <1>1, <1>2

-----------------------------------------------------------------------------
(* What a step may touch. *)

\* A step of the sweep writes to no tenant.
LEMMA SweepFrame == SweepStep => UNCHANGED <<tenant, prov, retained>>
BY DEF SweepStep, Wake, ListClaims, ListRetained, ListShared, ListInstances, ArmDone, EndPass,
       Veto, Dwells, Reap, Strip, Verify, Delete, ArmFails, world

\* A failure may end provisioning passes, and writes to no tenant.
LEMMA FailureFrame ==
  ASSUME Types, FailureStep
  PROVE  /\ UNCHANGED <<tenant, retained>>
         /\ \A t \in Tenant : prov'[t] \in {prov[t], "idle"}
BY DEF FailureStep, AbortPass, StripFails, DeleteErrs, Restart, Readopt, Requeue, world, Types

\* The status a step of provisioning leaves, and the tenants it leaves alone.
LEMMA ProvisionFrame ==
  ASSUME Types, NEW t \in Tenant, ProvisionStep(t)
  PROVE  /\ \A u \in Tenant \ {t} : tenant'[u] = tenant[u] /\ prov'[u] = prov[u]
         /\ \A c \in Claim : retained'[c] \in {retained[c], NoSnapshot}
         /\ \A c \in Claim \ {t} : retained'[c] = retained[c]
         /\ UNCHANGED <<pass, clock, fails>>
         /\ exists \subseteq exists'
BY DEF ProvisionStep, Ensure, Allocate, Reach, Ready, Types, Tenant

\* What the last two steps of provisioning write.
LEMMA ReachEffect ==
  ASSUME Types, NEW t \in Tenant, Reach(t)
  PROVE  /\ prov'[t] = IF Answers(t) THEN "reached" ELSE "idle"
         /\ tenant'[t].st = tenant[t].st /\ tenant'[t].provider = tenant[t].provider
         /\ tenant'[t].instance = tenant[t].instance
         /\ tenant'[t].ready => tenant[t].ready
<1>1. PICK v \in BOOLEAN : /\ tenant' = [tenant EXCEPT ![t].ready = v]
                           /\ v => tenant[t].ready
  BY DEF Reach
<1>2. tenant[t] \in TenantType
  BY DEF Types, TenantType
<1>3. tenant'[t] = [tenant[t] EXCEPT !.ready = v]
  BY <1>1 DEF Types
<1> QED
  BY <1>1, <1>2, <1>3 DEF Reach, Types, TenantType

\* What the terminal status says.
LEMMA ReadyEffect ==
  ASSUME Types, NEW t \in Tenant, Ready(t), tenant[t].st # "absent"
  PROVE  /\ prov[t] = "reached" /\ prov'[t] = "idle"
         /\ tenant'[t].st = tenant[t].st /\ tenant'[t].provider = tenant[t].provider
         /\ tenant'[t].instance <=> t \in Shared \/ home[t] # "pg"
         /\ tenant'[t].ready
<1>1. PICK v \in BOOLEAN : /\ tenant' = [tenant EXCEPT ![t] =
                                   [tenant[t] EXCEPT !.instance = v, !.ready = TRUE]]
                           /\ v <=> t \in Shared \/ home[t] # "pg"
  BY DEF Ready
<1>2. tenant[t] \in TenantType
  BY DEF Types, TenantType
<1>3. tenant'[t] = [tenant[t] EXCEPT !.instance = v, !.ready = TRUE]
  BY <1>1 DEF Types
<1> QED
  BY <1>1, <1>2, <1>3 DEF Ready, Types, TenantType

\* Provisioning keeps what the status says of the pass.
LEMMA TenantStep ==
  ASSUME Types, HomeInv, TenantInv, Next
  PROVE  TenantInv'
<1>0. UNCHANGED home
  BY DEF Next, Remembered
<1>1. CASE SweepStep
  BY <1>0, <1>1, SweepFrame DEF TenantInv
<1>2. CASE FailureStep
  BY <1>0, <1>2, FailureFrame DEF TenantInv
<1>3. ASSUME NEW t \in Tenant, Create(t) PROVE TenantInv'
  <2>1. \A u \in Tenant \ {t} : tenant'[u] = tenant[u]
    BY <1>3 DEF Create, Types
  <2>2. /\ tenant'[t].st = "live" /\ tenant'[t].provider = tenant[t].provider
        /\ tenant'[t].instance = tenant[t].instance /\ tenant'[t].ready = tenant[t].ready
    BY <1>3 DEF Create, Types
  <2> QED
    BY <1>0, <1>3, <2>1, <2>2 DEF TenantInv, Create
<1>4. ASSUME NEW t \in Tenant, DeleteTenant(t) PROVE TenantInv'
  <2>1. \A u \in Tenant \ {t} : tenant'[u] = tenant[u]
    BY <1>4 DEF DeleteTenant, Types
  <2>2. /\ tenant'[t].st = "deleting" /\ tenant'[t].provider = tenant[t].provider
        /\ tenant'[t].instance = tenant[t].instance /\ tenant'[t].ready = tenant[t].ready
    BY <1>4 DEF DeleteTenant, Types
  <2> QED
    BY <1>0, <1>4, <2>1, <2>2 DEF TenantInv, DeleteTenant
<1>5. ASSUME NEW t \in Tenant, Finalize(t) PROVE TenantInv'
  <2>1. \A u \in Tenant \ {t} : tenant'[u] = tenant[u]
    BY <1>5 DEF Finalize, Types
  <2>2. tenant'[t].st = "absent" /\ ~tenant'[t].instance /\ ~tenant'[t].ready
    BY <1>5 DEF Finalize, Types, NoTenant
  <2> QED
    BY <1>0, <1>5, <2>1, <2>2 DEF TenantInv, Finalize
<1>6. ASSUME NEW t \in Claim, Schedule(t) PROVE TenantInv'
  <2>0. t \in Tenant
    BY DEF Tenant
  <2>1. \A u \in Tenant \ {t} : tenant'[u] = tenant[u]
    BY <1>6 DEF Schedule, Types
  <2>2. /\ tenant'[t].st = tenant[t].st /\ tenant'[t].provider
        /\ tenant'[t].instance = tenant[t].instance /\ tenant'[t].ready = tenant[t].ready
    BY <1>6, <2>0 DEF Schedule, Types
  <2> QED
    BY <1>0, <1>6, <2>1, <2>2 DEF TenantInv, Schedule
<1>7. ASSUME NEW c \in Claim, Expire(c) PROVE TenantInv'
  BY <1>0, <1>7 DEF TenantInv, Expire
<1>8. ASSUME NEW b \in Backend, HumanDelete(b) PROVE TenantInv'
  BY <1>0, <1>8 DEF TenantInv, HumanDelete
<1>9. ASSUME NEW t \in Tenant, ProvisionStep(t) PROVE TenantInv'
  <2>0. \A u \in Tenant \ {t} : tenant'[u] = tenant[u] /\ prov'[u] = prov[u]
    BY <1>9, ProvisionFrame
  <2>1. CASE Ensure(t)
    <3>1. tenant'[t] = tenant[t] /\ prov'[t] = "ensured"
      BY <2>1 DEF Ensure, Types
    <3> QED
      BY <1>0, <2>0, <2>1, <3>1 DEF TenantInv, Ensure
  <2>2. CASE Allocate(t)
    <3>1. PICK v \in BOOLEAN : /\ tenant' = [tenant EXCEPT ![t].instance = v]
                               /\ tenant[t].st # "absent" => v
      BY <2>2 DEF Allocate
    <3>2. /\ tenant'[t].st = tenant[t].st /\ tenant'[t].provider = tenant[t].provider
          /\ tenant'[t].instance = v /\ tenant'[t].ready = tenant[t].ready
          /\ prov'[t] = "allocated"
      BY <2>2, <3>1 DEF Allocate, Types
    <3> QED
      BY <1>0, <2>0, <2>2, <3>1, <3>2 DEF TenantInv, Allocate
  <2>3. CASE Reach(t)
    <3>1. \/ prov[t] = "ensured" /\ home[t] = "pg"
          \/ prov[t] = "allocated" /\ tenant[t].instance
      BY <2>3 DEF Reach, TenantInv
    <3> QED
      BY <1>0, <2>0, <2>3, <3>1, ReachEffect DEF TenantInv
  <2>4. CASE Ready(t)
    <3>1. tenant[t].st # "absent" /\ (t \in Claim => tenant[t].provider)
      BY <2>4 DEF Ready, TenantInv
    <3>2. t \in Claim => t \notin Shared
      BY ConstantsAssumption
    <3>3. t \in Claim \/ t \in Shared
      BY DEF Tenant
    <3> QED
      BY <1>0, <2>0, <2>4, <3>1, <3>2, <3>3, ReadyEffect DEF TenantInv
  <2> QED
    BY <1>9, <2>1, <2>2, <2>3, <2>4 DEF ProvisionStep
<1> QED
  BY <1>1, <1>2, <1>3, <1>4, <1>5, <1>6, <1>7, <1>8, <1>9 DEF Next, EnvironmentStep

-----------------------------------------------------------------------------
(* The sweep and the volumes. *)

\* An arm that is over names no instance.
LEMMA NextArmEffect ==
  ASSUME Types
  PROVE  /\ NextArm(pass).cur = NoBackend /\ AfterFailedArm(pass).cur = NoBackend
         /\ NextArm(pass).pc \in {"list", "end"} /\ AfterFailedArm(pass).pc \in {"list", "end"}
         /\ NextArm(pass).veto = pass.veto /\ AfterFailedArm(pass).veto = pass.veto
         /\ NextArm(pass).listed = pass.listed /\ AfterFailedArm(pass).listed = pass.listed
<1>1. \A p \in PassType : /\ NextArm(p).cur = NoBackend /\ NextArm(p).pc \in {"list", "end"}
                          /\ NextArm(p).veto = p.veto /\ NextArm(p).listed = p.listed
  BY DEF NextArm, PassType
<1>2. pass \in PassType
  BY PassTypes
<1> DEFINE p == [pass EXCEPT !.seen = {b \in @ : ArmOf(b) # pass.arm}]
<1>4. p \in PassType /\ p.veto = pass.veto /\ p.listed = pass.listed
  BY <1>2 DEF PassType
<1>5. AfterFailedArm(pass) = NextArm(p)
  BY DEF AfterFailedArm
<1> QED
  BY <1>1, <1>2, <1>4, <1>5

\* An arm that failed reports none of its instances and leaves none to be judged.
LEMMA FailedArmEffect ==
  ASSUME Types
  PROVE  /\ AfterFailedArm(pass).cand = {} /\ AfterFailedArm(pass).veto = pass.veto
         /\ AfterFailedArm(pass).seen = {b \in pass.seen : ArmOf(b) # pass.arm}
         /\ AfterFailedArm(pass).pc \in {"list", "end"}
<1>1. \A p \in PassType : /\ NextArm(p).cand = {} /\ NextArm(p).pc \in {"list", "end"}
                          /\ NextArm(p).veto = p.veto /\ NextArm(p).seen = p.seen
  BY DEF NextArm, PassType
<1>2. pass \in PassType
  BY PassTypes
<1> DEFINE q == [pass EXCEPT !.seen = {b \in @ : ArmOf(b) # pass.arm}]
<1>3. q \in PassType /\ q.veto = pass.veto /\ q.seen = {b \in pass.seen : ArmOf(b) # pass.arm}
  BY <1>2 DEF PassType
<1>4. AfterFailedArm(pass) = NextArm(q)
  BY DEF AfterFailedArm
<1> QED
  BY <1>1, <1>3, <1>4

\* A candidate that has been judged.
LEMMA JudgedEffect ==
  ASSUME Types, NEW b \in Backend
  PROVE  /\ Judged(b).cur = NoBackend /\ Judged(b).pc = "judge" /\ Judged(b).same = pass.same
         /\ Judged(b).veto = pass.veto /\ Judged(b).listed = pass.listed
BY DEF Judged, Types

\* Nothing but a sweep, a failure and a human touches the pass.
LEMMA PassStep ==
  ASSUME Types, HomeInv, PassInv, Next
  PROVE  PassInv'
<1>0. pass \in PassType /\ pass' \in PassType /\ NoBackend \notin Backend
  BY TypeStep, BackendNames DEF Types, PassType
<1>1. pass'.cur = NoBackend => pass'.cur \notin pass'.veto
  BY <1>0 DEF PassType
<1>2. pass' = Asleep => PassInv'
  BY <1>1 DEF PassInv, Asleep, Reaping
<1>3. ASSUME NEW b \in Backend, pass' = Judged(b), exists' = exists, pass.pc \in Reaping \cup {"judge"}
      PROVE  PassInv'
  BY <1>1, <1>3, JudgedEffect DEF PassInv, Reaping
<1>4. pass' = NextArm(pass) \/ pass' = AfterFailedArm(pass) => PassInv'
  BY <1>1, NextArmEffect DEF PassInv, Reaping
<1>5. CASE Wake \/ ListClaims \/ ListRetained
  <2>1. pass'.cur = pass.cur /\ pass'.pc \in {"claims", "retained", "shared"}
    BY <1>0, <1>5 DEF Wake, Go, ListClaims, ListRetained, PassType
  <2>2. pass.pc \in {"sleep", "claims", "retained"}
    BY <1>5 DEF Wake, ListClaims, ListRetained, At
  <2> QED
    BY <1>1, <2>1, <2>2 DEF PassInv, Reaping
<1>6. CASE ListShared
  <2>1. pass'.cur = pass.cur /\ pass'.pc = "list" /\ pass.pc = "shared"
    BY <1>0, <1>6 DEF ListShared, At, PassType
  <2> QED
    BY <1>1, <2>1 DEF PassInv, Reaping
<1>7. CASE ListInstances
  <2>1. pass'.cur = pass.cur /\ pass'.pc = "judge" /\ pass.pc = "list"
    BY <1>0, <1>7 DEF ListInstances, At, PassType
  <2>2. pass'.same \subseteq exists /\ exists' = exists
    BY <1>0, <1>7 DEF ListInstances, PassType, world
  <2> QED
    BY <1>1, <2>1, <2>2 DEF PassInv, Reaping
<1>8. ASSUME NEW b \in Backend, Veto(b) \/ Dwells(b) PROVE PassInv'
  BY <1>3, <1>8 DEF Veto, Dwells, At, world
<1>9. ASSUME NEW b \in Backend, Reap(b) PROVE PassInv'
  <2>1. /\ pass'.cur = b /\ pass'.veto = pass.veto /\ pass'.same = pass.same /\ exists' = exists
        /\ pass'.pc = IF b = "pg" THEN "strip" ELSE "delete"
        /\ pass.pc = "judge" /\ b \notin pass.veto
    BY <1>0, <1>9 DEF Reap, At, PassType, world
  <2> QED
    BY <1>0, <2>1 DEF PassInv, Reaping
<1>10. CASE Strip
  <2>1. /\ pass'.cur = pass.cur /\ pass'.veto = pass.veto /\ pass'.same = pass.same
        /\ exists' = exists /\ pass.pc = "strip" /\ pass'.pc = "verify"
    BY <1>0, <1>10 DEF Strip, Go, At, PassType
  <2> QED
    BY <2>1 DEF PassInv, Reaping
<1>11. ASSUME pass.pc \in Reaping PROVE pass.cur \in Backend
  BY <1>0, <1>11 DEF PassInv, PassType
<1>12. CASE Verify
  <2>1. pass.pc = "verify" /\ exists' = exists
    BY <1>12 DEF Verify, At, world
  <2>2. CASE pass' = Judged(pass.cur)
    BY <1>3, <1>11, <2>1, <2>2 DEF Reaping
  <2>3. CASE pass' = [pass EXCEPT !.pc = "delete"]
    <3>1. /\ pass'.cur = pass.cur /\ pass'.veto = pass.veto /\ pass'.same = pass.same
          /\ pass'.pc = "delete"
      BY <1>0, <2>3 DEF PassType
    <3> QED
      BY <2>1, <3>1 DEF PassInv, Reaping
  <2> QED
    BY <1>12, <2>2, <2>3 DEF Verify
<1>13. CASE Delete
  <2>1. pass.pc = "delete" /\ pass.cur \in Backend
    BY <1>11, <1>13 DEF Delete, At, Reaping
  <2>2. Judged(pass.cur) \in PassType /\ pass' = [Judged(pass.cur) EXCEPT !.same = @ \ {pass.cur}]
    BY <1>13, <2>1, PassTypes DEF Delete
  <2>3. /\ pass'.cur = NoBackend /\ pass'.pc = "judge" /\ pass'.veto = pass.veto
        /\ pass'.same = pass.same \ {pass.cur}
    BY <2>1, <2>2, JudgedEffect DEF PassType
  <2>4. exists \ {pass.cur} \subseteq exists'
    BY <1>13 DEF Delete, Removed
  <2>5. pass.same \subseteq exists
    BY <2>1 DEF PassInv, Reaping
  <2> QED
    BY <1>1, <2>3, <2>4, <2>5 DEF PassInv, Reaping
<1>14. CASE StripFails
  <2>1. pass.pc \in Reaping /\ pass' = Judged(pass.cur) /\ exists' = exists
    BY <1>14 DEF StripFails, Reaping, world
  <2> QED
    BY <1>3, <1>11, <2>1
<1>15. ASSUME pass' = pass, exists \subseteq exists' PROVE PassInv'
  BY <1>15 DEF PassInv
<1>16. ASSUME NEW t \in Tenant, Requeue(t) PROVE PassInv'
  BY <1>15, <1>16 DEF Requeue
<1>17. CASE Readopt
  BY <1>15, <1>17 DEF Readopt
<1>18. ASSUME NEW t \in Tenant, Create(t) \/ DeleteTenant(t) \/ Finalize(t) PROVE PassInv'
  BY <1>15, <1>18 DEF Create, DeleteTenant, Finalize
<1>19. ASSUME NEW c \in Claim, Schedule(c) \/ Expire(c) PROVE PassInv'
  BY <1>15, <1>19 DEF Schedule, Expire
<1>20. ASSUME NEW b \in Backend, HumanDelete(b) PROVE PassInv'
  <2>1. /\ pass'.cur = pass.cur /\ pass'.veto = pass.veto /\ pass'.same = pass.same \ {b}
        /\ pass'.pc = pass.pc /\ exists' = exists \ {b}
    BY <1>0, <1>20 DEF HumanDelete, Removed, PassType
  <2> QED
    BY <2>1 DEF PassInv
<1>21. ASSUME NEW t \in Tenant, ProvisionStep(t) PROVE PassInv'
  BY <1>15, <1>21, ProvisionFrame
<1>22. CASE AbortPass \/ Restart \/ EndPass
  BY <1>2, <1>22 DEF AbortPass, Restart, EndPass
<1>23. CASE ArmDone \/ ArmFails \/ DeleteErrs
  BY <1>4, <1>23 DEF ArmDone, ArmFails, DeleteErrs
<1> QED
  BY <1>5, <1>6, <1>7, <1>8, <1>9, <1>10, <1>12, <1>13, <1>14, <1>16, <1>17, <1>18, <1>19,
     <1>20, <1>21, <1>22, <1>23 DEF Next, SweepStep, FailureStep, EnvironmentStep

\* A clock is dropped when its instance is found referenced, and nothing starts it
\* again in the same sweep; an arm that fails takes its instances out of the report.
LEMMA ClockStep ==
  ASSUME Types, HomeInv, PassInv, ClockInv, Next
  PROVE  ClockInv'
<1>0. pass \in PassType /\ pass' \in PassType /\ clock \in [Backend -> 0 .. Dwell \cup {NoClock}]
  BY TypeStep DEF Types, PassType
<1>1. pass' = Asleep => ClockInv'
  BY DEF ClockInv, Asleep
<1>2. ASSUME pass' = pass, clock' = clock PROVE ClockInv'
  BY <1>2 DEF ClockInv
<1>3. CASE Wake
  <2>1. /\ pass.pc = "sleep" /\ pass'.pc = "claims" /\ pass'.seen = pass.seen
        /\ pass'.cand = pass.cand /\ pass'.arm = pass.arm
    BY <1>0, <1>3 DEF Wake, At, Go, PassType
  <2> QED
    BY <2>1 DEF ClockInv
<1>4. CASE ListClaims \/ ListRetained \/ ListShared
  <2>1. /\ pass.pc \in {"claims", "retained", "shared"} /\ pass'.seen = pass.seen
        /\ pass'.cand = pass.cand /\ pass'.arm = pass.arm
        /\ pass'.pc \in {"retained", "shared", "list"}
    BY <1>0, <1>4 DEF ListClaims, ListRetained, ListShared, At, PassType
  <2>2. pass.cand = {}
    BY <2>1 DEF ClockInv
  <2> QED
    BY <2>1, <2>2 DEF ClockInv
<1>5. CASE ListInstances
  <2> DEFINE mine == {b \in exists : ArmOf(b) = pass.arm}
  <2>1. /\ pass.pc = "list" /\ pass'.pc = "judge" /\ pass'.arm = pass.arm /\ pass'.veto = pass.veto
        /\ pass'.cand = mine /\ pass'.seen = pass.seen \cup mine /\ clock' = clock
    BY <1>0, <1>5 DEF ListInstances, At, PassType
  <2> QED
    BY <2>1 DEF ClockInv
<1>6. CASE ArmDone
  <2>1. /\ pass.cand = {} /\ pass' = NextArm(pass) /\ clock' = clock /\ pass.pc = "judge"
    BY <1>6 DEF ArmDone, At
  <2>2. /\ pass'.cand = {} /\ pass'.seen = pass.seen /\ pass'.veto = pass.veto
        /\ pass'.pc \in {"list", "end"}
    BY <1>0, <2>1 DEF NextArm, PassType
  <2> QED
    BY <2>1, <2>2 DEF ClockInv
<1>7. CASE ArmFails \/ DeleteErrs
  <2>1. pass' = AfterFailedArm(pass) /\ clock' = clock
    BY <1>7 DEF ArmFails, DeleteErrs
  <2>2. /\ pass'.cand = {} /\ pass'.seen = {b \in pass.seen : ArmOf(b) # pass.arm}
        /\ pass'.veto = pass.veto /\ pass'.pc \in {"list", "end"}
    BY <1>0, <2>1, FailedArmEffect
  <2> QED
    BY <2>1, <2>2 DEF ClockInv
<1>8. ASSUME NEW b \in Backend, pass' = Judged(b), pass.pc \in Reaping \cup {"judge"},
             b \notin pass.veto \/ clock'[b] = NoClock,
             \A x \in Backend \ {b} : clock'[x] = clock[x]
      PROVE  ClockInv'
  <2>1. /\ pass'.pc = "judge" /\ pass'.cand = pass.cand \ {b} /\ pass'.seen = pass.seen
        /\ pass'.veto = pass.veto /\ pass'.arm = pass.arm
    BY <1>0, <1>8 DEF Judged, PassType
  <2>2. pass.seen \subseteq Backend
    BY <1>0 DEF PassType
  <2> QED
    BY <1>8, <2>1, <2>2 DEF ClockInv
<1>9. ASSUME NEW b \in Backend, Veto(b) \/ Dwells(b) PROVE ClockInv'
  BY <1>0, <1>8, <1>9 DEF Veto, Dwells, At
<1>10. pass.pc \in Reaping => pass.cur \in Backend /\ pass.cur \notin pass.veto
  BY <1>0 DEF PassInv, PassType
<1>11. ASSUME pass'.pc \in Reaping, pass'.cand = pass.cand, pass'.seen = pass.seen,
              pass'.veto = pass.veto, pass'.arm = pass.arm, clock' = clock
       PROVE  ClockInv'
  BY <1>11 DEF ClockInv, Reaping
<1>12. ASSUME NEW b \in Backend, Reap(b) PROVE ClockInv'
  BY <1>0, <1>11, <1>12 DEF Reap, PassType, Reaping
<1>13. CASE Strip
  BY <1>0, <1>11, <1>13 DEF Strip, Go, PassType, Reaping
<1>14. CASE Verify
  <2>1. pass.pc \in Reaping /\ clock' = clock
    BY <1>14 DEF Verify, At, Reaping
  <2>2. CASE pass' = Judged(pass.cur)
    BY <1>8, <1>10, <2>1, <2>2
  <2>3. CASE pass' = [pass EXCEPT !.pc = "delete"]
    BY <1>0, <1>11, <2>1, <2>3 DEF PassType, Reaping
  <2> QED
    BY <1>14, <2>2, <2>3 DEF Verify
<1>15. CASE StripFails
  <2>1. pass.pc \in Reaping /\ clock' = clock /\ pass' = Judged(pass.cur)
    BY <1>15 DEF StripFails, Reaping
  <2> QED
    BY <1>8, <1>10, <2>1
<1>16. CASE Delete
  <2>1. /\ pass.pc = "delete" /\ pass.cur \in Backend /\ pass.cur \notin pass.veto
        /\ clock' = [clock EXCEPT ![pass.cur] = NoClock]
        /\ pass' = [Judged(pass.cur) EXCEPT !.same = @ \ {pass.cur}]
    BY <1>10, <1>16 DEF Delete, At, Reaping
  <2>2. /\ pass'.pc = "judge" /\ pass'.cand = pass.cand \ {pass.cur} /\ pass'.seen = pass.seen
        /\ pass'.veto = pass.veto /\ pass'.arm = pass.arm
    BY <1>0, <2>1 DEF Judged, PassType
  <2>3. \A x \in pass.seen : x # pass.cur => clock'[x] = clock[x]
    BY <1>0, <2>1 DEF PassType
  <2> QED
    BY <2>1, <2>2, <2>3 DEF ClockInv
<1>17. ASSUME NEW b \in Backend, HumanDelete(b) PROVE ClockInv'
  <2>1. /\ pass'.pc = pass.pc /\ pass'.cand = pass.cand /\ pass'.seen = pass.seen
        /\ pass'.veto = pass.veto /\ pass'.arm = pass.arm /\ clock' = clock
    BY <1>0, <1>17 DEF HumanDelete, PassType
  <2> QED
    BY <2>1 DEF ClockInv
<1>18. CASE AbortPass \/ Restart \/ EndPass
  BY <1>1, <1>18 DEF AbortPass, Restart, EndPass
<1>19. CASE Readopt \/ \E t \in Tenant : Requeue(t) \/ Create(t) \/ DeleteTenant(t) \/ Finalize(t)
  BY <1>2, <1>19 DEF Readopt, Requeue, Create, DeleteTenant, Finalize
<1>20. CASE \E c \in Claim : Schedule(c) \/ Expire(c)
  BY <1>2, <1>20 DEF Schedule, Expire
<1>21. ASSUME NEW t \in Tenant, ProvisionStep(t) PROVE ClockInv'
  BY <1>2, <1>21 DEF ProvisionStep, Ensure, Allocate, Reach, Ready
<1> QED
  BY <1>3, <1>4, <1>5, <1>6, <1>7, <1>9, <1>12, <1>13, <1>14, <1>15, <1>16, <1>17, <1>18, <1>19,
     <1>20, <1>21 DEF Next, SweepStep, FailureStep, EnvironmentStep

\* A volume is owned by the cluster alone, and a cluster is stripped of it before
\* its delete: what the sweep verified still holds when the delete is sent.
LEMMA VolumeStep ==
  ASSUME Types, HomeInv, PassInv, VolumeInv, Next
  PROVE  VolumeInv'
<1>0. pass \in PassType /\ pass' \in PassType /\ vol \in [Backend -> {"none", "owned", "kept"}]
  BY TypeStep DEF Types, PassType
<1>1. ASSUME vol' = vol, pass'.pc # "delete" PROVE VolumeInv'
  BY <1>1 DEF VolumeInv
<1>2. ASSUME vol' = vol, pass' = pass PROVE VolumeInv'
  BY <1>2 DEF VolumeInv
<1>3. CASE Wake \/ ListClaims \/ ListRetained \/ ListShared \/ ListInstances
  <2>1. pass'.pc # "delete"
    BY <1>0, <1>3
       DEF Wake, Go, ListClaims, ListRetained, ListShared, ListInstances, PassType
  <2>2. vol' = vol
    BY <1>3 DEF Wake, ListClaims, ListRetained, ListShared, ListInstances, world
  <2> QED
    BY <1>1, <2>1, <2>2
<1>4. CASE ArmDone \/ ArmFails
  BY <1>1, <1>4, NextArmEffect DEF ArmDone, ArmFails, world
<1>5. CASE EndPass \/ AbortPass \/ Restart
  BY <1>1, <1>5 DEF EndPass, AbortPass, Restart, Asleep, world
<1>6. ASSUME NEW b \in Backend, Veto(b) \/ Dwells(b) PROVE VolumeInv'
  BY <1>1, <1>6, JudgedEffect DEF Veto, Dwells, world
<1>7. ASSUME NEW b \in Backend, Reap(b) PROVE VolumeInv'
  <2>1. /\ pass'.cur = b /\ pass'.pc = IF b = "pg" THEN "strip" ELSE "delete"
        /\ vol' = vol
    BY <1>0, <1>7 DEF Reap, PassType, world
  <2> QED
    BY <2>1 DEF VolumeInv
<1>8. CASE Strip
  <2>1. pass'.pc = "verify" /\ \A b \in Backend : vol'[b] = "owned" => vol[b] = "owned"
    BY <1>0, <1>8 DEF Strip, Go, PassType
  <2> QED
    BY <2>1 DEF VolumeInv
<1>9. ASSUME pass.pc \in Reaping PROVE pass.cur \in Backend
  BY <1>0, <1>9 DEF PassInv, PassType
<1>10. CASE Verify
  <2>1. pass.cur \in Backend /\ vol' = vol
    BY <1>9, <1>10 DEF Verify, At, Reaping, world
  <2>2. CASE pass.cur \in pass.same /\ vol[pass.cur] = "owned"
    BY <1>1, <1>10, <2>1, <2>2, JudgedEffect DEF Verify
  <2>3. CASE ~(pass.cur \in pass.same /\ vol[pass.cur] = "owned")
    <3>1. pass'.cur = pass.cur /\ pass'.same = pass.same
      BY <1>0, <1>10, <2>3 DEF Verify, PassType
    <3> QED
      BY <2>1, <2>3, <3>1 DEF VolumeInv
  <2> QED
    BY <2>2, <2>3
<1>11. CASE Delete
  <2>1. pass.cur \in Backend
    BY <1>9, <1>11 DEF Delete, At, Reaping
  <2>2. pass'.pc = "judge"
    BY <1>11, <2>1, PassTypes, JudgedEffect DEF Delete, PassType
  <2>3. \A b \in Backend : vol'[b] = "owned" => vol[b] = "owned"
    BY <1>0, <1>11 DEF Delete, Removed
  <2> QED
    BY <2>2, <2>3 DEF VolumeInv
<1>12. CASE DeleteErrs
  <2>1. pass'.pc # "delete"
    BY <1>12, NextArmEffect DEF DeleteErrs
  <2>2. \A b \in Backend : vol'[b] = "owned" => vol[b] = "owned"
    BY <1>0, <1>12 DEF DeleteErrs, Removed
  <2> QED
    BY <2>1, <2>2 DEF VolumeInv
<1>13. CASE StripFails
  <2>1. pass.cur \in Backend /\ vol' = vol /\ pass' = Judged(pass.cur)
    BY <1>9, <1>13 DEF StripFails, Reaping, world
  <2> QED
    BY <1>1, <2>1, JudgedEffect
<1>14. CASE Readopt
  BY <1>0, <1>14 DEF Readopt, At, VolumeInv
<1>15. ASSUME NEW t \in Tenant, Requeue(t) \/ Create(t) \/ DeleteTenant(t) \/ Finalize(t)
       PROVE  VolumeInv'
  BY <1>2, <1>15 DEF Requeue, Create, DeleteTenant, Finalize
<1>16. ASSUME NEW c \in Claim, Schedule(c) \/ Expire(c) PROVE VolumeInv'
  BY <1>2, <1>16 DEF Schedule, Expire
<1>17. ASSUME NEW b \in Backend, HumanDelete(b) PROVE VolumeInv'
  <2>1. pass'.cur = pass.cur /\ pass'.same = pass.same \ {b} /\ pass'.pc = pass.pc
    BY <1>0, <1>17 DEF HumanDelete, PassType
  <2>2. \A x \in Backend : vol'[x] = "owned" => vol[x] = "owned"
    BY <1>0, <1>17 DEF HumanDelete, Removed
  <2>3. pass.pc = "delete" => pass.cur \in Backend
    BY <1>9 DEF Reaping
  <2> QED
    BY <2>1, <2>2, <2>3 DEF VolumeInv
<1>18. ASSUME NEW t \in Tenant, Ensure(t) PROVE VolumeInv'
  <2>1. /\ pass' = pass
        /\ \A b \in Backend : vol'[b] = vol[b] \/ (b \notin exists /\ (vol'[b] = "owned" => b = "pg"))
    BY <1>0, <1>18 DEF Ensure
  <2>2. pass.pc = "delete" => pass.cur \in Backend /\ pass.same \subseteq exists
    BY <1>9 DEF Reaping, PassInv
  <2> QED
    BY <2>1, <2>2 DEF VolumeInv
<1>19. ASSUME NEW t \in Tenant, Allocate(t) \/ Reach(t) \/ Ready(t) PROVE VolumeInv'
  BY <1>2, <1>19 DEF Allocate, Reach, Ready
<1> QED
  BY <1>3, <1>4, <1>5, <1>6, <1>7, <1>8, <1>10, <1>11, <1>12, <1>13, <1>14, <1>15, <1>16, <1>17,
     <1>18, <1>19 DEF Next, SweepStep, FailureStep, EnvironmentStep, ProvisionStep

\* The delete of an instance that is still the one the sweep listed leaves its volume.
LEMMA ReapKeepsVolume ==
  ASSUME Types, HomeInv, PassInv, VolumeInv, Next, NEW b \in Backend, Reaps(b)
  PROVE  vol'[b] = vol[b]
<1>0. pass \in PassType /\ vol \in [Backend -> {"none", "owned", "kept"}]
  BY DEF Types, PassType
<1>1. Delete \/ DeleteErrs
  <2>1. ASSUME NEW x \in Backend, HumanDelete(x) PROVE FALSE
    BY <1>0, <2>1 DEF HumanDelete, Reaps, PassType
  <2>2. ASSUME NEW t \in Tenant, ProvisionStep(t) PROVE FALSE
    BY <2>2, ProvisionFrame DEF Reaps
  <2>3. SweepStep => Delete
    BY DEF SweepStep, Wake, ListClaims, ListRetained, ListShared, ListInstances, ArmDone,
           EndPass, Veto, Dwells, Reap, Strip, Verify, ArmFails, world, Reaps
  <2>4. FailureStep => DeleteErrs
    BY DEF FailureStep, AbortPass, StripFails, Restart, Readopt, Requeue, world, Reaps
  <2>5. ~EnvironmentStep
    BY <2>1 DEF EnvironmentStep, Create, DeleteTenant, Finalize, Schedule, Expire, Reaps
  <2> QED
    BY <2>2, <2>3, <2>4, <2>5 DEF Next
<1>2. pass.pc = "delete" /\ pass.cur = b /\ pass.cur \in pass.same /\ Removed(b)
  BY <1>1 DEF Delete, DeleteErrs, At, Reaps
<1>3. vol[b] # "owned"
  BY <1>2 DEF VolumeInv
<1> QED
  BY <1>0, <1>2, <1>3 DEF Removed

-----------------------------------------------------------------------------
(* The inventory. *)

\* After the three LISTs the inventory is fixed for the rest of the sweep.
LEMMA PassMoves ==
  ASSUME Types, HomeInv, PassInv, Next
  PROVE  \/ ListClaims \/ ListRetained \/ ListShared
         \/ pass'.pc \in {"sleep", "claims"}
         \/ /\ pass'.veto = pass.veto /\ pass'.listed = pass.listed
            /\ pass'.pc = pass.pc \/ (pass.pc \in Judging /\ pass'.pc \in Judging)
<1> DEFINE Same == /\ pass'.veto = pass.veto /\ pass'.listed = pass.listed
                   /\ pass'.pc = pass.pc \/ (pass.pc \in Judging /\ pass'.pc \in Judging)
<1>0. pass \in PassType
  BY DEF Types, PassType
<1>1. CASE Wake \/ EndPass \/ AbortPass \/ Restart
  BY <1>0, <1>1 DEF Wake, Go, EndPass, AbortPass, Restart, Asleep, PassType
<1>2. CASE ListInstances \/ Strip
  BY <1>0, <1>2 DEF ListInstances, Strip, Go, At, PassType, Judging
<1>3. CASE ArmDone \/ ArmFails \/ DeleteErrs
  BY <1>3, NextArmEffect DEF ArmDone, ArmFails, DeleteErrs, At, Judging
<1>4. ASSUME NEW b \in Backend, Veto(b) \/ Dwells(b) PROVE Same
  BY <1>4, JudgedEffect DEF Veto, Dwells, At, Judging
<1>5. ASSUME NEW b \in Backend, Reap(b) PROVE Same
  BY <1>0, <1>5 DEF Reap, At, Judging, PassType
<1>6. ASSUME pass.pc \in Reaping PROVE pass.cur \in Backend
  BY <1>0, <1>6 DEF PassInv, PassType
<1>7. CASE Verify
  <2>1. pass.pc = "verify" /\ pass.cur \in Backend
    BY <1>6, <1>7 DEF Verify, At, Reaping
  <2>2. CASE pass' = Judged(pass.cur)
    BY <2>1, <2>2, JudgedEffect DEF Judging
  <2>3. CASE pass' = [pass EXCEPT !.pc = "delete"]
    BY <1>0, <2>1, <2>3 DEF PassType, Judging
  <2> QED
    BY <1>7, <2>2, <2>3 DEF Verify
<1>8. CASE Delete
  <2>1. pass.pc = "delete" /\ pass.cur \in Backend
    BY <1>6, <1>8 DEF Delete, At, Reaping
  <2>2. Judged(pass.cur) \in PassType
    BY <2>1, PassTypes
  <2>3. /\ pass'.pc = Judged(pass.cur).pc /\ pass'.veto = Judged(pass.cur).veto
        /\ pass'.listed = Judged(pass.cur).listed
    BY <1>8, <2>2 DEF Delete, PassType
  <2> QED
    BY <2>1, <2>3, JudgedEffect DEF Judging
<1>9. CASE StripFails
  <2>1. pass.pc \in Reaping /\ pass' = Judged(pass.cur)
    BY <1>9 DEF StripFails, Reaping
  <2> QED
    BY <1>6, <2>1, JudgedEffect DEF Judging, Reaping
<1>10. ASSUME NEW t \in Tenant, Requeue(t) \/ Create(t) \/ DeleteTenant(t) \/ Finalize(t)
       PROVE  Same
  BY <1>10 DEF Requeue, Create, DeleteTenant, Finalize
<1>11. ASSUME NEW c \in Claim, Schedule(c) \/ Expire(c) PROVE Same
  BY <1>11 DEF Schedule, Expire
<1>12. ASSUME NEW b \in Backend, HumanDelete(b) PROVE Same
  BY <1>0, <1>12 DEF HumanDelete, PassType
<1>13. ASSUME NEW t \in Tenant, ProvisionStep(t) PROVE Same
  BY <1>13, ProvisionFrame
<1>14. CASE Readopt
  BY <1>14 DEF Readopt
<1> QED
  BY <1>1, <1>2, <1>3, <1>4, <1>5, <1>7, <1>8, <1>9, <1>10, <1>11, <1>12, <1>13, <1>14
     DEF Next, SweepStep, FailureStep, EnvironmentStep

\* How a claim comes to be connected: by the two last steps of its own pass.
LEMMA ConnectedBy ==
  ASSUME Types, TenantInv, Next, NEW t \in Tenant,
         tenant'[t].ready \/ prov'[t] = "reached"
  PROVE  \/ tenant[t].ready \/ prov[t] = "reached"
         \/ Reach(t) /\ Answers(t)
<1>1. CASE SweepStep
  BY <1>1, SweepFrame
<1>2. CASE FailureStep
  BY <1>2, FailureFrame
<1>3. CASE EnvironmentStep
  <2>1. prov' = prov
    BY <1>3 DEF EnvironmentStep, Create, DeleteTenant, Finalize, Schedule, Expire, HumanDelete
  <2>2. tenant'[t].ready => tenant[t].ready
    BY <1>3 DEF EnvironmentStep, Create, DeleteTenant, Finalize, Schedule, Expire, HumanDelete,
                NoTenant, Types
  <2> QED
    BY <2>1, <2>2
<1>4. ASSUME NEW u \in Tenant, ProvisionStep(u)
      PROVE  tenant[t].ready \/ prov[t] = "reached" \/ (Reach(t) /\ Answers(t))
  <2>1. CASE u # t
    BY <1>4, <2>1, ProvisionFrame
  <2>2. CASE Ensure(t)
    BY <2>2 DEF Ensure, Types
  <2>3. CASE Allocate(t)
    <3>1. PICK v \in BOOLEAN : tenant' = [tenant EXCEPT ![t].instance = v]
      BY <2>3 DEF Allocate
    <3>2. tenant'[t].ready = tenant[t].ready /\ prov'[t] = "allocated"
      BY <2>3, <3>1 DEF Allocate, Types
    <3> QED
      BY <3>2
  <2>4. CASE Reach(t)
    BY <2>4, ReachEffect
  <2>5. CASE Ready(t)
    BY <2>5 DEF Ready
  <2> QED
    BY <1>4, <2>1, <2>2, <2>3, <2>4, <2>5 DEF ProvisionStep
<1> QED
  BY <1>1, <1>2, <1>3, <1>4 DEF Next

\* The LIST of claims sees every claim that is connected, and none that it passed
\* over gets connected before the sweep ends.
LEMMA ClaimListStep ==
  ASSUME SlowProvision, Types, HomeInv, TenantInv, PassInv, ClaimListInv, Next
  PROVE  ClaimListInv'
<1>0. pass \in PassType /\ home' = home
  BY DEF Types, PassType, Next, Remembered
<1>1. CASE ListClaims
  <2> SUFFICES ASSUME NEW c \in Claim, home[c] \notin pass'.veto
               PROVE  c \notin pass'.listed /\ ~tenant[c].ready /\ prov[c] # "reached"
    BY <1>0, <1>1 DEF ClaimListInv, ListClaims, world
  <2>1. c \in Tenant
    BY DEF Tenant
  <2>2. ~ClaimVetoes(c)
    BY <1>0, <1>1 DEF ListClaims, Homes, PassType
  <2>3. ~Counted(c)
    BY <2>1, <2>2 DEF Counted, ClaimVetoes, TenantInv
  <2>4. ~tenant[c].ready /\ prov[c] # "reached"
    BY <2>1, <2>2 DEF ClaimVetoes, TenantInv
  <2>5. c \notin pass'.listed
    BY <1>0, <1>1, <2>3 DEF ListClaims, PassType
  <2> QED
    BY <2>4, <2>5
<1>2. ASSUME pass.pc \in Swept, pass.veto \subseteq pass'.veto, pass'.listed = pass.listed
      PROVE  ClaimListInv'
  <2> SUFFICES ASSUME NEW c \in Claim, home[c] \notin pass'.veto
               PROVE  c \notin pass'.listed /\ ~tenant'[c].ready /\ prov'[c] # "reached"
    BY <1>0 DEF ClaimListInv
  <2>1. c \in Tenant
    BY DEF Tenant
  <2>2. c \notin pass.listed /\ ~tenant[c].ready /\ prov[c] # "reached"
    BY <1>2 DEF ClaimListInv
  <2>3. ~Reach(c)
    BY <1>2, <2>2 DEF Reach, Swept
  <2> QED
    BY <1>2, <2>1, <2>2, <2>3, ConnectedBy
<1>3. CASE ListRetained
  BY <1>0, <1>2, <1>3 DEF ListRetained, At, Swept, PassType
<1>4. CASE ListShared
  BY <1>0, <1>2, <1>4 DEF ListShared, At, Swept, PassType
<1>5. CASE pass'.pc \in {"sleep", "claims"}
  BY <1>5 DEF ClaimListInv, Swept
<1>6. CASE /\ pass'.veto = pass.veto /\ pass'.listed = pass.listed
           /\ pass'.pc = pass.pc \/ (pass.pc \in Judging /\ pass'.pc \in Judging)
  <2>1. CASE pass.pc \in Swept
    BY <1>2, <1>6, <2>1
  <2>2. CASE pass.pc \notin Swept
    BY <1>6, <2>2 DEF ClaimListInv, Swept, Judging
  <2> QED
    BY <2>1, <2>2
<1> QED
  BY <1>1, <1>3, <1>4, <1>5, <1>6, PassMoves

\* A backend goes by the hand of the sweep, which has no veto for it, or of a
\* human, when it has no tenants.
LEMMA GoneBy ==
  ASSUME Types, HomeInv, PassInv, Next, NEW b \in exists \ exists'
  PROVE  \/ pass.pc = "delete" /\ pass.cur = b
         \/ \A t \in Tenant : home[t] = b => tenant[t].st = "absent"
<1>1. ASSUME NEW t \in Tenant, ProvisionStep(t) PROVE FALSE
  BY <1>1, ProvisionFrame
<1>2. CASE SweepStep
  BY <1>2 DEF SweepStep, Wake, ListClaims, ListRetained, ListShared, ListInstances, ArmDone,
              EndPass, Veto, Dwells, Reap, Strip, Verify, ArmFails, Delete, Removed, At, world
<1>3. CASE FailureStep
  BY <1>3 DEF FailureStep, AbortPass, StripFails, DeleteErrs, Restart, Readopt, Requeue, Removed,
              At, world
<1>4. CASE EnvironmentStep
  BY <1>4 DEF EnvironmentStep, Create, DeleteTenant, Finalize, Schedule, Expire, HumanDelete,
              Removed
<1> QED
  BY <1>1, <1>2, <1>3, <1>4 DEF Next

\* No step takes the backend from under a claim that is connected.
LEMMA BackendStep ==
  ASSUME Types, HomeInv, TenantInv, PassInv, ClaimListInv, BackendInv, Next
  PROVE  BackendInv'
<1>0. home' = home
  BY DEF Next, Remembered
<1> SUFFICES ASSUME NEW c \in Claim, tenant'[c].ready \/ prov'[c] = "reached"
             PROVE  home[c] \in exists'
  BY <1>0 DEF BackendInv
<1>1. c \in Tenant /\ c \notin Shared
  BY ConstantsAssumption DEF Tenant
<1>2. \/ tenant[c].ready \/ prov[c] = "reached"
      \/ Reach(c) /\ Answers(c)
  BY <1>1, ConnectedBy
<1>3. CASE Reach(c) /\ Answers(c)
  BY <1>1, <1>3 DEF Reach, Answers
<1>4. CASE tenant[c].ready \/ prov[c] = "reached"
  <2>1. home[c] \in exists
    BY <1>4 DEF BackendInv
  <2>2. tenant[c].st # "absent"
    BY <1>1, <1>4 DEF TenantInv
  <2>3. pass.pc = "delete" => home[c] \in pass.veto
    BY <1>4 DEF ClaimListInv, Swept
  <2> QED
    BY <1>1, <2>1, <2>2, <2>3, GoneBy DEF PassInv
<1> QED
  BY <1>2, <1>3, <1>4

\* Whoever has stayed since the sweep began has its veto when the LISTs are over,
\* under whichever kind its record was found.
LEMMA SteadyStep ==
  ASSUME ~PartialShared, Types, HomeInv, TenantInv, PassInv, ClaimListInv, SteadyInv, Next
  PROVE  SteadyInv'
<1>0. pass \in PassType /\ home' = home
  BY DEF Types, PassType, Next, Remembered
<1>1. \A t \in steady' : Occupies(t)'
  BY DEF Next, Remembered
<1>2. pass.pc # "sleep" => steady' \subseteq steady
  BY DEF Next, Remembered, At
<1>3. CASE ListClaims
  <2>1. pass'.pc = "retained"
    BY <1>0, <1>3 DEF ListClaims, PassType
  <2> QED
    BY <1>1, <2>1 DEF SteadyInv, Judging
<1>4. CASE ListRetained
  <2>1. pass.pc = "retained" /\ pass'.pc = "shared" /\ UNCHANGED <<tenant, prov, retained>>
    BY <1>0, <1>4 DEF ListRetained, At, PassType, world
  <2>2. ASSUME NEW t \in steady' \cap Claim PROVE home[t] \in pass'.veto
    <3>1. /\ pass.veto \subseteq pass'.veto
          /\ \A c \in Claim : RetainedVetoes(c) \subseteq pass'.veto
      BY <1>0, <1>4 DEF ListRetained, PassType
    <3>2. Occupies(t) /\ t \notin Shared /\ home[t] \in Backend
      BY <1>2, <2>1, <2>2, ConstantsAssumption DEF SteadyInv, HomeInv, Tenant
    <3>3. CASE tenant[t].ready
      BY <2>1, <2>2, <3>1, <3>3 DEF ClaimListInv, Swept
    <3>4. CASE home[t] # "redis-ephemeral" /\ retained[t] = home[t]
      BY <2>2, <3>1, <3>2, <3>4 DEF RetainedVetoes
    <3> QED
      BY <3>2, <3>3, <3>4 DEF Occupies
  <2> QED
    BY <1>0, <1>1, <2>1, <2>2 DEF SteadyInv, Judging
<1>5. CASE ListShared
  <2>1. /\ pass.pc = "shared" /\ pass'.pc = "list" /\ pass.veto \subseteq pass'.veto
        /\ Homes({s \in Shared : SharedVetoes(s)}) \subseteq pass'.veto
    BY <1>0, <1>5 DEF ListShared, At, PassType
  <2>2. ASSUME NEW s \in steady' \cap Shared PROVE home[s] \in pass'.veto
    <3>1. Occupies(s) /\ s \notin Claim /\ s \in Tenant
      BY <1>2, <2>1, <2>2, ConstantsAssumption DEF SteadyInv, Tenant
    <3>2. SharedVetoes(s)
      BY <2>2, <3>1 DEF Occupies, SharedVetoes, TenantInv
    <3> QED
      BY <2>1, <2>2, <3>2 DEF Homes
  <2>3. \A t \in steady' \cap Claim : home[t] \in pass'.veto
    BY <1>2, <2>1 DEF SteadyInv
  <2> QED
    BY <1>0, <1>1, <2>2, <2>3 DEF SteadyInv
<1>6. CASE pass'.pc \in {"sleep", "claims"}
  BY <1>1, <1>6 DEF SteadyInv, Judging
<1>7. CASE /\ pass'.veto = pass.veto /\ pass'.listed = pass.listed
           /\ pass'.pc = pass.pc \/ (pass.pc \in Judging /\ pass'.pc \in Judging)
  <2>1. CASE pass.pc = "sleep"
    BY <1>1, <1>7, <2>1 DEF SteadyInv, Judging
  <2>2. CASE pass.pc # "sleep"
    BY <1>0, <1>1, <1>2, <1>7, <2>2 DEF SteadyInv
  <2> QED
    BY <2>1, <2>2
<1> QED
  BY <1>3, <1>4, <1>5, <1>6, <1>7, PassMoves

-----------------------------------------------------------------------------
(* The theorems. *)

\* The facts that hold whatever the cluster does.
SafeInv == Types /\ HomeInv /\ TenantInv /\ PassInv /\ ClockInv /\ VolumeInv

\* The facts that need provisioning to be slower than a sweep, and those that
\* need the LIST of shared databases to be whole as well.
ListInv == SafeInv /\ ClaimListInv /\ BackendInv
FullInv == ListInv /\ SteadyInv

\* All of them hold at the start.
LEMMA Begin == Init => FullInv
<1> SUFFICES ASSUME Init PROVE FullInv
  OBVIOUS
<1>1. HomeInv
  BY ConstantsAssumption DEF Init, HomeInv
<1>2. Types
  <2>1. tenant \in [Tenant -> TenantType]
    BY DEF Init, NoTenant, TenantType
  <2>2. Asleep \in PassType
    BY DEF Asleep, PassType, Arm, NoBackend
  <2> QED
    BY <2>1, <2>2, BackendNames DEF Init, Types, TenantType, PassType
<1>3. TenantInv
  BY DEF Init, TenantInv, NoTenant
<1>4. PassInv /\ ClockInv /\ VolumeInv /\ ClaimListInv
  BY DEF Init, PassInv, ClockInv, VolumeInv, ClaimListInv, Asleep, Reaping, Swept
<1>5. BackendInv
  BY DEF Init, BackendInv, NoTenant, Tenant
<1>6. SteadyInv
  BY DEF Init, SteadyInv, Asleep, Judging
<1> QED
  BY <1>1, <1>2, <1>3, <1>4, <1>5, <1>6 DEF FullInv, ListInv, SafeInv

\* A step that changes nothing keeps them.
LEMMA Stays ==
  /\ SafeInv /\ UNCHANGED placed => SafeInv'
  /\ ListInv /\ UNCHANGED placed => ListInv'
  /\ FullInv /\ UNCHANGED placed => FullInv'
BY DEF SafeInv, ListInv, FullInv, Types, HomeInv, TenantInv, PassInv, ClockInv, VolumeInv, ClaimListInv,
       BackendInv, SteadyInv, Occupies, placed, vars

\* Every step keeps the facts that hold whatever the cluster does.
LEMMA SafeStep == SafeInv /\ [Next]_placed => SafeInv'
BY Stays, TypeStep, TenantStep, PassStep, ClockStep, VolumeStep DEF SafeInv

\* Every step keeps those that need provisioning to be slower than a sweep.
LEMMA ListStep ==
  ASSUME SlowProvision
  PROVE  ListInv /\ [Next]_placed => ListInv'
BY SafeStep, Stays, ClaimListStep, BackendStep DEF ListInv, SafeInv

\* The facts that hold whatever the cluster does, always.
LEMMA SafeEver == Spec => []SafeInv
<1>1. Init => SafeInv
  BY Begin DEF FullInv, ListInv
<1> QED
  BY <1>1, SafeStep, PTL DEF Spec

\* The type of every variable, and no clock is left to an instance the sweep found
\* referenced, so that a later emptying starts a full dwell whatever failed.
THEOREM TypeCorrect == Spec => []TypeOK
<1>1. SafeInv => TypeOK
  BY DEF SafeInv, ClockInv, TypeOK
<1> QED
  BY <1>1, SafeEver, PTL

\* No reap destroys a volume: neither a restart, a lost answer, a reference that
\* CNPG puts back nor a backend that was deleted and created again in the middle of
\* the sweep makes strip_cnpg_pvc_owners miss one.
THEOREM VolumeSurvivesReapEver == Spec => VolumeSurvivesReap
<1>1. SafeInv /\ [Next]_placed =>
        [\A b \in Backend : Reaps(b) => vol'[b] = vol[b]]_vars
  BY ReapKeepsVolume DEF SafeInv, placed
<1> QED
  BY <1>1, SafeEver, PTL DEF Spec, VolumeSurvivesReap

\* A ready claim has its backend, when no claim is created, scheduled and connected
\* within one sweep.
THEOREM ReadyClaimHasBackendEver ==
  ASSUME SlowProvision
  PROVE  Spec => []ReadyClaimHasBackend
<1>1. Init => ListInv
  BY Begin DEF FullInv
<1>2. ListInv /\ [Next]_placed => ListInv'
  BY ListStep
<1>3. ListInv => ReadyClaimHasBackend
  BY DEF ListInv, BackendInv, ReadyClaimHasBackend
<1> QED
  BY <1>1, <1>2, <1>3, PTL DEF Spec

\* The backend of a tenant that occupied it all through the sweep is not reaped,
\* when the LIST of shared databases is not truncated and no claim is created,
\* scheduled and connected within one sweep.
THEOREM OccupiedIsNotReapedEver ==
  ASSUME SlowProvision, ~PartialShared
  PROVE  Spec => OccupiedIsNotReaped
<1>1. Init => FullInv
  BY Begin
<1>2. FullInv /\ [Next]_placed => FullInv'
  BY ListStep, Stays, SteadyStep DEF FullInv, ListInv, SafeInv
<1>3. FullInv => [\A b \in Backend : Reaps(b) => b \notin Homes(steady)]_vars
  <2> SUFFICES ASSUME FullInv, NEW b \in Backend, Reaps(b)
               PROVE  b \notin Homes(steady)
    OBVIOUS
  <2>1. pass.cur = b /\ b \notin pass.veto /\ pass.pc \in Judging
    BY BackendNames DEF FullInv, ListInv, SafeInv, Reaps, PassInv, Reaping, Judging
  <2>2. \A t \in steady : home[t] \in pass.veto
    BY <2>1 DEF FullInv, ListInv, SafeInv, SteadyInv, Types, Tenant
  <2> QED
    BY <2>1, <2>2 DEF Homes
<1> QED
  BY <1>1, <1>2, <1>3, PTL DEF Spec, OccupiedIsNotReaped
=============================================================================
