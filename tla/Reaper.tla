------------------------------- MODULE Reaper -------------------------------
(***************************************************************************)
(* The shared-backend reaper (reaper.rs) beside the provisioners that bring *)
(* the backends up: the Dragonfly pool instances and the CNPG cluster.     *)
(*                                                                         *)
(* Provisioning applies the backend first and names it in the tenant's     *)
(* status several requests later; the reaper reads claims, snapshots and   *)
(* shared databases one LIST after another and deletes what nothing named  *)
(* for long enough.  Neither waits for the other.  Instances are known by  *)
(* uid: `same` holds the ones a pass listed and that are still there.      *)
(***************************************************************************)
EXTENDS Integers, FiniteSets

CONSTANTS
  Claim,          \* owned redis and pg ResourceClaims
  Shared,         \* SharedDatabases
  Backend,        \* "redis-persistent", "redis-ephemeral", "pg"
  Placements,     \* the ways to place the tenants on backends
  Dwell,          \* sweeps a backend stays empty before it is reaped
  MaxFails,       \* bound: failed requests, restarts and surprises in one behaviour
  BrokenArms,     \* arms whose LIST may fail every time
  PartialShared,  \* TRUE when the LIST of shared databases may be truncated
  SlowProvision   \* TRUE when a claim that a sweep did not count as a tenant
                  \* does not reach its backend before that sweep ends

Tenant == Claim \cup Shared
Arm == {"dragonfly", "cnpg"}
ArmOf(b) == IF b = "pg" THEN "cnpg" ELSE "dragonfly"
NoClock == -1
NoBackend == "none"
NoSnapshot == "absent"

ASSUME ConstantsAssumption ==
  /\ Claim \cap Shared = {}
  /\ Backend \subseteq {"redis-persistent", "redis-ephemeral", "pg"}
  /\ Placements \subseteq [Tenant -> Backend]
  /\ Dwell \in Nat /\ MaxFails \in Nat
  /\ BrokenArms \subseteq Arm
  /\ PartialShared \in BOOLEAN /\ SlowProvision \in BOOLEAN

VARIABLES
  home,      \* the backend each tenant is provisioned on, as its kind and class say
  tenant,    \* the claims and shared databases, as stored
  prov,      \* how far each tenant's provisioning pass has come
  retained,  \* the backend each claim's RetainedClaim names, if it has one
  exists,    \* the backend objects
  vol,       \* their volumes: "none", "owned" by the backend object, "kept"
  clock,     \* empty_since, as time elapsed
  pass,      \* the sweep in progress
  steady,    \* tenants that have occupied their backend since the sweep began
  fails      \* failures so far

vars == <<tenant, prov, retained, exists, vol, clock, pass, steady, fails>>
placed == <<home, vars>>
world == <<tenant, prov, retained, exists, vol>>

NoTenant == [st |-> "absent", provider |-> FALSE, instance |-> FALSE, ready |-> FALSE]
Asleep == [pc |-> "sleep", arm |-> "dragonfly", listed |-> {}, veto |-> {}, cand |-> {}, same |-> {},
           seen |-> {}, cur |-> NoBackend]

Init ==
  /\ home \in Placements
  /\ tenant = [t \in Tenant |-> NoTenant]
  /\ prov = [t \in Tenant |-> "idle"]
  /\ retained = [c \in Claim |-> NoSnapshot]
  /\ exists = {}
  /\ vol = [b \in Backend |-> "none"]
  /\ clock = [b \in Backend |-> NoClock]
  /\ pass = Asleep
  /\ steady = {}
  /\ fails = 0

---------------------------------------------------------------------------
(* The three vetoes and the fourth. *)

\* Mutant: no INTENT veto.
ClaimVetoesAllocated(c) == IF home[c] = "pg" THEN tenant[c].provider ELSE tenant[c].instance

\* is_allocated_on, whatever becomes of the claim: a redis claim names its
\* instance, a pg claim its provider.  Or is_intent_for: it does not yet, and
\* it is not on its way out.
ClaimVetoes(c) ==
  \/ IF home[c] = "pg" THEN tenant[c].provider ELSE tenant[c].instance
  \/ tenant[c].st = "live"

\* is_retained_for: an ephemeral instance is not kept for a snapshot.
RetainedVetoes(c) == IF retained[c] = "redis-ephemeral" THEN {} ELSE {retained[c]} \cap Backend

\* Mutant: the inventory knows claims only.
SharedVetoesNever(s) == FALSE

\* is_shared_on: by the instance in its status, unless it is being deleted.
SharedVetoes(s) == tenant[s].st = "live" /\ tenant[s].instance

Homes(ts) == {home[t] : t \in ts}

---------------------------------------------------------------------------
(* The sweep. *)

At(pc) == pass.pc = pc
Go(pc) == pass' = [pass EXCEPT !.pc = pc]

\* The tick: time passes between sweeps, which is counted up to the dwell.
Wake ==
  /\ At("sleep")
  /\ Go("claims")
  /\ clock' = [b \in Backend |->
       IF clock[b] \in 0 .. Dwell - 1 THEN clock[b] + 1 ELSE clock[b]]
  /\ UNCHANGED <<tenant, prov, retained, exists, vol, fails>>

\* SlowProvision is about the other claims: those that the LIST does not hold,
\* or holds as being deleted before they were allocated or scheduled.
Counted(c) ==
  \/ tenant[c].st = "live"
  \/ tenant[c].st = "deleting" /\ (tenant[c].instance \/ (home[c] = "pg" /\ tenant[c].provider))

ListClaims ==
  /\ At("claims")
  /\ pass' = [pass EXCEPT !.pc = "retained", !.listed = {c \in Claim : Counted(c)},
                          !.veto = Homes({c \in Claim : ClaimVetoes(c)})]
  /\ UNCHANGED <<world, clock, fails>>

ListRetained ==
  /\ At("retained")
  /\ pass' = [pass EXCEPT !.pc = "shared",
                          !.veto = @ \cup UNION {RetainedVetoes(c) : c \in Claim}]
  /\ UNCHANGED <<world, clock, fails>>

\* The one LIST whose truncation nobody looks at.
ListShared ==
  LET all == {s \in Shared : SharedVetoes(s)} IN
  /\ At("shared")
  /\ \E listed \in SUBSET all :
       /\ PartialShared \/ listed = all
       /\ pass' = [pass EXCEPT !.pc = "list", !.veto = @ \cup Homes(listed)]
  /\ UNCHANGED <<world, clock, fails>>

MayFail == fails < MaxFails /\ fails' = fails + 1

\* An error, or a truncated LIST of anything else: every clock survives.
AbortPass ==
  /\ pass.pc \in {"claims", "retained", "shared"}
  /\ MayFail
  /\ pass' = Asleep
  /\ UNCHANGED <<world, clock>>

\* An arm lists its instances.
ListInstances ==
  LET mine == {b \in exists : ArmOf(b) = pass.arm} IN
  /\ At("list")
  /\ pass' = [pass EXCEPT !.pc = "judge", !.cand = mine, !.same = mine, !.seen = @ \cup mine]
  /\ UNCHANGED <<world, clock, fails>>

\* Mutant: the first arm's error ends the sweep before the second has run.
AfterFailedArmCoupled(p) == [p EXCEPT !.pc = "end"]

\* After an arm: the other one runs whatever became of the first.
NextArm(p) ==
  IF p.arm = "dragonfly"
  THEN [p EXCEPT !.pc = "list", !.arm = "cnpg", !.cand = {}, !.cur = NoBackend]
  ELSE [p EXCEPT !.pc = "end", !.cand = {}, !.cur = NoBackend]

\* An arm that fails vouches for none of its instances.
AfterFailedArm(p) == NextArm([p EXCEPT !.seen = {b \in @ : ArmOf(b) # p.arm}])

ArmFails ==
  /\ At("list")
  /\ MayFail \/ (pass.arm \in BrokenArms /\ UNCHANGED fails)
  /\ pass' = AfterFailedArm(pass)
  /\ UNCHANGED <<world, clock>>

ArmDone ==
  /\ At("judge") /\ pass.cand = {}
  /\ pass' = NextArm(pass)
  /\ UNCHANGED <<world, clock, fails>>

\* Clocks of instances nobody reported are dropped.
EndPass ==
  /\ At("end")
  /\ pass' = Asleep
  /\ clock' = [b \in Backend |-> IF b \in pass.seen THEN clock[b] ELSE NoClock]
  /\ UNCHANGED <<world, fails>>

---------------------------------------------------------------------------
(* reap_decision and what follows from it. *)

Judged(b) == [pass EXCEPT !.pc = "judge", !.cand = @ \ {b}, !.cur = NoBackend]

\* Mutant: the clock of an instance that is referenced again runs on.
VetoKeepsClock(b) ==
  /\ At("judge") /\ b \in pass.cand /\ b \in pass.veto
  /\ pass' = Judged(b)
  /\ UNCHANGED <<world, clock, fails>>

Veto(b) ==
  /\ At("judge") /\ b \in pass.cand /\ b \in pass.veto
  /\ clock' = [clock EXCEPT ![b] = NoClock]
  /\ pass' = Judged(b)
  /\ UNCHANGED <<world, fails>>

\* The first empty sweep starts the clock.
Dwells(b) ==
  /\ At("judge") /\ b \in pass.cand \ pass.veto /\ clock[b] < Dwell
  /\ clock' = [clock EXCEPT ![b] = IF @ = NoClock THEN 0 ELSE @]
  /\ pass' = Judged(b)
  /\ UNCHANGED <<world, fails>>

\* Mutant: the cluster is deleted like an instance, its volume with it.
ReapUnstripped(b) ==
  /\ At("judge") /\ b \in pass.cand \ pass.veto /\ clock[b] >= Dwell
  /\ pass' = [pass EXCEPT !.pc = "delete", !.cur = b]
  /\ UNCHANGED <<world, clock, fails>>

Reap(b) ==
  /\ At("judge") /\ b \in pass.cand \ pass.veto /\ clock[b] >= Dwell
  /\ pass' = [pass EXCEPT !.pc = IF b = "pg" THEN "strip" ELSE "delete", !.cur = b]
  /\ UNCHANGED <<world, clock, fails>>

\* strip_cnpg_pvc_owners removes the references to the uid it was given.
Strip ==
  /\ At("strip")
  /\ vol' = [vol EXCEPT ![pass.cur] = IF pass.cur \in pass.same /\ @ = "owned" THEN "kept" ELSE @]
  /\ Go("verify")
  /\ UNCHANGED <<tenant, prov, retained, exists, clock, fails>>

\* The verifying re-LIST; a reference that is back keeps the clock for a retry.
Verify ==
  /\ At("verify")
  /\ pass' = IF pass.cur \in pass.same /\ vol[pass.cur] = "owned"
             THEN Judged(pass.cur) ELSE [pass EXCEPT !.pc = "delete"]
  /\ UNCHANGED <<world, clock, fails>>

\* A strip that could not be completed or verified.
StripFails ==
  /\ pass.pc \in {"strip", "verify"} /\ MayFail
  /\ pass' = Judged(pass.cur)
  /\ UNCHANGED <<world, clock>>

\* The backend object goes, and what it owns with it.
Removed(b) ==
  /\ exists' = exists \ {b}
  /\ vol' = [vol EXCEPT ![b] = IF @ = "owned" THEN "none" ELSE @]

\* A delete under the uid precondition: 404 and 409 change nothing.
Delete ==
  /\ At("delete")
  /\ IF pass.cur \in pass.same
     THEN Removed(pass.cur) ELSE UNCHANGED <<exists, vol>>
  /\ pass' = [Judged(pass.cur) EXCEPT !.same = @ \ {pass.cur}]
  /\ clock' = [clock EXCEPT ![pass.cur] = NoClock]
  /\ UNCHANGED <<tenant, prov, retained, fails>>

\* A delete that fails, or whose answer is lost, ends the arm.
DeleteErrs ==
  /\ At("delete") /\ MayFail
  /\ \/ pass.cur \in pass.same /\ Removed(pass.cur)
     \/ UNCHANGED <<exists, vol>>
  /\ pass' = AfterFailedArm(pass)
  /\ UNCHANGED <<tenant, prov, retained, clock>>

---------------------------------------------------------------------------
(* The tenants' controllers. *)

\* Mutant: a shared database that is ready is left alone, as a claim is.
ShouldEnsureUnlessReady(t) == ~tenant[t].ready

\* A ready claim is never provisioned again; a shared database is, always.
ShouldEnsure(t) == t \in Claim => ~tenant[t].ready

\* Apply the backend: the first tenant creates it, and CNPG adopts a volume
\* that is there.
Ensure(t) ==
  LET b == home[t] IN
  /\ tenant[t].st = "live" /\ (t \in Claim => tenant[t].provider)
  /\ prov[t] = "idle" /\ ShouldEnsure(t)
  /\ exists' = exists \cup {b}
  /\ vol' = [vol EXCEPT ![b] = IF b \in exists \/ b = "redis-ephemeral" THEN @
                               ELSE IF b = "pg" THEN "owned" ELSE "kept"]
  /\ prov' = [prov EXCEPT ![t] = "ensured"]
  /\ UNCHANGED <<tenant, retained, clock, pass, fails>>

\* The checkpoint of a redis tenant names the instance.
Allocate(t) ==
  /\ prov[t] = "ensured" /\ home[t] # "pg"
  /\ tenant' = [tenant EXCEPT ![t].instance = @ \/ tenant[t].st # "absent"]
  /\ prov' = [prov EXCEPT ![t] = "allocated"]
  /\ UNCHANGED <<retained, exists, vol, clock, pass, fails>>

\* FLUSHDB and SETUSER, or the role and the database, need the backend; a shared
\* cache that is ready is not connected to.
Answers(t) ==
  home[t] \in exists \/ (t \in Shared /\ home[t] # "pg" /\ tenant[t].ready)

\* On a backend that is gone the pass ends, and a shared pg database says so.
Reach(t) ==
  /\ prov[t] = IF home[t] = "pg" THEN "ensured" ELSE "allocated"
  /\ SlowProvision /\ t \in Claim => t \in pass.listed \/ pass.pc \in {"sleep", "claims"}
  /\ prov' = [prov EXCEPT ![t] = IF Answers(t) THEN "reached" ELSE "idle"]
  /\ tenant' = [tenant EXCEPT ![t].ready = @ /\ (Answers(t) \/ t \in Claim)]
  /\ UNCHANGED <<retained, exists, vol, clock, pass, fails>>

\* The terminal status, which names no instance for a pg claim; then the end
\* of the claim's own snapshot.
Ready(t) ==
  /\ prov[t] = "reached"
  /\ tenant' = [tenant EXCEPT ![t] = IF @.st = "absent" THEN @ ELSE
       [@ EXCEPT !.instance = t \in Shared \/ home[t] # "pg", !.ready = TRUE]]
  /\ retained' = [c \in Claim |-> IF c = t THEN NoSnapshot ELSE retained[c]]
  /\ prov' = [prov EXCEPT ![t] = "idle"]
  /\ UNCHANGED <<exists, vol, clock, pass, fails>>

Requeue(t) ==
  /\ prov[t] # "idle" /\ MayFail
  /\ prov' = [prov EXCEPT ![t] = "idle"]
  /\ UNCHANGED <<tenant, retained, exists, vol, clock, pass>>

\* The backend a deleted claim's snapshot names: one that was never scheduled
\* is taken for a pg claim of the default cluster.
Snapshot(c) ==
  IF home[c] = "pg" \/ ~tenant[c].provider THEN "pg"
  ELSE IF tenant[c].instance THEN home[c] ELSE NoBackend

\* The finalizer goes, after the snapshot of a claim: the first one stays.
Finalize(t) ==
  /\ tenant[t].st = "deleting" /\ prov[t] = "idle"
  /\ retained' = [c \in Claim |->
       IF c = t /\ retained[c] = NoSnapshot THEN Snapshot(c) ELSE retained[c]]
  /\ tenant' = [tenant EXCEPT ![t] = NoTenant]
  /\ UNCHANGED <<prov, exists, vol, clock, pass, fails>>

---------------------------------------------------------------------------
(* The environment. *)

\* The process ends: passes and clocks are lost.
Restart ==
  /\ MayFail
  /\ pass' = Asleep
  /\ clock' = [b \in Backend |-> NoClock]
  /\ prov' = [t \in Tenant |-> "idle"]
  /\ UNCHANGED <<tenant, retained, exists, vol>>

Create(t) ==
  /\ tenant[t].st = "absent" /\ prov[t] = "idle"
  /\ tenant' = [tenant EXCEPT ![t].st = "live"]
  /\ UNCHANGED <<prov, retained, exists, vol, clock, pass, fails>>

\* The scheduler's verdict; a shared database resolves its own provider.
Schedule(c) ==
  /\ tenant[c].st = "live" /\ ~tenant[c].provider
  /\ tenant' = [tenant EXCEPT ![c].provider = TRUE]
  /\ UNCHANGED <<prov, retained, exists, vol, clock, pass, fails>>

DeleteTenant(t) ==
  /\ tenant[t].st = "live"
  /\ tenant' = [tenant EXCEPT ![t].st = "deleting"]
  /\ UNCHANGED <<prov, retained, exists, vol, clock, pass, fails>>

\* The grace-period GC has dropped the snapshot and what it named.
Expire(c) ==
  /\ retained[c] # NoSnapshot
  /\ retained' = [retained EXCEPT ![c] = NoSnapshot]
  /\ UNCHANGED <<tenant, prov, exists, vol, clock, pass, fails>>

\* A human deletes a backend nobody is on; what it owns goes with it.
HumanDelete(b) ==
  /\ b \in exists
  /\ \A t \in Tenant : home[t] = b => tenant[t].st = "absent"
  /\ Removed(b)
  /\ pass' = [pass EXCEPT !.same = @ \ {b}]
  /\ UNCHANGED <<tenant, prov, retained, clock, fails>>

\* CNPG, which is measured not to, puts its reference back; but not between the
\* verifying read and the delete: no code can close that window.
Readopt ==
  /\ "pg" \in exists /\ vol["pg"] = "kept" /\ ~At("delete") /\ MayFail
  /\ vol' = [vol EXCEPT !["pg"] = "owned"]
  /\ UNCHANGED <<tenant, prov, retained, exists, clock, pass>>

---------------------------------------------------------------------------
SweepStep ==
  \/ Wake \/ ListClaims \/ ListRetained \/ ListShared \/ ListInstances \/ ArmDone \/ EndPass
  \/ \E b \in Backend : Veto(b) \/ Dwells(b) \/ Reap(b)
  \/ Strip \/ Verify \/ Delete \/ ArmFails

FailureStep ==
  AbortPass \/ StripFails \/ DeleteErrs \/ Restart \/ Readopt \/ \E t \in Tenant : Requeue(t)

ProvisionStep(t) == Ensure(t) \/ Allocate(t) \/ Reach(t) \/ Ready(t)

EnvironmentStep ==
  \/ \E t \in Tenant : Create(t) \/ DeleteTenant(t) \/ Finalize(t)
  \/ \E c \in Claim : Schedule(c) \/ Expire(c)
  \/ \E b \in Backend : HumanDelete(b)

\* t's data is on its backend: t is connected to it, or in its grace period.
Occupies(t) ==
  \/ tenant[t].ready /\ (t \in Shared => tenant[t].st = "live")
  \/ t \in Claim /\ home[t] # "redis-ephemeral" /\ retained[t] = home[t]

\* Tenants stay where they are placed.  A sweep begins with everyone who
\* occupies a backend then; whoever leaves it is struck off.
Remembered ==
  /\ UNCHANGED home
  /\ steady' = {t \in IF At("sleep") THEN Tenant ELSE steady : Occupies(t)'}

Next ==
  /\ SweepStep \/ FailureStep \/ EnvironmentStep \/ \E t \in Tenant : ProvisionStep(t)
  /\ Remembered

Spec == Init /\ [][Next]_placed

\* The sweep never stops, whatever its arms return, and every controller is
\* requeued after every pass.
Fairness ==
  /\ WF_vars(SweepStep /\ Remembered)
  /\ \A t \in Tenant : WF_vars(ProvisionStep(t) /\ Remembered)

LiveSpec == Spec /\ Fairness

---------------------------------------------------------------------------
Types ==
  /\ tenant \in [Tenant -> [st : {"absent", "live", "deleting"}, provider : BOOLEAN,
                            instance : BOOLEAN, ready : BOOLEAN]]
  /\ prov \in [Tenant -> {"idle", "ensured", "allocated", "reached"}]
  /\ retained \in [Claim -> Backend \cup {"pg", NoBackend, NoSnapshot}]
  /\ exists \subseteq Backend
  /\ vol \in [Backend -> {"none", "owned", "kept"}]
  /\ clock \in [Backend -> 0 .. Dwell \cup {NoClock}]
  /\ pass \in [pc : {"sleep", "claims", "retained", "shared", "list", "judge", "strip",
                     "verify", "delete", "end"},
               arm : Arm, listed : SUBSET Claim, veto : SUBSET Backend, cand : SUBSET Backend,
               same : SUBSET Backend, seen : SUBSET Backend, cur : Backend \cup {NoBackend}]
  /\ steady \subseteq Tenant
  /\ fails \in 0 .. MaxFails

\* The type of every variable, and no clock is left to an instance that the sweep
\* has found referenced, whichever arm failed (sweep_dragonfly: "a later emptying
\* starts a FULL dwell rather than resuming a stale one").
TypeOK ==
  /\ Types
  /\ \A b \in pass.seen \cap pass.veto : b \in pass.cand \/ clock[b] = NoClock

\* The reaper's delete takes b away in this step.
Reaps(b) == pass.cur = b /\ pass'.cur # b /\ b \in exists /\ b \notin exists'

\* The backend of a tenant that has occupied it since the sweep began is not
\* reaped, also when the record of the tenant moves between the kinds that the
\* sweep lists one after another (reaper.rs: "reapable only when nothing in the
\* cluster can be pointing at it").
OccupiedIsNotReaped ==
  [][\A b \in Backend : Reaps(b) => b \notin Homes(steady)]_vars

\* A claim that is ready, and not on its way out, has its backend: nothing would
\* bring it back, because a ready claim is never provisioned again
\* (should_provision).
ReadyClaimHasBackend ==
  \A c \in Claim : tenant[c].ready /\ tenant[c].st = "live" => home[c] \in exists

\* No reap destroys a volume, correct or not (strip_cnpg_pvc_owners: a plain
\* delete cascades and destroys the database).
VolumeSurvivesReap ==
  [][\A b \in Backend : Reaps(b) => vol'[b] = vol[b]]_vars

\* A backend without tenants is reaped in the end, though the other backend's
\* arm fails in every sweep ("the arms are UNCOUPLED, deliberately").
UnusedIsReaped ==
  \A b \in {x \in Backend : ArmOf(x) \notin BrokenArms} :
    []<>(b \notin exists \/ \E t \in Tenant :
           (home[t] = b /\ tenant[t].st # "absent") \/ (t \in Claim /\ retained[t] = b))

\* A shared database that was mid-provision when its backend was reaped, before
\* its status named it, gets the backend back (no INTENT veto covers it).
SharedRecovers ==
  \A s \in Shared : []<>(home[s] \in exists \/ tenant[s].st # "live")
=============================================================================
