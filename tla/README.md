# AppRafter: a TLA+ model of the operator

AppRafter turns a Kubernetes cluster into an application platform. A Rust
operator reconciles custom resources (Application, ResourceClaim,
SharedDatabase, SharedVolume, MigrationPlan, PlatformStack, SourceCredential);
a command line bootstraps the cluster and takes backups; Argo CD applies what
CUE definitions render. This directory models the parts in which several actors
share state and a wrong order destroys data or leaves it behind: the **leader
election** that keeps one operator acting, the **redis keyspaces** and
**postgres databases** that controllers hand out and take back, the **reaper**
that deletes shared backends nobody uses, **shared volumes**, the **migration
gate** before a destructive change of an application, and **backup**: retention
over a shared repository and the stopping of a run.

    tlc -workers 2 -config MCKeyspaceFaults.cfg MCKeyspace   # one run
    tlapm SharedVolumeProofs.tla                             # the proofs of a module

Module and action names follow the Rust functions; `PROJECT.json` maps every
definition to its lines. Every module keeps the *mutants* of its definitions
beside them: each is a plausible slip in the code, and each property of each
passing run is violated when one of them takes the place of the original.

## 1. Inventory

| component (source under `src/`) | state | operations | hard part | status |
|---|---|---|---|---|
| leader election (`operator-core/leader.rs`, `apprafter-operator/main.rs`) | the Lease; each process's `renewed_at`, deadline, gate | acquire, renew, retry, step down, exit | clocks, lost and late writes, a gate read once | modelled |
| redis keyspace allocation (`resourceclaim-provisioner/{reconcile,dragonfly,shared_database,gc,grace}.rs`) | claim and shared-database status, RetainedClaim snapshots, the numbered databases, ACL users, an in-process lock | provision, re-attach, release, snapshot, collect | three controllers, no transaction, dropped passes with writes in flight, stale watch cache | modelled but for consumers, Secrets, ACL re-pin |
| shared-backend reaper (`reaper.rs`) | Dragonfly instances, the CNPG cluster, its volume, dwell clocks | list, veto, dwell, strip, delete | LISTs of different ages; provisioning beside it | modelled but for the stamp and name gates |
| postgres provisioning and drop (`reconcile.rs`, `cnpg.rs`, `gc.rs`) | the one list of managed roles, Database objects, password Secrets, RetainedClaims | create; database absent, then role absent, then prune | two writers of one list; CNPG acts and reports later | modelled but for extensions and shared postgres databases |
| consumers of shared databases (`shared_database.rs`, `shared_pg.rs`) | bindings, grants | bind, revoke, hold deletion | a bind racing a delete | planned |
| ACL re-pin (`acl_reconcile.rs`) | runtime ACL users, ACL file Secret | re-grant, rewrite file | reads claims before it grants | planned |
| JetStream (`nats*.rs`) | accounts, streams | create, drop | as the postgres drop | planned |
| disk claims (`disk.rs`) | one PVC per claim | apply, collect | none of its own | not modelled |
| shared volumes (`shared_volume.rs`) | a PVC, a finalizer, `status.refCount`, `sv_unsettled` | apply, count, delete, settle | an apply that commits after the delete | modelled |
| claim scheduler (`resourceclaim-scheduler`, `matching.rs`) | `status.provider` | match, select | provider removed under a claim | planned |
| application controller (`application`) | children of an Application, the baseline `lastAppliedSpec` | detect, decide, pause, prune, render, stamp | the spec changes and passes end at any point | the migration gate; rendering is not |
| migration controller (`migration`, `migration_state.rs`) | plan phase | approve, execute, complete | a plan outlives the pass that wrote it | phases modelled in the gate; strategies are not |
| platform-stack controller (`platform-stack`) | pin, conditions | resolve, apply, mark/clear stall | two field managers on one list | planned |
| source credentials (`sourcecredential`) | projected Secrets, validity | probe, project | network I/O | not modelled |
| renderer, CRD types, crdgen, charts, webhook validators | none | pure functions | strings and layout | not modelled |
| backup engine (`backup-core`: `engine.rs`, `prune.rs`) | snapshots of a restic repository | write, commit, list, plan, forget | prunes beside unfinished runs, several clusters | modelled but for contents, restore, resealing |
| backup runner (`apprafter-backup`) | outcome, phase, helper pods, restic child | run, stop, record, exit | SIGTERM beside everything | modelled but for SIGKILL and configuration |
| command line, state file, cloud providers | state file | sequential commands | crash during the legacy move | state file planned, rest is I/O |
| CUE plugin and definitions, portal, website, docs, e2e | none | evaluate, display, test | none | not modelled |

How they interact: all controllers run in one process behind the leader gate;
they share nothing but the apiserver and, for redis numbers, one lock
(`dbnum_alloc`). The scheduler writes the provider that the provisioner reads;
the provisioner creates backends that the reaper deletes; a deleted claim
leaves a RetainedClaim that the GC collects and that both the allocator and the
reaper honour; status writes are server-side applies without a
resourceVersion, so an abandoned one may undo a later one. A reconcile that
exceeds its deadline is dropped at an `await`.

What makes each correct: one acting process; one tenant per number and no
flush of data somebody owns; no backend deleted under a tenant and no volume
deleted at all; a role dropped, not forgotten, and only after its database; no
PVC left without an owner; no destructive change nobody approved; no prune of a
run that is kept or will still commit; nothing of a stopped run left behind.

The hazards of `PROJECT.json` list the lines at which these go wrong and the
properties that watch them; one without a property says why.

## 2. Modules

### LeaderElection

Replicas race for a Lease. `lease` is the stored object, with the age of its
renewTime; `late` are writes whose caller gave up and that may still commit;
`pc`, `leading`, `since`, `el`, `due`, `valid` are the locals of `run` and
`acquire_or_renew` (`valid`: the Lease is still at the resourceVersion read);
`acting` is set once the controllers have started, for `main.rs` reads the gate
once. Time is `Tick`; instants are kept as ages, so time itself is unbounded.
`MayWait` makes timers urgent: each runs at most `Lateness` late. A write is
conditional, so a commit voids all other writes of the same version. Wall clocks
differ by at most `MaxSkew`, and `IsLeaseStale` counts whole seconds as the code
does. `DeleteLease` is the human the docs allow; `edited` remembers it.

### Keyspace and Tenancy

A reconcile is a `pass` with a program counter; every apiserver or redis request
is one step. The claim controller, the shared-database controller and the GC
run concurrently. An allocation is: take the lock, three LISTs (`ListClaims`,
`ListRetained`, `ListShared`), choose the lowest free number or re-attach to the
own snapshot, write the checkpoint, release the lock, re-read all three kinds
(`dbnum_holders_besides`), flush unless re-attaching to a persistent instance,
set the ACL user, write the terminal status, cancel the snapshot. `DropPass`
ends a pass anywhere and may leave its write in `late`. `data` records whose
keys a number holds. What a holder wrote is its own while its status or its
snapshot names the number; afterwards it is a departed tenant's (`NoHolder`).

`Tenancy` is what the pool promises: a room has at most one owner, changes hands
by way of nobody, and holds its owner's things only. `ImplementsTenancy` maps
`owners` to the provisioned holders and the snapshots within their grace, and
`stuff` to their data.

### Reaper

The sweep (`pass`) lists claims, snapshots and shared databases one after
another, then per arm lists the backends, vetoes, starts or reads the dwell
clock, and deletes under a uid precondition (`same` are the instances that are
still the ones listed); the CNPG arm strips the volume's ownerReference and
verifies it first. Beside it tenants are created, scheduled, provisioned in four
requests, deleted and finalized. `steady` is a history variable: who has
occupied a backend since the sweep began. It is used by the properties only.

### SharedVolume

One volume. A pass applies the PVC, counts the referring claims and writes the
status, or deletes the PVC and releases the finalizer. `PassFails` and
`Restart` end a pass anywhere; a request of `LateKinds` that was on its way stays
in `late` until `RequestTimeout`. `unsettled` is `sv_unsettled`: how long ago a
provisioning pass failed, which makes the deleting pass hold the finalizer for
`DELETE_SETTLE`. `news` and `queued` are the watch on claims and the work queue.

### MigrationGate

One Application. A pass takes the spec and the baseline, decides
(`migration_state.rs`: `DetectAll`, `Approves`, `Decide`), and either deletes the
plans there are, writes a new one and pauses, or prunes claims, applies the
children, stamps the baseline and deletes the plans, the used one among them. The
migration controller carries an approved plan to completion, people edit and
approve.

`plans` is by name. A name carries the second in which its pass asked for the plan
(`plan_name`), a LIST is in the order of the names and `pick_any_key_plan` takes the
first, so the plan acted on is the one asked for first (`HeadPlan`), also when it was
written last. A deletion (`delete_all_key_plans_except`) is a LIST (`ListDoomed`) and
one DELETE after the other (`DeletePlan`); the pass may end between any two and leave
the rest. Every request of an abandoned pass may be carried out later (`late`): the
plan (`LatePlan`, under the name it had), a DELETE of a plan, the status, the DELETE
or apply of the claim, the Deployment.

`used` is a history variable: the plan whose approval was used last. `overtaken`
marks the behaviours in which a pass goes by a baseline older than the last stamp, or
a late request has rewritten the status or deleted a plan.

### BackupRetention

Runs write snapshots one by one, the one with the manifest last; a prune lists,
plans (`plan_prune`: group by run, the orphan window, the keep policy walked from
the newest run) and forgets in two steps. Nothing but the repository connects
them. Time bounds runs as the code does: a Job's deadline and grace for the
scheduled, the keep-alive window for a `backup create`.

### BackupRunner

The main thread's steps beside the stop's two sides: helper pods are taken off
the list and deleted, restic is signalled and waited for. `OutcomeClaim` decides
who records; a thread that loses it parks. `patches` are applies the apiserver
has not carried out, so that a pod can appear after it was deleted.

### PgDrop

Claims on the shared cluster. `roles` is `spec.managed.roles`; a pass reads it
and replaces it under its resourceVersion (`current`: the passes whose read is
still the latest). The GC sets the Database absent, then the role, waits for the
report, prunes the entry, deletes the password and the snapshot; every request is
a step and `PassEnds` ends a pass between any two. CloudNativePG (external) takes
a copy of the list (`observed`), and later makes and drops roles by it and reports
in `status`, which does not say for which version; a role that owns a database is
not dropped. `served` is a history variable: the claims whose data a user may
count on, from the first ready status until a snapshot has expired with no live
claim there.

## 3. Runs

| run | states | checks |
|---|---|---|
| leader_safety | 1.1 M | `TypeOK`, `AtMostOneActing`, `LeaderHoldsLease`, `TenureIsBounded` |
| leader_healthy | 26 k | `HealthyLeaderKeepsLease`, `SomeoneActs` |
| keyspace_faults | 235 k | `TypeOK`, `UsersApart`, `ReclaimRevokes`, `NoForeignFlush`, `LiveDataSurvives`, `GraceKeepsData`, `ImplementsTenancy` |
| keyspace_adverse | 755 k | `Exclusive` |
| keyspace_live | 34 k | `EventuallyProvisioned`, `NumbersComeBack` |
| keyspace_reuse | 13 k | `StartsEmpty`, violated |
| reaper | 521 k | `TypeOK`, `ReadyClaimHasBackend`, `OccupiedIsNotReaped`, `VolumeSurvivesReap`, `UnusedIsReaped`, `SharedRecovers` |
| shared_volume | 285 k | `TypeOK`, `NoOrphan`, `RefCountSettles`, `VolumeKeepsData`, `DeletionCompletes` |
| migration_gate | 941 k | `TypeOK`, `GatedByApproval`, `Converges` |
| backup_retention | 294 k | `TypeOK`, `KeptIsWhole`, `GarbageGoes` |
| backup_runner | 13 k | `TypeOK`, `CleanExit`, `RecordedByClaimer`, `EventuallyExits` |
| pg_drop | 143 k | `NoRoleLeak`, `ServedIsBacked`, `DropCompletes` |

All but keyspace_reuse pass. What they show: one process acts (leader); a number
has one tenant and its data survives dropped passes, late writes and re-creation,
the user of a ready claim reaches that claim's number alone and a reclaimed number
keeps no user (keyspace), but a re-created claim may find a departed one's data in it
(keyspace_reuse, section 5); a sweep never takes a backend in use or its volume (reaper); no PVC
without a volume, and a reference count the `volume rm` guard can rely on
(shared_volume); no destructive change without exactly its approval, which is not
used twice running, and convergence after any mess (migration_gate); kept backups are whole and the rest
goes (backup_retention); a stopped run leaves nothing at work and ends (backup_runner);
a dropped claim leaves no login behind, a re-created one finds its data, and
every drop ends (pg_drop).

**Bounds.** Two replicas are enough for every pairwise race; the proofs cover
any number. The timings keep the order of the real ones (renew 10 s, deadline
20 s, lease 30 s) and the smallest margin `MarginAssumption` allows, so that
off-by-one slips show. Two numbers and two or three holders make every number
contended and the pool full; one number and two holders in keyspace_adverse make
every allocation a conflict. One dropped pass and one late write are what turn a
checkpoint into a stale one. In the reaper a claim and a shared database sit
together on either backend, `Dwell` = 1 separates the first empty sweep from the
reaping one and `MaxFails` = 1 puts one failure anywhere. The dwell clocks of the reaper and the
settle time of a volume are counted up to the bound they are compared with; the
program's go on, and every comparison gives the same. `Deletable`, `Deleted`
and `Writing` only narrow which objects are deleted or written to. shared_volume
has two failures (a given-up apply and a failed delete) and the least settle time
`PromptAnswers` allows. migration_gate has two edits, a destructive one and one
that overtakes it, two failures, one of them to leave a request under way (`MaxLate`
= 1, of any kind) and one to stop a deletion half way or drop another pass; one
replica or none is enough for both destructive edits, and that an approval is not
good for another extent of the same kind is left to the proof, which has any number.
backup_retention has a scheduled, a manual, an old and a foreign monolithic run,
two prunes at once and five instants, which is the window plus the two periods of
the keep policy; the clock stops, so no deadlock is checked. backup_runner has
three claims and three failures; it stops at the exit. In pg_drop one claim goes
through every life cycle, as often as it likes, while another is provisioned onto
the same list; one failure can hit any request (two, tried separately, add no
violation in 442 k states). Two claims on one number, one failed flush and one
dropped pass are the least that keyspace_reuse needs; its claims are
interchangeable, and symmetry is sound for an invariant.

**Assumptions with a name.** Some properties need something the code does not
enforce. Each such assumption is a constant, or a variable a property names, so
that it can be switched off:

| name | says | without it |
|---|---|---|
| `FreshCache` | a pass starts from the stored object, not an older watch event | `LiveDataSurvives` and `ImplementsTenancy` fail, with shared databases `NoForeignFlush` and `GraceKeepsData` too; `Exclusive` holds between claims but not between a claim and a shared database, which refuses by an old status and lets go of a number in use; `OneHolder`, `UsersApart`, `NoForeignUser`, `FlushedStartsEmpty` and `OnlyLeftovers` fail, `ReclaimRevokes` holds |
| `SettledWrites` | an abandoned status write has committed or died by its object's next pass | `NoForeignFlush`, `GraceKeepsData`, `LiveDataSurvives`, `ImplementsTenancy`, `Exclusive`, `UsersApart`, `NoForeignUser`, `FlushedStartsEmpty` and `OnlyLeftovers` fail: the late write takes back a later one; `ReclaimRevokes` holds |
| `QuietGC` (Keyspace, PgDrop) | users, and a pass still provisioning a deleted claim, leave it alone while its expired snapshot is collected | `NoForeignFlush`, `GraceKeepsData`, `LiveDataSurvives`, `ImplementsTenancy`, `UsersApart`, `ReclaimRevokes`, `OnlyLeftovers`, `ServedIsBacked`, `NoRoleLeak` fail; `Exclusive`, `NoForeignUser` and `FlushedStartsEmpty` hold |
| `SureRevokes` | ACL DELUSER does not fail in a reclaim | `ReclaimRevokes` fails: the old user keeps reaching the number; the other properties of keyspace_faults hold |
| `PromptCnpg` | CloudNativePG has reported on an absent entry by the GC's next pass, 15 s later | `NoRoleLeak` fails: the pass reads the report on the entry before |
| `SlowProvision` | a claim the sweep did not count does not reach its backend before the sweep ends | `ReadyClaimHasBackend` and `OccupiedIsNotReaped` fail |
| `PartialShared` | (when TRUE) the LIST of shared databases may be truncated | `OccupiedIsNotReaped` fails |
| `PromptAnswers` | the answer to a DELETE comes within the margin of `DELETE_SETTLE` over the apiserver's timeout | `NoOrphan` fails |
| `restarted`, `LateDelete` | the process that gave up an apply still lives; the DELETE is not one given up | `NoOrphan` fails after a restart; a late DELETE hits a re-created volume |
| `overtaken` | no pass goes by a baseline older than the last stamp, or loses its plan to a late DELETE | `GatedByApproval` fails |
| `"create"` not in `LateKinds` | no plan apply is carried out after its pass was abandoned | two plans exist at once, `OnePlan` fails; `GatedByApproval` holds |
| `MarginAssumption` (BackupRetention) | a Job's pod is gone, and the last upload of a `backup create` done, within `UNFINISHED_RUN_MARGIN` | `KeptIsWhole` fails |
| `PromptApplies` | an apply is answered within `HELPER_APPLY_SETTLE_BOUND` | `CleanExit` fails: a pod appears after the exit |

The theorems of section 4 name the assumptions they need. Each such assumption was
switched off by itself, and TLC found a violation of the theorem's property. In
keyspace_faults one dropped pass is a bound on the states, no assumption: with two,
smaller instances show no violation either (up to 1.9 M states), and the theorems
hold for any number.

**Fairness.** Users, failures and late requests are never forced. Election: tokio
runs every ready task and the apiserver answers in time (`HealthySpec`);
`SomeoneActs` is conditional on crashes coming to an end. Keyspace: a pass that
has begun goes on (weak), the lock is a fair tokio mutex (strong on `TakeLock`),
and every object is requeued until it is done, so its controller gets to it
although it may be busy with others (strong on the `Begin` steps). Reaper: the
sweep's loop never ends and every provisioner is requeued (weak). SharedVolume:
the requeue of a held finalizer makes the deleting pass come back (strong on the
delete steps and on time, which waits for urgent steps); passes go on and late
requests end (weak). MigrationGate: passes, the migration controller, the
provisioner, late requests, and people who approve what waits for them or delete a
failed plan (weak). BackupRetention:
a run's steps and the prunes of a CronJob (weak). BackupRunner: the Job's
deadline stops a run that hangs, the stop's waits are bounded, the apiserver
carries out or loses a request, and the main thread's own status requests are
answered (weak); nothing is assumed of dumps and restic. PgDrop: both
controllers requeue until they are done and CloudNativePG's loops go on (weak).
Every run but the two backup ones checks for deadlock.

## 4. Proofs

Eight modules, checked by TLAPS from their assumptions on the constants only. They
hold for every set of replicas, claims, volumes or runs, any number of failures
and all timings within the named assumptions. In each the safety property says
nothing of what is under way, so it is proved with an invariant that does; TLC
checked every such invariant on the instances of section 3 before it was proved.

### LeaderElectionProofs

For all timings with `RenewPeriod < RenewDeadline` and

    RenewDeadline + 3 * Lateness + MaxSkew < LeaseDuration + Second

(`TimingAssumption`, `MarginAssumption`: the margin LeaderConfig claims "for
clock skew between nodes and for the process to exit"):

* `TypeCorrect`: `Spec => []TypeOK`;
* `BoundedTenure`: `Spec => []TenureIsBounded`, human edits included;
* `MutualExclusion` and `LeaseNamesLeader`: `AtMostOneActing`, `LeaderHoldsLease`;
* `LeaderStays`: `HealthySpec => []HealthyLeaderKeepsLease`.

`AtMostOneActing` is not inductive: it says nothing of a write in flight. The
invariant is `IndInv == TypeOK /\ TimeInv /\ (~edited => LeaseInv)`. `TimeInv`
bounds every process's clocks by what urgency gives: a leader is idle, in a
step, or exiting within one, two, three latenesses of its deadline. `LeaseInv`
says that a leader holds the Lease with a stamp no older than it thinks, and
that every write that can still commit was decided on a Lease that is the
writer's own or stale for every clock (`Takeable`). The core is
`TakeableIsIdle`: while somebody's write can commit, nobody else leads, because
a leader's age is bounded by `TimeInv` below the age at which a Lease is stale.
`CommitKeeps` then handles prompt and late commits alike. `LeaderStays` adds
`HealthyInv`: a step begins at most a renewal period and a lateness after the last
one and ends before the deadline, nothing is cut off, and nobody else has a write
that could commit. The proof needs `ReadLatency <= StepLatency`, which is in
`LatencyAssumption`: a step's first request is a read.

### KeyspaceProofs

* `TypeCorrect`: `Spec => []TypeOK`, from `BaseInv`: every kind of pass stays at the
  steps of its kind, on a number of its instance (`ShapeInv`), and an absent object
  has no status (`ObjectInv`);
* `ExclusiveEver`: `Spec => []Exclusive`, when `SettledWrites`, and `FreshCache` or
  there are no shared databases. Claims may be read stale, collected while they are
  re-created (`~QuietGC`) and keep their ACL users (`~SureRevokes`).

The invariant is `TenureInv`. A number is *won* (`Won`) by a holder that is
provisioned, whose pass is past a re-read that found nobody, or whose abandoned
write would provision it. `WonInv`: no two winners are on one number, and the
re-read of a pass that is under way holds every claim that has won the number. A
holder wins only by a re-read that ends empty (`WonBefore`), and of two allocators
on one number the one that reads last sees the other's checkpoint (`WonStep`: the
checkpoint is written before the first of the three LISTs, and shared databases
are listed last). That needs three more facts: a pass and its object agree on the
number (`HeldInv`), an abandoned write is the only one of its object and has no
pass beside it (`LateInv`), and only the end of its own drop takes an object away
from under a pass (`PinnedInv`, which holds although the pass may have been handed
a stale object). The allocation lock plays no part in it: mutual exclusion of the
holders rests on the checkpoint and the re-read alone, as the comment on
`Context::dbnum_alloc` says ("It is NOT a guarantee on its own"). What the lock
does give is a theorem of its own:

* `OneHolderEver`: `Spec => []OneHolder`, when `FreshCache` and no abandoned write
  ever commits (`MaxLate = 0`, where `SettledWrites` says nothing): no two records,
  half-provisioned ones and snapshots included, name one number, so no re-read finds
  anybody. Passes may be dropped anywhere and collectors may race re-creations.

Its invariant is `DistinctInv`: a pass from the lock to its checkpoint holds the lock
(`LockInv`), it has collected every number that the LISTs behind it could have shown
(`ListInv`), and what it picks is nobody else's. A checkpoint is the only write
that puts a new number on record (`HoldsBefore`), and only the lock's owner makes
one (`UnderLock`), so that the other controller cannot undo what a LIST has
established; a snapshot taken meanwhile names a number its claim had when the claims
were listed.

What the holders' *data* needs is proved with `SettledWrites`, `FreshCache` and
`QuietGC` (section 3 says what fails without each), and no others:

* `NoForeignFlushEver`: `Spec => NoForeignFlush`;
* `GraceKeepsDataEver`: `Spec => GraceKeepsData`;
* `LiveDataSurvivesEver`: `Spec => LiveDataSurvives`;
* `ImplementsTenancyEver`: `Spec => ImplementsTenancy`, the refinement of Tenancy.

They are about steps, so each is the consequence of one invariant and of what a
step does. The invariant, `CustodyInv`, is `TenureInv` with:

* `RecordInv`: what a pass takes its object for is what is stored, the class and
  the number included, and only the passes that may meet a missing number do;
* `ReadyInv`, `UnfinishedInv`: no pass and no abandoned write takes a ready claim,
  or a provisioned shared database, for one still to be emptied;
* `SnapshotInv`: a claim's pass skips the flush exactly when it re-attaches to its
  own persistent snapshot, on the snapshot's number, which is still there;
* `CollectInv`: while a number is collected its claim is gone and its snapshot
  expired and unchanged; a snapshot deleted without a flush is none that a claim is
  re-attaching to;
* `DataInv`: a persistent claim's data is where its ready status or its snapshot
  says, so that no flush of another number can hurt it;
* `KeepInv`: a number has one *keeper*, a winner in the sense above or a claim whose
  persistent snapshot still reserves its data. A re-read that is under way has found
  every keeper its LISTs have passed, so that whoever reaches the flush is alone.

`KeepInv` is the core: a number is kept before a re-read begins, or its holder's
checkpoint was written after it and the holder's own re-read finds the flusher. A
record moves from status to snapshot (`TakeSnapshot`) or back (`Cancel`) while others
are listing; it is not missed, for the claims are listed before the snapshots and a
persistent snapshot is deleted only once its claim is ready, or is live in the
other class. `FlushEffect` and
`WipedBy` then reduce "somebody's data is wiped" to "a pass is at its flush", where
`KeepInv` leaves only the pass's own holder and `SnapshotInv`, `ReadyInv` and
`UnfinishedInv` exclude the cases in which that holder had data to keep.

For the refinement, `StepKinds` sorts the steps by what they do to a holder, its
snapshot and the data, `OneRoom` shows that no step changes the owner of two
numbers, `OwnerKeeps` that an owner is a keeper, hence alone, and `RoomStep` that
what happens in that one room is somebody moving in, moving out, putting
something there or nothing.

What a new holder finds in its number, and who can log in to it:

* `UsersApartEver`: `Spec => []UsersApart`, under the same three assumptions. The
  user that a ready claim's application logs in with is pinned to the claim's number
  (part of `ReadyInv`: a pass past its SETUSER, and an abandoned ready write, have
  set it, and nothing but the claim's own collector takes it back), and the number
  has one winner;
* `NoForeignUserEver`: `Spec => []NoForeignUser`, without `QuietGC`. A collector that
  races a re-creation may take the user of a ready claim away, but it never makes it
  reach somebody else's number. `ReadyInv` is proved with and without `QuietGC`
  (`Pins`);
* `ReclaimRevokesEver`: `Spec => ReclaimRevokes`, when `QuietGC` and `SureRevokes` only:
  the controllers may be handed objects of any age and their abandoned writes may
  commit at any time. `RevokedInv`: a collector at its delete has revoked the user of
  an absent claim, whose snapshot it cannot lose, and begun again after a drop it
  revokes again. That nobody sets the user in between is `GuardOf`: the finalizer is
  gone only after the watch has shown the deletion, so that even a late view of the
  claim starts no pass that provisions a departed one;
* `FlushedStartsEmptyEver`: `Spec => []FlushedStartsEmpty`, without `QuietGC`;
* `OnlyLeftoversEver`: `Spec => []OnlyLeftovers`, with it. The two delimit the finding of
  keyspace_reuse: a number that was flushed for its holder is empty of others, and
  what a re-attached persistent claim may find besides its own is a departed
  tenant's, never data that a provisioned holder or a snapshot still counts on.

Their invariant is `TidyInv`: `CleanInv` says that a holder whose number was flushed
and that is about to be served, or is, shares it with nobody's data. Who comes to that
point has flushed the number or re-attached to it (`CleanedBefore`), and nobody else
writes there, for a writer has won its number (`WonInv`).

### ReaperProofs

* `TypeCorrect`, without any assumption: types, and that no dwell clock is left to an
  instance that the sweep has found referenced (`ClockInv`: an arm judges the
  instances it listed itself, and one that fails takes its own out of the report);
* `VolumeSurvivesReapEver`, without any assumption (`VolumeInv`:
  a delete is sent only when the cluster it would hit owns no volume, the one with
  the listed uid included);
* `ReadyClaimHasBackendEver`, when `SlowProvision` (`ClaimListInv`: a claim that the
  LIST gave no veto stays off its backend for the rest of the sweep);
* `OccupiedIsNotReapedEver`, when also no LIST is truncated (`SteadyInv`: a tenant
  that has stayed since the sweep began has its veto once its kind has been
  listed, because a deletion moves it from a kind listed earlier to one listed
  later).

### SharedVolumeProofs

* `TypeCorrect`: types, and that a pass applies a PVC and writes a status only while
  the finalizer holds the volume, from `PassInv`: a deleting pass works on a volume
  that is being deleted, and the finalizer outlasts it;
* `NoOrphanEver`: `PromptAnswers => (Spec => []NoOrphan)`. The invariant is
  `SettleInv`: every apply that may still land is younger than `unsettled` says,
  so it has died when the settle time is over and the second DELETE is answered;
* `RefCountSettlesEver`, from `CountInv`: what the pass has counted is right or a
  change is on its way to the queue;
* `VolumeKeepsDataEver`, an action property, from `PassInv`.

### MigrationGateProofs

For every kind and number of late requests, edits, failures and replicas:

* `TypeCorrect`: types, and that no plan is written, in time or late, without
  something to approve;
* `GatedByApprovalEver`: `GateSpec => GatedByApproval`;
* `OnePlanAtATime`: at most one plan exists at a time, when no plan apply is carried
  out late. "Not twice running" is then "once": a used plan is gone, or is the only
  one, before another can be approved.

`PassInv` says what a pass knows of the plans although others write, approve and
delete them meanwhile: the plan it consumes need not be the first any more, but it is
there, completed, for exactly its changes, and not the one used last; a pass that
found nothing destructive has deleted the used plan before it touches a child.
`NameInv`: a late plan has a name of its own, so that it replaces no other.
`SpentInv` is why the last used approval is worth nothing even when its plan survives a
deletion that stopped half way: the difference it was given for cannot be had from the
baseline it led to (`UsedUp`).

### BackupRetentionProofs

`TypeCorrect` and `KeptIsWholeEver`, without further assumptions than the module's
(`MarginAssumption`: the orphan window is longer than any silence of a run in
progress). `OrderInv`: a run has the snapshots before the one it is at, and its
commit is its last. `TimeInv`: how long ago its newest snapshot ended. `PlanInv`: a
plan names only snapshots of runs that have ended and that the policy has no use
for, which stays true however late the plan is carried out.

### BackupRunnerProofs

`TypeCorrect`; `CleanExitEver`, when `PromptApplies`; `RecordedByClaimerEver`.
`ClaimInv` ties the exit to whoever holds the outcome, `PodInv` says that a pod is
on the live list from before its apply until after its delete, `StopInv` that what
each side of the stop has closed stays closed.

### PgDropProofs

`NoRoleLeakEver`, when `QuietGC` and `PromptCnpg`, from `RoleInv`: an entry about to be
pruned was declared absent in every list CloudNativePG may still act on, and its
report is on that. `ServedIsBackedEver`, when `QuietGC`, from `BackedInv`: what a
pass has declared is there until the pass ends, and then belongs to a ready claim.
Both rest on `CollectInv`: while a claim's backend is dropped nobody provisions it.

### Only model-checked

Liveness (`SomeoneActs`, `EventuallyProvisioned`, `NumbersComeBack`,
`UnusedIsReaped`, `SharedRecovers`, `DeletionCompletes`, `Converges`, `GarbageGoes`,
`EventuallyExits`, `DropCompletes`): fairness is out of this prover's reach. Every
safety property of a passing run is proved. `Isolated` and `StartsEmpty` of Keyspace
are not true of the code (section 5).

## 5. What the model says about the code

Where a comment promises more than the code keeps; each is a trace TLC finds when
the named assumption is switched off or the named property checked.

Redis numbers:

* a requeued pass that starts before its own terminal write has reached the watch
  cache takes a ready claim for an unfinished one and flushes the number in use
  (`reconcile.rs:1195`; `FreshCache`);
* the GC's live guard is one GET; a claim re-created after it re-attaches and is
  flushed by the reclaim, whose holder check leaves out the snapshot's own claim
  (`gc.rs:250`, against `gc.rs:238`; `QuietGC`);
* a claim re-created in the other persistence class deletes the old snapshot by
  name, so the old number's ACL user is never revoked (`reconcile.rs:1496`, against
  1256);
* a persistent claim that re-attaches and finds its number held keeps it and waits
  for a person (`KeepConflicting`); only the ephemeral class is sure to be
  provisioned in the end, which is why keyspace_live is about it;
* delete, re-create and delete again keeps the first snapshot, with its number and
  its clock (`reconcile.rs:3631`); one taken before the claim had a number names
  none, so what the second life wrote is reserved by nothing and goes to the next
  holder's flush within the grace;
* **a reused number need not start empty** (keyspace_reuse, a finding). A persistent
  re-attach skips the flush because its own snapshot names the number
  (`reconcile.rs:1231`). A claim deleted after its checkpoint and before its first
  flush leaves such a snapshot too, of a number that was never emptied for it. If the
  reclaim before tolerated a failed FLUSHDB (`gc.rs:475`), the claim comes back ready
  on the departed tenant's keys, against "a reused dbnum must start empty"
  (`reconcile.rs:1146`). `FlushedStartsEmpty` and `OnlyLeftovers`, both proved, say how
  far it goes: persistent claims only, and only what nobody counts on any more;
* **an old ACL user may reach a number somebody else is provisioned on** (`Isolated`
  of Keyspace). A claim deleted while the pool was full leaves a snapshot without a
  number. Re-created, it gets one; if its pass is dropped after SETUSER and the claim
  deleted, the first snapshot wins, the number is free at once, and the collector
  takes the missing number for "no DB/user was ever created on an instance, so there
  is nothing to reach" (`gc.rs:429`). On the ephemeral instance no drop is needed: the
  collector's live arm deletes the snapshot of a re-created claim without revoking
  the user of its number (`gc.rs:250`). With two drops, a persistent claim may also
  release its number after it set its user, when a shared database's late checkpoint
  names it, and a release revokes nothing (`reconcile.rs:1360`). What does hold, of the
  users that applications log in with and of every regular reclaim, is proved:
  `UsersApart`, `NoForeignUser`, `ReclaimRevokes`.

Postgres:

* the wait for CloudNativePG's report is the requeue of 15 s, and a watch event or
  a restart re-enters at once: the entry reads absent, the report is on the entry
  before, and the role is un-managed instead of dropped (`gc.rs:324`, against "a
  re-entry recomputes the phase from live state", `gc.rs:308`; `PromptCnpg`);
* a claim re-created between the GET and the drop loses its database (`QuietGC`),
  and so does one deleted while it was being provisioned over an expired snapshot;
* a snapshot whose cancellation failed is only logged and a ready claim is never
  provisioned again; until the GC's live arm deletes it, a deletion finds it and
  inherits its shorter grace.

Reaper:

* a claim created after the LIST of claims is provisioned onto the vacant backend
  that the sweep then deletes, and a ready claim is never provisioned again
  (`reaper.rs:599`, against 46; `SlowProvision`);
* the truncation check covers three of the four LISTs, though the text at
  `reaper.rs:514` speaks of every list (`PartialShared`);
* `SweepInputs` is described as one instant, but it is read by LISTs one after
  another; `OccupiedIsNotReaped` shows that a tenant whose record moves between
  kinds is still seen;
* the comment on `is_shared_on` counts on an intent veto that shared databases
  do not have; `SharedRecovers` shows why that is survivable;
* `is_intent_for` says a claim on its way out is never provisioned, but a pass
  already under way goes on;
* a claim deleted before it was scheduled leaves a snapshot that names the
  default CNPG cluster, whatever its kind, and keeps that cluster until it
  expires.

Shared volumes:

* a restart forgets `sv_unsettled`, and with it that an apply may still land;
* neither the DELETE nor the finalizer patch carries a uid: a given-up DELETE can
  hit the PVC of a volume re-created under the name.

Migration gate:

* "Abandoning a pass at any `.await` leaves nothing the next pass cannot repair"
  (`application/src/lib.rs:303`): a pass that renders a new need and ends before
  the stamp leaves the old baseline; when the need is removed again the claim it
  made is pruned without a plan;
* a pass from an old watch cache, or a status write that lands late, goes by an
  old baseline (`overtaken`);
* plans the controller creates carry no `status.phase`, which everybody reads as
  `pending-approval`, and the webhook lets users write only `pending-approval` to
  `approved` (`validator_migrationplan.rs:94`): from the empty phase the approval of
  anybody but an administrator is refused. The model takes it as granted;
* "A plan apply the apiserver commits after the pass was abandoned can leave a second
  [...] MigrationPlan for the same key. `pick_any_key_plan` takes the first match and
  `ConsumeApply` deletes every key plan, so it is repaired" (`lib.rs:308`). The plans go
  in the end (`Converges`), but in between **an approval can be used a second time**.
  The late plan has the earlier name and comes first. Plan 1, a scale to zero, is
  asked for and its pass abandoned; plan 2, the removal of the database, is created,
  approved and applied, and its pass dies before the deletion; plan 1 lands, the spec
  asks for the scale to zero and has the database back; plan 1 is approved, applied
  and deleted, and the DELETE of plan 2 fails (`lib.rs:2914`); the need is removed
  once more, plan 2 is the first, completed and for these changes, and the database's
  claim is deleted without a new approval. TLC finds it as a violation of "an approval
  is used once" with four edits, three failed passes and `LateKinds` = {"create"}, in
  52 steps, and not with two failures. `GatedByApproval` says what holds always: the
  changes are the approved ones, and the approval is not the one used last;
* a late DELETE of the claim, or a late apply of the Deployment, was decided by a pass
  that is gone: it may take the claim from a spec that declares it again, and passes
  put that right (`Converges`). `GatedByApproval` speaks of what passes do;
* a late DELETE of a plan takes the plan of a pass away that is applying it
  (`overtaken`); names are never reused, so it cannot hit a newer one.

Backup:

* a check run stopped in its prune does not record it: the stop claims the
  outcome, signals restic and reads the phase only afterwards (`stop.rs:490`); by
  then the run has suppressed its own record (`stop.rs:254`) and gone on to the
  figures (`check.rs:210`), whose arm records nothing, although "A stop here is a
  prune that failed" (`check.rs:53`). `StoppedPruneIsRecorded` of BackupRunner,
  with one claim and no failures, gives the trace in 18 states;
* a restic that is still running at `RESTIC_RELEASE_BOUND` is killed and its
  repository lock stays (`stop.rs:66` says so). `CleanExit` counts it as gone: what
  it promises is that nothing is at work, not that the repository is unlocked;
* nothing bounds the last upload of a `backup create`; one longer than the margin
  after a full dump lets a prune forget the claims already written
  (`prune.rs:59`; `MarginAssumption`);
* restore's `latest` goes by commit time (`choose_latest`, `restore.rs:412`), the keep policy by the
  start of the run: a half-forgotten run can be the latest;
* a keep policy raised after an interrupted prune keeps a half-forgotten run;
* `unless_claimed` checks and then writes: a check that has just passed may go
  unrecorded when the stop comes between.

## 6. Left out

Not modelled: connection Secrets; consumers of shared databases (in Keyspace they
only write, in Reaper they only hold a deletion); the ACL re-pin loop and the ACL
Secret that the reaper deletes after an instance; the scheduler's reasons; the
stamp and name gates on the reaper's candidates; the time a backend takes to
terminate; removal of a ServiceProvider; the NATS and disk arms of the GC; the
probe of postgres extensions and the platform's own role; what the application
controller renders beyond the Deployment, rejected plans, and two plans of one
Application named in the same second (a pass that
fails is requeued after 30 s; only an event could bring the next one that soon); a
helper-pod apply that the runner's client reports as failed and the apiserver carries
out all the same (BackupRunner takes a failed PATCH as refused or lost); the
migration strategies (none has an effect of its own that a
second execution could repeat); the watch cache of the reaper's tenants and of
PgDrop's claims; legacy backup snapshots without a cluster, restore and resealing;
SIGKILL of the backup runner; logging, events and metrics.

Not worth modelling: the command line (sequential commands over a cluster, the
bulk of the repository), the renderer, the CUE definitions, the admission
webhook's validators, CRD types and charts. They are pure functions over strings
and trees, or I/O; tests reach what can be wrong there.

## 7. Plan

1. **Proofs**: every safety property of the runs is proved, each from assumptions
   that TLC shows to be needed. Left is liveness, which the prover does not reach.
2. **ACL re-pin** on top of Keyspace and the **consumers** of shared databases.
3. **JetStream**, which drops accounts as postgres drops roles.
4. The **scheduler**'s selection against a reference definition, the **stall
   condition** of the platform stack, the **state file** move.
