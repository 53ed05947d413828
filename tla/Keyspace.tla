------------------------------ MODULE Keyspace ------------------------------
(***************************************************************************)
(* Who holds which numbered database ($N) of the Dragonfly pool.           *)
(*                                                                         *)
(* Two controllers allocate numbers: the ResourceClaim provisioner         *)
(* (reconcile.rs) and the SharedDatabase controller (shared_database.rs).  *)
(* A third, the grace-period GC (gc.rs), takes the number of a deleted     *)
(* claim back once its RetainedClaim snapshot has expired.  A number is    *)
(* held by nothing but what the apiserver stores: the status of a claim or *)
(* of a shared database, or the spec of a snapshot.                        *)
(*                                                                         *)
(* A reconcile is a "pass", and every request it makes is a step of its    *)
(* own.  A pass may be dropped between any two steps (an error, its        *)
(* deadline, the end of the process); the status write it was waiting for  *)
(* may then still commit, long after the allocation lock was released.     *)
(***************************************************************************)
EXTENDS Integers, FiniteSets, FiniteSetsExt

CONSTANTS
  Claim,          \* owned redis ResourceClaims, by namespace/name
  Shared,         \* redis SharedDatabases
  NoHolder,       \* no object
  Instance,       \* pool instances in use: "ephemeral" and/or "persistent"
  DbnumMax,       \* logical databases per instance
  Deletable,      \* the objects that users ever delete
  Writing,        \* the objects whose applications ever write
  NoKey,          \* a status without an allocation
  MaxLate,        \* bound: abandoned status writes that may still commit
  MaxDrops,       \* bound: passes dropped in one behaviour
  FreshCache,     \* TRUE when a pass always starts from the stored object
  SettledWrites,  \* TRUE when an abandoned write has committed, or never will,
                  \* by the time its object's next pass begins
  QuietGC,        \* TRUE when a claim is not created, deleted or still being
                  \* deleted while its expired snapshot is collected
  SureRevokes     \* TRUE when no ACL DELUSER of a reclaim fails

Holder == Claim \cup Shared
Dbnum == 0 .. DbnumMax - 1
Key == Instance \X Dbnum

\* The two controllers and, for each claim, the collector of its snapshot,
\* which goes by the claim's name.
Controller == {"claim", "shared"}
Actor == Controller \cup Claim
Free == "free"

ASSUME ConstantsAssumption ==
  /\ Claim \cap Shared = {} /\ NoHolder \notin Holder
  /\ Deletable \subseteq Holder /\ Writing \subseteq Holder
  /\ Controller \cap Claim = {}
  /\ Instance \subseteq {"ephemeral", "persistent"}
  /\ DbnumMax \in Nat /\ NoKey \notin Key
  /\ MaxLate \in Nat /\ MaxDrops \in Nat
  /\ FreshCache \in BOOLEAN /\ SettledWrites \in BOOLEAN
  /\ QuietGC \in BOOLEAN /\ SureRevokes \in BOOLEAN

VARIABLES
  obj,    \* ResourceClaims and SharedDatabases, as stored
  cache,  \* the same, as a controller's watch last delivered them
  snap,   \* RetainedClaim snapshots, one name per claim
  data,   \* whose data each numbered database holds (NoHolder: a departed
          \* tenant's)
  acl,    \* the number each claim's ACL user is pinned to, per instance
  pass,   \* the reconcile each actor is in
  lock,   \* dbnum_alloc
  late,   \* abandoned status writes that may still commit
  drops   \* passes dropped so far

vars == <<obj, cache, snap, data, acl, pass, lock, late, drops>>

\* st is "absent", "live" or "deleting"; inst is the instance of the class in
\* spec.persistent; unfin is a shared database's AwaitingKeyspace condition.
NoObj == [st |-> "absent", fin |-> FALSE, inst |-> "none", ready |-> FALSE,
          unfin |-> FALSE, key |-> NoKey]
NoSnap == [there |-> FALSE, key |-> NoKey, expired |-> FALSE]

\* goal is "provision" or "drop"; acc collects what the LISTs have returned.
Idle == [pc |-> "idle", goal |-> "provision", obj |-> NoHolder, inst |-> "none",
         key |-> NoKey, skip |-> FALSE, reatt |-> FALSE, acc |-> {}]

Init ==
  /\ obj = [h \in Holder |-> NoObj]
  /\ cache = [h \in Holder |-> NoObj]
  /\ snap = [c \in Claim |-> NoSnap]
  /\ data = [k \in Key |-> {}]
  /\ acl = [c \in Claim |-> [i \in Instance |-> NoKey]]
  /\ pass = [a \in Actor |-> Idle]
  /\ lock = Free
  /\ late = {}
  /\ drops = 0

---------------------------------------------------------------------------
(* The stored objects. *)

\* The object a pass is handed: kube-rs reads it from the watch's store.
Seen(h) == IF FreshCache THEN obj[h] ELSE cache[h]

\* A server-side apply of the status by the one field manager: what the body
\* leaves out is pruned.
Status(ready, unfin, key) == [ready |-> ready, unfin |-> unfin, key |-> key]
Applied(o, w) == [o EXCEPT !.ready = w.ready, !.unfin = w.unfin, !.key = w.key]

\* What h leaves in a number that neither its status nor its snapshot names any
\* more belongs to nobody.
Disowned(h) ==
  [k \in Key |-> IF obj'[h].key = k \/ (h \in Claim /\ snap'[h].key = k) THEN data[k]
                 ELSE {IF g = h THEN NoHolder ELSE g : g \in data[k]}]

\* The abandoned writes that the next pass of h leaves on their way.
StillLate(h) == IF SettledWrites THEN {w \in late : w.obj # h} ELSE late

\* Mutant: an allocator blind to shared databases.
SharedHoldersUnread(k, me) == {}

\* Who holds key k besides me, as each of the three LISTs would tell.
ClaimHolders(k, me) == {c \in Claim \ {me} : obj[c].key = k}
RetainedHolders(k, me) == {c \in Claim \ {me} : snap[c].key = k}
SharedHolders(k, me) == {s \in Shared \ {me} : obj[s].key = k}

---------------------------------------------------------------------------
(* How a pass moves. *)

At(a, pc) == pass[a].pc = pc
Me(a) == pass[a].obj
Go(a, pc) == pass' = [pass EXCEPT ![a].pc = pc]
End(a) == pass' = [pass EXCEPT ![a] = Idle]

\* The guard on the lock is dropped with its scope.
Released(a) == IF lock = a THEN Free ELSE lock

\* A status write by a pass; a missing object is a 404 and ends the pass.
Write(a, w, next) ==
  /\ UNCHANGED <<cache, snap, acl, late, drops>>
  /\ IF obj[Me(a)].st = "absent"
     THEN End(a) /\ UNCHANGED <<obj, data>>
     ELSE /\ obj' = [obj EXCEPT ![Me(a)] = Applied(@, w)]
          /\ data' = Disowned(Me(a))
          /\ IF next = "idle" THEN End(a) ELSE Go(a, next)

\* The status each write step sends.
InFlight(p) ==
  CASE p.pc = "commit" -> Status(FALSE, p.obj \in Shared, p.key)
    [] p.pc = "keep" -> Status(FALSE, FALSE, p.key)
    [] p.pc = "release" -> Status(FALSE, p.obj \in Shared, NoKey)
    [] p.pc = "refuse" -> Status(FALSE, FALSE, p.key)
    [] p.pc = "terminal" -> Status(TRUE, FALSE, p.key)

WritePC == {"commit", "keep", "release", "refuse", "terminal"}

\* The allocation a pass finds in its own object's status.
OwnKey(o) == IF o.key \in {o.inst} \X Dbnum THEN o.key ELSE NoKey

Start(a, h, pc, goal, inst, key) ==
  /\ late' = IF a \in Controller THEN StillLate(h) ELSE late
  /\ pass' = [pass EXCEPT ![a] = [Idle EXCEPT !.pc = pc, !.goal = goal, !.obj = h,
                                           !.inst = inst, !.key = key]]

---------------------------------------------------------------------------
(* Passes begin. *)

\* should_provision: a ready claim is never provisioned again.
ShouldProvision(o) == ~o.ready

\* Both controllers set their finalizer before they provision anything.
Finalized(h) ==
  /\ Seen(h).fin \/ obj[h].st = "live"
  /\ obj' = [obj EXCEPT ![h].fin = @ \/ ~Seen(h).fin]

BeginClaim(c) ==
  /\ At("claim", "idle")
  /\ Seen(c).st = "live" /\ ShouldProvision(Seen(c))
  /\ Finalized(c)
  /\ Start("claim", c, "lock", "provision", Seen(c).inst, OwnKey(Seen(c)))
  /\ UNCHANGED <<cache, snap, data, acl, lock, drops>>

\* A deleted claim is snapshotted before its finalizer goes.
BeginClaimDelete(c) ==
  /\ At("claim", "idle")
  /\ Seen(c).st = "deleting" /\ Seen(c).fin
  /\ Start("claim", c, "find_snapshot", "drop", Seen(c).inst, Seen(c).key)
  /\ UNCHANGED <<obj, cache, snap, data, acl, lock, drops>>

\* A database that holds a number keeps it: checked and flushed first when the
\* allocation is unfinished, only re-asserted when it is not.
BeginShared(s) ==
  LET own == OwnKey(Seen(s)) IN
  /\ At("shared", "idle")
  /\ Seen(s).st = "live"
  /\ Finalized(s)
  /\ Start("shared", s, IF own = NoKey THEN "lock"
                        ELSE IF Seen(s).unfin THEN "check_claims" ELSE "terminal",
           "provision", Seen(s).inst, own)
  /\ UNCHANGED <<cache, snap, data, acl, lock, drops>>

\* A refusal (no provider matches, or a delete is held by its binders) writes
\* the status without an override: a finished allocation is carried over, an
\* unfinished one is let go.
BackingOf(o) == IF o.unfin THEN NoKey ELSE o.key

BeginSharedRefusal(s) ==
  /\ At("shared", "idle")
  /\ \/ Seen(s).st = "live" /\ Finalized(s)
     \/ Seen(s).st = "deleting" /\ Seen(s).fin /\ UNCHANGED obj
  /\ Start("shared", s, "refuse", "provision", Seen(s).inst, BackingOf(Seen(s)))
  /\ UNCHANGED <<cache, snap, data, acl, lock, drops>>

\* drop_backing, once nothing is bound.
BeginSharedDelete(s) ==
  /\ At("shared", "idle")
  /\ Seen(s).st = "deleting" /\ Seen(s).fin
  /\ Start("shared", s, IF Seen(s).key = NoKey THEN "unfinalize" ELSE "check_claims",
           "drop", Seen(s).inst, Seen(s).key)
  /\ UNCHANGED <<obj, cache, snap, data, acl, lock, drops>>

---------------------------------------------------------------------------
(* Allocation, under the lock. *)

TakeLock(a) ==
  /\ At(a, "lock") /\ lock = Free
  /\ lock' = a
  /\ Go(a, IF pass[a].key = NoKey THEN "list_claims" ELSE "own_snapshot")
  /\ UNCHANGED <<obj, cache, snap, data, acl, late, drops>>

\* Mutant: WI-402: the retry of a reattach that flushes.
OwnSnapshotForgotten(a) ==
  /\ At(a, "own_snapshot")
  /\ Go(a, "commit")
  /\ UNCHANGED <<obj, cache, snap, data, acl, lock, late, drops>>

\* A retry: the checkpoint is a reattach in flight iff the claim's own snapshot
\* still names it, and only a persistent reattach keeps what is there.
OwnSnapshot(a) ==
  LET own == snap[Me(a)].key = pass[a].key IN
  /\ At(a, "own_snapshot")
  /\ pass' = [pass EXCEPT ![a].pc = "commit", ![a].reatt = own,
                          ![a].skip = own /\ pass[a].inst = "persistent"]
  /\ UNCHANGED <<obj, cache, snap, data, acl, lock, late, drops>>

\* used_dbnums: the numbers of my instance that one LIST shows as held.
Used(a, holders) == {n \in Dbnum : holders[<<pass[a].inst, n>>] # {}}

ListClaims(a) ==
  /\ At(a, "list_claims")
  /\ pass' = [pass EXCEPT ![a].pc = "list_retained",
                          ![a].acc = Used(a, [k \in Key |-> ClaimHolders(k, NoHolder)])]
  /\ UNCHANGED <<obj, cache, snap, data, acl, lock, late, drops>>

\* The same LIST tells whether my own snapshot is on my instance.
ListRetained(a) ==
  LET mine == a = "claim" /\ snap[Me(a)].key \in {pass[a].inst} \X Dbnum IN
  /\ At(a, "list_retained")
  /\ pass' = [pass EXCEPT ![a].pc = "list_shared",
                          ![a].acc = @ \cup Used(a, [k \in Key |-> RetainedHolders(k, NoHolder)]),
                          ![a].reatt = mine,
                          ![a].key = IF mine THEN snap[Me(a)].key ELSE NoKey]
  /\ UNCHANGED <<obj, cache, snap, data, acl, lock, late, drops>>

\* Mutant: counting the databases from one.
AllocateDbnumFromOne(used) == Min((Dbnum \cup {DbnumMax}) \ (used \cup {0}))

\* allocate_dbnum: the lowest free number.
AllocateDbnum(used) == Min(Dbnum \ used)

\* resolve_allocation: reattach to the own snapshot, or take the lowest free
\* number, or report a full pool (a shared database writes that down).
ListShared(a) ==
  LET used == pass[a].acc \cup Used(a, [k \in Key |-> SharedHolders(k, NoHolder)])
      p == [pass[a] EXCEPT !.acc = {}] IN
  /\ At(a, "list_shared")
  /\ IF p.reatt
     THEN /\ pass' = [pass EXCEPT ![a] = [p EXCEPT !.pc = "commit",
                                                   !.skip = p.inst = "persistent"]]
          /\ UNCHANGED lock
     ELSE IF Dbnum \subseteq used
     THEN /\ pass' = [pass EXCEPT ![a] = IF a = "claim" THEN Idle
                                         ELSE [p EXCEPT !.pc = "refuse"]]
          /\ lock' = IF a = "claim" THEN Free ELSE lock
     ELSE /\ pass' = [pass EXCEPT ![a] = [p EXCEPT !.pc = "commit",
                                            !.key = <<p.inst, AllocateDbnum(used)>>]]
          /\ UNCHANGED lock
  /\ UNCHANGED <<obj, cache, snap, data, acl, late, drops>>

\* The checkpoint; the lock is released once it is answered.
Checkpoint(a) ==
  /\ At(a, "commit")
  /\ Write(a, InFlight(pass[a]), "check_claims")
  /\ lock' = Free

---------------------------------------------------------------------------
(* dbnum_holders_besides: three fresh LISTs, no lock.  acc is non-empty once *)
(* somebody else holds the key.                                              *)

AfterFlush(a) ==
  IF pass[a].goal = "provision"
  THEN IF a = "claim" THEN "setuser" ELSE "terminal"
  ELSE IF a = "shared" THEN "unfinalize" ELSE "deluser"

\* Mutant: the re-read ignored.
AfterCheckUnread(a, others) == IF pass[a].skip THEN "setuser" ELSE "flush"

AfterCheck(a, others) ==
  IF others = {} THEN IF pass[a].skip THEN "setuser" ELSE "flush"
  ELSE IF pass[a].goal = "drop" THEN AfterFlush(a)
  ELSE IF pass[a].skip THEN "keep"
  ELSE IF pass[a].reatt THEN "cancel_before_release"
  ELSE "release"

CheckClaims(a) ==
  /\ At(a, "check_claims")
  /\ pass' = [pass EXCEPT ![a].pc = "check_retained",
                          ![a].acc = ClaimHolders(pass[a].key, Me(a))]
  /\ UNCHANGED <<obj, cache, snap, data, acl, lock, late, drops>>

CheckRetained(a) ==
  /\ At(a, "check_retained")
  /\ pass' = [pass EXCEPT ![a].pc = "check_shared",
                          ![a].acc = @ \cup RetainedHolders(pass[a].key, Me(a))]
  /\ UNCHANGED <<obj, cache, snap, data, acl, lock, late, drops>>

CheckShared(a) ==
  LET others == pass[a].acc \cup SharedHolders(pass[a].key, Me(a)) IN
  /\ At(a, "check_shared")
  /\ pass' = [pass EXCEPT ![a].pc = AfterCheck(a, others), ![a].acc = {}]
  /\ UNCHANGED <<obj, cache, snap, data, acl, lock, late, drops>>

\* An ephemeral reattach that gives way cancels its own snapshot first.
CancelBeforeRelease(a) ==
  /\ At(a, "cancel_before_release")
  /\ snap' = [snap EXCEPT ![Me(a)] = NoSnap]
  /\ Go(a, "release")
  /\ UNCHANGED <<obj, cache, data, acl, lock, late, drops>>

\* Mutant: a refusal that does not prune the checkpoint.
ReleaseKeepingNumber(a) ==
  /\ At(a, "release")
  /\ Write(a, Status(FALSE, Me(a) \in Shared, pass[a].key), "idle")
  /\ UNCHANGED lock

\* Give the number up, or (a persistent reattach) keep it and stay not ready.
Release(a) ==
  /\ At(a, "release")
  /\ Write(a, InFlight(pass[a]), "idle")
  /\ UNCHANGED lock

KeepConflicting(a) ==
  /\ At(a, "keep")
  /\ Write(a, InFlight(pass[a]), "idle")
  /\ UNCHANGED lock

Refuse(a) ==
  /\ At(a, "refuse")
  /\ Write(a, InFlight(pass[a]), "idle")
  /\ lock' = Released(a)

---------------------------------------------------------------------------
(* The keyspace itself. *)

Flush(a) ==
  /\ At(a, "flush")
  /\ data' = [data EXCEPT ![pass[a].key] = {}]
  /\ Go(a, AfterFlush(a))
  /\ UNCHANGED <<obj, cache, snap, acl, lock, late, drops>>

\* A reclaim tolerates a flush that fails.
FlushFails(a) ==
  /\ At(a, "flush") /\ pass[a].goal = "drop"
  /\ Go(a, AfterFlush(a))
  /\ UNCHANGED <<obj, cache, snap, data, acl, lock, late, drops>>

SetUser(a) ==
  /\ At(a, "setuser")
  /\ acl' = [acl EXCEPT ![Me(a)][pass[a].inst] = pass[a].key]
  /\ Go(a, "terminal")
  /\ UNCHANGED <<obj, cache, snap, data, lock, late, drops>>

Terminal(a) ==
  /\ At(a, "terminal")
  /\ Write(a, InFlight(pass[a]), IF a = "claim" THEN "cancel" ELSE "idle")
  /\ UNCHANGED lock

\* The provisioned claim's snapshot is deleted by name; a failure is logged.
Cancel(a) ==
  /\ At(a, "cancel")
  /\ snap' = [snap EXCEPT ![Me(a)] = NoSnap]
  /\ UNCHANGED <<obj, cache, acl, lock, late, drops>>
  /\ data' = Disowned(Me(a))
  /\ End(a)

---------------------------------------------------------------------------
(* Deletion. *)

\* snapshot_retained_claim: an existing snapshot wins.
FindSnapshot(a) ==
  /\ At(a, "find_snapshot")
  /\ Go(a, IF snap[Me(a)].there THEN "unfinalize" ELSE "snapshot")
  /\ UNCHANGED <<obj, cache, snap, data, acl, lock, late, drops>>

TakeSnapshot(a) ==
  /\ At(a, "snapshot")
  /\ snap' = [snap EXCEPT ![Me(a)] =
                IF @.there THEN @
                ELSE [there |-> TRUE, key |-> pass[a].key, expired |-> FALSE]]
  /\ Go(a, "unfinalize")
  /\ UNCHANGED <<obj, cache, data, acl, lock, late, drops>>

Unfinalize(a) ==
  /\ At(a, "unfinalize")
  /\ obj' = [obj EXCEPT ![Me(a)] = IF @.st = "live" THEN [@ EXCEPT !.fin = FALSE] ELSE NoObj]
  /\ UNCHANGED <<cache, snap, acl, lock, late, drops>>
  /\ data' = Disowned(Me(a))
  /\ End(a)

---------------------------------------------------------------------------
(* The grace-period GC. *)

\* Mutant: blind to a reattach that has not written its checkpoint yet.
ReattachOnlyOnceCheckpointed(r, o) ==
  r.key # NoKey /\ r.key[1] = "persistent" /\ ~o.ready /\ o.key = r.key

\* reattach_in_progress: the snapshot of a persistent instance is the
\* provisioner's only record that the number holds retained data.
ReattachInProgress(r, o) ==
  /\ r.key # NoKey /\ r.key \in {"persistent"} \X Dbnum
  /\ ~o.ready
  /\ o.key \in {NoKey, r.key}

\* Mutant: no collection for a claim deleted before it was provisioned.
BeginCollectAllocated(c) ==
  /\ At(c, "idle")
  /\ snap[c].there /\ snap[c].expired /\ snap[c].key # NoKey
  /\ obj[c].st = "absent"
  /\ Start(c, c, "check_claims", "drop", "none", snap[c].key)
  /\ UNCHANGED <<obj, cache, snap, data, acl, lock, drops>>

\* Mutant: no live guard.
BeginCollectUnguarded(c) ==
  /\ At(c, "idle")
  /\ snap[c].there /\ snap[c].expired
  /\ Start(c, c, IF snap[c].key = NoKey THEN "delete" ELSE "check_claims", "drop", "none",
           snap[c].key)
  /\ UNCHANGED <<obj, cache, snap, data, acl, lock, drops>>

\* The live guard.  A live claim's snapshot is deleted and nothing else is.
BeginCollect(c) ==
  /\ At(c, "idle")
  /\ snap[c].there /\ snap[c].expired
  /\ QuietGC => obj[c].st # "deleting"
  /\ ~(obj[c].st = "live" /\ ReattachInProgress(snap[c], obj[c]))
  /\ Start(c, c, IF obj[c].st = "live" \/ snap[c].key = NoKey THEN "delete"
                     ELSE "check_claims",
           "drop", "none", IF obj[c].st = "live" THEN NoKey ELSE snap[c].key)
  /\ UNCHANGED <<obj, cache, snap, data, acl, lock, drops>>

\* Mutant: a reclaim that leaves the ACL user.
DelUserSkipped(a) ==
  /\ At(a, "deluser")
  /\ Go(a, "delete")
  /\ UNCHANGED <<obj, cache, snap, data, acl, lock, late, drops>>

DelUser(a) ==
  /\ At(a, "deluser")
  /\ acl' = [acl EXCEPT ![Me(a)][pass[a].key[1]] = NoKey]
  /\ Go(a, "delete")
  /\ UNCHANGED <<obj, cache, snap, data, lock, late, drops>>

\* A DELUSER that fails is tolerated too, and the user stays.  An unreadable admin Secret
\* skips both.
DelUserFails(a) ==
  /\ ~SureRevokes /\ At(a, "deluser")
  /\ Go(a, "delete")
  /\ UNCHANGED <<obj, cache, snap, data, acl, lock, late, drops>>

DeleteSnapshot(a) ==
  /\ At(a, "delete")
  /\ snap' = [snap EXCEPT ![Me(a)] = NoSnap]
  /\ UNCHANGED <<obj, cache, acl, lock, late, drops>>
  /\ data' = Disowned(Me(a))
  /\ End(a)

---------------------------------------------------------------------------
(* Failures and the environment. *)

\* A pass ends early: a request failed, the deadline passed, the process ended.
\* Its guard on the lock is released and its write may still be on its way.
DropPass(a) ==
  LET p == pass[a] IN
  /\ p # Idle /\ drops < MaxDrops
  /\ End(a)
  /\ lock' = Released(a)
  /\ late' \in {late} \cup
       IF p.pc \in WritePC /\ Cardinality(late) < MaxLate
       THEN {late \cup {[obj |-> p.obj, w |-> InFlight(p)]}} ELSE {}
  /\ drops' = drops + 1
  /\ UNCHANGED <<obj, cache, snap, data, acl>>

LateCommit(w) ==
  /\ late' = late \ {w}
  /\ obj' = IF obj[w.obj].st = "absent" THEN obj
            ELSE [obj EXCEPT ![w.obj] = Applied(@, w.w)]
  /\ UNCHANGED <<cache, snap, acl, pass, lock, drops>>
  /\ data' = Disowned(w.obj)

WatchDelivers(h) ==
  /\ ~FreshCache /\ cache[h] # obj[h]
  /\ cache' = [cache EXCEPT ![h] = obj[h]]
  /\ UNCHANGED <<obj, snap, data, acl, pass, lock, late, drops>>

\* The users' side.  QuietGC keeps them away from a claim under collection.
Undisturbed(h) == QuietGC /\ h \in Claim => At(h, "idle")

Create(h, i) ==
  /\ obj[h].st = "absent" /\ Undisturbed(h)
  /\ obj' = [obj EXCEPT ![h] = [NoObj EXCEPT !.st = "live", !.inst = i]]
  /\ UNCHANGED <<cache, snap, data, acl, pass, lock, late, drops>>

Delete(h) ==
  /\ h \in Deletable /\ obj[h].st = "live" /\ Undisturbed(h)
  /\ obj' = [obj EXCEPT ![h] = IF @.fin THEN [@ EXCEPT !.st = "deleting"] ELSE NoObj]
  /\ UNCHANGED <<cache, snap, data, acl, pass, lock, late, drops>>

\* The application writes through the claim's ACL user; the consumers of a
\* shared database, which bind it only while it is ready and hold its deletion
\* until they are gone, through theirs.
Use(h, k) ==
  /\ h \in Writing /\ obj[h].ready /\ (h \in Shared => obj[h].st = "live")
  /\ k = IF h \in Claim THEN acl[h][obj[h].inst] ELSE obj[h].key
  /\ data' = [data EXCEPT ![k] = @ \cup {h}]
  /\ UNCHANGED <<obj, cache, snap, acl, pass, lock, late, drops>>

GraceElapses(c) ==
  /\ snap[c].there /\ ~snap[c].expired
  /\ snap' = [snap EXCEPT ![c].expired = TRUE]
  /\ UNCHANGED <<obj, cache, data, acl, pass, lock, late, drops>>

---------------------------------------------------------------------------

ClaimStep ==
  \/ \E c \in Claim : BeginClaim(c) \/ BeginClaimDelete(c)
  \/ OwnSnapshot("claim") \/ CancelBeforeRelease("claim") \/ KeepConflicting("claim")
  \/ SetUser("claim") \/ Cancel("claim") \/ FindSnapshot("claim") \/ TakeSnapshot("claim")

SharedStep ==
  \/ \E s \in Shared : BeginShared(s) \/ BeginSharedRefusal(s) \/ BeginSharedDelete(s)
  \/ Refuse("shared")

GCStep(c) ==
  BeginCollect(c) \/ DelUser(c) \/ DelUserFails(c) \/ DeleteSnapshot(c)

\* The steps both allocators take.
AllocatorStep(a) ==
  \/ TakeLock(a) \/ ListClaims(a) \/ ListRetained(a) \/ ListShared(a) \/ Checkpoint(a)
  \/ Release(a) \/ Terminal(a) \/ Unfinalize(a)

\* The steps of everyone who is about to flush.
FlusherStep(a) ==
  CheckClaims(a) \/ CheckRetained(a) \/ CheckShared(a) \/ Flush(a) \/ FlushFails(a)

OperatorStep ==
  \/ ClaimStep \/ SharedStep
  \/ \E c \in Claim : GCStep(c)
  \/ \E a \in Controller : AllocatorStep(a)
  \/ \E a \in Actor : FlusherStep(a)

EnvironmentStep ==
  \/ \E a \in Actor : DropPass(a)
  \/ \E w \in late : LateCommit(w)
  \/ \E h \in Holder : WatchDelivers(h) \/ Delete(h)
  \/ \E h \in Holder, i \in Instance : Create(h, i)
  \/ \E h \in Holder, k \in Key : Use(h, k)
  \/ \E c \in Claim : GraceElapses(c)

Next == OperatorStep \/ EnvironmentStep

Spec == Init /\ [][Next]_vars

\* What a pass does next, once it has begun and is not waiting for the lock.
PassStep(a) ==
  \/ FlusherStep(a)
  \/ a = "claim" /\ (AllocatorStep(a) \/ OwnSnapshot(a) \/ CancelBeforeRelease(a)
                      \/ KeepConflicting(a) \/ SetUser(a) \/ Cancel(a)
                      \/ FindSnapshot(a) \/ TakeSnapshot(a))
  \/ a = "shared" /\ (AllocatorStep(a) \/ Refuse(a))
  \/ a \in Claim /\ (DelUser(a) \/ DelUserFails(a) \/ DeleteSnapshot(a))

Fairness ==
  /\ \A a \in Actor : WF_vars(PassStep(a))
  /\ \A a \in Controller : SF_vars(TakeLock(a))
  /\ \A c \in Claim : SF_vars(BeginClaim(c)) /\ SF_vars(BeginClaimDelete(c))
  /\ \A s \in Shared : SF_vars(BeginShared(s)) /\ SF_vars(BeginSharedDelete(s))
  /\ \A c \in Claim : SF_vars(BeginCollect(c)) /\ WF_vars(GraceElapses(c))

LiveSpec == Spec /\ Fairness

---------------------------------------------------------------------------

KeyOrNone == Key \cup {NoKey}

ObjType == [st : {"absent", "live", "deleting"}, fin : BOOLEAN,
            inst : Instance \cup {"none"}, ready : BOOLEAN, unfin : BOOLEAN,
            key : KeyOrNone]

StatusType == [ready : BOOLEAN, unfin : BOOLEAN, key : KeyOrNone]

PassPC == {"idle", "lock", "own_snapshot", "list_claims", "list_retained", "list_shared",
           "check_claims", "check_retained", "check_shared", "cancel_before_release",
           "flush", "setuser", "cancel", "find_snapshot", "snapshot", "unfinalize",
           "deluser", "delete"} \cup WritePC

PassType == [pc : PassPC, goal : {"provision", "drop"}, obj : Holder \cup {NoHolder},
             inst : Instance \cup {"none"}, key : KeyOrNone, skip : BOOLEAN,
             reatt : BOOLEAN, acc : SUBSET (Dbnum \cup Holder)]

\* The stored objects, the passes and the lock keep their types: every number
\* handed out is one the instance has (allocate_dbnum, and every status write
\* of reconcile.rs and shared_database.rs).
TypeOK ==
  /\ obj \in [Holder -> ObjType] /\ cache \in [Holder -> ObjType]
  /\ snap \in [Claim -> [there : BOOLEAN, key : KeyOrNone, expired : BOOLEAN]]
  /\ data \in [Key -> SUBSET (Holder \cup {NoHolder})]
  /\ acl \in [Claim -> [Instance -> KeyOrNone]]
  /\ pass \in [Actor -> PassType]
  /\ lock \in Controller \cup {Free}
  /\ late \subseteq [obj : Holder, w : StatusType]
  /\ drops \in 0 .. MaxDrops

\* The number is in use: its holder has been told that it is ready (and a
\* shared database stays provisioned when it is not ready for a while).
Provisioned(h) ==
  IF h \in Claim THEN obj[h].ready ELSE obj[h].key # NoKey /\ ~obj[h].unfin

\* No two holders are ever provisioned on one number, whatever checkpoints a
\* dropped pass leaves behind (dbnum_holders_besides, WI-402).
Exclusive ==
  \A g, h \in Holder :
    g # h /\ Provisioned(g) /\ Provisioned(h) => obj[g].key # obj[h].key

\* A LIST shows k as h's.
Holds(h, k) == obj[h].key = k \/ (h \in Claim /\ snap[h].key = k)

\* No two holders' records ever name one number.  The allocation lock keeps this
\* as long as no abandoned checkpoint commits, and not otherwise: "It is NOT a
\* guarantee on its own" (Context::dbnum_alloc), which is what the re-read is for.
OneHolder ==
  \A g, h \in Holder, k \in Key : g # h => ~(Holds(g, k) /\ Holds(h, k))

\* FLUSHDB empties k, and h's data was in it.
Wiped(h, k) == h \in data[k] /\ data'[k] = {}

\* The pass that flushes in this step runs on behalf of h.
FlushesFor(h) == \E a \in Actor : pass[a].obj = h /\ At(a, "flush") /\ pass'[a] # pass[a]

Occupies(h, k) ==
  \/ Provisioned(h) /\ obj[h].key = k
  \/ h \in Claim /\ snap[h].key = k /\ k[1] = "persistent"

\* Nobody's FLUSHDB wipes data of another holder that is provisioned on the
\* number or whose snapshot still reserves it (the holders' re-read before
\* every flush, dbnum_holders_besides).
NoForeignFlush ==
  [][\A h \in Holder, k \in Key :
       Occupies(h, k) /\ Wiped(h, k) => FlushesFor(h)]_vars

\* The data of a live object that holds its number is never flushed, by its own
\* retries either: not while a claim is mid-reattach, not when its snapshot's
\* grace runs out meanwhile, not when a shared database loses its provider.
\* Only an ephemeral reattach flushes, where nothing was retained
\* (provision_dragonfly's skip_flush, gc::reattach_in_progress, backing_of).
LiveDataSurvives ==
  [][\A h \in Holder, k \in Key :
       obj[h].st = "live" /\ obj[h].key = k /\ Wiped(h, k)
       => h \in Claim /\ ~obj[h].ready /\ k[1] = "ephemeral"]_vars

\* Within its grace a deleted claim's data on a persistent instance is flushed
\* by nobody (GRACE_PERIOD, used_dbnums, skip_flush).
GraceKeepsData ==
  [][\A c \in Claim, k \in Key :
       snap[c].key = k /\ ~snap[c].expired /\ k[1] = "persistent" => ~Wiped(c, k)]_vars

\* The ACL user that a ready claim's application logs in with reaches the claim's
\* own number and no number somebody else is provisioned on, whatever users
\* earlier lives and dropped passes left (provision_dragonfly's SETUSER before
\* the terminal status, gc::reconcile's live guard before the DELUSER).
UsersApart ==
  \A c \in Claim, h \in Holder :
    obj[c].ready /\ Provisioned(h) => (acl[c][obj[c].inst] = obj[h].key <=> h = c)

\* Half of it, which holds even when a collector revokes the user of a claim that
\* came back meanwhile.
NoForeignUser ==
  \A c \in Claim, h \in Holder :
    obj[c].ready /\ Provisioned(h) /\ h # c => acl[c][obj[c].inst] # obj[h].key

\* The collector gives a departed claim's number back only when the claim's user
\* is off its instance, though passes end between the DELUSER and the delete of
\* the snapshot and are begun again (gc_drop_dragonfly).
ReclaimRevokes ==
  [][\A c \in Claim :
       snap[c].key # NoKey /\ snap'[c].key = NoKey /\ obj[c].st = "absent"
       => acl'[c][snap[c].key[1]] = NoKey]_vars

\* What the two do not say and the code does not keep: no claim's user, one left
\* behind included, is pinned to a number somebody else is provisioned on ("no
\* DB/user was ever created on an instance, so there is nothing to reach",
\* gc_drop_dragonfly, of a snapshot without a number).
Isolated ==
  \A c \in Claim, h \in Holder :
    Provisioned(h) /\ h # c => \A i \in Instance : acl[c][i] # obj[h].key \/ acl[c][i] = NoKey

\* A provisioned number holds nobody else's data, a departed tenant's included
\* ("a reused dbnum must start empty", provision_dragonfly).
StartsEmpty ==
  \A h \in Holder : Provisioned(h) => data[obj[h].key] \subseteq {h}

\* What holds of it: a number that is flushed for its holder, every one but that
\* of a persistent claim, starts empty; and what a persistent claim may find
\* besides its own data is a departed tenant's, never a provisioned holder's or
\* what a snapshot retains (the flush of provision_dragonfly and reconcile_redis).
FlushedStartsEmpty ==
  \A h \in Holder :
    Provisioned(h) /\ (h \in Claim => obj[h].key[1] # "persistent")
    => data[obj[h].key] \subseteq {h}

OnlyLeftovers ==
  \A h \in Holder : Provisioned(h) => data[obj[h].key] \subseteq {h, NoHolder}

\* Who a number belongs to: a provisioned holder until it is deleted, and a
\* deleted claim until its grace is over, if there is data to keep.
Owns(h, k) ==
  \/ Provisioned(h) /\ obj[h].key = k /\ (h \in Shared => obj[h].st = "live")
  \/ /\ h \in Claim /\ snap[h].key = k /\ ~snap[h].expired
     /\ k[1] = "persistent" /\ h \in data[k]

T == INSTANCE Tenancy WITH
       Tenant <- Holder, Room <- Key,
       owners <- [k \in Key |-> {h \in Holder : Owns(h, k)}],
       stuff <- [k \in Key |-> {h \in data[k] \cap Holder : Owns(h, k)}]

\* The controllers implement the pool's promise to its tenants: a number has at
\* most one owner, goes from one to the next only by way of nobody, and only
\* its owner's data is put into it or kept in it (used_dbnums, the checkpoint
\* and the re-read of provision_dragonfly and reconcile_redis).
ImplementsTenancy == T!Spec

\* A live object is provisioned again and again, for as long as it is live:
\* two holders that were put on one number do not refuse each other for ever
\* (the release arm of provision_dragonfly and of reconcile_redis).
EventuallyProvisioned ==
  \A h \in Holder : []<>(Provisioned(h) \/ obj[h].st # "live")

\* The number of a claim that stays deleted is given back to the pool by the GC
\* (gc::reconcile), that of a claim deleted before it had one included.
NumbersComeBack ==
  \A c \in Claim : []<>(~snap[c].there \/ obj[c].st # "absent")
=============================================================================
