------------------------------- MODULE PgDrop -------------------------------
(***************************************************************************)
(* Postgres claims on the shared CloudNativePG cluster, from provisioning  *)
(* to the phased drop of the grace-period GC (resourceclaim-provisioner's  *)
(* reconcile.rs, cnpg.rs and gc.rs).                                       *)
(*                                                                         *)
(* A claim is a role entry in the cluster's one list of managed roles, a   *)
(* Database object and a password Secret.  CloudNativePG makes and drops   *)
(* what they declare, later, and reports on the roles in the cluster's     *)
(* status, later still.  The provisioner and the GC write the list by      *)
(* read-modify-write under its resourceVersion; the provisioner runs one   *)
(* pass at a time, the GC one of each snapshot.  A pass may end at any     *)
(* request.                                                                *)
(***************************************************************************)
EXTENDS Integers, FiniteSets

CONSTANTS
  Claim,
  QuietGC,      \* users and half-done provisioning leave a claim alone while a
                \* pass collects it
  PromptCnpg,   \* CNPG has reported on an absent entry by the GC's next pass
  Deleted,      \* bound: claims that users delete
  MaxFails      \* bound: passes that end early, snapshots not cancelled

ASSUME DropAssumption ==
  /\ IsFiniteSet(Claim) /\ QuietGC \in BOOLEAN /\ PromptCnpg \in BOOLEAN
  /\ Deleted \subseteq Claim /\ MaxFails \in Nat

VARIABLES
  claim,     \* none, new (no finalizer), pending, ready or deleting
  retained,  \* its RetainedClaim: none, grace or expired
  cluster,   \* the shared Cluster exists
  roles,     \* spec.managed.roles: the entry's ensure, by claim
  database,  \* the Database objects' ensure
  secret,    \* claims with a password Secret
  prov,      \* the claim controller's pass, by claim
  gc,        \* the GC's pass, by claim
  current,   \* passes whose read of the Cluster is still its latest version
  pgRole,    \* roles in Postgres
  pgDb,      \* databases in Postgres
  observed,  \* the list CNPG is acting on, if any
  status,    \* managedRolesStatus: the ensure reported on, and if reconciled
  served,    \* claims whose data a user may count on
  fails

object == <<retained, cluster, roles, database, secret>>
postgres == <<pgRole, pgDb, observed, status>>
vars == <<claim, object, prov, gc, current, postgres, served, fails>>

Ensure == {"none", "present", "absent"}
NoList == [c \in Claim |-> "none"]

Init ==
  /\ claim = [c \in Claim |-> "none"] /\ retained = [c \in Claim |-> "none"]
  /\ cluster = FALSE /\ roles = NoList /\ database = NoList /\ secret = {}
  /\ prov = [c \in Claim |-> "idle"] /\ gc = [c \in Claim |-> "idle"]
  /\ current = {} /\ pgRole = {} /\ pgDb = {} /\ observed = {}
  /\ status = [c \in Claim |-> [ensure |-> "none", reconciled |-> FALSE]]
  /\ served = {} /\ fails = 0

\* claim_is_live, as far as the claim exists.
ClaimIsLive(c) == claim[c] \in {"new", "pending", "ready"}

-----------------------------------------------------------------------------
(* The list of managed roles. *)

MergeRole(list, c, ensure) == [list EXCEPT ![c] = ensure]
RemoveRole(list, c) == [list EXCEPT ![c] = "none"]

Provisioner(c) == <<"prov", c>>
Collector(c) == <<"gc", c>>

GetList(who) == current' = current \cup {who}

\* The replace lands on the version that was read; it makes every other read
\* of the Cluster an old one.
Replace(who, list) == who \in current /\ roles' = list /\ current' = {}

\* A conflict: read again.
Conflict(who) == who \notin current

-----------------------------------------------------------------------------
(* The claim controller: provision_cloudnativepg and the finalizer. *)

ProvGoes(c, from, to) ==
  prov[c] = from /\ prov' = [prov EXCEPT ![c] = to]

\* One pass at a time: concurrency(1).
BeginPass(c, to) ==
  (\A d \in Claim : prov[d] = "idle") /\ ProvGoes(c, "idle", to)

BeginProvision(c) ==
  /\ claim[c] \in {"new", "pending"}
  /\ BeginPass(c, "cluster")
  /\ claim' = [claim EXCEPT ![c] = "pending"]
  /\ UNCHANGED <<object, current, fails>>

EnsureCluster(c) ==
  /\ ProvGoes(c, "cluster", "secret")
  /\ cluster' = TRUE
  /\ UNCHANGED <<claim, retained, roles, database, secret, current, fails>>

ApplySecret(c) ==
  /\ ProvGoes(c, "secret", "get")
  /\ secret' = secret \cup {c}
  /\ UNCHANGED <<claim, retained, cluster, roles, database, current, fails>>

GetRoles(c) ==
  /\ ProvGoes(c, "get", "put")
  /\ GetList(Provisioner(c))
  /\ UNCHANGED <<claim, object, fails>>

UpsertManagedRole(c) ==
  /\ ProvGoes(c, "put", "database")
  /\ Replace(Provisioner(c), MergeRole(roles, c, "present"))
  /\ UNCHANGED <<claim, retained, cluster, database, secret, fails>>

UpsertConflicts(c) ==
  /\ ProvGoes(c, "put", "get")
  /\ Conflict(Provisioner(c))
  /\ UNCHANGED <<claim, object, current, fails>>

ApplyDatabase(c) ==
  /\ ProvGoes(c, "database", "status")
  /\ database' = [database EXCEPT ![c] = "present"]
  /\ UNCHANGED <<claim, retained, cluster, roles, secret, current, fails>>

\* With the connection Secret.
WriteReady(c) ==
  /\ ProvGoes(c, "status", "cancel")
  /\ claim' = [claim EXCEPT ![c] = IF @ = "pending" THEN "ready" ELSE @]
  /\ UNCHANGED <<object, current, fails>>

\* A failure is only logged.
CancelSnapshot(c) ==
  /\ ProvGoes(c, "cancel", "idle")
  /\ \/ retained' = [retained EXCEPT ![c] = "none"] /\ fails' = fails
     \/ fails < MaxFails /\ fails' = fails + 1 /\ UNCHANGED retained
  /\ UNCHANGED <<claim, cluster, roles, database, secret, current>>

\* An existing snapshot is kept, with its clock.
FindSnapshot(c) ==
  /\ claim[c] = "deleting"
  /\ BeginPass(c, IF retained[c] = "none" THEN "snapshot" ELSE "unfinalize")
  /\ UNCHANGED <<claim, object, current, fails>>

TakeSnapshot(c) ==
  /\ ProvGoes(c, "snapshot", "unfinalize")
  /\ retained' = [retained EXCEPT ![c] = IF @ = "none" THEN "grace" ELSE @]
  /\ UNCHANGED <<claim, cluster, roles, database, secret, current, fails>>

Unfinalize(c) ==
  /\ ProvGoes(c, "unfinalize", "idle")
  /\ claim' = [claim EXCEPT ![c] = "none"]
  /\ UNCHANGED <<object, current, fails>>

ProvStep(c) ==
  /\ \/ BeginProvision(c) \/ EnsureCluster(c) \/ ApplySecret(c) \/ GetRoles(c)
     \/ UpsertManagedRole(c) \/ UpsertConflicts(c) \/ ApplyDatabase(c)
     \/ WriteReady(c) \/ CancelSnapshot(c)
     \/ FindSnapshot(c) \/ TakeSnapshot(c) \/ Unfinalize(c)
  /\ UNCHANGED <<gc, postgres>>

-----------------------------------------------------------------------------
(* The GC: reconcile of an expired RetainedClaim, the CNPG arm. *)

GcGoes(c, from, to) == gc[c] = from /\ gc' = [gc EXCEPT ![c] = to]

\* What the assumptions say of the moment a pass begins.
Settled(c) ==
  /\ PromptCnpg /\ roles[c] = "absent" =>
       status[c].ensure = "absent" /\ \A list \in observed : list[c] = "absent"
  /\ QuietGC => ClaimIsLive(c) \/ prov[c] \in {"idle", "snapshot", "unfinalize"}

\* Mutant: a claim counts as live once it is ready.
BeginCollectUnlessReady(c) ==
  /\ retained[c] = "expired"
  /\ Settled(c)
  /\ GcGoes(c, "idle", IF claim[c] = "ready" THEN "forget" ELSE "database")
  /\ UNCHANGED <<claim, object, current, fails>>

\* The pass begins with the GET of the claim.  It comes a requeue after the one
\* that declared the role absent, and CNPG has reported on it by then.
BeginCollect(c) ==
  /\ retained[c] = "expired"
  /\ Settled(c)
  /\ GcGoes(c, "idle", IF ClaimIsLive(c) THEN "forget" ELSE "database")
  /\ UNCHANGED <<claim, object, current, fails>>

\* Mutant: the database is left to the drop of its role.
RemoveDatabaseSkipped(c) ==
  /\ GcGoes(c, "database", "cluster")
  /\ UNCHANGED <<claim, object, current, fails>>

RemoveDatabase(c) ==
  /\ GcGoes(c, "database", "cluster")
  /\ database' = [database EXCEPT ![c] = "absent"]
  /\ UNCHANGED <<claim, retained, cluster, roles, secret, current, fails>>

\* Mutant: the status is trusted whatever the entry declares.
DeclaredAbsentOrReported(c) == status[c].reconciled
\* role_entry_ensure: declared by an earlier pass.
DeclaredAbsent(c) == roles[c] = "absent"

\* The entry is among the reconciled ones; the list does not say what for.
RoleIsDropped(c) == status[c].reconciled

\* GET of the Cluster, spec and status: declare the role absent, wait, or
\* finish.
GetCluster(c) ==
  /\ GcGoes(c, "cluster",
            IF ~cluster THEN "secret"
            ELSE IF ~DeclaredAbsent(c) THEN "get"
            ELSE IF RoleIsDropped(c) THEN "getPrune" ELSE "idle")
  /\ UNCHANGED <<claim, object, current, fails>>

GcGetRoles(c) ==
  /\ GcGoes(c, "get", "put") \/ GcGoes(c, "getPrune", "prune")
  /\ GetList(Collector(c))
  /\ UNCHANGED <<claim, object, fails>>

SetRoleAbsent(c) ==
  /\ GcGoes(c, "put", "idle")
  /\ Replace(Collector(c), MergeRole(roles, c, "absent"))
  /\ UNCHANGED <<claim, retained, cluster, database, secret, fails>>

RemoveManagedRole(c) ==
  /\ GcGoes(c, "prune", "secret")
  /\ Replace(Collector(c), RemoveRole(roles, c))
  /\ UNCHANGED <<claim, retained, cluster, database, secret, fails>>

GcConflicts(c) ==
  /\ GcGoes(c, "put", "get") \/ GcGoes(c, "prune", "getPrune")
  /\ Conflict(Collector(c))
  /\ UNCHANGED <<claim, object, current, fails>>

DeletePasswordSecret(c) ==
  /\ GcGoes(c, "secret", "forget")
  /\ secret' = secret \ {c}
  /\ UNCHANGED <<claim, retained, cluster, roles, database, current, fails>>

DeleteRetainedClaim(c) ==
  /\ GcGoes(c, "forget", "idle")
  /\ retained' = [retained EXCEPT ![c] = "none"]
  /\ UNCHANGED <<claim, cluster, roles, database, secret, current, fails>>

GcStep(c) ==
  /\ \/ BeginCollect(c) \/ RemoveDatabase(c) \/ GetCluster(c) \/ GcGetRoles(c)
     \/ SetRoleAbsent(c) \/ RemoveManagedRole(c) \/ GcConflicts(c)
     \/ DeletePasswordSecret(c) \/ DeleteRetainedClaim(c)
  /\ UNCHANGED <<prov, postgres>>

\* A request fails, the retries run out, the deadline passes or the process
\* ends; what was requested has been done or has not.
PassEnds(c) ==
  /\ fails < MaxFails /\ fails' = fails + 1
  /\ \/ prov[c] # "idle" /\ ProvGoes(c, prov[c], "idle") /\ UNCHANGED gc
     \/ gc[c] # "idle" /\ GcGoes(c, gc[c], "idle") /\ UNCHANGED prov
  /\ UNCHANGED <<claim, object, current, postgres>>

-----------------------------------------------------------------------------
(* CloudNativePG. *)

CnpgReads ==
  /\ cluster /\ observed = {}
  /\ observed' = {roles}
  /\ UNCHANGED <<pgRole, pgDb, status, current>>

\* A role that owns a database cannot be dropped.  A status that says something
\* new is a new version of the Cluster.
CnpgSyncs == \E list \in observed :
  LET kept == {c \in pgRole : list[c] = "absent" => c \in pgDb}
  IN  /\ pgRole' = kept \cup {c \in Claim : list[c] = "present"}
      /\ status' = [c \in Claim |->
           [ensure |-> list[c],
            reconciled |-> list[c] = "present" \/ (list[c] = "absent" /\ c \notin kept)]]
      /\ current' = IF status' = status THEN current ELSE {}
      /\ observed' = {}
      /\ UNCHANGED pgDb

\* The owner must exist.
CnpgDatabase(c) ==
  /\ \/ database[c] = "present" /\ c \in pgRole \ pgDb /\ pgDb' = pgDb \cup {c}
     \/ database[c] = "absent" /\ c \in pgDb /\ pgDb' = pgDb \ {c}
  /\ UNCHANGED <<pgRole, observed, status, current>>

CnpgStep ==
  /\ CnpgReads \/ CnpgSyncs \/ \E c \in Claim : CnpgDatabase(c)
  /\ UNCHANGED <<claim, object, prov, gc, fails>>

-----------------------------------------------------------------------------
(* Users and time. *)

Undisturbed(c) == QuietGC => gc[c] = "idle"

Create(c) ==
  /\ claim[c] = "none" /\ Undisturbed(c)
  /\ claim' = [claim EXCEPT ![c] = "new"]
  /\ UNCHANGED <<object, prov, gc, current, postgres, fails>>

Delete(c) ==
  /\ c \in Deleted /\ ClaimIsLive(c) /\ Undisturbed(c)
  /\ claim' = [claim EXCEPT ![c] = IF @ = "new" THEN "none" ELSE "deleting"]
  /\ UNCHANGED <<object, prov, gc, current, postgres, fails>>

GraceElapses(c) ==
  /\ retained[c] = "grace"
  /\ retained' = [retained EXCEPT ![c] = "expired"]
  /\ UNCHANGED <<claim, cluster, roles, database, secret, prov, gc, current, postgres, fails>>

\* From the claim's first ready status until a snapshot has expired without a
\* live claim.
Serve ==
  served' = {c \in served \cup {d \in Claim : claim'[d] = "ready"} :
               retained'[c] # "expired" \/ claim'[c] \in {"new", "pending", "ready"}}

Next ==
  /\ \/ \E c \in Claim : \/ ProvStep(c) \/ GcStep(c) \/ PassEnds(c)
                         \/ Create(c) \/ Delete(c) \/ GraceElapses(c)
     \/ CnpgStep
  /\ Serve

Spec == Init /\ [][Next]_vars

\* Both controllers requeue until they are done, and CNPG's loops go on.
LiveSpec ==
  /\ Spec
  /\ \A c \in Claim : WF_vars(ProvStep(c) /\ Serve) /\ WF_vars(GcStep(c) /\ Serve)
  /\ \A c \in Claim : WF_vars(CnpgDatabase(c) /\ CnpgStep /\ Serve)
  /\ WF_vars(CnpgReads /\ CnpgStep /\ Serve) /\ WF_vars(CnpgSyncs /\ CnpgStep /\ Serve)

-----------------------------------------------------------------------------
\* A role in Postgres is somebody's: the list declares it, or a claim or a
\* snapshot will lead to it.  An entry pruned on a report about what it declared
\* before leaves a login behind for good (the phases of gc.rs, role_is_dropped).
NoRoleLeak ==
  \A c \in pgRole : roles[c] # "none" \/ retained[c] # "none" \/ claim[c] # "none"

\* The data of a claim that has been ready stays declared until a grace period
\* has run out on it, re-creation and half-done drops included, and a ready
\* claim has its role and its password, whoever else writes the list
\* (the live guard, upsert_managed_role).
ServedIsBacked ==
  \A c \in served :
    /\ database[c] = "present"
    /\ claim[c] = "ready" => roles[c] = "present" /\ c \in secret

\* Every expired snapshot is collected or cancelled: the phases do not wait for
\* each other for ever, and a pass that ended early is made up for.
DropCompletes ==
  \A c \in Claim : retained[c] = "expired" ~> retained[c] # "expired"
=============================================================================
