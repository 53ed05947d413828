---------------------------- MODULE PgDropProofs ----------------------------
(***************************************************************************)
(* Proofs about PgDrop, for any set of claims and any number of failures.  *)
(***************************************************************************)
EXTENDS PgDrop, TLAPS

ProvPC == {"idle", "cluster", "secret", "get", "put", "database", "status", "cancel",
           "snapshot", "unfinalize"}
GcPC == {"idle", "database", "cluster", "get", "put", "getPrune", "prune", "secret", "forget"}

\* The steps of a pass of the GC that drop something.
Collecting == GcPC \ {"idle", "forget"}

TypeInv ==
  /\ claim \in [Claim -> {"none", "new", "pending", "ready", "deleting"}]
  /\ retained \in [Claim -> {"none", "grace", "expired"}]
  /\ cluster \in BOOLEAN
  /\ roles \in [Claim -> Ensure] /\ database \in [Claim -> Ensure] /\ secret \subseteq Claim
  /\ prov \in [Claim -> ProvPC] /\ gc \in [Claim -> GcPC]
  /\ pgRole \subseteq Claim /\ pgDb \subseteq Claim /\ observed \subseteq [Claim -> Ensure]
  /\ status \in [Claim -> [ensure : Ensure, reconciled : BOOLEAN]]
  /\ served \subseteq Claim

\* While a pass drops a claim's backend nobody provisions it, and its snapshot
\* has expired.
CollectInv ==
  \A c \in Claim : gc[c] \in Collecting =>
    /\ claim[c] \in {"none", "deleting"} /\ prov[c] \in {"idle", "snapshot", "unfinalize"}
    /\ retained[c] = "expired"

\* What a pass of the provisioner has declared is there until the pass ends,
\* and so is what a ready claim was given.
BackedInv ==
  \A c \in Claim :
    /\ prov[c] \in {"get", "put", "database", "status"} \/ claim[c] = "ready" => c \in secret
    /\ prov[c] \in {"database", "status"} \/ claim[c] = "ready" => roles[c] = "present"
    /\ prov[c] = "status" \/ c \in served => database[c] = "present"
    /\ claim[c] = "ready" => c \in served
    /\ c \in served => retained[c] # "expired" \/ ClaimIsLive(c)

\* Reports and lists that CNPG has yet to act on, for the entry a pass is about
\* to prune.  The entry of a pass that finds it absent is one CNPG has seen.
RoleInv ==
  \A c \in Claim :
    /\ status[c].ensure = "absent" /\ status[c].reconciled => c \notin pgRole
    /\ c \in pgRole \/ (\E list \in observed : list[c] = "present") => roles[c] # "none"
    /\ gc[c] \in {"database", "cluster", "getPrune", "prune"} /\ roles[c] = "absent" =>
         status[c].ensure = "absent" /\ \A list \in observed : list[c] = "absent"
    /\ gc[c] \in {"getPrune", "prune"} => roles[c] = "absent" /\ status[c].reconciled

\* Every step keeps the types.
LEMMA TypeStep == TypeInv /\ [Next]_vars => TypeInv'
<1> SUFFICES ASSUME TypeInv, [Next]_vars PROVE TypeInv'
  OBVIOUS
<1>1. CASE UNCHANGED vars
  BY <1>1 DEF vars, object, postgres, TypeInv
<1>2. ASSUME NEW c \in Claim, ProvStep(c), Serve
      PROVE  TypeInv'
  <2>0. served' \subseteq Claim /\ UNCHANGED <<gc, pgRole, pgDb, observed, status>>
    BY <1>2 DEF Serve, ProvStep, postgres, TypeInv
  <2>1. CASE BeginProvision(c)
    BY <2>0, <2>1 DEF BeginProvision, BeginPass, ProvGoes, ProvPC, Ensure, object, TypeInv
  <2>2. CASE EnsureCluster(c)
    BY <2>0, <2>2 DEF EnsureCluster, ProvGoes, ProvPC, Ensure, object, TypeInv
  <2>3. CASE ApplySecret(c)
    BY <2>0, <2>3 DEF ApplySecret, ProvGoes, ProvPC, Ensure, object, TypeInv
  <2>4. CASE GetRoles(c)
    BY <2>0, <2>4 DEF GetRoles, ProvGoes, ProvPC, Ensure, object, TypeInv
  <2>5. CASE UpsertManagedRole(c)
    BY <2>0, <2>5 DEF UpsertManagedRole, ProvGoes, Replace, MergeRole, ProvPC, Ensure, object, TypeInv
  <2>6. CASE UpsertConflicts(c)
    BY <2>0, <2>6 DEF UpsertConflicts, ProvGoes, ProvPC, Ensure, object, TypeInv
  <2>7. CASE ApplyDatabase(c)
    BY <2>0, <2>7 DEF ApplyDatabase, ProvGoes, ProvPC, Ensure, object, TypeInv
  <2>8. CASE WriteReady(c)
    BY <2>0, <2>8 DEF WriteReady, ProvGoes, ProvPC, Ensure, object, TypeInv
  <2>9. CASE CancelSnapshot(c)
    BY <2>0, <2>9 DEF CancelSnapshot, ProvGoes, ProvPC, Ensure, object, TypeInv
  <2>10. CASE FindSnapshot(c)
    BY <2>0, <2>10 DEF FindSnapshot, BeginPass, ProvGoes, ProvPC, Ensure, object, TypeInv
  <2>11. CASE TakeSnapshot(c)
    BY <2>0, <2>11 DEF TakeSnapshot, ProvGoes, ProvPC, Ensure, object, TypeInv
  <2>12. CASE Unfinalize(c)
    BY <2>0, <2>12 DEF Unfinalize, ProvGoes, ProvPC, Ensure, object, TypeInv
  <2> QED
    BY <1>2, <2>1, <2>2, <2>3, <2>4, <2>5, <2>6, <2>7, <2>8, <2>9, <2>10, <2>11, <2>12 DEF ProvStep
<1>3. ASSUME NEW c \in Claim, GcStep(c), Serve
      PROVE  TypeInv'
  <2>0. served' \subseteq Claim /\ UNCHANGED <<prov, pgRole, pgDb, observed, status>>
    BY <1>3 DEF Serve, GcStep, postgres, TypeInv
  <2>1. CASE BeginCollect(c)
    BY <2>0, <2>1 DEF BeginCollect, GcGoes, GcPC, Ensure, object, TypeInv
  <2>2. CASE RemoveDatabase(c)
    BY <2>0, <2>2 DEF RemoveDatabase, GcGoes, GcPC, Ensure, object, TypeInv
  <2>3. CASE GetCluster(c)
    BY <2>0, <2>3 DEF GetCluster, GcGoes, GcPC, Ensure, object, TypeInv
  <2>4. CASE GcGetRoles(c)
    BY <2>0, <2>4 DEF GcGetRoles, GcGoes, GcPC, Ensure, object, TypeInv
  <2>5. CASE SetRoleAbsent(c)
    BY <2>0, <2>5 DEF SetRoleAbsent, GcGoes, Replace, MergeRole, GcPC, Ensure, object, TypeInv
  <2>6. CASE RemoveManagedRole(c)
    BY <2>0, <2>6 DEF RemoveManagedRole, GcGoes, Replace, RemoveRole, GcPC, Ensure, object, TypeInv
  <2>7. CASE GcConflicts(c)
    BY <2>0, <2>7 DEF GcConflicts, GcGoes, GcPC, Ensure, object, TypeInv
  <2>8. CASE DeletePasswordSecret(c)
    BY <2>0, <2>8 DEF DeletePasswordSecret, GcGoes, GcPC, Ensure, object, TypeInv
  <2>9. CASE DeleteRetainedClaim(c)
    BY <2>0, <2>9 DEF DeleteRetainedClaim, GcGoes, GcPC, Ensure, object, TypeInv
  <2> QED
    BY <1>3, <2>1, <2>2, <2>3, <2>4, <2>5, <2>6, <2>7, <2>8, <2>9 DEF GcStep
<1>4. ASSUME NEW c \in Claim, PassEnds(c) \/ Create(c) \/ Delete(c) \/ GraceElapses(c), Serve
      PROVE  TypeInv'
  <2>0. served' \subseteq Claim
    BY <1>4 DEF Serve, TypeInv
  <2>1. CASE PassEnds(c)
    BY <2>0, <2>1 DEF PassEnds, ProvGoes, GcGoes, ProvPC, GcPC, object, postgres, TypeInv
  <2>2. CASE Create(c) \/ Delete(c)
    BY <2>0, <2>2 DEF Create, Delete, object, postgres, TypeInv
  <2>3. CASE GraceElapses(c)
    BY <2>0, <2>3 DEF GraceElapses, postgres, TypeInv
  <2> QED
    BY <1>4, <2>1, <2>2, <2>3
<1>5. ASSUME CnpgStep, Serve PROVE TypeInv'
  <2>0. served' \subseteq Claim /\ UNCHANGED <<claim, object, prov, gc>>
    BY <1>5 DEF Serve, CnpgStep, TypeInv
  <2>1. CASE CnpgReads
    BY <2>0, <2>1 DEF CnpgReads, object, TypeInv
  <2>2. CASE CnpgSyncs
    <3>1. PICK list \in observed : CnpgSyncs!(list)
      BY <2>2 DEF CnpgSyncs
    <3>2. list \in [Claim -> Ensure]
      BY DEF TypeInv
    <3>3. pgRole' \subseteq Claim /\ pgDb' = pgDb /\ observed' = {}
      BY <3>1 DEF TypeInv
    <3>4. status' \in [Claim -> [ensure : Ensure, reconciled : BOOLEAN]]
      BY <3>1, <3>2
    <3> QED
      BY <2>0, <3>3, <3>4 DEF object, TypeInv
  <2>3. ASSUME NEW c \in Claim, CnpgDatabase(c) PROVE TypeInv'
    BY <2>0, <2>3 DEF CnpgDatabase, object, TypeInv
  <2> QED
    BY <1>5, <2>1, <2>2, <2>3 DEF CnpgStep
<1> QED
  BY <1>1, <1>2, <1>3, <1>4, <1>5 DEF Next

\* A pass drops only what nobody provisions meanwhile.
LEMMA CollectStep ==
  ASSUME QuietGC, TypeInv, CollectInv, [Next]_vars
  PROVE  CollectInv'
<1> USE DEF CollectInv, Collecting, GcPC, ClaimIsLive, Settled
<1>1. CASE UNCHANGED vars
  BY <1>1 DEF vars, object, postgres
<1>2. ASSUME NEW c \in Claim, ProvStep(c), Serve
      PROVE  CollectInv'
  <2>0. UNCHANGED <<gc, pgRole, pgDb, observed, status>>
    BY <1>2 DEF ProvStep, postgres
  <2>1. CASE BeginProvision(c)
    BY <1>2, <2>0, <2>1 DEF BeginProvision, BeginPass, ProvGoes, ProvPC, Ensure, object, TypeInv
  <2>2. CASE EnsureCluster(c)
    BY <1>2, <2>0, <2>2 DEF EnsureCluster, ProvGoes, ProvPC, Ensure, object, TypeInv
  <2>3. CASE ApplySecret(c)
    BY <1>2, <2>0, <2>3 DEF ApplySecret, ProvGoes, ProvPC, Ensure, object, TypeInv
  <2>4. CASE GetRoles(c)
    BY <1>2, <2>0, <2>4 DEF GetRoles, ProvGoes, ProvPC, Ensure, object, TypeInv
  <2>5. CASE UpsertManagedRole(c)
    BY <1>2, <2>0, <2>5 DEF UpsertManagedRole, ProvGoes, Replace, MergeRole, ProvPC, Ensure, object, TypeInv
  <2>6. CASE UpsertConflicts(c)
    BY <1>2, <2>0, <2>6 DEF UpsertConflicts, ProvGoes, ProvPC, Ensure, object, TypeInv
  <2>7. CASE ApplyDatabase(c)
    BY <1>2, <2>0, <2>7 DEF ApplyDatabase, ProvGoes, ProvPC, Ensure, object, TypeInv
  <2>8. CASE WriteReady(c)
    BY <1>2, <2>0, <2>8 DEF WriteReady, ProvGoes, ProvPC, Ensure, object, TypeInv
  <2>9. CASE CancelSnapshot(c)
    BY <1>2, <2>0, <2>9 DEF CancelSnapshot, ProvGoes, ProvPC, Ensure, object, TypeInv
  <2>10. CASE FindSnapshot(c)
    BY <1>2, <2>0, <2>10 DEF FindSnapshot, BeginPass, ProvGoes, ProvPC, Ensure, object, TypeInv
  <2>11. CASE TakeSnapshot(c)
    BY <1>2, <2>0, <2>11 DEF TakeSnapshot, ProvGoes, ProvPC, Ensure, object, TypeInv
  <2>12. CASE Unfinalize(c)
    BY <1>2, <2>0, <2>12 DEF Unfinalize, ProvGoes, ProvPC, Ensure, object, TypeInv
  <2> HIDE DEF CollectInv
  <2> QED
    BY <1>2, <2>1, <2>2, <2>3, <2>4, <2>5, <2>6, <2>7, <2>8, <2>9, <2>10, <2>11, <2>12 DEF ProvStep
<1>3. ASSUME NEW c \in Claim, GcStep(c), Serve
      PROVE  CollectInv'
  <2>0. UNCHANGED <<prov, pgRole, pgDb, observed, status>>
    BY <1>3 DEF GcStep, postgres
  <2>1. CASE BeginCollect(c)
    BY <1>3, <2>0, <2>1 DEF BeginCollect, GcGoes, GcPC, Ensure, object, TypeInv
  <2>2. CASE RemoveDatabase(c)
    BY <1>3, <2>0, <2>2 DEF RemoveDatabase, GcGoes, GcPC, Ensure, object, TypeInv
  <2>3. CASE GetCluster(c)
    BY <1>3, <2>0, <2>3 DEF GetCluster, GcGoes, GcPC, Ensure, object, TypeInv
  <2>4. CASE GcGetRoles(c)
    BY <1>3, <2>0, <2>4 DEF GcGetRoles, GcGoes, GcPC, Ensure, object, TypeInv
  <2>5. CASE SetRoleAbsent(c)
    BY <1>3, <2>0, <2>5 DEF SetRoleAbsent, GcGoes, Replace, MergeRole, GcPC, Ensure, object, TypeInv
  <2>6. CASE RemoveManagedRole(c)
    BY <1>3, <2>0, <2>6 DEF RemoveManagedRole, GcGoes, Replace, RemoveRole, GcPC, Ensure, object, TypeInv
  <2>7. CASE GcConflicts(c)
    BY <1>3, <2>0, <2>7 DEF GcConflicts, GcGoes, GcPC, Ensure, object, TypeInv
  <2>8. CASE DeletePasswordSecret(c)
    BY <1>3, <2>0, <2>8 DEF DeletePasswordSecret, GcGoes, GcPC, Ensure, object, TypeInv
  <2>9. CASE DeleteRetainedClaim(c)
    BY <1>3, <2>0, <2>9 DEF DeleteRetainedClaim, GcGoes, GcPC, Ensure, object, TypeInv
  <2> HIDE DEF CollectInv
  <2> QED
    BY <1>3, <2>1, <2>2, <2>3, <2>4, <2>5, <2>6, <2>7, <2>8, <2>9 DEF GcStep
<1>4. ASSUME NEW c \in Claim, PassEnds(c) \/ Create(c) \/ Delete(c) \/ GraceElapses(c), Serve
      PROVE  CollectInv'
  <2>1. CASE PassEnds(c)
    BY <1>4, <2>1 DEF PassEnds, ProvGoes, GcGoes, ProvPC, GcPC, object, postgres, TypeInv
  <2>2. CASE Create(c)
    BY <1>4, <2>2 DEF Create, Undisturbed, object, postgres, TypeInv
  <2>3. CASE Delete(c)
    BY <1>4, <2>3 DEF Delete, Undisturbed, object, postgres, TypeInv
  <2>4. CASE GraceElapses(c)
    BY <1>4, <2>4 DEF GraceElapses, postgres, TypeInv
  <2> HIDE DEF CollectInv
  <2> QED
    BY <1>4, <2>1, <2>2, <2>3, <2>4
<1>5. ASSUME CnpgStep, Serve PROVE CollectInv'
  <2>0. UNCHANGED <<claim, object, prov, gc>>
    BY <1>5 DEF CnpgStep
  <2> QED
    BY <1>5, <2>0 DEF object, TypeInv
<1> HIDE DEF CollectInv
<1> QED
  BY <1>1, <1>2, <1>3, <1>4, <1>5 DEF Next

\* What has been declared for a claim goes by a pass of the GC alone, and no such
\* pass goes together with a provisioning one or a live claim.
LEMMA BackedStep ==
  ASSUME QuietGC, TypeInv, CollectInv, BackedInv, [Next]_vars
  PROVE  BackedInv'
<1> USE DEF BackedInv, CollectInv, Collecting, GcPC, ClaimIsLive, Serve
<1>1. CASE UNCHANGED vars
  BY <1>1 DEF vars, object, postgres
<1>2. ASSUME NEW c \in Claim, ProvStep(c), Serve
      PROVE  BackedInv'
  <2>0. UNCHANGED <<gc, pgRole, pgDb, observed, status>>
    BY <1>2 DEF ProvStep, postgres
  <2>1. CASE BeginProvision(c)
    BY <1>2, <2>0, <2>1 DEF BeginProvision, BeginPass, ProvGoes, ProvPC, Ensure, object, TypeInv
  <2>2. CASE EnsureCluster(c)
    BY <1>2, <2>0, <2>2 DEF EnsureCluster, ProvGoes, ProvPC, Ensure, object, TypeInv
  <2>3. CASE ApplySecret(c)
    BY <1>2, <2>0, <2>3 DEF ApplySecret, ProvGoes, ProvPC, Ensure, object, TypeInv
  <2>4. CASE GetRoles(c)
    BY <1>2, <2>0, <2>4 DEF GetRoles, ProvGoes, ProvPC, Ensure, object, TypeInv
  <2>5. CASE UpsertManagedRole(c)
    BY <1>2, <2>0, <2>5 DEF UpsertManagedRole, ProvGoes, Replace, MergeRole, ProvPC, Ensure, object, TypeInv
  <2>6. CASE UpsertConflicts(c)
    BY <1>2, <2>0, <2>6 DEF UpsertConflicts, ProvGoes, ProvPC, Ensure, object, TypeInv
  <2>7. CASE ApplyDatabase(c)
    BY <1>2, <2>0, <2>7 DEF ApplyDatabase, ProvGoes, ProvPC, Ensure, object, TypeInv
  <2>8. CASE WriteReady(c)
    BY <1>2, <2>0, <2>8 DEF WriteReady, ProvGoes, ProvPC, Ensure, object, TypeInv
  <2>9. CASE CancelSnapshot(c)
    BY <1>2, <2>0, <2>9 DEF CancelSnapshot, ProvGoes, ProvPC, Ensure, object, TypeInv
  <2>10. CASE FindSnapshot(c)
    BY <1>2, <2>0, <2>10 DEF FindSnapshot, BeginPass, ProvGoes, ProvPC, Ensure, object, TypeInv
  <2>11. CASE TakeSnapshot(c)
    BY <1>2, <2>0, <2>11 DEF TakeSnapshot, ProvGoes, ProvPC, Ensure, object, TypeInv
  <2>12. CASE Unfinalize(c)
    BY <1>2, <2>0, <2>12 DEF Unfinalize, ProvGoes, ProvPC, Ensure, object, TypeInv
  <2> HIDE DEF BackedInv
  <2> QED
    BY <1>2, <2>1, <2>2, <2>3, <2>4, <2>5, <2>6, <2>7, <2>8, <2>9, <2>10, <2>11, <2>12 DEF ProvStep
<1>3. ASSUME NEW c \in Claim, GcStep(c), Serve
      PROVE  BackedInv'
  <2>0. UNCHANGED <<prov, pgRole, pgDb, observed, status>>
    BY <1>3 DEF GcStep, postgres
  <2>1. CASE BeginCollect(c)
    BY <1>3, <2>0, <2>1 DEF BeginCollect, GcGoes, GcPC, Ensure, object, TypeInv
  <2>2. CASE RemoveDatabase(c)
    BY <1>3, <2>0, <2>2 DEF RemoveDatabase, GcGoes, GcPC, Ensure, object, TypeInv
  <2>3. CASE GetCluster(c)
    BY <1>3, <2>0, <2>3 DEF GetCluster, GcGoes, GcPC, Ensure, object, TypeInv
  <2>4. CASE GcGetRoles(c)
    BY <1>3, <2>0, <2>4 DEF GcGetRoles, GcGoes, GcPC, Ensure, object, TypeInv
  <2>5. CASE SetRoleAbsent(c)
    BY <1>3, <2>0, <2>5 DEF SetRoleAbsent, GcGoes, Replace, MergeRole, GcPC, Ensure, object, TypeInv
  <2>6. CASE RemoveManagedRole(c)
    BY <1>3, <2>0, <2>6 DEF RemoveManagedRole, GcGoes, Replace, RemoveRole, GcPC, Ensure, object, TypeInv
  <2>7. CASE GcConflicts(c)
    BY <1>3, <2>0, <2>7 DEF GcConflicts, GcGoes, GcPC, Ensure, object, TypeInv
  <2>8. CASE DeletePasswordSecret(c)
    BY <1>3, <2>0, <2>8 DEF DeletePasswordSecret, GcGoes, GcPC, Ensure, object, TypeInv
  <2>9. CASE DeleteRetainedClaim(c)
    BY <1>3, <2>0, <2>9 DEF DeleteRetainedClaim, GcGoes, GcPC, Ensure, object, TypeInv
  <2> HIDE DEF BackedInv
  <2> QED
    BY <1>3, <2>1, <2>2, <2>3, <2>4, <2>5, <2>6, <2>7, <2>8, <2>9 DEF GcStep
<1>4. ASSUME NEW c \in Claim, PassEnds(c) \/ Create(c) \/ Delete(c) \/ GraceElapses(c), Serve
      PROVE  BackedInv'
  <2>1. CASE PassEnds(c)
    BY <1>4, <2>1 DEF PassEnds, ProvGoes, GcGoes, ProvPC, GcPC, object, postgres, TypeInv
  <2>2. CASE Create(c)
    BY <1>4, <2>2 DEF Create, Undisturbed, object, postgres, TypeInv
  <2>3. CASE Delete(c)
    BY <1>4, <2>3 DEF Delete, Undisturbed, object, postgres, TypeInv
  <2>4. CASE GraceElapses(c)
    BY <1>4, <2>4 DEF GraceElapses, postgres, TypeInv
  <2> HIDE DEF BackedInv
  <2> QED
    BY <1>4, <2>1, <2>2, <2>3, <2>4
<1>5. ASSUME CnpgStep, Serve PROVE BackedInv'
  <2>0. UNCHANGED <<claim, object, prov, gc>>
    BY <1>5 DEF CnpgStep
  <2> QED
    BY <1>5, <2>0 DEF object, TypeInv
<1> HIDE DEF BackedInv
<1> QED
  BY <1>1, <1>2, <1>3, <1>4, <1>5 DEF Next

\* An entry is pruned only when CNPG has dropped its role and no list it still
\* has to act on brings the role back.
LEMMA RoleStep ==
  ASSUME QuietGC, PromptCnpg, TypeInv, CollectInv, RoleInv, [Next]_vars
  PROVE  RoleInv'
<1> USE DEF RoleInv, CollectInv, Collecting, GcPC
<1>1. CASE UNCHANGED vars
  BY <1>1 DEF vars, object, postgres
<1>2. ASSUME NEW c \in Claim, ProvStep(c), Serve
      PROVE  RoleInv'
  <2>0. UNCHANGED <<gc, pgRole, pgDb, observed, status>>
    BY <1>2 DEF ProvStep, postgres
  <2>1. CASE BeginProvision(c)
    BY <1>2, <2>0, <2>1 DEF BeginProvision, BeginPass, ProvGoes, ProvPC, Ensure, object, TypeInv
  <2>2. CASE EnsureCluster(c)
    BY <1>2, <2>0, <2>2 DEF EnsureCluster, ProvGoes, ProvPC, Ensure, object, TypeInv
  <2>3. CASE ApplySecret(c)
    BY <1>2, <2>0, <2>3 DEF ApplySecret, ProvGoes, ProvPC, Ensure, object, TypeInv
  <2>4. CASE GetRoles(c)
    BY <1>2, <2>0, <2>4 DEF GetRoles, ProvGoes, ProvPC, Ensure, object, TypeInv
  <2>5. CASE UpsertManagedRole(c)
    BY <1>2, <2>0, <2>5 DEF UpsertManagedRole, ProvGoes, Replace, MergeRole, ProvPC, Ensure, object, TypeInv
  <2>6. CASE UpsertConflicts(c)
    BY <1>2, <2>0, <2>6 DEF UpsertConflicts, ProvGoes, ProvPC, Ensure, object, TypeInv
  <2>7. CASE ApplyDatabase(c)
    BY <1>2, <2>0, <2>7 DEF ApplyDatabase, ProvGoes, ProvPC, Ensure, object, TypeInv
  <2>8. CASE WriteReady(c)
    BY <1>2, <2>0, <2>8 DEF WriteReady, ProvGoes, ProvPC, Ensure, object, TypeInv
  <2>9. CASE CancelSnapshot(c)
    BY <1>2, <2>0, <2>9 DEF CancelSnapshot, ProvGoes, ProvPC, Ensure, object, TypeInv
  <2>10. CASE FindSnapshot(c)
    BY <1>2, <2>0, <2>10 DEF FindSnapshot, BeginPass, ProvGoes, ProvPC, Ensure, object, TypeInv
  <2>11. CASE TakeSnapshot(c)
    BY <1>2, <2>0, <2>11 DEF TakeSnapshot, ProvGoes, ProvPC, Ensure, object, TypeInv
  <2>12. CASE Unfinalize(c)
    BY <1>2, <2>0, <2>12 DEF Unfinalize, ProvGoes, ProvPC, Ensure, object, TypeInv
  <2> HIDE DEF RoleInv
  <2> QED
    BY <1>2, <2>1, <2>2, <2>3, <2>4, <2>5, <2>6, <2>7, <2>8, <2>9, <2>10, <2>11, <2>12 DEF ProvStep
<1>3. ASSUME NEW c \in Claim, GcStep(c), Serve
      PROVE  RoleInv'
  <2>0. UNCHANGED <<prov, pgRole, pgDb, observed, status>>
    BY <1>3 DEF GcStep, postgres
  <2>1. CASE BeginCollect(c)
    BY <1>3, <2>0, <2>1 DEF BeginCollect, Settled, GcGoes, GcPC, Ensure, object, TypeInv
  <2>2. CASE RemoveDatabase(c)
    BY <1>3, <2>0, <2>2 DEF RemoveDatabase, GcGoes, GcPC, Ensure, object, TypeInv
  <2>3. CASE GetCluster(c)
    BY <1>3, <2>0, <2>3 DEF GetCluster, DeclaredAbsent, RoleIsDropped, GcGoes, GcPC, Ensure, object, TypeInv
  <2>4. CASE GcGetRoles(c)
    BY <1>3, <2>0, <2>4 DEF GcGetRoles, GcGoes, GcPC, Ensure, object, TypeInv
  <2>5. CASE SetRoleAbsent(c)
    BY <1>3, <2>0, <2>5 DEF SetRoleAbsent, GcGoes, Replace, MergeRole, GcPC, Ensure, object, TypeInv
  <2>6. CASE RemoveManagedRole(c)
    BY <1>3, <2>0, <2>6 DEF RemoveManagedRole, GcGoes, Replace, RemoveRole, GcPC, Ensure, object, TypeInv
  <2>7. CASE GcConflicts(c)
    BY <1>3, <2>0, <2>7 DEF GcConflicts, GcGoes, GcPC, Ensure, object, TypeInv
  <2>8. CASE DeletePasswordSecret(c)
    BY <1>3, <2>0, <2>8 DEF DeletePasswordSecret, GcGoes, GcPC, Ensure, object, TypeInv
  <2>9. CASE DeleteRetainedClaim(c)
    BY <1>3, <2>0, <2>9 DEF DeleteRetainedClaim, GcGoes, GcPC, Ensure, object, TypeInv
  <2> HIDE DEF RoleInv
  <2> QED
    BY <1>3, <2>1, <2>2, <2>3, <2>4, <2>5, <2>6, <2>7, <2>8, <2>9 DEF GcStep
<1>4. ASSUME NEW c \in Claim, PassEnds(c) \/ Create(c) \/ Delete(c) \/ GraceElapses(c), Serve
      PROVE  RoleInv'
  <2>1. CASE PassEnds(c)
    BY <1>4, <2>1 DEF PassEnds, ProvGoes, GcGoes, ProvPC, GcPC, object, postgres, TypeInv
  <2>2. CASE Create(c)
    BY <1>4, <2>2 DEF Create, Undisturbed, object, postgres, TypeInv
  <2>3. CASE Delete(c)
    BY <1>4, <2>3 DEF Delete, Undisturbed, object, postgres, TypeInv
  <2>4. CASE GraceElapses(c)
    BY <1>4, <2>4 DEF GraceElapses, postgres, TypeInv
  <2> HIDE DEF RoleInv
  <2> QED
    BY <1>4, <2>1, <2>2, <2>3, <2>4
<1>5. ASSUME CnpgStep, Serve PROVE RoleInv'
  <2>0. UNCHANGED <<claim, object, prov, gc>>
    BY <1>5 DEF CnpgStep
  <2>1. CASE CnpgReads
    BY <2>0, <2>1 DEF CnpgReads, object, TypeInv
  <2>2. CASE CnpgSyncs
    <3>1. PICK list \in observed : CnpgSyncs!(list)
      BY <2>2 DEF CnpgSyncs
    <3>2. /\ pgRole' = {c \in pgRole : list[c] = "absent" => c \in pgDb}
                       \cup {c \in Claim : list[c] = "present"}
          /\ observed' = {}
      BY <3>1
    <3>3. ASSUME NEW c \in Claim
          PROVE  /\ status'[c].ensure = list[c]
                 /\ status'[c].reconciled =
                      (list[c] = "present" \/ (list[c] = "absent" /\ (c \in pgRole => c \notin pgDb)))
      BY <3>1
    <3>4. UNCHANGED <<roles, gc>>
      BY <2>0 DEF object
    <3>5. ASSUME NEW c \in Claim
          PROVE  /\ status'[c].ensure = "absent" /\ status'[c].reconciled => c \notin pgRole'
                 /\ c \in pgRole' => roles'[c] # "none"
      BY <3>2, <3>3, <3>4
    <3>6. ASSUME NEW c \in Claim, gc[c] \in {"database", "cluster", "getPrune", "prune"},
                 roles[c] = "absent"
          PROVE  status'[c].ensure = "absent"
      BY <3>3, <3>6
    <3>7. ASSUME NEW c \in Claim, gc[c] \in {"getPrune", "prune"}
          PROVE  roles[c] = "absent" /\ status'[c].reconciled
      <4>1. roles[c] = "absent" /\ c \notin pgRole /\ list[c] = "absent"
        BY <3>7
      <4> QED
        BY <3>3, <4>1
    <3> QED
      BY <3>2, <3>4, <3>5, <3>6, <3>7
  <2>3. ASSUME NEW c \in Claim, CnpgDatabase(c) PROVE RoleInv'
    BY <2>0, <2>3 DEF CnpgDatabase, object, TypeInv
  <2> HIDE DEF RoleInv
  <2> QED
    BY <1>5, <2>1, <2>2, <2>3 DEF CnpgStep
<1> HIDE DEF RoleInv
<1> QED
  BY <1>1, <1>2, <1>3, <1>4, <1>5 DEF Next

\* The initial state satisfies every part.
LEMMA InvInit == Init => TypeInv /\ CollectInv /\ BackedInv /\ RoleInv
<1> SUFFICES ASSUME Init PROVE TypeInv /\ CollectInv /\ BackedInv /\ RoleInv
  OBVIOUS
<1>1. TypeInv
  BY DEF Init, NoList, Ensure, ProvPC, GcPC, TypeInv
<1>2. CollectInv
  BY DEF Init, CollectInv, Collecting
<1>3. BackedInv /\ RoleInv
  BY DEF Init, BackedInv, RoleInv
<1> QED
  BY <1>1, <1>2, <1>3

\* No role in Postgres is orphaned, for any set of claims created, deleted,
\* dropped and created again, any number of passes that end early and any delay
\* of CloudNativePG between two of them: the GC prunes an entry only when the
\* report it reads is about the absent entry, if CNPG reports between two passes
\* and nobody provisions a claim that is being dropped (gc.rs's phases).
THEOREM NoRoleLeakEver ==
  ASSUME QuietGC, PromptCnpg
  PROVE  Spec => []NoRoleLeak
<1> DEFINE Inv == TypeInv /\ CollectInv /\ RoleInv
<1>1. Init => Inv
  BY InvInit
<1>2. Inv /\ [Next]_vars => Inv'
  BY TypeStep, CollectStep, RoleStep
<1>3. Inv => NoRoleLeak
  BY DEF TypeInv, RoleInv, NoRoleLeak
<1> QED
  BY <1>1, <1>2, <1>3, PTL DEF Spec

\* What a user counts on stays declared: a claim that has been ready keeps its
\* Database object until its grace period has run out, and a ready one its role
\* entry and password too, whoever else writes the list of roles and wherever a
\* pass ended, if nobody provisions a claim that is being dropped (the live
\* guard of gc.rs, upsert_role_entry).
THEOREM ServedIsBackedEver ==
  ASSUME QuietGC
  PROVE  Spec => []ServedIsBacked
<1> DEFINE Inv == TypeInv /\ CollectInv /\ BackedInv
<1>1. Init => Inv
  BY InvInit
<1>2. Inv /\ [Next]_vars => Inv'
  BY TypeStep, CollectStep, BackedStep
<1>3. Inv => ServedIsBacked
  BY DEF TypeInv, BackedInv, ServedIsBacked
<1> QED
  BY <1>1, <1>2, <1>3, PTL DEF Spec
=============================================================================
