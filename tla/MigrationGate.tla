---------------------------- MODULE MigrationGate ----------------------------
(***************************************************************************)
(* The migration gate of one Application: the application controller       *)
(* (application/lib.rs), the migration controller that runs an approved    *)
(* plan (migration/reconcile.rs), the decision table they share            *)
(* (migration_state.rs) and the people who edit the spec and approve.      *)
(*                                                                         *)
(* A pass compares the spec with the baseline, the spec of the last        *)
(* finished pass.  If the difference is destructive it writes a plan and   *)
(* pauses until somebody has approved exactly that difference; else, or    *)
(* then, it removes claims, applies the children one by one and stamps the *)
(* new baseline.  The spec may change at any time and a pass may end       *)
(* anywhere, with a request still on its way.                              *)
(*                                                                         *)
(* A spec is a number of replicas and whether it needs a database: the two *)
(* destructive edits are the removal of the need and a scale to zero.      *)
(***************************************************************************)
EXTENDS Integers, FiniteSets

CONSTANTS
  MaxReplicas,     \* bound: replicas a spec asks for
  MaxEdits,        \* bound: edits of the spec
  MaxFails,        \* bound: passes that end early and requests that fail
  MaxLate,         \* bound: requests of abandoned passes under way at once
  LateKinds        \* requests of an abandoned pass that may still be carried out

ASSUME ConstantsAssumption ==
  /\ MaxReplicas \in Nat /\ MaxEdits \in Nat /\ MaxFails \in Nat /\ MaxLate \in Nat
  /\ LateKinds \subseteq {"delete", "create", "pause", "prune", "claim", "render", "stamp"}

VARIABLES
  app,      \* the stored Application: spec and status.lastAppliedSpec
  before,   \* the Application as it was before the controller's last status write
  running,  \* the spec the Deployment was rendered from
  claim,    \* the ResourceClaim for the database
  plans,    \* its MigrationPlans, by the number in their name
  named,    \* the last number a plan was named by: its second of creation
  pass,     \* the pass in progress
  late,     \* abandoned passes whose last request is still under way
  used,     \* the plan whose approval was used last
  overtaken,\* a late request has undone what the last stamp or LIST stood for
  edits, fails

vars == <<app, before, running, claim, plans, named, pass, late, used, overtaken, edits, fails>>

Spec == [replicas : 0 .. MaxReplicas, pg : BOOLEAN]
None == [replicas |-> -1, pg |-> FALSE]   \* nothing rendered, nothing stamped

\* plan: the plan the pass consumes, 0 for none; doomed: the plans it has still to delete.
Idle == [pc |-> "idle", spec |-> None, baseline |-> None, plan |-> 0, doomed |-> {}]

Init ==
  /\ app \in [spec : Spec, baseline : {None}]
  /\ before = app
  /\ running = None /\ claim = "none"
  /\ plans = <<>> /\ named = 0 /\ pass = Idle /\ late = {}
  /\ used = 0 /\ overtaken = FALSE
  /\ edits = 0 /\ fails = 0

---------------------------------------------------------------------------
(* Detection and decision. *)

\* detect_all.  An Application that was never stamped is not gated.
DetectAll(old, new) ==
  IF old = None THEN {}
  ELSE (IF old.pg /\ ~new.pg THEN {[type |-> "needs-removal", from |-> 1]} ELSE {})
       \cup (IF old.replicas > 0 /\ new.replicas = 0
             THEN {[type |-> "scale-to-zero", from |-> old.replicas]} ELSE {})

\* pick_primary: the loss of data outranks the restart.
Primary(changes) ==
  IF \E c \in changes : c.type = "needs-removal" THEN "needs-removal" ELSE "scale-to-zero"

\* Mutant: an approval is good for every change of its kind.
ApprovesTrigger(plan, changes) == plan.trigger = Primary(changes)

\* plan_hash_matches: for these changes, all of them, and no others.
Approves(plan, changes) == plan.trigger = Primary(changes) /\ plan.changes = changes

\* Mutant: a completed plan goes on gating what it was approved for.
BlocksUntilDeleted(plan) == TRUE

\* plan_is_blocking
Blocks(plan) == plan.phase # "completed"

\* A LIST is in the order of the names, so a plan that was asked for first is
\* first, whenever it was written.
First(names) == CHOOSE n \in names : \A k \in names : n <= k

\* pick_any_key_plan
HeadPlan == First(DOMAIN plans)

\* plan_state: what the plan means for these changes.
PlanState(plan, changes) ==
  CASE plan.phase = "failed"                   -> "failed"
    [] plan.phase # "failed" /\ Blocks(plan)   ->
         IF plan.trigger = Primary(changes) THEN "match" ELSE "mismatch"
    [] OTHER -> IF Approves(plan, changes) THEN "completed" ELSE "relic"

\* decide
Decide(changes) ==
  IF DOMAIN plans = {} THEN IF changes = {} THEN "Render" ELSE "CreatePlan"
  ELSE IF changes = {} THEN "DeleteThenRender"
  ELSE LET state == PlanState(plans[HeadPlan], changes) IN
       CASE state = "match"                  -> "NoOp"
         [] state \in {"mismatch", "relic"}  -> "DeleteThenCreate"
         [] state = "failed"                 -> "BlockFailed"
         [] state = "completed"              -> "ConsumeApply"

---------------------------------------------------------------------------
(* A pass of the application controller; every request is a step. *)

MayFail == fails < MaxFails /\ fails' = fails + 1

At(pc) == pass.pc = pc
Go(pc) == pass' = [pass EXCEPT !.pc = pc]
Changes == DetectAll(pass.baseline, pass.spec)

StartFrom(seen) ==
  pass' = [Idle EXCEPT !.pc = "decide", !.spec = seen.spec, !.baseline = seen.baseline]

\* The watch has delivered the Application, and delivers nothing older any more.
Begin ==
  /\ At("idle")
  /\ StartFrom(app)
  /\ before' = app
  /\ UNCHANGED <<app, running, claim, plans, named, late, used, overtaken, edits, fails>>

\* The watch has not delivered the controller's own last status yet.
BeginStale ==
  /\ At("idle") /\ before.baseline # app.baseline /\ MayFail
  /\ StartFrom(before)
  /\ overtaken' = TRUE
  /\ UNCHANGED <<app, before, running, claim, plans, named, late, used, edits>>

\* The LIST of plans and the arm it leads to.
ListPlans ==
  /\ At("decide")
  /\ LET d == Decide(Changes) IN
       pass' = [pass EXCEPT
                 !.pc = CASE d \in {"Render", "ConsumeApply"}            -> "prune"
                          [] d \in {"DeleteThenRender", "DeleteThenCreate"} -> "list"
                          [] d = "CreatePlan"                            -> "create"
                          [] d \in {"NoOp", "BlockFailed"}               -> "pause",
                 !.plan = IF d = "ConsumeApply" THEN HeadPlan ELSE 0]
  /\ UNCHANGED <<app, before, running, claim, plans, named, late, used, overtaken, edits, fails>>

\* delete_all_key_plans_except: before a new plan, before the render, and after
\* the stamp that used an approval.  A plan that lands after the LIST is spared.
ListDoomed ==
  /\ At("list")
  /\ pass' = [pass EXCEPT !.pc = "delete", !.doomed = DOMAIN plans]
  /\ UNCHANGED <<app, before, running, claim, plans, named, late, used, overtaken, edits, fails>>

Without(n) == [k \in DOMAIN plans \ {n} |-> plans[k]]

\* One DELETE after the other, in the order of the LIST; a plan already gone is no error.
DeletePlan ==
  /\ At("delete") /\ pass.doomed # {}
  /\ plans' = Without(First(pass.doomed))
  /\ pass' = [pass EXCEPT !.doomed = @ \ {First(@)}]
  /\ UNCHANGED <<app, before, running, claim, named, late, used, overtaken, edits, fails>>

\* Mutant: a plan is written though nothing is destructive any more.
DeletedThenCreate ==
  /\ At("delete") /\ pass.doomed = {}
  /\ pass' = IF pass.plan # 0 THEN Idle ELSE [pass EXCEPT !.pc = "create"]
  /\ UNCHANGED <<app, before, running, claim, plans, named, late, used, overtaken, edits, fails>>

Deleted ==
  /\ At("delete") /\ pass.doomed = {}
  /\ pass' = IF pass.plan # 0 THEN Idle
             ELSE [pass EXCEPT !.pc = IF Changes = {} THEN "prune" ELSE "create"]
  /\ UNCHANGED <<app, before, running, claim, plans, named, late, used, overtaken, edits, fails>>

NewPlan(changes) == [trigger |-> Primary(changes), changes |-> changes, phase |-> "pending"]

\* ssa_apply_plan
With(n, plan) == [k \in DOMAIN plans \cup {n} |-> IF k = n THEN plan ELSE plans[k]]

\* plan_name: later than every plan asked for before.
NewName == named + 1

\* create_plan_for and ssa_apply_plan
CreatePlan ==
  /\ At("create")
  /\ plans' = With(NewName, NewPlan(Changes))
  /\ named' = NewName
  /\ Go("pause")
  /\ UNCHANGED <<app, before, running, claim, late, used, overtaken, edits, fails>>

\* apply_status writes the whole status.
WriteBaseline(b) ==
  /\ app' = [app EXCEPT !.baseline = b]
  /\ before' = app

\* A paused status carries the baseline of the Application the pass started from.
Pause ==
  /\ At("pause")
  /\ WriteBaseline(pass.baseline)
  /\ pass' = Idle
  /\ UNCHANGED <<running, claim, plans, named, late, used, overtaken, edits, fails>>

\* prune_orphaned_claims: the claim the spec does not declare is deleted; its
\* finalizer keeps it for a while, with the status it had.
Leaving == [pending |-> "dropped", ready |-> "deleting"]

DeleteClaim == claim' = IF claim \in DOMAIN Leaving THEN Leaving[claim] ELSE claim

Prune ==
  /\ At("prune")
  /\ IF pass.spec.pg THEN UNCHANGED claim ELSE DeleteClaim
  /\ Go(IF pass.spec.pg THEN "claim" ELSE "render")
  /\ UNCHANGED <<app, before, running, plans, named, late, used, overtaken, edits, fails>>

\* A delete that fails is logged, and the pass goes on.
PruneFails ==
  /\ At("prune") /\ ~pass.spec.pg /\ claim \in DOMAIN Leaving /\ MayFail
  /\ Go("render")
  /\ UNCHANGED <<app, before, running, claim, plans, named, late, used, overtaken, edits>>

\* The claim is applied, which does not revive one that is being deleted, and
\* read back.  Until it is ready the Application is paused, unstamped.
WriteClaim == claim' = IF claim = "none" THEN "pending" ELSE claim

ApplyClaim ==
  /\ At("claim")
  /\ WriteClaim
  /\ Go(IF claim \in {"ready", "deleting"} THEN "render" ELSE "pause")
  /\ UNCHANGED <<app, before, running, plans, named, late, used, overtaken, edits, fails>>

\* The spec is invalid, or a Secret that its environment names is missing: the
\* pass writes why and applies nothing more.
Unresolved ==
  /\ pass.pc \in {"decide", "render"} /\ MayFail
  /\ Go("pause")
  /\ UNCHANGED <<app, before, running, claim, plans, named, late, used, overtaken, edits>>

Render ==
  /\ At("render")
  /\ running' = pass.spec
  /\ Go("rest")
  /\ UNCHANGED <<app, before, claim, plans, named, late, used, overtaken, edits, fails>>

\* Service, network policy, route and autoscaler.
ApplyRest ==
  /\ At("rest")
  /\ Go("stamp")
  /\ UNCHANGED <<app, before, running, claim, plans, named, late, used, overtaken, edits, fails>>

\* with_stamped_baseline; the approval is used up.
Stamp ==
  /\ At("stamp")
  /\ WriteBaseline(pass.spec)
  /\ used' = IF pass.plan # 0 THEN pass.plan ELSE used
  /\ overtaken' = FALSE
  /\ pass' = IF pass.plan # 0 THEN [pass EXCEPT !.pc = "list"] ELSE Idle
  /\ UNCHANGED <<running, claim, plans, named, late, edits, fails>>

---------------------------------------------------------------------------
(* Failures: an error, the deadline, the end of the process. *)

\* The request the pass is waiting for, if it makes one and it can be late.  A
\* plan is named when it is asked for.
InFlight ==
  {p \in {[pass EXCEPT !.plan = IF At("create") THEN NewName ELSE @]} :
     /\ pass.pc \in LateKinds /\ Cardinality(late) < MaxLate
     /\ At("delete") => pass.doomed # {}
     /\ At("prune") => ~pass.spec.pg /\ claim \in DOMAIN Leaving}

\* The pass ends and its request is lost, or still to be carried out.
PassFails ==
  /\ ~At("idle") /\ MayFail
  /\ late' \in {late, late \cup InFlight}
  /\ named' = IF At("create") THEN NewName ELSE named
  /\ pass' = Idle
  /\ UNCHANGED <<app, before, running, claim, plans, used, overtaken, edits>>

LatePlan(w) ==
  /\ w.pc = "create"
  /\ plans' = With(w.plan, NewPlan(DetectAll(w.baseline, w.spec)))
  /\ UNCHANGED <<app, before, running, claim, overtaken>>

LateDelete(w) ==
  /\ w.pc = "delete"
  /\ plans' = Without(First(w.doomed))
  /\ overtaken' = TRUE
  /\ UNCHANGED <<app, before, running, claim>>

LateStatus(w) ==
  /\ w.pc \in {"pause", "stamp"}
  /\ WriteBaseline(IF w.pc = "stamp" THEN w.spec ELSE w.baseline)
  /\ overtaken' = TRUE
  /\ UNCHANGED <<running, claim, plans>>

LateClaim(w) ==
  /\ \/ w.pc = "prune" /\ DeleteClaim
     \/ w.pc = "claim" /\ WriteClaim
  /\ UNCHANGED <<app, before, running, plans, overtaken>>

LateRender(w) ==
  /\ w.pc = "render"
  /\ running' = w.spec
  /\ UNCHANGED <<app, before, claim, plans, overtaken>>

---------------------------------------------------------------------------
(* The migration controller.  A plan of an Application has no steps, and the *)
(* webhook refuses every write that is out of order.                         *)

SetPhase(n, from, to) ==
  /\ plans[n].phase = from
  /\ plans' = [plans EXCEPT ![n].phase = to]

Execute(n) ==
  /\ SetPhase(n, "approved", "executing")
  /\ UNCHANGED <<app, before, running, claim, named, pass, late, used, overtaken, edits, fails>>

Complete(n) ==
  /\ SetPhase(n, "executing", "completed")
  /\ UNCHANGED <<app, before, running, claim, named, pass, late, used, overtaken, edits, fails>>

---------------------------------------------------------------------------
(* People, and the controllers behind a claim. *)

Edit(s) ==
  /\ edits < MaxEdits /\ s # app.spec
  /\ app' = [app EXCEPT !.spec = s]
  /\ edits' = edits + 1
  /\ UNCHANGED <<before, running, claim, plans, named, pass, late, used, overtaken, fails>>

Approve(n) ==
  /\ SetPhase(n, "pending", "approved")
  /\ UNCHANGED <<app, before, running, claim, named, pass, late, used, overtaken, edits, fails>>

\* An administrator ends a plan that is being executed.
AdminFails(n) ==
  /\ SetPhase(n, "executing", "failed")
  /\ MayFail
  /\ UNCHANGED <<app, before, running, claim, named, pass, late, used, overtaken, edits>>

\* The paused Application asks for the manual deletion of a failed plan.
DeleteFailed(n) ==
  /\ plans[n].phase = "failed"
  /\ plans' = Without(n)
  /\ UNCHANGED <<app, before, running, claim, named, pass, late, used, overtaken, edits, fails>>

Provision ==
  /\ claim = "pending" /\ claim' = "ready"
  /\ UNCHANGED <<app, before, running, plans, named, pass, late, used, overtaken, edits, fails>>

Finalize ==
  /\ claim \in {"dropped", "deleting"} /\ claim' = "none"
  /\ UNCHANGED <<app, before, running, plans, named, pass, late, used, overtaken, edits, fails>>

---------------------------------------------------------------------------
PassStep ==
  \/ Begin \/ ListPlans \/ ListDoomed \/ DeletePlan \/ Deleted \/ CreatePlan \/ Pause
  \/ Prune \/ ApplyClaim \/ Render \/ ApplyRest \/ Stamp

LateStep ==
  \E w \in late :
    /\ LatePlan(w) \/ LateDelete(w) \/ LateStatus(w) \/ LateClaim(w) \/ LateRender(w)
    /\ late' = late \ {w}
    /\ UNCHANGED <<named, pass, used, edits, fails>>

PlanStep(n) == Execute(n) \/ Complete(n)
PersonStep(n) == Approve(n) \/ DeleteFailed(n)

Next ==
  \/ PassStep \/ BeginStale \/ PruneFails \/ Unresolved \/ PassFails \/ LateStep
  \/ Provision \/ Finalize
  \/ \E s \in Spec : Edit(s)
  \/ \E n \in DOMAIN plans : PlanStep(n) \/ PersonStep(n) \/ AdminFails(n)

GateSpec == Init /\ [][Next]_vars

\* Every Application is requeued, both controllers and the provisioner get on,
\* and people answer what they are asked.
LiveSpec ==
  /\ GateSpec
  /\ WF_vars(PassStep) /\ WF_vars(LateStep) /\ WF_vars(Provision) /\ WF_vars(Finalize)
  /\ WF_vars(\E n \in DOMAIN plans : PlanStep(n))
  /\ WF_vars(\E n \in DOMAIN plans : PersonStep(n))

---------------------------------------------------------------------------
ChangeType == [type : {"needs-removal", "scale-to-zero"}, from : 1 .. MaxReplicas \cup {1}]
Changed == (SUBSET ChangeType) \ {{}}
AppType == [spec : Spec, baseline : Spec \cup {None}]
PlanType == [trigger : {"needs-removal", "scale-to-zero"}, changes : Changed,
             phase : {"pending", "approved", "executing", "completed", "failed"}]
Specs == Spec \cup {None}
PCs == {"idle", "decide", "list", "delete", "create", "pause", "prune", "claim", "render",
        "rest", "stamp"}
PassType == [pc : PCs, spec : Specs, baseline : Specs, plan : 0 .. named,
             doomed : SUBSET (1 .. named)]

ClaimType == {"none", "pending", "ready", "dropped", "deleting"}

\* The type of every variable: a plan, written in time or late, always names
\* something to approve.
TypeOK ==
  /\ app \in AppType /\ before \in AppType
  /\ running \in Specs
  /\ claim \in ClaimType
  /\ named \in Nat /\ used \in 0 .. named
  /\ DOMAIN plans \subseteq 1 .. named /\ plans \in [DOMAIN plans -> PlanType]
  /\ pass \in PassType /\ (pass = Idle \/ pass.spec \in Spec)
  /\ late \subseteq PassType
  /\ \A w \in late : w.pc \in LateKinds /\ w.spec \in Spec
                    /\ (w.pc = "create" => DetectAll(w.baseline, w.spec) # {})
  /\ overtaken \in BOOLEAN
  /\ edits \in 0 .. MaxEdits /\ fails \in 0 .. MaxFails

\* A pass removes the claim or changes the Deployment.  What an abandoned pass had
\* asked for was decided while it ran.
Destroys == (Prune /\ claim' # claim) \/ (Render /\ running' # running)

Approved == {n \in DOMAIN plans : plans[n].phase \in {"approved", "executing", "completed"}}

\* No child is touched by a pass whose spec differs destructively from the
\* baseline unless somebody has approved exactly those changes: an approval covers
\* all of the changes and no others, is void once its plan was deleted, and is not
\* used twice running, whatever is edited or abandoned meanwhile, a plan written
\* late comes before it or a deletion stops half way (plan_state: the approval binds
\* every change, so none can "ride along UNHASHED").  A pass that goes by an older
\* baseline than the last stamp, or whose plan a late DELETE takes away, is beyond
\* that promise.
GatedByApproval ==
  [][Destroys /\ ~overtaken =>
       LET changes == DetectAll(app.baseline, pass.spec) IN
       changes = {} \/ \E n \in Approved \ {used} : plans[n].changes = changes]_vars

\* Once people stop editing, the Application is what its spec says, without a
\* plan left over, though passes were abandoned anywhere, their requests carried out
\* late and in another order, and plans written twice and deleted in part
\* (reconcile_with_deadline: "leaves nothing the next pass cannot repair").
Converges ==
  <>[](/\ app.baseline = app.spec /\ running = app.spec
       /\ claim = IF app.spec.pg THEN "ready" ELSE "none"
       /\ DOMAIN plans = {})
=============================================================================
