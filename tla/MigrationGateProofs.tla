------------------------- MODULE MigrationGateProofs -------------------------
(***************************************************************************)
(* Proofs about MigrationGate, for every bound on replicas, edits,         *)
(* failures and late requests and every kind of late request.              *)
(***************************************************************************)
EXTENDS MigrationGate, WellFoundedInduction, TLAPS

\* A pass that applies children, and one that still goes by its baseline.
ApplyPC == {"prune", "claim", "render", "rest", "stamp"}
Unstamped == pass.pc # "idle" /\ ~(pass.pc \in {"list", "delete"} /\ pass.plan # 0)

\* What a pass knows once it has listed the plans.  The plan it consumes need not
\* be the first of them any more.
PassInv ==
  /\ Unstamped /\ ~overtaken => pass.baseline = app.baseline
  /\ pass.pc = "create" => Changes # {}
  /\ pass.pc = "delete" /\ pass.plan = 0 /\ used \in DOMAIN plans => used \in pass.doomed
  /\ pass.pc \in ApplyPC /\ pass.plan = 0 => Changes = {} /\ used \notin DOMAIN plans
  /\ pass.pc \in ApplyPC /\ pass.plan # 0 =>
       /\ Changes # {}
       /\ pass.plan \in DOMAIN plans =>
            plans[pass.plan].phase = "completed" /\ plans[pass.plan].changes = Changes
       /\ ~overtaken => pass.plan \in DOMAIN plans /\ pass.plan # used

\* A late plan has a name of its own, whatever was written before it.
NameInv ==
  /\ \A w \in late : w.pc = "create" =>
       w.plan # 0 /\ w.plan \notin DOMAIN plans /\ w.plan # used /\ w.plan # pass.plan
  /\ \A v, w \in late : v.pc = "create" /\ w.pc = "create" /\ v.plan = w.plan => v = w

\* Why an approval cannot be used twice running: a plan that outlives its use
\* matches nothing that can be asked of the baseline it led to.
SpentInv ==
  ~overtaken /\ used \in DOMAIN plans =>
    \A s \in Spec : DetectAll(app.baseline, s) # plans[used].changes

---------------------------------------------------------------------------
\* What detect_all finds has the type of a change.
LEMMA DetectType ==
  ASSUME NEW old \in Specs, NEW new \in Specs
  PROVE  DetectAll(old, new) \in SUBSET ChangeType
<1>1. CASE old = None
  BY <1>1 DEF DetectAll
<1>2. CASE old # None
  <2>1. old \in Spec
    BY <1>2 DEF Specs
  <2>2. old.replicas \in 0 .. MaxReplicas
    BY <2>1 DEF Spec
  <2>3. old.replicas > 0 => old.replicas \in 1 .. MaxReplicas
    BY <2>2, ConstantsAssumption
  <2>4. [type |-> "needs-removal", from |-> 1] \in ChangeType
    BY DEF ChangeType
  <2>5. old.replicas > 0 => [type |-> "scale-to-zero", from |-> old.replicas] \in ChangeType
    BY <2>3 DEF ChangeType
  <2> QED
    BY <1>2, <2>4, <2>5 DEF DetectAll
<1> QED
  BY <1>1, <1>2

\* A destructive difference cannot be had again from the spec it led to.
LEMMA UsedUp ==
  ASSUME NEW old \in Specs, NEW new \in Spec, NEW s \in Spec,
         DetectAll(old, new) # {}
  PROVE  DetectAll(new, s) # DetectAll(old, new)
<1>1. new # None
  BY ConstantsAssumption DEF Spec, None
<1>2. CASE [type |-> "needs-removal", from |-> 1] \in DetectAll(old, new)
  <2>1. ~new.pg
    BY <1>2 DEF DetectAll
  <2>2. [type |-> "needs-removal", from |-> 1] \notin DetectAll(new, s)
    BY <1>1, <2>1 DEF DetectAll
  <2> QED
    BY <1>2, <2>2
<1>3. CASE [type |-> "scale-to-zero", from |-> old.replicas] \in DetectAll(old, new)
  <2>1. new.replicas = 0
    BY <1>3 DEF DetectAll
  <2>2. [type |-> "scale-to-zero", from |-> old.replicas] \notin DetectAll(new, s)
    BY <1>1, <2>1 DEF DetectAll
  <2> QED
    BY <1>3, <2>2
<1> QED
  BY <1>2, <1>3 DEF DetectAll

(* The parts of the type invariant, each for the names up to k. *)

PassesTo(k) == [pc : PCs, spec : Specs, baseline : Specs, plan : 0 .. k, doomed : SUBSET (1 .. k)]
PlansOK(p, k) == DOMAIN p \subseteq 1 .. k /\ p \in [DOMAIN p -> PlanType]
PassOK(q, k) == q \in PassesTo(k) /\ (q = Idle \/ q.spec \in Spec)
LateOK(w, k) ==
  /\ w \in PassesTo(k) /\ w.pc \in LateKinds /\ w.spec \in Spec
  /\ w.pc = "create" => DetectAll(w.baseline, w.spec) # {}
NamesOK(k, u) == k \in Nat /\ u \in 0 .. k

\* The type invariant is its parts, before a step and after it.
LEMMA TypeParts ==
  /\ TypeOK <=>
       /\ app \in AppType /\ before \in AppType /\ running \in Specs /\ claim \in ClaimType
       /\ NamesOK(named, used) /\ PlansOK(plans, named) /\ PassOK(pass, named)
       /\ \A w \in late : LateOK(w, named)
       /\ overtaken \in BOOLEAN /\ edits \in 0 .. MaxEdits /\ fails \in 0 .. MaxFails
  /\ TypeOK' <=>
       /\ app' \in AppType /\ before' \in AppType /\ running' \in Specs /\ claim' \in ClaimType
       /\ NamesOK(named', used') /\ PlansOK(plans', named') /\ PassOK(pass', named')
       /\ \A w \in late' : LateOK(w, named')
       /\ overtaken' \in BOOLEAN /\ edits' \in 0 .. MaxEdits /\ fails' \in 0 .. MaxFails
BY DEF TypeOK, NamesOK, PlansOK, PassOK, LateOK, PassesTo, PassType

\* What has its type keeps it when one more name is given.
LEMMA Grow ==
  ASSUME NEW k \in Nat
  PROVE  /\ \A u : NamesOK(k, u) => NamesOK(k + 1, u)
         /\ \A p : PlansOK(p, k) => PlansOK(p, k + 1)
         /\ \A q : PassOK(q, k) => PassOK(q, k + 1)
         /\ \A w : LateOK(w, k) => LateOK(w, k + 1)
<1>1. 0 .. k \subseteq 0 .. k + 1 /\ 1 .. k \subseteq 1 .. k + 1 /\ k + 1 \in Nat
  OBVIOUS
<1>2. PassesTo(k) \subseteq PassesTo(k + 1)
  BY <1>1 DEF PassesTo
<1> QED
  BY <1>1, <1>2, Zenon DEF NamesOK, PlansOK, PassOK, LateOK

\* The idle pass has the type of a pass.
LEMMA IdleType ==
  ASSUME NEW k \in Nat
  PROVE  PassOK(Idle, k)
BY DEF Idle, PassOK, PassesTo, PCs, Specs

\* A pass that goes on to its next request stays a pass.
LEMMA GoType ==
  ASSUME NEW k \in Nat, NEW q, PassOK(q, k), q # Idle, NEW c \in PCs
  PROVE  /\ PassOK([q EXCEPT !.pc = c], k)
         /\ \A n \in 0 .. k : PassOK([q EXCEPT !.pc = c, !.plan = n], k)
         /\ \A d \in SUBSET (1 .. k) : PassOK([q EXCEPT !.pc = c, !.doomed = d], k)
         /\ \A d \in SUBSET (1 .. k) : PassOK([q EXCEPT !.doomed = d], k)
BY DEF PassOK, PassesTo

\* A pass starts from an Application.
LEMMA StartType ==
  ASSUME NEW k \in Nat, NEW q, PassOK(q, k), NEW seen \in AppType
  PROVE  PassOK([q EXCEPT !.pc = "decide", !.spec = seen.spec, !.baseline = seen.baseline], k)
<1>1. seen.spec \in Spec /\ seen.spec \in Specs /\ seen.baseline \in Specs
  BY DEF AppType, Specs
<1>2. "decide" \in PCs
  BY DEF PCs
<1> QED
  BY <1>1, <1>2 DEF PassOK, PassesTo

\* The least of some names is one of them.
LEMMA FirstIn ==
  ASSUME NEW k \in Nat, NEW names \in SUBSET (1 .. k), names # {}
  PROVE  First(names) \in names
<1>1. names \subseteq Nat
  OBVIOUS
<1>2. PICK x \in names : \A y \in names : ~(<<y, x>> \in OpToRel(<, Nat))
  BY <1>1, NatLessThanWellFounded, WFMin, Zenon
<1>3. \A y \in names : x =< y
  <2> SUFFICES ASSUME NEW y \in names PROVE x =< y
    OBVIOUS
  <2>1. x \in Nat /\ y \in Nat
    BY <1>1
  <2>2. ~(y < x)
    BY <1>2, <2>1 DEF OpToRel
  <2> QED
    BY <2>1, <2>2
<1> QED
  BY <1>3 DEF First

\* A new plan for some changes has the type of a plan.
LEMMA NewPlanType ==
  ASSUME NEW c \in SUBSET ChangeType, c # {}
  PROVE  NewPlan(c) \in PlanType
BY DEF NewPlan, PlanType, Primary, Changed

\* Adding a plan under a name leaves plans.
LEMMA WithType ==
  ASSUME NEW k \in Nat, PlansOK(plans, k), NEW n \in 1 .. k, NEW p \in PlanType
  PROVE  PlansOK(With(n, p), k)
BY DEF PlansOK, With

\* So does taking one away.
LEMMA WithoutType ==
  ASSUME NEW k \in Nat, PlansOK(plans, k), NEW n
  PROVE  PlansOK(Without(n), k)
BY DEF PlansOK, Without

\* What a plan that changes its phase keeps.
LEMMA PhaseSet ==
  ASSUME NEW k \in Nat, PlansOK(plans, k), NEW n \in DOMAIN plans, NEW from,
         NEW to \in {"approved", "executing", "completed", "failed"}, SetPhase(n, from, to)
  PROVE  /\ PlansOK(plans', k)
         /\ DOMAIN plans' = DOMAIN plans
         /\ \A m \in DOMAIN plans : plans'[m].changes = plans[m].changes
         /\ \A m \in DOMAIN plans : m # n => plans'[m] = plans[m]
         /\ plans[n].phase = from
<1>1. plans[n] \in PlanType
  BY DEF PlansOK
<1>2. plans' = [plans EXCEPT ![n] = [plans[n] EXCEPT !.phase = to]] /\ plans[n].phase = from
  BY DEF SetPhase
<1>3. [plans[n] EXCEPT !.phase = to] \in PlanType
      /\ [plans[n] EXCEPT !.phase = to].changes = plans[n].changes
  BY <1>1 DEF PlanType
<1>4. DOMAIN plans' = DOMAIN plans /\ plans'[n] = [plans[n] EXCEPT !.phase = to]
      /\ \A m \in DOMAIN plans : m # n => plans'[m] = plans[m]
  BY <1>2
<1>5. PlansOK(plans', k)
  BY <1>2, <1>3 DEF PlansOK
<1> QED
  BY <1>2, <1>3, <1>4, <1>5

\* What decide answers, and what it takes to go on without a new plan.
LEMMA Decisions ==
  ASSUME NEW c
  PROVE  /\ Decide(c) \in {"Render", "DeleteThenRender", "CreatePlan", "NoOp", "DeleteThenCreate",
                           "BlockFailed", "ConsumeApply"}
         /\ Decide(c) = "Render" => c = {} /\ DOMAIN plans = {}
         /\ Decide(c) = "CreatePlan" => c # {} /\ DOMAIN plans = {}
         /\ Decide(c) = "ConsumeApply" =>
              /\ c # {} /\ DOMAIN plans # {}
              /\ plans[HeadPlan].phase = "completed" /\ plans[HeadPlan].changes = c
<1> DEFINE state == PlanState(plans[HeadPlan], c)
<1>1. state \in {"failed", "match", "mismatch", "completed", "relic"}
  BY DEF PlanState
<1>2. state = "completed" => plans[HeadPlan].phase = "completed" /\ plans[HeadPlan].changes = c
  BY DEF PlanState, Blocks, Approves
<1> HIDE DEF state
<1> QED
  BY <1>1, <1>2 DEF Decide, state

---------------------------------------------------------------------------
\* What the LIST of plans leads to.
LEMMA Listed ==
  ASSUME TypeOK, ListPlans
  PROVE  /\ PassOK(pass', named)
         /\ pass'.pc \in {"prune", "list", "create", "pause"}
         /\ pass'.spec = pass.spec /\ pass'.baseline = pass.baseline
         /\ pass'.pc = "create" => Changes # {} /\ DOMAIN plans = {}
         /\ pass'.pc = "prune" /\ pass'.plan = 0 => Changes = {} /\ DOMAIN plans = {}
         /\ pass'.pc # "prune" => pass'.plan = 0
         /\ pass'.plan # 0 =>
              /\ Changes # {} /\ pass'.plan \in DOMAIN plans
              /\ plans[pass'.plan].phase = "completed" /\ plans[pass'.plan].changes = Changes
<1> DEFINE d == Decide(Changes)
           c == CASE d \in {"Render", "ConsumeApply"}                -> "prune"
                  [] d \in {"DeleteThenRender", "DeleteThenCreate"} -> "list"
                  [] d = "CreatePlan"                               -> "create"
                  [] d \in {"NoOp", "BlockFailed"}                  -> "pause"
           n == IF d = "ConsumeApply" THEN HeadPlan ELSE 0
<1>1. /\ d \in {"Render", "DeleteThenRender", "CreatePlan", "NoOp", "DeleteThenCreate",
                 "BlockFailed", "ConsumeApply"}
      /\ d = "Render" => Changes = {} /\ DOMAIN plans = {}
      /\ d = "CreatePlan" => Changes # {} /\ DOMAIN plans = {}
      /\ d = "ConsumeApply" =>
           /\ Changes # {} /\ DOMAIN plans # {}
           /\ plans[HeadPlan].phase = "completed" /\ plans[HeadPlan].changes = Changes
  BY Decisions, Zenon
<1>2. named \in Nat /\ DOMAIN plans \subseteq 1 .. named /\ PassOK(pass, named)
  BY TypeParts, Zenon DEF NamesOK, PlansOK
<1>3. DOMAIN plans # {} => HeadPlan \in DOMAIN plans
  BY <1>2, FirstIn DEF HeadPlan
<1>4. pass # Idle
  BY DEF ListPlans, At, Idle
<1>5. pass' = [pass EXCEPT !.pc = c, !.plan = n]
  BY Zenon DEF ListPlans
<1> HIDE DEF d
<1>6. c \in {"prune", "list", "create", "pause"}
      /\ (c = "prune" <=> d \in {"Render", "ConsumeApply"}) /\ (c = "create" <=> d = "CreatePlan")
  BY <1>1
<1>7. n \in 0 .. named /\ (n # 0 => d = "ConsumeApply" /\ n = HeadPlan)
      /\ (d = "ConsumeApply" => n \in DOMAIN plans /\ n # 0)
  BY <1>1, <1>2, <1>3
<1> HIDE DEF c, n
<1>8. PassOK(pass', named)
  <2>1. c \in PCs
    BY <1>6 DEF PCs
  <2> QED
    BY <1>2, <1>4, <1>5, <1>7, <2>1, GoType, Zenon
<1>9. pass'.pc = c /\ pass'.plan = n /\ pass'.spec = pass.spec /\ pass'.baseline = pass.baseline
  BY <1>2, <1>5 DEF PassOK, PassesTo
<1> QED
  BY <1>1, <1>6, <1>7, <1>8, <1>9

\* Every step keeps the types; a pass creates a plan only for a difference.
LEMMA TypeStep ==
  ASSUME TypeOK, PassInv, NameInv, [Next]_vars
  PROVE  TypeOK'
<1>0. /\ named \in Nat /\ PlansOK(plans, named) /\ PassOK(pass, named) /\ NamesOK(named, used)
      /\ app \in AppType /\ before \in AppType /\ running \in Specs /\ claim \in ClaimType
      /\ app.spec \in Spec /\ app.baseline \in Specs
      /\ before.spec \in Spec /\ before.baseline \in Specs
      /\ pass.baseline \in Specs /\ pass.spec \in Specs
      /\ \A w \in late : LateOK(w, named)
      /\ overtaken \in BOOLEAN /\ edits \in 0 .. MaxEdits /\ fails \in 0 .. MaxFails
  BY TypeParts DEF AppType, PassOK, PassesTo, Specs, NamesOK
<1>1. ~At("idle") => pass # Idle /\ pass.spec \in Spec
  BY <1>0 DEF At, Idle, PassOK
<1>1a. Changes \in SUBSET ChangeType
  BY <1>0, DetectType DEF Changes
<1>2. MayFail => fails' \in 0 .. MaxFails
  BY <1>0, ConstantsAssumption DEF MayFail
<1>3. \A b \in Specs : [app EXCEPT !.baseline = b] \in AppType
  BY <1>0 DEF AppType, Specs
<1>5. PassOK(Idle, named)
  BY <1>0, IdleType
<1>4. \A seen \in AppType :
        PassOK([Idle EXCEPT !.pc = "decide", !.spec = seen.spec, !.baseline = seen.baseline], named)
  BY <1>0, <1>5, StartType, Zenon
<1>6. CASE Begin
  BY <1>0, <1>4, <1>6, TypeParts, Zenon DEF Begin, StartFrom
<1>7. CASE BeginStale
  BY <1>0, <1>2, <1>4, <1>7, TypeParts, Zenon DEF BeginStale, StartFrom
<1>8. CASE ListPlans
  BY <1>0, <1>8, Listed, TypeParts, Zenon DEF ListPlans
<1>9. CASE ListDoomed
  <2>1. "delete" \in PCs /\ DOMAIN plans \in SUBSET (1 .. named)
    BY <1>0 DEF PCs, PlansOK
  <2>2. pass # Idle
    BY <1>1, <1>9 DEF ListDoomed, At
  <2>3. PassOK(pass', named)
    BY <1>0, <1>9, <2>1, <2>2, GoType, Zenon DEF ListDoomed
  <2> QED
    BY <1>0, <1>9, <2>3, TypeParts, Zenon DEF ListDoomed
<1>10. CASE DeletePlan
  <2>1. pass # Idle /\ pass.doomed \ {First(pass.doomed)} \in SUBSET (1 .. named)
    BY <1>0, <1>1, <1>10 DEF DeletePlan, At, PassOK, PassesTo
  <2>2. pass' = [pass EXCEPT !.doomed = pass.doomed \ {First(pass.doomed)}]
    BY <1>10 DEF DeletePlan
  <2>3. PassOK(pass', named)
    <3>1. "delete" \in PCs
      BY DEF PCs
    <3> QED
      BY <1>0, <2>1, <2>2, <3>1, GoType, Zenon
  <2>4. PlansOK(plans', named)
    BY <1>0, <1>10, WithoutType, Zenon DEF DeletePlan
  <2> QED
    BY <1>0, <1>10, <2>3, <2>4, TypeParts, Zenon DEF DeletePlan
<1>11. CASE Deleted
  <2>1. pass # Idle
    BY <1>1, <1>11 DEF Deleted, At
  <2>2. (IF Changes = {} THEN "prune" ELSE "create") \in PCs
    BY DEF PCs
  <2>3. PassOK(pass', named)
    <3>1. PassOK([pass EXCEPT !.pc = IF Changes = {} THEN "prune" ELSE "create"], named)
      BY <1>0, <2>1, <2>2, GoType, Zenon
    <3> QED
      BY <1>5, <1>11, <3>1, Zenon DEF Deleted
  <2> QED
    BY <1>0, <1>11, <2>3, TypeParts, Zenon DEF Deleted
<1>12. CASE CreatePlan
  <2>1. NamesOK(named', used) /\ PassOK(pass, named') /\ PlansOK(plans, named')
        /\ (\A w \in late : LateOK(w, named')) /\ named' = named + 1 /\ named' \in Nat
    BY <1>0, <1>12, Grow DEF CreatePlan, NewName
  <2>2. Changes # {} /\ pass # Idle /\ "pause" \in PCs
    BY <1>1, <1>12 DEF CreatePlan, At, PassInv, PCs
  <2>3. PassOK(pass', named')
    BY <1>12, <2>1, <2>2, GoType, Zenon DEF CreatePlan, Go
  <2>4. NewName \in 1 .. named'
    BY <1>0, <2>1 DEF NewName
  <2>5. PlansOK(plans', named')
    BY <1>1a, <1>12, <2>1, <2>2, <2>4, NewPlanType, WithType, Zenon DEF CreatePlan
  <2> QED
    BY <1>0, <1>12, <2>1, <2>3, <2>5, TypeParts, Zenon DEF CreatePlan
<1>13. CASE Pause
  BY <1>0, <1>3, <1>5, <1>13, TypeParts, Zenon DEF Pause, WriteBaseline
<1>14. CASE Prune
  <2>1. PassOK(pass', named)
    BY <1>0, <1>1, <1>14, GoType DEF Prune, At, Go, PCs
  <2>2. claim' \in ClaimType
    BY <1>0, <1>14 DEF Prune, DeleteClaim, Leaving, ClaimType
  <2> QED
    BY <1>0, <1>14, <2>1, <2>2, TypeParts, Zenon DEF Prune
<1>15. CASE PruneFails
  <2>1. PassOK(pass', named)
    BY <1>0, <1>1, <1>15, GoType DEF PruneFails, At, Go, PCs
  <2> QED
    BY <1>0, <1>2, <1>15, <2>1, TypeParts, Zenon DEF PruneFails
<1>16. CASE Unresolved
  <2>1. pass # Idle /\ "pause" \in PCs
    BY <1>16 DEF Unresolved, Idle, PCs
  <2>2. PassOK(pass', named)
    BY <1>0, <1>16, <2>1, GoType, Zenon DEF Unresolved, Go
  <2> QED
    BY <1>0, <1>2, <1>16, <2>2, TypeParts, Zenon DEF Unresolved
<1>17. CASE ApplyClaim
  <2>1. PassOK(pass', named)
    BY <1>0, <1>1, <1>17, GoType DEF ApplyClaim, At, Go, PCs
  <2>2. claim' \in ClaimType
    BY <1>0, <1>17 DEF ApplyClaim, WriteClaim, ClaimType
  <2> QED
    BY <1>0, <1>17, <2>1, <2>2, TypeParts, Zenon DEF ApplyClaim
<1>18. CASE Render
  <2>1. PassOK(pass', named)
    BY <1>0, <1>1, <1>18, GoType DEF Render, At, Go, PCs
  <2> QED
    BY <1>0, <1>18, <2>1, TypeParts, Zenon DEF Render
<1>19. CASE ApplyRest
  <2>1. PassOK(pass', named)
    BY <1>0, <1>1, <1>19, GoType DEF ApplyRest, At, Go, PCs
  <2> QED
    BY <1>0, <1>19, <2>1, TypeParts, Zenon DEF ApplyRest
<1>20. CASE Stamp
  <2>1. pass # Idle /\ "list" \in PCs
    BY <1>1, <1>20 DEF Stamp, At, PCs
  <2>2. PassOK(pass', named)
    <3>1. PassOK([pass EXCEPT !.pc = "list"], named)
      BY <1>0, <2>1, GoType, Zenon
    <3> QED
      BY <1>5, <1>20, <3>1, Zenon DEF Stamp
  <2>3. NamesOK(named, used') /\ overtaken' \in BOOLEAN
    BY <1>0, <1>20 DEF Stamp, NamesOK, PassOK, PassesTo
  <2> QED
    BY <1>0, <1>3, <1>20, <2>2, <2>3, TypeParts, Zenon DEF Stamp, WriteBaseline
<1>21. CASE PassFails
  <2>1. named' \in Nat /\ NamesOK(named', used) /\ PlansOK(plans, named') /\ PassOK(pass, named')
        /\ \A w \in late : LateOK(w, named')
    <3>1. CASE At("create")
      BY <1>0, <1>21, <3>1, Grow DEF PassFails, NewName
    <3>2. CASE ~At("create")
      BY <1>0, <1>21, <3>2, Zenon DEF PassFails
    <3> QED
      BY <3>1, <3>2
  <2>2. \A w \in InFlight : LateOK(w, named')
    <3> SUFFICES ASSUME NEW w \in InFlight PROVE LateOK(w, named')
      OBVIOUS
    <3>1. w = [pass EXCEPT !.plan = IF At("create") THEN NewName ELSE pass.plan]
          /\ pass.pc \in LateKinds
      BY DEF InFlight
    <3>2. pass \in PassesTo(named') /\ pass.spec \in Spec
      BY <1>1, <1>21, <2>1 DEF PassOK, PassFails
    <3>3. (IF At("create") THEN NewName ELSE pass.plan) \in 0 .. named'
      <4>1. CASE At("create")
        BY <1>0, <1>21, <4>1 DEF PassFails, NewName
      <4>2. CASE ~At("create")
        BY <3>2, <4>2 DEF PassesTo
      <4> QED
        BY <4>1, <4>2
    <3>4. w \in PassesTo(named') /\ w.pc = pass.pc /\ w.spec = pass.spec /\ w.baseline = pass.baseline
      BY <3>1, <3>2, <3>3 DEF PassesTo
    <3>5. w.pc = "create" => DetectAll(w.baseline, w.spec) # {}
      BY <3>4 DEF PassInv, Changes
    <3> QED
      BY <3>1, <3>2, <3>4, <3>5 DEF LateOK
  <2>3. PassOK(pass', named')
    BY <1>21, <2>1, IdleType, Zenon DEF PassFails
  <2>4. \A w \in late' : LateOK(w, named')
    BY <1>21, <2>1, <2>2 DEF PassFails
  <2> QED
    BY <1>0, <1>2, <1>21, <2>1, <2>3, <2>4, TypeParts, Zenon DEF PassFails
<1>22. CASE LateStep
  <2>1. PICK w \in late :
          /\ LatePlan(w) \/ LateDelete(w) \/ LateStatus(w) \/ LateClaim(w) \/ LateRender(w)
          /\ late' = late \ {w}
          /\ UNCHANGED <<named, pass, used, edits, fails>>
    BY <1>22, Zenon DEF LateStep
  <2>2. LateOK(w, named) /\ w.spec \in Spec /\ w.spec \in Specs /\ w.baseline \in Specs
    BY <1>0, <2>1 DEF LateOK, PassesTo, Specs
  <2>3. /\ named' = named /\ pass' = pass /\ used' = used /\ edits' = edits /\ fails' = fails
        /\ late' \subseteq late
    BY <2>1
  <2>4. \A v \in late' : LateOK(v, named')
    BY <1>0, <2>3
  <2>5. CASE LatePlan(w)
    <3>1. DetectAll(w.baseline, w.spec) # {} /\ DetectAll(w.baseline, w.spec) \in SUBSET ChangeType
      BY <2>2, <2>5, DetectType DEF LatePlan, LateOK
    <3>2. w.plan \in 1 .. named
      BY <1>0, <2>1, <2>2, <2>5 DEF LatePlan, LateOK, PassesTo, NameInv
    <3>3. PlansOK(plans', named)
      BY <1>0, <2>5, <3>1, <3>2, NewPlanType, WithType, Zenon DEF LatePlan
    <3> QED
      BY <1>0, <2>3, <2>4, <2>5, <3>3, TypeParts, Zenon DEF LatePlan
  <2>6. CASE LateDelete(w)
    <3>1. PlansOK(plans', named) /\ overtaken' \in BOOLEAN
      BY <1>0, <2>6, WithoutType DEF LateDelete
    <3> QED
      BY <1>0, <2>3, <2>4, <2>6, <3>1, TypeParts, Zenon DEF LateDelete
  <2>7. CASE LateStatus(w)
    <3>1. overtaken' \in BOOLEAN
      BY <2>7 DEF LateStatus
    <3> QED
      BY <1>0, <1>3, <2>2, <2>3, <2>4, <2>7, <3>1, TypeParts, Zenon DEF LateStatus, WriteBaseline
  <2>8. CASE LateClaim(w)
    <3>1. claim' \in ClaimType
      BY <1>0, <2>8 DEF LateClaim, DeleteClaim, WriteClaim, Leaving, ClaimType
    <3> QED
      BY <1>0, <2>3, <2>4, <2>8, <3>1, TypeParts, Zenon DEF LateClaim
  <2>9. CASE LateRender(w)
    BY <1>0, <2>2, <2>3, <2>4, <2>9, TypeParts, Zenon DEF LateRender
  <2> QED
    BY <2>1, <2>5, <2>6, <2>7, <2>8, <2>9, Zenon
<1>23. CASE Provision \/ Finalize
  <2>1. claim' \in ClaimType
    BY <1>23 DEF Provision, Finalize, ClaimType
  <2> QED
    BY <1>0, <1>23, <2>1, TypeParts, Zenon DEF Provision, Finalize
<1>24. ASSUME NEW s \in Spec, Edit(s)
       PROVE  TypeOK'
  <2>1. app' \in AppType
    BY <1>0, <1>24 DEF Edit, AppType
  <2>2. edits' \in 0 .. MaxEdits
    BY <1>0, <1>24, ConstantsAssumption DEF Edit
  <2> QED
    BY <1>0, <1>24, <2>1, <2>2, TypeParts, Zenon DEF Edit
<1>25. ASSUME NEW n \in DOMAIN plans, Execute(n) \/ Complete(n) \/ Approve(n) \/ AdminFails(n)
       PROVE  TypeOK'
  <2>1. PlansOK(plans', named)
    BY <1>0, <1>25, PhaseSet DEF Execute, Complete, Approve, AdminFails
  <2>2. fails' \in 0 .. MaxFails
    BY <1>0, <1>2, <1>25, Zenon DEF Execute, Complete, Approve, AdminFails
  <2> QED
    BY <1>0, <1>25, <2>1, <2>2, TypeParts, Zenon DEF Execute, Complete, Approve, AdminFails
<1>26. ASSUME NEW n \in DOMAIN plans, DeleteFailed(n)
       PROVE  TypeOK'
  <2>1. PlansOK(plans', named)
    BY <1>0, <1>26, WithoutType, Zenon DEF DeleteFailed
  <2> QED
    BY <1>0, <1>26, <2>1, TypeParts, Zenon DEF DeleteFailed
<1>27. CASE UNCHANGED vars
  BY <1>0, <1>27, TypeParts, Zenon DEF vars
<1> QED
  BY <1>6, <1>7, <1>8, <1>9, <1>10, <1>11, <1>12, <1>13, <1>14, <1>15, <1>16, <1>17, <1>18, <1>19,
     <1>20, <1>21, <1>22, <1>23, <1>24, <1>25, <1>26, <1>27, Zenon
     DEF Next, PassStep, PlanStep, PersonStep

---------------------------------------------------------------------------
(* What a pass knows. *)

\* Going on changes where the pass is and nothing else of it.
LEMMA Went ==
  ASSUME TypeOK, NEW c, Go(c)
  PROVE  /\ pass'.pc = c /\ pass'.spec = pass.spec /\ pass'.baseline = pass.baseline
         /\ pass'.plan = pass.plan /\ pass'.doomed = pass.doomed
<1>1. pass \in PassesTo(named)
  BY TypeParts, Zenon DEF PassOK
<1> QED
  BY <1>1 DEF Go, PassesTo

\* A pass that goes on through its requests knows what it knew.
LEMMA PassGoesOn ==
  ASSUME TypeOK, PassInv, NEW c, Go(c), pass.pc \notin {"idle", "list", "delete"},
         c = "pause" \/ (c \in ApplyPC /\ pass.pc \in ApplyPC),
         app' = app, plans' = plans, used' = used, overtaken' = overtaken
  PROVE  PassInv'
BY Went DEF PassInv, Unstamped, Changes, ApplyPC

\* Nobody else takes from a pass what it knows, but a late request that undoes
\* its baseline or deletes its plan.
LEMMA PassUndisturbed ==
  ASSUME PassInv, pass' = pass, used' = used, overtaken => overtaken',
         overtaken' \/ app'.baseline = app.baseline,
         used \in DOMAIN plans' => used \in DOMAIN plans,
         pass.plan \in DOMAIN plans' =>
           /\ pass.plan \in DOMAIN plans
           /\ plans'[pass.plan].changes = plans[pass.plan].changes
           /\ plans[pass.plan].phase = "completed" => plans'[pass.plan].phase = "completed",
         overtaken' \/ plans[pass.plan].phase # "completed" \/ pass.plan \notin DOMAIN plans
           \/ pass.plan \in DOMAIN plans'
  PROVE  PassInv'
BY DEF PassInv, Unstamped, Changes, ApplyPC

\* Adding a plan under a new name, and taking one away, leave the others.
LEMMA PlanAdded ==
  ASSUME NEW n, n \notin DOMAIN plans, NEW p, plans' = With(n, p)
  PROVE  /\ DOMAIN plans' = DOMAIN plans \cup {n}
         /\ \A m \in DOMAIN plans : plans'[m] = plans[m]
BY DEF With

LEMMA WithoutKeeps ==
  ASSUME NEW n
  PROVE  /\ DOMAIN Without(n) = DOMAIN plans \ {n}
         /\ \A m \in DOMAIN plans \ {n} : Without(n)[m] = plans[m]
BY DEF Without

\* What a pass knows holds after every step.
LEMMA PassInvStep ==
  ASSUME TypeOK, PassInv, NameInv, SpentInv, [Next]_vars
  PROVE  PassInv'
<1>0. /\ named \in Nat /\ PlansOK(plans, named) /\ PassOK(pass, named) /\ NamesOK(named, used)
      /\ app \in AppType /\ pass \in PassesTo(named)
  BY TypeParts, Zenon DEF PassOK, NamesOK
<1>0a. pass # Idle => pass.spec \in Spec
  BY <1>0 DEF PassOK
<1>1. pass' = Idle => PassInv'
  BY DEF PassInv, Unstamped, Changes, ApplyPC, Idle
<1>2. CASE Begin \/ BeginStale
  <2>1. PICK seen \in {app, before} :
          /\ StartFrom(seen) /\ UNCHANGED <<app, plans, used>>
          /\ (seen = app /\ overtaken' = overtaken) \/ overtaken'
    BY <1>2 DEF Begin, BeginStale
  <2>2. pass'.pc = "decide" /\ pass'.baseline = seen.baseline
    BY <2>1 DEF StartFrom, Idle
  <2> QED
    BY <2>1, <2>2 DEF PassInv, Unstamped, ApplyPC
<1>3. CASE ListPlans
  <2>1. /\ pass'.pc \in {"prune", "list", "create", "pause"}
        /\ pass'.spec = pass.spec /\ pass'.baseline = pass.baseline
        /\ pass'.pc = "create" => Changes # {}
        /\ pass'.pc = "prune" /\ pass'.plan = 0 => Changes = {} /\ DOMAIN plans = {}
        /\ pass'.pc # "prune" => pass'.plan = 0
        /\ pass'.plan # 0 =>
             /\ Changes # {} /\ pass'.plan \in DOMAIN plans
             /\ plans[pass'.plan].phase = "completed" /\ plans[pass'.plan].changes = Changes
    BY <1>3, Listed, Zenon
  <2>2. pass.pc = "decide" /\ app' = app /\ plans' = plans /\ used' = used /\ overtaken' = overtaken
    BY <1>3 DEF ListPlans, At
  <2>3. ~overtaken => pass.baseline = app.baseline
    BY <2>2 DEF PassInv, Unstamped
  <2>4. pass'.plan # 0 /\ ~overtaken => pass'.plan # used
    <3> SUFFICES ASSUME pass'.plan # 0, ~overtaken, pass'.plan = used PROVE FALSE
      OBVIOUS
    <3>1. DetectAll(app.baseline, pass.spec) = plans[used].changes /\ used \in DOMAIN plans
      BY <2>1, <2>3 DEF Changes
    <3>2. pass.spec \in Spec
      BY <1>0a, <2>2 DEF Idle
    <3> QED
      BY <3>1, <3>2 DEF SpentInv
  <2>5. Changes' = Changes
    BY <2>1 DEF Changes
  <2> QED
    BY <2>1, <2>2, <2>3, <2>4, <2>5 DEF PassInv, Unstamped, ApplyPC
<1>4. CASE ListDoomed
  <2>1. /\ pass'.pc = "delete" /\ pass'.plan = pass.plan /\ pass'.doomed = DOMAIN plans
        /\ pass'.baseline = pass.baseline /\ pass.pc = "list"
        /\ app' = app /\ plans' = plans /\ used' = used /\ overtaken' = overtaken
    BY <1>0, <1>4 DEF ListDoomed, At, PassesTo
  <2> QED
    BY <2>1 DEF PassInv, Unstamped, ApplyPC
<1>5. CASE DeletePlan
  <2> DEFINE gone == First(pass.doomed)
  <2>1. /\ pass'.pc = "delete" /\ pass'.plan = pass.plan /\ pass'.doomed = pass.doomed \ {gone}
        /\ pass'.baseline = pass.baseline /\ pass.pc = "delete"
        /\ app' = app /\ used' = used /\ overtaken' = overtaken
    BY <1>0, <1>5 DEF DeletePlan, At, PassesTo
  <2>2. DOMAIN plans' = DOMAIN plans \ {gone}
    BY <1>5, WithoutKeeps DEF DeletePlan
  <2> HIDE DEF gone
  <2> QED
    BY <2>1, <2>2 DEF PassInv, Unstamped, ApplyPC
<1>6. CASE Deleted
  <2>1. CASE pass.plan # 0
    BY <1>1, <1>6, <2>1 DEF Deleted
  <2>2. CASE pass.plan = 0
    <3>1. /\ pass'.pc = IF Changes = {} THEN "prune" ELSE "create"
          /\ pass'.plan = 0 /\ pass'.spec = pass.spec /\ pass'.baseline = pass.baseline
          /\ pass.pc = "delete" /\ pass.doomed = {}
          /\ app' = app /\ plans' = plans /\ used' = used /\ overtaken' = overtaken
      BY <1>0, <1>6, <2>2 DEF Deleted, At, PassesTo
    <3>2. used \notin DOMAIN plans /\ (~overtaken => pass.baseline = app.baseline)
      BY <2>2, <3>1 DEF PassInv, Unstamped
    <3>3. Changes' = Changes
      BY <3>1 DEF Changes
    <3> QED
      BY <3>1, <3>2, <3>3 DEF PassInv, Unstamped, ApplyPC
  <2> QED
    BY <2>1, <2>2
<1>7. CASE CreatePlan
  <2>1. pass'.pc = "pause" /\ pass'.baseline = pass.baseline /\ pass.pc = "create"
    BY <1>7, Went DEF CreatePlan, At
  <2>2. app' = app /\ overtaken' = overtaken
    BY <1>7 DEF CreatePlan
  <2> QED
    BY <2>1, <2>2 DEF PassInv, Unstamped, ApplyPC
<1>8. CASE Prune \/ PruneFails \/ ApplyClaim \/ Unresolved \/ Render \/ ApplyRest
  <2>1. app' = app /\ plans' = plans /\ used' = used /\ overtaken' = overtaken
    BY <1>8 DEF Prune, PruneFails, ApplyClaim, Unresolved, Render, ApplyRest
  <2>2. PICK c : Go(c) /\ (c = "pause" \/ (c \in ApplyPC /\ pass.pc \in ApplyPC))
    <3>1. CASE Prune
      BY <3>1 DEF Prune, At, ApplyPC
    <3>2. CASE PruneFails
      BY <3>2 DEF PruneFails, At, ApplyPC
    <3>3. CASE ApplyClaim
      BY <3>3 DEF ApplyClaim, At, ApplyPC
    <3>4. CASE Unresolved
      BY <3>4 DEF Unresolved
    <3>5. CASE Render
      BY <3>5 DEF Render, At, ApplyPC
    <3>6. CASE ApplyRest
      BY <3>6 DEF ApplyRest, At, ApplyPC
    <3> QED
      BY <1>8, <3>1, <3>2, <3>3, <3>4, <3>5, <3>6
  <2>3. pass.pc \notin {"idle", "list", "delete"}
    BY <1>8 DEF Prune, PruneFails, ApplyClaim, Unresolved, Render, ApplyRest, At
  <2> QED
    BY <2>1, <2>2, <2>3, PassGoesOn, Zenon
<1>9. CASE Stamp
  <2>1. CASE pass.plan = 0
    BY <1>1, <1>9, <2>1 DEF Stamp
  <2>2. CASE pass.plan # 0
    <3>1. pass'.pc = "list" /\ pass'.plan = pass.plan
      BY <1>0, <1>9, <2>2 DEF Stamp, PassesTo
    <3> QED
      BY <2>2, <3>1 DEF PassInv, Unstamped, ApplyPC
  <2> QED
    BY <2>1, <2>2
<1>10. CASE Pause \/ PassFails
  BY <1>1, <1>10 DEF Pause, PassFails
<1>11. CASE LateStep
  <2>1. PICK w \in late :
          /\ LatePlan(w) \/ LateDelete(w) \/ LateStatus(w) \/ LateClaim(w) \/ LateRender(w)
          /\ late' = late \ {w}
          /\ UNCHANGED <<named, pass, used, edits, fails>>
    BY <1>11, Zenon DEF LateStep
  <2>2. CASE LatePlan(w)
    <3>1. w.plan \notin DOMAIN plans /\ w.plan # used /\ w.plan # pass.plan
      BY <2>1, <2>2 DEF LatePlan, NameInv
    <3>2. DOMAIN plans' = DOMAIN plans \cup {w.plan} /\ \A m \in DOMAIN plans : plans'[m] = plans[m]
      <4>1. plans' = With(w.plan, NewPlan(DetectAll(w.baseline, w.spec)))
        BY <2>2 DEF LatePlan
      <4> QED
        BY <3>1, <4>1, PlanAdded, Zenon
    <3>3. app' = app /\ overtaken' = overtaken
      BY <2>2 DEF LatePlan
    <3> QED
      BY <2>1, <3>1, <3>2, <3>3, PassUndisturbed
  <2>3. CASE LateDelete(w)
    <3>1. /\ DOMAIN plans' \subseteq DOMAIN plans /\ \A m \in DOMAIN plans' : plans'[m] = plans[m]
          /\ overtaken'
      BY <2>3, WithoutKeeps DEF LateDelete
    <3> QED
      BY <2>1, <3>1, PassUndisturbed
  <2>4. CASE LateStatus(w)
    <3>1. overtaken' /\ plans' = plans
      BY <2>4 DEF LateStatus
    <3> QED
      BY <2>1, <3>1, PassUndisturbed
  <2>5. CASE LateClaim(w) \/ LateRender(w)
    <3>1. app' = app /\ plans' = plans /\ overtaken' = overtaken
      BY <2>5 DEF LateClaim, LateRender
    <3> QED
      BY <2>1, <3>1, PassUndisturbed
  <2> QED
    BY <2>1, <2>2, <2>3, <2>4, <2>5, Zenon
<1>12. CASE Provision \/ Finalize \/ UNCHANGED vars
  <2>1. app' = app /\ plans' = plans /\ overtaken' = overtaken /\ pass' = pass /\ used' = used
    BY <1>12 DEF Provision, Finalize, vars
  <2> QED
    BY <2>1, PassUndisturbed
<1>13. ASSUME NEW s \in Spec, Edit(s)
       PROVE  PassInv'
  <2>1. app'.baseline = app.baseline
    BY <1>0, <1>13 DEF Edit, AppType
  <2>2. plans' = plans /\ overtaken' = overtaken /\ pass' = pass /\ used' = used
    BY <1>13 DEF Edit
  <2> QED
    BY <2>1, <2>2, PassUndisturbed
<1>14. ASSUME NEW n \in DOMAIN plans, Execute(n) \/ Complete(n) \/ Approve(n) \/ AdminFails(n)
       PROVE  PassInv'
  <2>1. /\ DOMAIN plans' = DOMAIN plans
        /\ \A m \in DOMAIN plans : plans'[m].changes = plans[m].changes
        /\ \A m \in DOMAIN plans : m # n => plans'[m] = plans[m]
        /\ plans[n].phase # "completed"
    BY <1>0, <1>14, PhaseSet DEF Execute, Complete, Approve, AdminFails
  <2>2. app' = app /\ overtaken' = overtaken /\ pass' = pass /\ used' = used
    BY <1>14 DEF Execute, Complete, Approve, AdminFails
  <2> QED
    BY <2>1, <2>2, PassUndisturbed
<1>15. ASSUME NEW n \in DOMAIN plans, DeleteFailed(n)
       PROVE  PassInv'
  <2>1. /\ DOMAIN plans' = DOMAIN plans \ {n}
        /\ \A m \in DOMAIN plans \ {n} : plans'[m] = plans[m]
        /\ plans[n].phase = "failed"
    BY <1>15, WithoutKeeps DEF DeleteFailed
  <2>2. app' = app /\ overtaken' = overtaken /\ pass' = pass /\ used' = used
    BY <1>15 DEF DeleteFailed
  <2> QED
    BY <2>1, <2>2, PassUndisturbed
<1> QED
  BY <1>2, <1>3, <1>4, <1>5, <1>6, <1>7, <1>8, <1>9, <1>10, <1>11, <1>12, <1>13, <1>14, <1>15, Zenon
     DEF Next, PassStep, PlanStep, PersonStep

---------------------------------------------------------------------------
(* Names and used approvals. *)

\* The names of the late plans stay their own after every step.
LEMMA NameInvStep ==
  ASSUME TypeOK, PassInv, NameInv, [Next]_vars
  PROVE  NameInv'
<1>0. /\ named \in Nat /\ PlansOK(plans, named) /\ PassOK(pass, named) /\ used \in 0 .. named
      /\ pass.plan \in 0 .. named /\ DOMAIN plans \subseteq 1 .. named
      /\ \A w \in late : w.plan \in 0 .. named
  BY TypeParts DEF PassOK, PassesTo, NamesOK, PlansOK, LateOK
<1>1. Idle.plan = 0
  BY DEF Idle
<1>2. ASSUME DOMAIN plans' \subseteq DOMAIN plans, used' \in {used, pass.plan},
             pass'.plan \in {0, pass.plan} \cup DOMAIN plans, late' \subseteq late
      PROVE  NameInv'
  BY <1>2 DEF NameInv
<1>3. CASE Begin \/ BeginStale
  <2>1. pass'.plan = 0
    BY <1>3 DEF Begin, BeginStale, StartFrom, Idle
  <2>2. plans' = plans /\ used' = used /\ late' = late
    BY <1>3 DEF Begin, BeginStale
  <2> QED
    BY <1>2, <2>1, <2>2
<1>4. CASE ListPlans
  <2>1. pass'.plan \in {0} \cup DOMAIN plans
    BY <1>4, Listed
  <2>2. plans' = plans /\ used' = used /\ late' = late
    BY <1>4 DEF ListPlans
  <2> QED
    BY <1>2, <2>1, <2>2
<1>5. CASE ListDoomed \/ DeletePlan \/ Deleted
  <2>1. pass'.plan \in {0, pass.plan}
    BY <1>0, <1>1, <1>5 DEF ListDoomed, DeletePlan, Deleted, PassOK, PassesTo
  <2>2. DOMAIN plans' \subseteq DOMAIN plans /\ used' = used /\ late' = late
    BY <1>5, WithoutKeeps DEF ListDoomed, DeletePlan, Deleted
  <2> QED
    BY <1>2, <2>1, <2>2
<1>6. CASE CreatePlan
  <2>1. NewName \notin DOMAIN plans /\ \A w \in late : w.plan # NewName
    BY <1>0 DEF NewName
  <2>2. DOMAIN plans' = DOMAIN plans \cup {NewName}
    <3>1. plans' = With(NewName, NewPlan(Changes))
      BY <1>6 DEF CreatePlan
    <3> QED
      BY <2>1, <3>1, PlanAdded, Zenon
  <2>3. pass'.plan = pass.plan /\ used' = used /\ late' = late
    BY <1>6, Went DEF CreatePlan
  <2> QED
    BY <2>1, <2>2, <2>3 DEF NameInv
<1>7. CASE Pause
  BY <1>1, <1>2, <1>7 DEF Pause
<1>8. CASE Prune \/ PruneFails \/ ApplyClaim \/ Unresolved \/ Render \/ ApplyRest
  <2>1. PICK c : Go(c)
    BY <1>8 DEF Prune, PruneFails, ApplyClaim, Unresolved, Render, ApplyRest
  <2>2. plans' = plans /\ used' = used /\ late' = late
    BY <1>8 DEF Prune, PruneFails, ApplyClaim, Unresolved, Render, ApplyRest
  <2>3. pass'.plan = pass.plan
    BY <2>1, Went
  <2> QED
    BY <1>2, <2>2, <2>3
<1>9. CASE Stamp
  <2>1. pass'.plan \in {0, pass.plan}
    BY <1>0, <1>1, <1>9 DEF Stamp, PassOK, PassesTo
  <2>2. plans' = plans /\ used' \in {used, pass.plan} /\ late' = late
    BY <1>9 DEF Stamp
  <2> QED
    BY <1>2, <2>1, <2>2
<1>10. CASE PassFails
  <2>1. pass'.plan = 0 /\ plans' = plans /\ used' = used
    BY <1>1, <1>10 DEF PassFails
  <2>2. CASE late' = late
    BY <1>2, <2>1, <2>2
  <2>3. CASE late' = late \cup InFlight
    <3>1. \A w \in InFlight : w.pc = "create" => w.plan = NewName
      BY <1>0 DEF InFlight, At, PassOK, PassesTo
    <3>2. \A v, w \in InFlight : v = w
      BY DEF InFlight
    <3>3. /\ NewName # 0 /\ NewName \notin DOMAIN plans /\ NewName # used
          /\ \A w \in late : w.plan # NewName
      BY <1>0 DEF NewName
    <3> QED
      BY <2>1, <2>3, <3>1, <3>2, <3>3 DEF NameInv
  <2> QED
    BY <1>10, <2>2, <2>3 DEF PassFails
<1>11. CASE LateStep
  <2>1. PICK w \in late :
          /\ LatePlan(w) \/ LateDelete(w) \/ LateStatus(w) \/ LateClaim(w) \/ LateRender(w)
          /\ late' = late \ {w}
          /\ UNCHANGED <<named, pass, used, edits, fails>>
    BY <1>11, Zenon DEF LateStep
  <2>2. CASE LatePlan(w)
    <3>1. w.plan \notin DOMAIN plans /\ w.pc = "create"
      BY <2>1, <2>2 DEF LatePlan, NameInv
    <3>2. DOMAIN plans' = DOMAIN plans \cup {w.plan}
      <4>1. plans' = With(w.plan, NewPlan(DetectAll(w.baseline, w.spec)))
        BY <2>2 DEF LatePlan
      <4> QED
        BY <3>1, <4>1, PlanAdded, Zenon
    <3>3. \A v \in late' : v.pc = "create" => v.plan # w.plan
      BY <2>1, <3>1 DEF NameInv
    <3> QED
      BY <2>1, <3>2, <3>3 DEF NameInv
  <2>3. CASE ~LatePlan(w)
    <3>1. DOMAIN plans' \subseteq DOMAIN plans
      BY <2>1, <2>3, WithoutKeeps DEF LateDelete, LateStatus, LateClaim, LateRender
    <3> QED
      BY <1>2, <2>1, <3>1
  <2> QED
    BY <2>2, <2>3
<1>12. CASE Provision \/ Finalize \/ UNCHANGED vars
  <2>1. plans' = plans /\ pass' = pass /\ used' = used /\ late' = late
    BY <1>12 DEF Provision, Finalize, vars
  <2> QED
    BY <1>2, <2>1
<1>13. ASSUME NEW s \in Spec, Edit(s)
       PROVE  NameInv'
  BY <1>2, <1>13 DEF Edit
<1>14. ASSUME NEW n \in DOMAIN plans,
              Execute(n) \/ Complete(n) \/ Approve(n) \/ AdminFails(n) \/ DeleteFailed(n)
       PROVE  NameInv'
  <2>1. DOMAIN plans' \subseteq DOMAIN plans
    BY <1>0, <1>14, PhaseSet, WithoutKeeps DEF Execute, Complete, Approve, AdminFails, DeleteFailed
  <2>2. pass' = pass /\ used' = used /\ late' = late
    BY <1>14 DEF Execute, Complete, Approve, AdminFails, DeleteFailed
  <2> QED
    BY <1>2, <2>1, <2>2
<1> QED
  BY <1>3, <1>4, <1>5, <1>6, <1>7, <1>8, <1>9, <1>10, <1>11, <1>12, <1>13, <1>14, Zenon
     DEF Next, PassStep, PlanStep, PersonStep

\* A used approval stays useless after every step.
LEMMA SpentInvStep ==
  ASSUME TypeOK, PassInv, NameInv, SpentInv, [Next]_vars
  PROVE  SpentInv'
<1>0. /\ named \in Nat /\ PlansOK(plans, named) /\ PassOK(pass, named) /\ used \in 0 .. named
      /\ app \in AppType /\ pass.baseline \in Specs /\ DOMAIN plans \subseteq 1 .. named
  BY TypeParts DEF PassOK, PassesTo, NamesOK, PlansOK
<1>1. ASSUME used' = used, overtaken => overtaken', overtaken' \/ app'.baseline = app.baseline,
             used \in DOMAIN plans' =>
               used \in DOMAIN plans /\ plans'[used].changes = plans[used].changes
      PROVE  SpentInv'
  BY <1>1 DEF SpentInv
<1>2. CASE \/ Begin \/ ListPlans \/ ListDoomed \/ Deleted \/ Prune \/ PruneFails \/ ApplyClaim
           \/ Unresolved \/ Render \/ ApplyRest \/ PassFails \/ Provision \/ Finalize
           \/ UNCHANGED vars
  <2>1. used' = used /\ overtaken' = overtaken /\ app' = app /\ plans' = plans
    BY <1>2 DEF Begin, ListPlans, ListDoomed, Deleted, Prune, PruneFails, ApplyClaim, Unresolved,
                Render, ApplyRest, PassFails, Provision, Finalize, vars
  <2> QED
    BY <1>1, <2>1
<1>3. CASE BeginStale
  BY <1>3 DEF BeginStale, SpentInv
<1>4. CASE DeletePlan
  <2>1. used' = used /\ overtaken' = overtaken /\ app' = app
    BY <1>4 DEF DeletePlan
  <2>2. DOMAIN plans' \subseteq DOMAIN plans /\ \A m \in DOMAIN plans' : plans'[m] = plans[m]
    BY <1>4, WithoutKeeps DEF DeletePlan
  <2> QED
    BY <1>1, <2>1, <2>2
<1>5. CASE CreatePlan
  <2>1. NewName \notin DOMAIN plans /\ used # NewName
    BY <1>0 DEF NewName
  <2>2. DOMAIN plans' = DOMAIN plans \cup {NewName} /\ \A m \in DOMAIN plans : plans'[m] = plans[m]
    <3>1. plans' = With(NewName, NewPlan(Changes))
      BY <1>5 DEF CreatePlan
    <3> QED
      BY <2>1, <3>1, PlanAdded, Zenon
  <2>3. used' = used /\ overtaken' = overtaken /\ app' = app
    BY <1>5 DEF CreatePlan
  <2> QED
    BY <1>1, <2>1, <2>2, <2>3
<1>6. CASE Pause
  <2>1. pass.pc = "pause" /\ used' = used /\ overtaken' = overtaken /\ plans' = plans
    BY <1>6 DEF Pause, At
  <2>2. overtaken \/ pass.baseline = app.baseline
    BY <2>1 DEF PassInv, Unstamped
  <2>3. app'.baseline = pass.baseline
    BY <1>0, <1>6 DEF Pause, WriteBaseline, AppType
  <2> QED
    BY <1>1, <2>1, <2>2, <2>3
<1>7. CASE Stamp
  <2>1. pass.pc = "stamp" /\ plans' = plans /\ app'.baseline = pass.spec
    BY <1>0, <1>7 DEF Stamp, At, WriteBaseline, AppType
  <2>2. pass.spec \in Spec
    BY <1>0, <2>1 DEF PassOK, Idle
  <2>3. CASE pass.plan = 0
    <3>1. used' = used /\ used \notin DOMAIN plans
      BY <1>7, <2>1, <2>3 DEF Stamp, PassInv, ApplyPC
    <3> QED
      BY <2>1, <3>1 DEF SpentInv
  <2>4. CASE pass.plan # 0
    <3>1. used' = pass.plan
      BY <1>7, <2>4 DEF Stamp
    <3>2. Changes # {} /\ (pass.plan \in DOMAIN plans => plans[pass.plan].changes = Changes)
      BY <2>1, <2>4 DEF PassInv, ApplyPC
    <3>3. \A s \in Spec : DetectAll(pass.spec, s) # Changes
      BY <1>0, <2>2, <3>2, UsedUp DEF Changes
    <3> QED
      BY <2>1, <3>1, <3>2, <3>3 DEF SpentInv
  <2> QED
    BY <2>3, <2>4
<1>8. CASE LateStep
  <2>1. PICK w \in late :
          /\ LatePlan(w) \/ LateDelete(w) \/ LateStatus(w) \/ LateClaim(w) \/ LateRender(w)
          /\ UNCHANGED <<named, pass, used, edits, fails>>
    BY <1>8, Zenon DEF LateStep
  <2>2. CASE LatePlan(w)
    <3>1. w.plan \notin DOMAIN plans /\ w.plan # used
      BY <2>1, <2>2 DEF LatePlan, NameInv
    <3>2. DOMAIN plans' = DOMAIN plans \cup {w.plan} /\ \A m \in DOMAIN plans : plans'[m] = plans[m]
      <4>1. plans' = With(w.plan, NewPlan(DetectAll(w.baseline, w.spec)))
        BY <2>2 DEF LatePlan
      <4> QED
        BY <3>1, <4>1, PlanAdded, Zenon
    <3>3. app' = app /\ overtaken' = overtaken
      BY <2>2 DEF LatePlan
    <3> QED
      BY <1>1, <2>1, <3>1, <3>2, <3>3
  <2>3. CASE LateDelete(w) \/ LateStatus(w)
    BY <2>3 DEF LateDelete, LateStatus, SpentInv
  <2>4. CASE LateClaim(w) \/ LateRender(w)
    <3>1. app' = app /\ plans' = plans /\ overtaken' = overtaken
      BY <2>4 DEF LateClaim, LateRender
    <3> QED
      BY <1>1, <2>1, <3>1
  <2> QED
    BY <2>1, <2>2, <2>3, <2>4
<1>9. ASSUME NEW s \in Spec, Edit(s)
      PROVE  SpentInv'
  <2>1. app'.baseline = app.baseline
    BY <1>0, <1>9 DEF Edit, AppType
  <2>2. plans' = plans /\ overtaken' = overtaken /\ used' = used
    BY <1>9 DEF Edit
  <2> QED
    BY <1>1, <2>1, <2>2
<1>10. ASSUME NEW n \in DOMAIN plans,
              Execute(n) \/ Complete(n) \/ Approve(n) \/ AdminFails(n) \/ DeleteFailed(n)
       PROVE  SpentInv'
  <2>1. DOMAIN plans' \subseteq DOMAIN plans
        /\ \A m \in DOMAIN plans' : plans'[m].changes = plans[m].changes
    BY <1>0, <1>10, PhaseSet, WithoutKeeps DEF Execute, Complete, Approve, AdminFails, DeleteFailed
  <2>2. app' = app /\ overtaken' = overtaken /\ used' = used
    BY <1>10 DEF Execute, Complete, Approve, AdminFails, DeleteFailed
  <2> QED
    BY <1>1, <2>1, <2>2
<1> QED
  BY <1>2, <1>3, <1>4, <1>5, <1>6, <1>7, <1>8, <1>9, <1>10, Zenon
     DEF Next, PassStep, PlanStep, PersonStep

---------------------------------------------------------------------------
(* The results. *)

\* The four invariants carry each other: a pass knows that the plan it consumes
\* stands because no late plan can have its name, and that it was not the last one
\* used because a used one matches nothing.
LEMMA Inductive == GateSpec => [](TypeOK /\ PassInv /\ NameInv /\ SpentInv)
<1>1. Init => TypeOK /\ PassInv /\ NameInv /\ SpentInv
  <2> SUFFICES ASSUME Init PROVE TypeOK /\ PassInv /\ NameInv /\ SpentInv
    OBVIOUS
  <2>1. 0 \in 0 .. MaxEdits /\ 0 \in 0 .. MaxFails /\ NamesOK(0, 0)
    BY ConstantsAssumption DEF NamesOK
  <2>2. app \in AppType /\ before \in AppType
    BY DEF Init, AppType
  <2>3. DOMAIN plans = {} /\ PlansOK(plans, 0)
    BY DEF Init, PlansOK
  <2>4. pass = Idle /\ PassOK(pass, 0)
    BY IdleType DEF Init
  <2>5. /\ late = {} /\ named = 0 /\ used = 0 /\ overtaken = FALSE /\ edits = 0 /\ fails = 0
        /\ running \in Specs /\ claim \in ClaimType
    BY DEF Init, Specs, ClaimType
  <2>6. TypeOK
    <3>1. \A w \in late : LateOK(w, named)
      BY <2>5
    <3>2. overtaken \in BOOLEAN
      BY <2>5
    <3> QED
      BY <2>1, <2>2, <2>3, <2>4, <2>5, <3>1, <3>2, TypeParts, Zenon
  <2>7. PassInv
    BY <2>4 DEF PassInv, Unstamped, Idle, ApplyPC
  <2>8. NameInv /\ SpentInv
    BY <2>3, <2>5 DEF NameInv, SpentInv
  <2> QED
    BY <2>6, <2>7, <2>8
<1>2. TypeOK /\ PassInv /\ NameInv /\ SpentInv /\ [Next]_vars
        => (TypeOK /\ PassInv /\ NameInv /\ SpentInv)'
  BY TypeStep, PassInvStep, NameInvStep, SpentInvStep
<1> QED
  BY <1>1, <1>2, PTL DEF GateSpec

\* The type of every variable holds in every behaviour of the gate: no plan is
\* ever written, in time or by a request that was given up, without something to
\* approve, and the plan a pass consumes or deletes is one that was named.
THEOREM TypeCorrect == GateSpec => []TypeOK
BY Inductive, PTL

\* Only a pass in the prune or in the render touches a child, and it has an
\* approval for every destructive change it makes.
LEMMA GatedStep ==
  ASSUME TypeOK, PassInv, Destroys, ~overtaken
  PROVE  LET changes == DetectAll(app.baseline, pass.spec) IN
         changes = {} \/ \E n \in Approved \ {used} : plans[n].changes = changes
<1>1. pass.pc \in ApplyPC
  BY DEF Destroys, Prune, Render, At, ApplyPC
<1>2. DetectAll(app.baseline, pass.spec) = Changes
  BY <1>1 DEF PassInv, Unstamped, ApplyPC, Changes
<1>3. CASE pass.plan = 0
  BY <1>1, <1>2, <1>3 DEF PassInv
<1>4. CASE pass.plan # 0
  <2>1. /\ pass.plan \in DOMAIN plans /\ pass.plan # used
        /\ plans[pass.plan].phase = "completed" /\ plans[pass.plan].changes = Changes
    BY <1>1, <1>4 DEF PassInv
  <2>2. pass.plan \in Approved \ {used}
    BY <2>1 DEF Approved
  <2> QED
    BY <1>2, <2>1, <2>2
<1> QED
  BY <1>3, <1>4

\* No claim is deleted and no Deployment changed by a pass for a destructive
\* difference to the baseline that nobody approved, with any number of edits,
\* abandoned passes, late requests in any order and deletions that stop half way:
\* an approval binds exactly its changes, dies with its plan and is not used twice
\* running.
THEOREM GatedByApprovalEver == GateSpec => GatedByApproval
<1>1. TypeOK /\ PassInv =>
        [Destroys /\ ~overtaken =>
           LET changes == DetectAll(app.baseline, pass.spec) IN
           changes = {} \/ \E n \in Approved \ {used} : plans[n].changes = changes]_vars
  BY GatedStep, Zenon
<1> QED
  BY <1>1, Inductive, PTL DEF GatedByApproval

---------------------------------------------------------------------------
(* One plan at a time. *)

\* "<=1 live plan per key" (delete_all_key_plans_except)
OnePlan == \A m, n \in DOMAIN plans : m = n

\* A pass deletes all of the plans before it writes one.
OneInv ==
  /\ OnePlan
  /\ pass.pc = "create" => DOMAIN plans = {}
  /\ pass.pc = "delete" /\ pass.plan = 0 => DOMAIN plans \subseteq pass.doomed

\* The Application has at most one plan as long as no plan is written by a pass
\* that was given up; an approval that is not used twice running is then used once.
THEOREM OnePlanAtATime ==
  ASSUME "create" \notin LateKinds
  PROVE  GateSpec => []OnePlan
<1>1. Init => OneInv
  BY DEF Init, OneInv, OnePlan, Idle
<1>2. TypeOK /\ PassInv /\ OneInv /\ [Next]_vars => OneInv'
  <2> SUFFICES ASSUME TypeOK, PassInv, OneInv, [Next]_vars PROVE OneInv'
    OBVIOUS
  <2>0. /\ named \in Nat /\ PlansOK(plans, named) /\ pass \in PassesTo(named)
        /\ \A w \in late : LateOK(w, named)
    BY TypeParts, Zenon DEF PassOK, NamesOK
  <2>1. ASSUME DOMAIN plans' \subseteq DOMAIN plans,
               pass' = pass \/ pass'.pc \notin {"create", "delete"}
        PROVE  OneInv'
    BY <2>1 DEF OneInv, OnePlan
  <2>2. Idle.pc \notin {"create", "delete"}
    BY DEF Idle
  <2>3. CASE Begin \/ BeginStale \/ Pause \/ PassFails \/ Stamp
    <3>1. pass'.pc \notin {"create", "delete"}
      BY <2>0, <2>2, <2>3 DEF Begin, BeginStale, StartFrom, Pause, PassFails, Stamp, Idle, PassesTo
    <3>2. plans' = plans
      BY <2>3 DEF Begin, BeginStale, Pause, PassFails, Stamp
    <3> QED
      BY <2>1, <3>1, <3>2
  <2>4. CASE ListPlans
    <3>1. pass'.pc # "delete" /\ (pass'.pc = "create" => DOMAIN plans = {}) /\ plans' = plans
      BY <2>4, Listed DEF ListPlans
    <3> QED
      BY <3>1 DEF OneInv, OnePlan
  <2>5. CASE ListDoomed
    <3>1. pass'.pc = "delete" /\ pass'.doomed = DOMAIN plans /\ plans' = plans
      BY <2>0, <2>5 DEF ListDoomed, PassesTo
    <3> QED
      BY <3>1 DEF OneInv, OnePlan
  <2>6. CASE DeletePlan
    <3> DEFINE gone == First(pass.doomed)
    <3>1. /\ pass.pc = "delete" /\ pass'.pc = "delete" /\ pass'.plan = pass.plan
          /\ pass'.doomed = pass.doomed \ {gone}
      BY <2>0, <2>6 DEF DeletePlan, At, PassesTo
    <3>2. DOMAIN plans' = DOMAIN plans \ {gone}
      BY <2>6, WithoutKeeps DEF DeletePlan
    <3> HIDE DEF gone
    <3> QED
      BY <3>1, <3>2 DEF OneInv, OnePlan
  <2>7. CASE Deleted
    <3>1. pass.pc = "delete" /\ pass.doomed = {} /\ plans' = plans
      BY <2>7 DEF Deleted, At
    <3>2. pass'.pc # "delete" /\ (pass'.pc = "create" => pass.plan = 0)
      BY <2>0, <2>2, <2>7 DEF Deleted, PassesTo
    <3> QED
      BY <3>1, <3>2 DEF OneInv, OnePlan
  <2>8. CASE CreatePlan
    <3>1. DOMAIN plans = {} /\ pass'.pc = "pause"
      BY <2>8, Went DEF CreatePlan, At, OneInv
    <3>2. DOMAIN plans' = {NewName}
      BY <2>8, <3>1 DEF CreatePlan, With
    <3> QED
      BY <3>1, <3>2 DEF OneInv, OnePlan
  <2>9. CASE Prune \/ PruneFails \/ ApplyClaim \/ Unresolved \/ Render \/ ApplyRest
    <3>1. PICK c \in {"claim", "render", "pause", "rest", "stamp"} : Go(c)
      BY <2>9 DEF Prune, PruneFails, ApplyClaim, Unresolved, Render, ApplyRest
    <3>2. pass'.pc \notin {"create", "delete"}
      BY <3>1, Went
    <3>3. plans' = plans
      BY <2>9 DEF Prune, PruneFails, ApplyClaim, Unresolved, Render, ApplyRest
    <3> QED
      BY <2>1, <3>2, <3>3
  <2>10. CASE LateStep
    <3>1. PICK w \in late :
            /\ LatePlan(w) \/ LateDelete(w) \/ LateStatus(w) \/ LateClaim(w) \/ LateRender(w)
            /\ UNCHANGED <<named, pass, used, edits, fails>>
      BY <2>10, Zenon DEF LateStep
    <3>2. ~LatePlan(w)
      BY <2>0, <3>1 DEF LatePlan, LateOK
    <3>3. DOMAIN plans' \subseteq DOMAIN plans
      BY <3>1, <3>2, WithoutKeeps DEF LateDelete, LateStatus, LateClaim, LateRender
    <3> QED
      BY <2>1, <3>1, <3>3
  <2>11. CASE Provision \/ Finalize \/ UNCHANGED vars \/ \E s \in Spec : Edit(s)
    <3>1. plans' = plans /\ pass' = pass
      BY <2>11 DEF Provision, Finalize, Edit, vars
    <3> QED
      BY <2>1, <3>1
  <2>12. ASSUME NEW n \in DOMAIN plans,
                Execute(n) \/ Complete(n) \/ Approve(n) \/ AdminFails(n) \/ DeleteFailed(n)
         PROVE  OneInv'
    <3>1. DOMAIN plans' \subseteq DOMAIN plans
      BY <2>0, <2>12, PhaseSet, WithoutKeeps
         DEF Execute, Complete, Approve, AdminFails, DeleteFailed
    <3>2. pass' = pass
      BY <2>12 DEF Execute, Complete, Approve, AdminFails, DeleteFailed
    <3> QED
      BY <2>1, <3>1, <3>2
  <2> QED
    BY <2>3, <2>4, <2>5, <2>6, <2>7, <2>8, <2>9, <2>10, <2>11, <2>12, Zenon
       DEF Next, PassStep, PlanStep, PersonStep
<1>3. OneInv => OnePlan
  BY DEF OneInv
<1> QED
  BY <1>1, <1>2, <1>3, Inductive, PTL DEF GateSpec
=============================================================================
