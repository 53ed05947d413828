---------------------------- MODULE SharedVolume ----------------------------
(***************************************************************************)
(* One SharedVolume and its PVC (shared_volume.rs).                        *)
(*                                                                         *)
(* A pass over a live volume applies the PVC, counts the claims that refer *)
(* to the volume and writes both into its status; a pass over a deleted    *)
(* one deletes the PVC and releases the finalizer.  Passes do not overlap, *)
(* but a pass that was given up may have a request on its way that the     *)
(* apiserver carries out later, and nobody owns the PVC: one that appears  *)
(* after the finalizer has gone stays for good.  Time is in ticks.         *)
(***************************************************************************)
EXTENDS Integers

CONSTANTS
  RequestTimeout,  \* the apiserver carries a request out within this or not at all
  DeleteSettle,    \* DELETE_SETTLE
  AnswerLag,       \* longest way of an answer from the PVC's deletion to the pass
  LateKinds,       \* requests of a failed pass that may still be carried out
  MaxFails,        \* bound: passes that fail, and ends of the process
  MaxRefs          \* bound: claims that refer to the volume

ASSUME TimeAssumption ==
  /\ RequestTimeout \in Nat /\ DeleteSettle \in Nat /\ AnswerLag \in Nat
  /\ MaxFails \in Nat /\ MaxRefs \in Nat

ASSUME LateAssumption == LateKinds \subseteq {"apply", "status", "delete"}

\* The answer to a DELETE that found or removed the PVC comes in before the
\* settle time has run out on everything sent before it.
PromptAnswers == RequestTimeout + AnswerLag < DeleteSettle

VARIABLES
  sv,         \* the stored SharedVolume: st, finalizer, ready and refCount
  pvc,        \* its PVC exists
  refs,       \* claims labelled with its name
  news,       \* a change of those claims is on its way to the watch
  queued,     \* a pass is due
  pass,       \* the pass in progress
  unsettled,  \* sv_unsettled: time since a provisioning pass failed
  late,       \* requests of given-up passes that are still on their way
  fails,      \* faults so far
  restarted   \* the process has ended and begun again

vars == <<sv, pvc, refs, news, queued, pass, unsettled, late, fails, restarted>>

Settled == -1
Gone == [st |-> "absent", fin |-> FALSE, ready |-> FALSE, refs |-> 0]
Idle == [pc |-> "idle", age |-> 0, count |-> 0, ready |-> FALSE]

ProvisionPC == {"finalize", "select", "apply", "applied", "count", "status"}
WritingPC == {"select", "apply", "applied", "count", "status"}
DeletePC == {"delete", "deleted", "release"}
Timed == {"apply", "delete"}   \* the requests whose time is kept

Init ==
  /\ sv = Gone /\ pvc = FALSE
  /\ refs = 0 /\ news = FALSE
  /\ queued = FALSE /\ pass = Idle
  /\ unsettled = Settled /\ late = {}
  /\ fails = 0 /\ restarted = FALSE

At(pc) == pass.pc = pc
Go(pc) == pass' = [pass EXCEPT !.pc = pc, !.age = 0]

---------------------------------------------------------------------------
(* A pass over a live volume. *)

\* Mutant: the pass goes ahead without its finalizer.
BeginUnfinalized ==
  /\ At("idle") /\ queued /\ sv.st = "live"
  /\ queued' = FALSE
  /\ Go("select")
  /\ UNCHANGED <<sv, pvc, refs, news, unsettled, late, fails, restarted>>

Begin ==
  /\ At("idle") /\ queued /\ sv.st = "live"
  /\ queued' = FALSE
  /\ Go(IF sv.fin THEN "select" ELSE "finalize")
  /\ UNCHANGED <<sv, pvc, refs, news, unsettled, late, fails, restarted>>

AddFinalizer ==
  /\ At("finalize") /\ sv.st # "absent"
  /\ sv' = [sv EXCEPT !.fin = TRUE]
  /\ queued' = TRUE
  /\ Go("select")
  /\ UNCHANGED <<pvc, refs, news, unsettled, late, fails, restarted>>

\* Any shared-disk provider will do; without one there is no PVC to apply.
SelectProvider ==
  /\ At("select")
  /\ \E found \in BOOLEAN :
       pass' = [pass EXCEPT !.pc = IF found THEN "apply" ELSE "count", !.age = 0, !.ready = found]
  /\ UNCHANGED <<sv, pvc, refs, news, queued, unsettled, late, fails, restarted>>

ApplyCommits ==
  /\ At("apply")
  /\ pvc' = TRUE
  /\ Go("applied")
  /\ UNCHANGED <<sv, refs, news, queued, unsettled, late, fails, restarted>>

ApplyAnswered ==
  /\ At("applied")
  /\ Go("count")
  /\ UNCHANGED <<sv, pvc, refs, news, queued, unsettled, late, fails, restarted>>

CountRefs ==
  /\ At("count")
  /\ pass' = [pass EXCEPT !.pc = "status", !.age = 0, !.count = refs]
  /\ UNCHANGED <<sv, pvc, refs, news, queued, unsettled, late, fails, restarted>>

\* The terminal status.  The write is an event of its own only if it changes
\* something; a volume without a provider is looked at again by and by.
WriteStatus ==
  /\ At("status")
  /\ sv' = [sv EXCEPT !.ready = pass.ready, !.refs = pass.count]
  /\ queued' = (queued \/ sv' # sv)
  /\ pass' = Idle
  /\ UNCHANGED <<pvc, refs, news, unsettled, late, fails, restarted>>

---------------------------------------------------------------------------
(* A pass over a deleted volume. *)

BeginDelete ==
  /\ At("idle") /\ queued /\ sv.st = "deleting"
  /\ queued' = FALSE
  /\ Go("delete")
  /\ UNCHANGED <<sv, pvc, refs, news, unsettled, late, fails, restarted>>

\* The PVC goes, or was not there (404).
DeleteCommits ==
  /\ At("delete")
  /\ pvc' = FALSE
  /\ Go("deleted")
  /\ UNCHANGED <<sv, refs, news, queued, unsettled, late, fails, restarted>>

\* Mutant: the finalizer is released whatever failed before.
MustWaitNever == FALSE

\* settle_remaining: a failed pass is not yet DELETE_SETTLE ago.
MustWait == unsettled # Settled /\ unsettled < DeleteSettle

\* Mutant: the pass that holds the finalizer waits for an event.
HoldFinalizerForEvent ==
  /\ At("deleted") /\ MustWait
  /\ pass' = Idle
  /\ UNCHANGED <<sv, pvc, refs, news, queued, unsettled, late, fails, restarted>>

HoldFinalizer ==
  /\ At("deleted") /\ MustWait
  /\ pass' = Idle
  /\ queued' = TRUE
  /\ UNCHANGED <<sv, pvc, refs, news, unsettled, late, fails, restarted>>

ForgetUnsettled ==
  /\ At("deleted") /\ ~MustWait
  /\ unsettled' = Settled
  /\ Go("release")
  /\ UNCHANGED <<sv, pvc, refs, news, queued, late, fails, restarted>>

\* Mutant: the finalizer first, the PVC afterwards.
ReleaseThenDelete ==
  /\ At("release")
  /\ sv' = Gone
  /\ queued' = FALSE
  /\ Go("delete")
  /\ UNCHANGED <<pvc, refs, news, unsettled, late, fails, restarted>>

\* The last finalizer goes and the object with it.
Release ==
  /\ At("release")
  /\ sv' = Gone
  /\ queued' = FALSE
  /\ pass' = Idle
  /\ UNCHANGED <<pvc, refs, news, unsettled, late, fails, restarted>>

---------------------------------------------------------------------------
(* Failures. *)

\* The request the pass has on its way, if the apiserver may still act on it.
InFlight == IF pass.pc \in LateKinds THEN {pass} ELSE {}

\* An error, or the deadline: note_unsettled unless the pass saw the volume
\* deleted, and error_policy_sv requeues it.
GiveUp ==
  /\ pass' = Idle
  /\ late' = late \cup InFlight
  /\ unsettled' = IF pass.pc \in DeletePC THEN unsettled ELSE 0
  /\ queued' = TRUE
  /\ UNCHANGED <<sv, pvc, refs, news, restarted>>

PassFails ==
  /\ ~At("idle")
  /\ fails < MaxFails /\ fails' = fails + 1
  /\ GiveUp

\* The volume has vanished before it had a finalizer: 404.
VolumeVanished ==
  /\ At("finalize") /\ sv.st = "absent"
  /\ fails' = fails
  /\ GiveUp

\* The requests carry the volume's name and no uid, so they act on whatever
\* bears the name by the time they are carried out.
LateApply(w) ==
  /\ w.pc = "apply"
  /\ pvc' = TRUE
  /\ late' = late \ {w}
  /\ UNCHANGED <<sv, refs, news, queued, pass, unsettled, fails, restarted>>

LateDelete(w) ==
  /\ w.pc = "delete"
  /\ pvc' = FALSE
  /\ late' = late \ {w}
  /\ UNCHANGED <<sv, refs, news, queued, pass, unsettled, fails, restarted>>

LateStatus(w) ==
  /\ w.pc = "status" /\ sv.st # "absent"
  /\ sv' = [sv EXCEPT !.ready = w.ready, !.refs = w.count]
  /\ queued' = (queued \/ sv' # sv)
  /\ late' = late \ {w}
  /\ UNCHANGED <<pvc, refs, news, pass, unsettled, fails, restarted>>

LateDies(w) ==
  /\ late' = late \ {w}
  /\ UNCHANGED <<sv, pvc, refs, news, queued, pass, unsettled, fails, restarted>>

\* sv_unsettled is in memory.
Restart ==
  /\ fails < MaxFails /\ fails' = fails + 1
  /\ restarted' = TRUE
  /\ pass' = Idle
  /\ late' = late \cup InFlight
  /\ unsettled' = Settled
  /\ queued' = TRUE
  /\ UNCHANGED <<sv, pvc, refs, news>>

\* An entry as old as DELETE_SETTLE is as good as none (note_unsettled drops it);
\* its age is counted no further.
Aged(u) == IF u = Settled \/ u >= DeleteSettle THEN u ELSE u + 1

Tick ==
  /\ \A w \in late : w.age < RequestTimeout
  /\ pass.pc \in Timed => pass.age < RequestTimeout
  /\ At("deleted") => pass.age < AnswerLag
  /\ late' = {[w EXCEPT !.age = @ + 1] : w \in late}
  /\ pass' = IF pass.pc \in Timed \cup {"deleted"} THEN [pass EXCEPT !.age = @ + 1] ELSE pass
  /\ unsettled' = Aged(unsettled)
  /\ UNCHANGED <<sv, pvc, refs, news, queued, fails, restarted>>

---------------------------------------------------------------------------
(* The users, and the watch on claims. *)

Create ==
  /\ sv.st = "absent"
  /\ sv' = [Gone EXCEPT !.st = "live"]
  /\ queued' = TRUE
  /\ UNCHANGED <<pvc, refs, news, pass, unsettled, late, fails, restarted>>

Remove ==
  /\ sv.st = "live"
  /\ sv' = IF sv.fin THEN [sv EXCEPT !.st = "deleting"] ELSE Gone
  /\ queued' = sv.fin
  /\ UNCHANGED <<pvc, refs, news, pass, unsettled, late, fails, restarted>>

ClaimChanges ==
  /\ \E n \in {refs - 1, refs + 1} \cap 0 .. MaxRefs : refs' = n
  /\ news' = TRUE
  /\ UNCHANGED <<sv, pvc, queued, pass, unsettled, late, fails, restarted>>

\* Mutant: a claim's event reaches only the claim's own controller.
MapClaimNowhere ==
  /\ news
  /\ news' = FALSE
  /\ UNCHANGED <<sv, pvc, refs, queued, pass, unsettled, late, fails, restarted>>

\* shared_volume_refs_in_store: only a volume that is there is looked at.
MapClaim ==
  /\ news
  /\ news' = FALSE
  /\ queued' = (queued \/ sv.st # "absent")
  /\ UNCHANGED <<sv, pvc, refs, pass, unsettled, late, fails, restarted>>

Requeue ==
  /\ At("idle") /\ sv.st = "live" /\ ~queued
  /\ queued' = TRUE
  /\ UNCHANGED <<sv, pvc, refs, news, pass, unsettled, late, fails, restarted>>

---------------------------------------------------------------------------
ProvisionStep ==
  \/ Begin \/ AddFinalizer \/ SelectProvider \/ ApplyCommits \/ ApplyAnswered
  \/ CountRefs \/ WriteStatus \/ VolumeVanished

DeleteStep == BeginDelete \/ DeleteCommits \/ HoldFinalizer \/ ForgetUnsettled \/ Release

\* The apiserver's own request timeout has the last word.
LateStep == \E w \in late : LateApply(w) \/ LateDelete(w) \/ LateStatus(w) \/ LateDies(w)

FailureStep == PassFails \/ Restart \/ LateStep

UserStep == Create \/ Remove \/ ClaimChanges \/ MapClaim \/ Requeue

Next == ProvisionStep \/ DeleteStep \/ FailureStep \/ UserStep \/ Tick

Spec == Init /\ [][Next]_vars

\* Time passes, passes run, and a request comes to its end.
Fairness ==
  /\ SF_vars(Tick)
  /\ WF_vars(ProvisionStep) /\ SF_vars(DeleteStep)
  /\ WF_vars(LateStep)

LiveSpec == Spec /\ Fairness

---------------------------------------------------------------------------
VolumeType == [st : {"absent", "live", "deleting"}, fin : BOOLEAN, ready : BOOLEAN,
               refs : 0 .. MaxRefs]
PassType == [pc : {"idle"} \cup ProvisionPC \cup DeletePC, age : 0 .. RequestTimeout + AnswerLag,
             count : 0 .. MaxRefs, ready : BOOLEAN]
LateType == [pc : LateKinds, age : 0 .. RequestTimeout, count : 0 .. MaxRefs, ready : BOOLEAN]

Types ==
  /\ sv \in VolumeType /\ pass \in PassType /\ late \subseteq LateType
  /\ pvc \in BOOLEAN /\ news \in BOOLEAN /\ queued \in BOOLEAN /\ restarted \in BOOLEAN
  /\ refs \in 0 .. MaxRefs /\ fails \in 0 .. MaxFails
  /\ unsettled \in {Settled} \cup 0 .. DeleteSettle

\* The type of every variable, and a pass asks for a PVC and writes a status only
\* while the finalizer holds the volume, whoever deletes or creates it meanwhile
\* (reconcile_shared_volume sets the finalizer before anything it would have to
\* clean up).
TypeOK == Types /\ (pass.pc \in WritingPC => sv.fin)

\* No PVC is left without a SharedVolume while the process lives: an apply that
\* was given up cannot land after the finalizer has gone (DELETE_SETTLE: "the
\* delete deletes the PVC, waits this long, deletes it again, and only then
\* releases").  A restart forgets what is unsettled.
NoOrphan == ~restarted /\ sv.st = "absent" => ~pvc

\* A pass deletes the PVC only while its volume is being deleted, never from
\* under one that was created again under the name meanwhile
\* (reconcile_shared_volume deletes by name, without a uid, so the finalizer
\* must outlast the DELETE).  A DELETE of a pass that was given up has no such
\* bound.
VolumeKeepsData == [][pvc /\ ~pvc' => sv.st = "deleting" \/ \E w \in late : LateDelete(w)]_vars

\* The figure the `volume rm` guard reads is the number of references whenever
\* no pass is due or under way and no event is outstanding, whatever passes
\* were given up meanwhile (shared_volume_ref_for_claim: "a stale 0 would
\* wrongly allow deletion").
RefCountSettles ==
  sv.st = "live" /\ At("idle") /\ ~queued /\ ~news => sv.refs = refs

\* A deleted volume goes in the end, also when passes failed just before: the
\* finalizer is held for a while and not for ever (HoldFinalizer's requeue).
DeletionCompletes == []<>(sv.st # "deleting")
=============================================================================
