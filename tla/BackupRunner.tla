---------------------------- MODULE BackupRunner ----------------------------
(***************************************************************************)
(* One run of the in-cluster backup runner and what stops it               *)
(* (apprafter-backup's main.rs, stop.rs, check.rs, restic_child.rs and     *)
(* kube_rs_exec.rs).                                                       *)
(*                                                                         *)
(* The main thread works through a backup (dump each claim in a helper     *)
(* pod, run restic) or a check (restic check, prune, figures).  A signal   *)
(* or a full staging volume stops the run from another thread: it deletes  *)
(* the helper pods and passes the signal on to restic, side by side, while *)
(* the main thread keeps going until what it is blocked in fails; then it  *)
(* records the failure and exits the process.                              *)
(***************************************************************************)
EXTENDS Integers, Sequences

CONSTANTS
  Claims,        \* claims a backup dumps
  Prunes,        \* retention.enforce makes this run prune
  PromptApplies, \* an apply under way is answered while the stop waits for it
  MaxFails       \* bound: steps, status writes and pod deletes that fail

ASSUME RunnerAssumption ==
  /\ Claims \in Nat /\ MaxFails \in Nat
  /\ Prunes \in BOOLEAN /\ PromptApplies \in BOOLEAN

VARIABLES
  mode,      \* the Job: a backup or a check
  main,      \* the main thread: pc, the step it is at, whether the run failed
  phase,     \* PhaseCell
  helpers,   \* LiveHelperPods: pods, applying, stopping
  restic,    \* LiveResticChildren: one running, stopping
  claim,     \* OutcomeClaim: nobody, the run or the stop
  stop,      \* the stop: helpers' side, restic's side, the pods it deletes
  status,    \* the status ConfigMap
  patches,   \* applies the apiserver has not carried out yet
  pods,      \* helper pods in the cluster
  undeleted, \* pods whose delete failed
  exited,
  stoppedIn, \* the phase of the check run whose restic the stop has signalled
  fails

vars == <<mode, main, phase, helpers, restic, claim, stop, status, patches, pods,
          undeleted, exited, stoppedIn, fails>>

Backup == <<"unlock">> \o [i \in 1..2 * Claims |-> IF i % 2 = 1 THEN "helper" ELSE "backup"]
          \o <<"backup">> \o (IF Prunes THEN <<"prune">> ELSE <<>>)
Check == <<"unlock", "check">> \o (IF Prunes THEN <<"prune">> ELSE <<>>) \o <<"stats">>

Steps == IF mode = "backup" THEN Backup ELSE Check
Step == IF main.step \in DOMAIN Steps THEN Steps[main.step] ELSE "end"
Pod == 1..(2 * Claims + 1)     \* a helper pod is named by its step

Init ==
  /\ mode \in {"backup", "check"}
  /\ main = [pc |-> "work", step |-> 1, failed |-> FALSE]
  /\ phase = "check"
  /\ helpers = [pods |-> {}, applying |-> FALSE, stopping |-> FALSE]
  /\ restic = [running |-> FALSE, stopping |-> FALSE]
  /\ claim = "none"
  /\ stop = [helpers |-> "off", restic |-> "off", delete |-> {}, pc |-> "off"]
  /\ status = [outcome |-> "none", check |-> "none", prune |-> "none"]
  /\ patches = {} /\ pods = {} /\ undeleted = {}
  /\ exited = FALSE /\ stoppedIn = "none" /\ fails = 0

-----------------------------------------------------------------------------
(* The main thread. *)

\* A request or a process of the run's fails, or does not.
Result(failed) ==
  /\ failed => fails < MaxFails
  /\ fails' = IF failed THEN fails + 1 ELSE fails

Go(pc) == main' = [main EXCEPT !.pc = pc]

\* To the next step, or out of the run by the error of this one.
Advance(failed) ==
  main' = [pc |-> "work", failed |-> main.failed \/ failed,
           step |-> IF failed THEN Len(Steps) + 1 ELSE main.step + 1]

\* HelperPodGuard is armed before the apply, so a refused apply drops it too.
BeginApply ==
  /\ main.pc = "work" /\ Step = "helper"
  /\ IF helpers.stopping
     THEN /\ main' = [main EXCEPT !.pc = "drop", !.failed = TRUE]
          /\ UNCHANGED <<helpers, patches>>
     ELSE /\ helpers' = [helpers EXCEPT !.pods = @ \cup {main.step}, !.applying = TRUE]
          /\ patches' = patches \cup {main.step}
          /\ Go("patch")
  /\ UNCHANGED <<phase, restic, status, pods, undeleted, fails>>

\* Mutant: the answer leaves the apply counted as under way.
ApplyAnsweredLeavingGuard ==
  /\ main.pc = "patch" /\ main.step \notin patches
  /\ Go("dump")
  /\ UNCHANGED <<phase, helpers, restic, status, patches, pods, undeleted, fails>>

\* ApplyInFlight drops with the answer.
ApplyAnswered ==
  /\ main.pc = "patch" /\ main.step \notin patches
  /\ helpers' = [helpers EXCEPT !.applying = FALSE]
  /\ Go("dump")
  /\ UNCHANGED <<phase, restic, status, patches, pods, undeleted, fails>>

\* The apiserver refuses it, or it is lost on the way; one that the client gives
\* up and that is carried out all the same is not modelled.
ApplyFails ==
  /\ main.pc = "patch" /\ main.step \in patches
  /\ Result(TRUE)
  /\ helpers' = [helpers EXCEPT !.applying = FALSE]
  /\ patches' = patches \ {main.step}
  /\ main' = [main EXCEPT !.pc = "drop", !.failed = TRUE]
  /\ UNCHANGED <<phase, restic, status, pods, undeleted>>

\* A leftover of an earlier run is deleted first and the apply begun again;
\* the pod stays in the live set meanwhile.
ReplaceStale ==
  /\ main.pc = "patch" /\ main.step \notin patches
  /\ Result(TRUE)
  /\ helpers' = [helpers EXCEPT !.applying = FALSE]
  /\ pods' = pods \ {main.step}
  /\ Go("work")
  /\ UNCHANGED <<phase, restic, status, patches, undeleted>>

\* The exec in the helper pod ends; it fails with the pod.
DumpEnds ==
  /\ main.pc = "dump"
  /\ \E failed \in BOOLEAN :
       IF main.step \in pods
       THEN Result(failed) /\ main' = [main EXCEPT !.pc = "drop", !.failed = failed]
       ELSE main' = [main EXCEPT !.pc = "drop", !.failed = TRUE] /\ fails' = fails
  /\ UNCHANGED <<phase, helpers, restic, status, patches, pods, undeleted>>

Deleted(failed, which) ==
  /\ pods' = IF failed THEN pods ELSE pods \ which
  /\ undeleted' = IF failed THEN undeleted \cup (pods \cap which) ELSE undeleted

\* delete_pod_best_effort: the pod is deleted, and then forgotten whatever the
\* answer.
DropGuard ==
  /\ main.pc = "drop"
  /\ \E failed \in BOOLEAN : Result(failed) /\ Deleted(failed, {main.step})
  /\ Go("forget")
  /\ UNCHANGED <<phase, helpers, restic, status, patches>>

ForgetPod ==
  /\ main.pc = "forget"
  /\ helpers' = [helpers EXCEPT !.pods = @ \ {main.step}]
  /\ Advance(main.failed)
  /\ UNCHANGED <<phase, restic, status, patches, pods, undeleted, fails>>

ResticSteps == {"unlock", "backup", "prune", "check", "stats"}

\* What the main thread does with the end of a restic step.  A failed unlock is
\* nothing; a check run notes each result and goes on to the figures after a
\* failed prune.
AfterRestic(failed) ==
  CASE Step = "unlock" \/ Step = "stats" -> Advance(FALSE)
    [] Step \in {"check", "prune"} /\ mode = "check" ->
         main' = [main EXCEPT !.pc = "note", !.failed = failed]
    [] OTHER -> Advance(failed)

\* Checked and recorded under one lock: a child is refused or signalled.
StartRestic ==
  /\ main.pc = "work" /\ Step \in ResticSteps
  /\ phase' = IF mode = "check" /\ Step # "unlock" THEN Step ELSE phase
  /\ IF restic.stopping
     THEN AfterRestic(TRUE) /\ UNCHANGED restic
     ELSE restic' = [restic EXCEPT !.running = TRUE] /\ Go("restic")
  /\ UNCHANGED <<helpers, status, patches, pods, undeleted, fails>>

\* A signalled restic may have finished all the same.
ResticExits ==
  /\ main.pc = "restic" /\ restic.running
  /\ restic' = [restic EXCEPT !.running = FALSE]
  /\ \E failed \in BOOLEAN :
       /\ IF restic.stopping THEN fails' = fails ELSE Result(failed)
       /\ AfterRestic(failed)
  /\ UNCHANGED <<phase, helpers, status, patches, pods, undeleted>>

\* It was killed by the stop.
ResticLost ==
  /\ main.pc = "restic" /\ ~restic.running
  /\ AfterRestic(TRUE)
  /\ UNCHANGED <<phase, helpers, restic, status, patches, pods, undeleted, fails>>

\* unless_claimed looks at the claim first and writes then.
NoteStep ==
  /\ main.pc = "note"
  /\ IF claim = "none" THEN Go("write") ELSE Advance(main.failed /\ Step = "check")
  /\ UNCHANGED <<phase, helpers, restic, status, patches, pods, undeleted, fails>>

WriteStep ==
  /\ main.pc = "write"
  /\ \E lost \in BOOLEAN :
       /\ Result(lost)
       /\ status' = IF lost THEN status
                    ELSE [status EXCEPT ![Step] = IF main.failed THEN "failed" ELSE "ok"]
  /\ Advance(main.failed /\ Step = "check")
  /\ UNCHANGED <<phase, helpers, restic, patches, pods, undeleted>>

\* A backup run's outcome, prune included, with its webhook after it; a check
\* run has recorded its steps.  The process exits.
RecordOutcome ==
  /\ main.pc = "record"
  /\ IF mode = "backup"
     THEN \E lost \in BOOLEAN :
            /\ Result(lost)
            /\ status' = IF lost THEN status
                         ELSE [status EXCEPT !.outcome = IF main.failed THEN "failed" ELSE "ok"]
     ELSE UNCHANGED <<status, fails>>
  /\ exited' = TRUE
  /\ UNCHANGED <<main, phase, helpers, restic, patches, pods, undeleted>>

MainStep ==
  /\ ~exited
  /\ \/ /\ \/ BeginApply \/ ApplyAnswered \/ ApplyFails \/ ReplaceStale \/ DumpEnds
           \/ DropGuard \/ ForgetPod \/ StartRestic \/ ResticExits \/ ResticLost \/ NoteStep \/ WriteStep
        /\ exited' = exited
     \/ RecordOutcome
  /\ UNCHANGED <<mode, claim, stop, stoppedIn>>

-----------------------------------------------------------------------------
(* Who records: OutcomeClaim::claim, one swap. *)

\* Mutant: the second claim wins.
ClaimLast(who) == claim' = who
Claim(who) == claim = "none" /\ claim' = who

\* The run has ended; if the stop was first the main thread parks for good.
EndRun ==
  /\ ~exited /\ main.pc = "work" /\ Step = "end"
  /\ Claim("run")
  /\ Go("record")
  /\ UNCHANGED <<mode, phase, helpers, restic, stop, status, patches, pods, undeleted,
                 exited, stoppedIn, fails>>

\* SIGTERM, SIGINT or a staging volume over its limit.
BeginStop ==
  /\ ~exited /\ stop.pc = "off"
  /\ Claim("stop")
  /\ stop' = [stop EXCEPT !.pc = "work", !.helpers = "close", !.restic = "signal"]
  /\ UNCHANGED <<mode, main, phase, helpers, restic, status, patches, pods, undeleted,
                 exited, stoppedIn, fails>>

-----------------------------------------------------------------------------
(* The stop: stop_run_with. *)

\* helper_pods_to_delete: refuse every later apply, wait for the one under way,
\* take what is live.
CloseHelpers ==
  /\ stop.helpers = "close"
  /\ helpers' = [helpers EXCEPT !.stopping = TRUE]
  /\ stop' = [stop EXCEPT !.helpers = "settle"]
  /\ UNCHANGED <<restic, status, pods, undeleted, fails>>

\* Mutant: the stop does not wait for the apply under way.
SettleUnwaited ==
  /\ stop.helpers = "settle"
  /\ stop' = [stop EXCEPT !.helpers = "delete", !.delete = helpers.pods]
  /\ UNCHANGED <<helpers, restic, status, pods, undeleted, fails>>

\* Mutant: the stop waits until no helper pod is live.
SettleUntilForgotten ==
  /\ stop.helpers = "settle" /\ helpers.pods = {}
  /\ stop' = [stop EXCEPT !.helpers = "delete", !.delete = helpers.pods]
  /\ UNCHANGED <<helpers, restic, status, pods, undeleted, fails>>

\* The apply has been answered, or the bound on the wait has passed.
Settle ==
  /\ stop.helpers = "settle" /\ (helpers.applying => ~PromptApplies)
  /\ stop' = [stop EXCEPT !.helpers = "delete", !.delete = helpers.pods]
  /\ UNCHANGED <<helpers, restic, status, pods, undeleted, fails>>

DeleteHelpers ==
  /\ stop.helpers = "delete"
  /\ \E failed \in BOOLEAN : Result(failed) /\ Deleted(failed, stop.delete)
  /\ stop' = [stop EXCEPT !.helpers = "done"]
  /\ UNCHANGED <<helpers, restic, status>>

\* release_restic: refuse every later start and signal the one running.
CloseAndSignal ==
  /\ stop.restic = "signal"
  /\ restic' = [restic EXCEPT !.stopping = TRUE]
  /\ stop' = [stop EXCEPT !.restic = IF restic.running THEN "wait" ELSE "done"]
  /\ stoppedIn' = IF mode = "check" /\ restic.running THEN phase ELSE "none"
  /\ UNCHANGED <<helpers, status, pods, undeleted, fails>>

\* It has exited, or the bound has passed and it is killed, its lock in place.
ReleaseRestic ==
  /\ stop.restic = "wait"
  /\ restic' = [restic EXCEPT !.running = FALSE]
  /\ stop' = [stop EXCEPT !.restic = "done"]
  /\ UNCHANGED <<helpers, status, pods, undeleted, fails>>

\* stop_record, by the phase the check run is in by now.
StopRecord ==
  IF mode = "backup" THEN [status EXCEPT !.outcome = "stopped"]
  ELSE IF phase \in {"check", "prune"} THEN [status EXCEPT ![phase] = "stopped"]
  ELSE status

RecordStop ==
  /\ stop.pc = "work" /\ stop.helpers = "done" /\ stop.restic = "done"
  /\ \E lost \in BOOLEAN :
       Result(lost) /\ status' = IF lost THEN status ELSE StopRecord
  /\ stop' = [stop EXCEPT !.pc = "webhook"]
  /\ UNCHANGED <<helpers, restic, pods, undeleted>>

\* The failure webhook, and the end of the process.
PostAndExit ==
  /\ stop.pc = "webhook"
  /\ exited' = TRUE
  /\ UNCHANGED <<stop, helpers, restic, status, pods, undeleted, stoppedIn, fails>>

StopStep ==
  /\ ~exited
  /\ \/ /\ \/ CloseHelpers \/ Settle \/ DeleteHelpers \/ ReleaseRestic \/ RecordStop
        /\ UNCHANGED <<exited, stoppedIn>>
     \/ CloseAndSignal /\ UNCHANGED exited
     \/ PostAndExit
  /\ UNCHANGED <<mode, main, phase, claim, patches>>

\* The apiserver carries an apply out, the process gone or not.
ApiApplies ==
  /\ \E p \in patches : patches' = patches \ {p} /\ pods' = pods \cup {p}
  /\ UNCHANGED <<mode, main, phase, helpers, restic, claim, stop, status, undeleted,
                 exited, stoppedIn, fails>>

Next == MainStep \/ EndRun \/ BeginStop \/ StopStep \/ ApiApplies

Spec == Init /\ [][Next]_vars

\* The Job's deadline stops a run that has not ended, and the stop's own steps
\* are bounded; the apiserver answers.  Nothing says that a dump or a restic
\* that nobody stops will ever end.
LiveSpec ==
  /\ Spec
  /\ WF_vars(BeginStop) /\ WF_vars(StopStep)
  /\ WF_vars(ApiApplies)
  /\ WF_vars(main.pc \in {"patch", "record"} /\ MainStep)

-----------------------------------------------------------------------------
\* A restic that runs is one the main thread waits for, and an apply counts as
\* under way exactly until its answer (ApplyInFlight, LiveResticChildren); the
\* rest has its type.
TypeOK ==
  /\ mode \in {"backup", "check"}
  /\ main \in [pc: {"work", "patch", "dump", "drop", "forget", "restic", "note", "write",
                    "record"},
               step: 1..(Len(Steps) + 1), failed: BOOLEAN]
  /\ phase \in {"check", "prune", "stats"}
  /\ helpers \in [pods: SUBSET Pod, applying: BOOLEAN, stopping: BOOLEAN]
  /\ restic \in [running: BOOLEAN, stopping: BOOLEAN]
  /\ claim \in {"none", "run", "stop"}
  /\ stop.pc \in {"off", "work", "webhook"} /\ stop.delete \subseteq Pod
  /\ \A o \in DOMAIN status : status[o] \in {"none", "ok", "failed", "stopped"}
  /\ patches \subseteq Pod /\ pods \subseteq Pod /\ undeleted \subseteq Pod
  /\ exited \in BOOLEAN /\ fails \in 0..MaxFails
  /\ stoppedIn \in {"none", "check", "prune", "stats"}
  /\ restic.running => main.pc = "restic"
  /\ helpers.applying <=> main.pc = "patch"

\* The process leaves nothing of a run at work: no restic that outlives the wait or
\* dies with the exit before it was told to, no helper pod but one whose delete
\* failed, and none that is still to come (LiveHelperPods, LiveResticChildren).  A
\* restic killed at the bound is gone too, and its repository lock is not: that the
\* code says itself (RESTIC_RELEASE_BOUND).
CleanExit ==
  exited => ~restic.running /\ pods \subseteq undeleted /\ patches = {}

\* A backup run's status says what whoever claimed the outcome found, unless
\* the write was lost: an error that is the stop's own doing never replaces its
\* reason, and a finished run is not recorded as stopped (OutcomeClaim).
RecordedByClaimer ==
  exited /\ mode = "backup" =>
    status.outcome \in {"none", IF claim = "stop" THEN "stopped"
                                ELSE IF main.failed THEN "failed" ELSE "ok"}

\* Stopped or not, the run ends: the main thread parks only when the stop is
\* there to exit, and the stop's waits end (run, stop_run_with).
EventuallyExits == <>exited

\* A check run whose prune the stop signalled has the prune recorded, by the
\* run or by the stop: "A stop here is a prune that failed" (CheckPhase::Prune).
\* It does not hold: the stop reads the phase when the run has left the prune.
StoppedPruneIsRecorded ==
  exited /\ stoppedIn = "prune" /\ fails = 0 => status.prune # "none"
=============================================================================
