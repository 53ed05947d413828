--------------------------- MODULE BackupRetention ---------------------------
(***************************************************************************)
(* Backup runs and prunes over one restic repository (backup-core's        *)
(* engine.rs and prune.rs, used by the runner's Jobs and the CLI).         *)
(*                                                                         *)
(* A sequential run writes a snapshot per claim and, last, the commit      *)
(* snapshot that carries the manifest; nothing but the repository says     *)
(* that it is going on.  A prune lists the repository, plans which runs    *)
(* the keep policy has no more use for and which runs without a manifest   *)
(* have been given up, and then forgets their snapshots in two steps.      *)
(* Runs and prunes of several clusters share the repository and overlap    *)
(* freely; any of them may end half-way.  Time is in ticks.                *)
(***************************************************************************)
EXTENDS Integers, FiniteSets

CONSTANTS
  Run,           \* run tags, numbered in the order of their ids
  Cluster,       \* clusters that share the repository
  Owner,         \* the cluster a run tag begins with
  Scheduled,     \* runs of a backup Job; the others are `backup create`
  Monolithic,    \* runs that write one snapshot of everything
  Old,           \* runs committed before the model begins
  Pruner,        \* prunes that may overlap
  Claims,        \* data claims a sequential run writes one snapshot for
  RunDeadline,   \* spec.backup.activeDeadlineSeconds
  KeepAliveFloor,\* DEFAULT_RUN_DEADLINE
  UnfinishedRunMargin,  \* UNFINISHED_RUN_MARGIN
  Grace,         \* from the Job's deadline to the end of its pod
  UploadTime,    \* longest `restic backup` of a run that no Job bounds
  Keep,          \* RetentionPolicy: periods kept, by the period's length
  MaxTime,       \* bound: the clock
  MaxFails       \* bound: prunes that end half-way

ASSUME RunAssumption ==
  /\ Run \subseteq Nat /\ IsFiniteSet(Run)
  /\ Owner \in [Run -> Cluster]
  /\ Scheduled \subseteq Run /\ Monolithic \subseteq Run
  /\ Old \subseteq Run /\ \A q, r \in Old : Owner[q] = Owner[r] => q = r

ASSUME TimeAssumption ==
  /\ \A d \in {Claims, RunDeadline, KeepAliveFloor, UnfinishedRunMargin, Grace,
               UploadTime, MaxTime, MaxFails} : d \in Nat
  /\ DOMAIN Keep \subseteq Nat \ {0} /\ Keep \in [DOMAIN Keep -> Nat]

\* A Job's pod is gone within the margin of its deadline, and a `restic backup`
\* of `backup create` takes less than the margin.  The first is what the margin
\* is for; nothing in the code bounds the second.
ASSUME MarginAssumption ==
  Grace < UnfinishedRunMargin /\ UploadTime < UnfinishedRunMargin

VARIABLES
  now,
  run,     \* st, start, the snapshot under way (item) and since when
  snaps,   \* the snapshots the repository lists
  prune,   \* prunes in progress: pc and the snapshots left to forget
  fails

vars == <<now, run, snaps, prune, fails>>

Commit == Claims + 1           \* the item that carries the manifest
Item == 1..Commit
Items(r) == IF r \in Monolithic THEN {Commit} ELSE Item
NoPrune == [pc |-> "idle", ids |-> {}]

Init ==
  /\ now = 0
  /\ run = [r \in Run |-> [st |-> IF r \in Old THEN "done" ELSE "new",
                           start |-> 0, item |-> Commit, since |-> 0]]
  /\ snaps = UNION {{[run |-> r, item |-> i, ended |-> 0] : i \in Items(r)} : r \in Old}
  /\ prune = [p \in Pruner |-> NoPrune]
  /\ fails = 0

-----------------------------------------------------------------------------
(* Which snapshots a prune forgets: plan_prune. *)

MaxOf(a, b) == IF a > b THEN a ELSE b

HelperKeepAlive == MaxOf(RunDeadline, KeepAliveFloor)
UnfinishedRunWindow == HelperKeepAlive + UnfinishedRunMargin

OwnedBy(c) == {s \in snaps : Owner[s.run] = c}

Group(listed, r) == {s \in listed : s.run = r}
Id(s) == <<s.run, s.item>>

\* A claim's snapshot completes nothing, not even alone in its run.
DeriveManifest(s) == s.item = Commit

Complete(listed) == {s.run : s \in {t \in listed : DeriveManifest(t)}}

\* Mutant: a run without a manifest is never given up.
MayStillBeWrittenForEver(listed, r) == TRUE
\* Until the window has passed since the newest snapshot a backup may still be
\* writing the run.
MayStillBeWritten(listed, r) ==
  \E s \in Group(listed, r) : now - s.ended < UnfinishedRunWindow

\* Mutant: the walk goes by the commit snapshot's time.
CommitTime(r) == (CHOOSE s \in snaps : s.run = r /\ s.item = Commit).ended
NewestCommitFirst(q, r) ==
  \/ CommitTime(q) > CommitTime(r)
  \/ CommitTime(q) = CommitTime(r) /\ q < r
\* The walk order of the keep policy: by the start in the run tag.
NewestRunFirst(q, r) == run[q].start > run[r].start

Period(len, r) == run[r].start \div len

\* The newest run of each period, of the newest Keep[len] periods that have one.
KeepByPeriod(reps, len) ==
  {r \in reps :
     LET newer == {q \in reps : NewestRunFirst(q, r)}
     IN  /\ \A q \in newer : Period(len, q) # Period(len, r)
         /\ Cardinality({Period(len, q) : q \in newer}) < Keep[len]}

SelectKept(reps) == UNION {KeepByPeriod(reps, len) : len \in DOMAIN Keep}

PlanPrune(c) ==
  LET listed == OwnedBy(c)
      complete == Complete(listed)
      unfinished == {r \in {s.run : s \in listed} \ complete :
                       MayStillBeWritten(listed, r)}
      stay == SelectKept(complete) \cup unfinished
  IN  {Id(s) : s \in {t \in listed : t.run \notin stay}}

-----------------------------------------------------------------------------
(* A backup run: run_backup_sequential_with_summary and its monolithic twin. *)

\* Two runs of one cluster have different starts, as their tags must.
StartRun(r) ==
  /\ run[r].st = "new"
  /\ \A q \in Run : Owner[q] = Owner[r] /\ run[q].st # "new" => run[q].start # now
  /\ run' = [run EXCEPT ![r] =
               [st |-> "dump", start |-> now, since |-> now,
                item |-> IF r \in Monolithic THEN Commit ELSE 1]]
  /\ UNCHANGED <<now, snaps, prune, fails>>

\* run_extraction, in a helper pod, has staged the item; restic starts and
\* holds a lock of the repository until it ends.
BeginUpload(r) ==
  /\ run[r].st = "dump"
  /\ run' = [run EXCEPT ![r].st = "upload", ![r].since = now]
  /\ UNCHANGED <<now, snaps, prune, fails>>

\* The snapshot is listed once restic has ended, with that time.
EndUpload(r) ==
  /\ run[r].st = "upload"
  /\ snaps' = snaps \cup {[run |-> r, item |-> run[r].item, ended |-> now]}
  /\ run' = [run EXCEPT ![r] =
               IF @.item = Commit
               THEN [run[r] EXCEPT !.st = "done", !.since = 0]
               ELSE [run[r] EXCEPT !.st = "dump", !.item = run[r].item + 1, !.since = now]]
  /\ UNCHANGED <<now, prune, fails>>

\* A step fails, the process ends, or the Job's deadline passes.
RunDies(r) ==
  /\ run[r].st \in {"dump", "upload"}
  /\ run' = [run EXCEPT ![r] = [@ EXCEPT !.st = "dead", !.start = 0, !.item = Commit, !.since = 0]]
  /\ UNCHANGED <<now, snaps, prune, fails>>

-----------------------------------------------------------------------------
(* A prune: run_prune, for the backup Job, the check Job and the CLI. *)

Uploading == \E r \in Run : run[r].st = "upload"

\* Mutant: a prune with nothing to forget goes on.
ListAndPlanNothing(p) ==
  /\ prune[p].pc = "idle"
  /\ \E c \in Cluster :
       prune' = [prune EXCEPT ![p] = [pc |-> "probe", ids |-> PlanPrune(c)]]
  /\ UNCHANGED <<now, run, snaps, fails>>

\* A plan that forgets nothing ends the prune.
ListAndPlan(p) ==
  /\ prune[p].pc = "idle"
  /\ \E c \in Cluster :
       LET ids == PlanPrune(c)
       IN  /\ ids # {}
           /\ prune' = [prune EXCEPT ![p] = [pc |-> "probe", ids |-> ids]]
  /\ UNCHANGED <<now, run, snaps, fails>>

Without(ids) == {s \in snaps : Id(s) \notin ids}

\* One snapshot first, whichever has the smallest id: restic takes the
\* repository's exclusive lock for it.  The rest follows if there is any.
ForgetProbe(p) ==
  /\ prune[p].pc = "probe" /\ ~Uploading
  /\ \E probe \in prune[p].ids :
       /\ snaps' = Without({probe})
       /\ prune' = [prune EXCEPT ![p] =
                      IF @.ids = {probe} THEN NoPrune
                      ELSE [pc |-> "rest", ids |-> @.ids \ {probe}]]
  /\ UNCHANGED <<now, run, fails>>

ForgetRest(p) ==
  /\ prune[p].pc = "rest" /\ ~Uploading
  /\ snaps' = Without(prune[p].ids)
  /\ prune' = [prune EXCEPT ![p] = NoPrune]
  /\ UNCHANGED <<now, run, fails>>

\* A running `restic backup` keeps the exclusive lock from the forget, which
\* fails and ends the prune.
ForgetLocked(p) ==
  /\ prune[p].pc # "idle" /\ Uploading
  /\ prune' = [prune EXCEPT ![p] = NoPrune]
  /\ UNCHANGED <<now, run, snaps, fails>>

\* The store refuses the delete, a request fails or the process ends, with any
\* part of the step done.
PruneStops(p) ==
  /\ prune[p].pc # "idle" /\ fails < MaxFails
  /\ \E gone \in SUBSET prune[p].ids :
       /\ gone # {} => prune[p].pc = "rest" /\ ~Uploading
       /\ snaps' = Without(gone)
  /\ prune' = [prune EXCEPT ![p] = NoPrune]
  /\ fails' = fails + 1
  /\ UNCHANGED <<now, run>>

-----------------------------------------------------------------------------
(* Time.  What may not take longer has ended by then. *)

\* A dump ends with its helper pod, a Job's run with its pod.
InTime(r) ==
  /\ run[r].st = "dump" => now < run[r].since + HelperKeepAlive
  /\ run[r].st = "upload" /\ r \notin Scheduled => now < run[r].since + UploadTime
  /\ run[r].st \in {"dump", "upload"} /\ r \in Scheduled =>
       now < run[r].start + RunDeadline + Grace

Tick ==
  /\ now < MaxTime
  /\ \A r \in Run : InTime(r)
  /\ now' = now + 1
  /\ UNCHANGED <<run, snaps, prune, fails>>

RunStep(r) == BeginUpload(r) \/ EndUpload(r) \/ RunDies(r)
PruneStep(p) == ListAndPlan(p) \/ ForgetProbe(p) \/ ForgetRest(p) \/ ForgetLocked(p)

Next ==
  \/ Tick
  \/ \E r \in Run : StartRun(r) \/ RunStep(r)
  \/ \E p \in Pruner : PruneStep(p) \/ PruneStops(p)

Spec == Init /\ [][Next]_vars

\* A run that is going on ends, and as long as there is something to forget
\* prunes are started and take their steps.
LiveSpec ==
  /\ Spec
  /\ WF_vars(\E r \in Run : RunStep(r))
  /\ WF_vars(\E p \in Pruner : PruneStep(p))

-----------------------------------------------------------------------------
\* No snapshot is older than its run or from the future, none is of an item its
\* run does not write, and a prune is under way exactly while it has snapshots
\* left to forget (run_prune returns early on an empty plan).
TypeOK ==
  /\ now \in 0..MaxTime /\ fails \in 0..MaxFails
  /\ run \in [Run -> [st: {"new", "dump", "upload", "done", "dead"},
                      start: 0..MaxTime, item: Item, since: 0..MaxTime]]
  /\ \A s \in snaps : /\ s.run \in Run /\ s.item \in Items(s.run)
                      /\ s.ended \in run[s.run].start .. now
  /\ prune \in [Pruner -> [pc: {"idle", "probe", "rest"}, ids: SUBSET (Run \X Item)]]
  /\ \A p \in Pruner : prune[p].ids = {} <=> prune[p].pc = "idle"

Committed(c) == {r \in Run : Owner[r] = c /\ run[r].st = "done"}
Stored(r) == {s.item : s \in Group(snaps, r)}

\* What the policy promises, over every run that was ever committed: the last
\* run of a period, if fewer than Keep later periods have a run.
Due(r) ==
  LET later == {q \in Committed(Owner[r]) : run[q].start > run[r].start}
  IN  /\ run[r].st = "done"
      /\ \E len \in DOMAIN Keep :
           /\ \A q \in later : Period(len, q) # Period(len, r)
           /\ Cardinality({Period(len, q) : q \in later}) < Keep[len]

\* A committed run that the keep policy has a use for has every one of its
\* snapshots, whatever prunes of whatever cluster overlapped with it while it
\* was written and since, and wherever they stopped (plan_prune, the window of
\* unfinished_run_window, run_prune's two forgets).
KeptIsWhole == \A r \in Run : Due(r) => Stored(r) = Items(r)

\* What has ended and is not kept leaves the repository: a run that died, one
\* past its keep policy and one that a stopped prune has half forgotten, once
\* the window has passed (the orphan arm of plan_prune).
GarbageGoes ==
  []<>(\A r \in Run :
         /\ run[r].st \in {"done", "dead"} /\ ~Due(r)
         /\ \A s \in Group(snaps, r) : now - s.ended >= UnfinishedRunWindow
         => Stored(r) = {})
=============================================================================
