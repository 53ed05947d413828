--------------------------- MODULE LeaderElection ---------------------------
(***************************************************************************)
(* The Lease-based leader election of the operator (operator-core/leader.rs*)
(* and the gate in apprafter-operator/main.rs).                            *)
(*                                                                         *)
(* Time is a Tick action; every instant the code keeps is held as the      *)
(* number of ticks that have passed since it (or, for a sleep, that remain *)
(* until it), so that the model needs no bound on time itself.  Only the   *)
(* ages that nobody compares any more saturate, at Horizon.                *)
(*                                                                         *)
(* The apiserver answers late or never: a write that is cut off or whose   *)
(* process dies may still commit afterwards, as long as the Lease has not  *)
(* changed since the read it is conditional on (its resourceVersion).      *)
(***************************************************************************)
EXTENDS Integers, FiniteSets

CONSTANTS
  Replica,        \* operator pods; holder_id is the pod name
  NoReplica,      \* the holder of a Lease that does not exist
  Skew,           \* offset of each replica's wall clock
  MaxSkew,        \* the largest difference between two wall clocks
  LeaseDuration, RenewPeriod, RenewDeadline, RetryPeriod, ReadTimeout,
  Second,         \* ticks per second: the staleness check counts whole seconds
  Lateness,       \* how late a due timer may run, and how long an exit takes
  MaxLate         \* bound: abandoned writes that may still commit at a time

Abs(i) == IF i < 0 THEN -i ELSE i

ASSUME ReplicaAssumption == NoReplica \notin Replica

ASSUME TimingAssumption ==
  /\ LeaseDuration \in Nat /\ RenewPeriod \in Nat /\ RenewDeadline \in Nat
  /\ RetryPeriod \in Nat /\ ReadTimeout \in Nat
  /\ Second \in Nat \ {0} /\ Lateness \in Nat /\ MaxSkew \in Nat
  /\ Skew \in [Replica -> Int]
  /\ \A a, b \in Replica : Skew[a] - Skew[b] <= MaxSkew
  /\ MaxLate \in Nat
  /\ RenewPeriod < RenewDeadline

\* The margin the code leaves "for clock skew between nodes and for the
\* process to exit": a leader that wakes late three times (the cut-off of its
\* last request, the wake-up at its deadline, its exit) is still gone before
\* the most advanced clock declares the Lease stale.
ASSUME MarginAssumption ==
  RenewDeadline + 3 * Lateness + MaxSkew < LeaseDuration + Second

\* Past this age a Lease is stale for every replica, whenever its step began.
Horizon == LeaseDuration + Second + MaxSkew + RenewDeadline + Lateness

VARIABLES
  lease,    \* the Lease object: who holds it and the age of its renewTime
  late,     \* abandoned writes that may still commit: writer and stamp's age
  pc,       \* where each process is in run / acquire_or_renew
  leading,  \* renewed_at is Some
  since,    \* age of renewed_at, while leading
  el,       \* time since the current step started (since `started`)
  due,      \* time until next_attempt, or until the exit, while sleeping
  valid,    \* the Lease is still the one this process read
  acting,   \* the controllers have been started
  edited    \* a human has deleted the Lease at some time

vars == <<lease, late, pc, leading, since, el, due, valid, acting, edited>>

NoLease == [exists |-> FALSE, holder |-> NoReplica, age |-> 0]

PC == {"down", "idle", "reading", "writing", "written", "exiting"}

Init ==
  /\ lease = NoLease
  /\ late = {}
  /\ pc = [r \in Replica |-> "down"]
  /\ leading = [r \in Replica |-> FALSE]
  /\ since = [r \in Replica |-> 0]
  /\ el = [r \in Replica |-> 0]
  /\ due = [r \in Replica |-> 0]
  /\ valid = [r \in Replica |-> FALSE]
  /\ acting = [r \in Replica |-> FALSE]
  /\ edited = FALSE

---------------------------------------------------------------------------
(* The pure decisions of leader.rs.                                        *)

\* The `is_leader` flag the controllers wait on.
Gate(r) == leading[r] /\ pc[r] # "exiting"

\* Mutant of IsLeaseStale.
IsLeaseStaleAtDuration(r) ==
  lease.age - el[r] + Skew[r] - Skew[lease.holder] >= LeaseDuration

\* Whole seconds elapsed between the stamp and this step's `now`, each read on
\* its own wall clock, exceed the lease duration.
IsLeaseStale(r) ==
  lease.age - el[r] + Skew[r] - Skew[lease.holder] >= LeaseDuration + Second

\* Mutant of MayTakeLease.
MayTakeOnlyOwnLease(r) == lease.holder = r

MayTakeLease(r) == lease.holder = r \/ IsLeaseStale(r)

\* No window is left: the leader must step down without trying again.
StepWindowClosed(r) == leading[r] /\ since[r] >= RenewDeadline

\* Mutant of PastWindow.
PastWindowAlwaysOnePeriod(r) == el[r] - RenewPeriod

\* Time past the end of this step's window (negative while it is open).
PastWindow(r) == IF leading[r] THEN since[r] - RenewDeadline ELSE el[r] - RenewPeriod

\* Time past the bound of the request in flight: a read also has its own.
PastReadBound(r) ==
  IF el[r] - ReadTimeout >= PastWindow(r) THEN el[r] - ReadTimeout ELSE PastWindow(r)

PastWriteBound(r) == PastWindow(r)

PastBound(r) == IF pc[r] = "reading" THEN PastReadBound(r) ELSE PastWriteBound(r)

\* Mutant of LeaseSpec.
LeaseSpecWithoutHolder(r, age) ==
  [exists |-> TRUE, holder |-> NoReplica, age |-> age]

\* lease_spec, without its acquireTime, which nothing reads.
LeaseSpec(r, age) == [exists |-> TRUE, holder |-> r, age |-> age]

NotBefore0(i) == IF i < 0 THEN 0 ELSE i

Least(i, j) == IF i <= j THEN i ELSE j

Capped(age) == Least(age, Horizon)

---------------------------------------------------------------------------
(* The steps of `run`.                                                     *)

\* The process starts (or is restarted under the same pod name).
Boot(r) ==
  /\ pc[r] = "down"
  /\ pc' = [pc EXCEPT ![r] = "idle"]
  /\ due' = [due EXCEPT ![r] = 0]
  /\ UNCHANGED <<lease, late, leading, since, el, valid, acting>>

\* The step is over: what it read and when it started are forgotten.
ForgetStep(r) ==
  /\ el' = [el EXCEPT ![r] = 0]
  /\ valid' = [valid EXCEPT ![r] = FALSE]

\* step_down closes the gate; the caller then ends the process.
StepDown(r) ==
  /\ ForgetStep(r)
  /\ pc' = [pc EXCEPT ![r] = "exiting"]
  /\ due' = [due EXCEPT ![r] = 0]
  /\ UNCHANGED <<leading, since>>

\* next_attempt of the Ok(true) and Ok(false) arms.
SleepOnePeriod(r) ==
  /\ ForgetStep(r)
  /\ pc' = [pc EXCEPT ![r] = "idle"]
  /\ due' = [due EXCEPT ![r] = NotBefore0(RenewPeriod - el[r])]

\* The Err arm: a leader retries soon and no later than its deadline.
StepFailed(r) ==
  /\ ForgetStep(r)
  /\ pc' = [pc EXCEPT ![r] = "idle"]
  /\ due' = [due EXCEPT ![r] =
       IF leading[r]
       THEN NotBefore0(Least(RetryPeriod - el[r], RenewDeadline - since[r]))
       ELSE NotBefore0(RenewPeriod - el[r])]
  /\ UNCHANGED <<leading, since>>

\* The sleep is over: step down at the deadline, otherwise read the Lease.
LostLeadership(r) ==
  /\ pc[r] = "idle" /\ due[r] <= 0
  /\ StepWindowClosed(r)
  /\ StepDown(r)
  /\ UNCHANGED <<lease, late, acting>>

BeginStep(r) ==
  /\ pc[r] = "idle" /\ due[r] <= 0
  /\ ~StepWindowClosed(r)
  /\ pc' = [pc EXCEPT ![r] = "reading"]
  /\ due' = [due EXCEPT ![r] = 0]
  /\ UNCHANGED <<lease, late, leading, since, el, valid, acting>>

\* The read answers and this replica may write itself in.
ReadMayTake(r) ==
  /\ pc[r] = "reading"
  /\ lease.exists => MayTakeLease(r)
  /\ pc' = [pc EXCEPT ![r] = "writing"]
  /\ valid' = [valid EXCEPT ![r] = TRUE]
  /\ UNCHANGED <<lease, late, leading, since, el, due, acting>>

\* The read answers with a fresh Lease of somebody else's.
ReadHeldByOther(r) ==
  /\ pc[r] = "reading"
  /\ lease.exists /\ ~MayTakeLease(r)
  /\ ~leading[r]
  /\ SleepOnePeriod(r)
  /\ UNCHANGED <<lease, late, leading, since, acting>>

Deposed(r) ==
  /\ pc[r] = "reading"
  /\ lease.exists /\ ~MayTakeLease(r)
  /\ leading[r]
  /\ StepDown(r)
  /\ UNCHANGED <<lease, late, acting>>

\* The apiserver commits a conditional write stamped `age` ticks ago; every
\* other write that was conditional on the same version is now void.
Commit(r, age) ==
  /\ lease' = LeaseSpec(r, age)
  /\ late' = {}
  /\ valid' = [q \in Replica |-> FALSE]

\* Mutant of WriteCommits: a replace that carries no resourceVersion.
WriteCommitsUnconditionally(r) ==
  /\ pc[r] = "writing"
  /\ Commit(r, el[r])
  /\ pc' = [pc EXCEPT ![r] = "written"]
  /\ UNCHANGED <<leading, since, el, due, acting>>

WriteCommits(r) ==
  /\ pc[r] = "writing" /\ valid[r]
  /\ Commit(r, el[r])
  /\ pc' = [pc EXCEPT ![r] = "written"]
  /\ UNCHANGED <<leading, since, el, due, acting>>

\* Ok(true): renewed_at becomes the start of this step and the gate opens.
WriteAnswered(r) ==
  /\ pc[r] = "written"
  /\ leading' = [leading EXCEPT ![r] = TRUE]
  /\ since' = [since EXCEPT ![r] = el[r]]
  /\ SleepOnePeriod(r)
  /\ UNCHANGED <<lease, late, acting>>

\* Nobody waits for the write in flight any more: it is lost, or stays behind
\* in the apiserver.
Abandon(r) ==
  \/ late' = late
  \/ /\ pc[r] = "writing" /\ valid[r] /\ Cardinality(late) < MaxLate
     /\ late' = late \cup {[by |-> r, age |-> el[r]]}

\* The request in flight hits its bound.
RequestTimesOut(r) ==
  /\ pc[r] \in {"reading", "writing", "written"}
  /\ PastBound(r) >= 0
  /\ Abandon(r)
  /\ StepFailed(r)
  /\ UNCHANGED <<lease, acting>>

\* The write is answered with a conflict.
WriteConflicts(r) ==
  /\ pc[r] = "writing" /\ ~valid[r]
  /\ StepFailed(r)
  /\ UNCHANGED <<lease, late, acting>>

\* The request in flight fails at once; a write may have been applied, or may
\* still be.
RequestErrs(r) ==
  /\ pc[r] \in {"reading", "writing", "written"}
  /\ Abandon(r)
  /\ StepFailed(r)
  /\ UNCHANGED <<lease, acting>>

\* An abandoned write reaches the store after all.
LateCommit(w) ==
  /\ Commit(w.by, w.age)
  /\ UNCHANGED <<pc, leading, since, el, due, acting>>

---------------------------------------------------------------------------
(* The gate, the end of a process, the environment.                        *)

\* main's poll of the flag; the controllers never look at it again.
StartControllers(r) ==
  /\ Gate(r) /\ ~acting[r]
  /\ acting' = [acting EXCEPT ![r] = TRUE]
  /\ UNCHANGED <<lease, late, pc, leading, since, el, due, valid>>

ProcessEnds(r) ==
  /\ Abandon(r)
  /\ ForgetStep(r)
  /\ pc' = [pc EXCEPT ![r] = "down"]
  /\ leading' = [leading EXCEPT ![r] = FALSE]
  /\ since' = [since EXCEPT ![r] = 0]
  /\ due' = [due EXCEPT ![r] = 0]
  /\ acting' = [acting EXCEPT ![r] = FALSE]
  /\ UNCHANGED lease

Exit(r) == pc[r] = "exiting" /\ ProcessEnds(r)

Crash(r) == pc[r] # "down" /\ ProcessEnds(r)

\* A human deletes the Lease.
DeleteLease ==
  /\ lease.exists
  /\ lease' = NoLease
  /\ edited' = TRUE
  /\ late' = {}
  /\ valid' = [q \in Replica |-> FALSE]
  /\ UNCHANGED <<pc, leading, since, el, due, acting>>

\* Timers, cut-offs and the exit run at most Lateness ticks late.
MayWait(r) ==
  CASE pc[r] \in {"idle", "exiting"} -> due[r] > -Lateness
    [] pc[r] \in {"reading", "writing", "written"} -> PastBound(r) < Lateness
    [] OTHER -> TRUE

Tick ==
  /\ \A r \in Replica : MayWait(r)
  /\ lease' = [lease EXCEPT !.age = IF lease.exists THEN Capped(lease.age + 1) ELSE lease.age]
  /\ late' = {[w EXCEPT !.age = Capped(w.age + 1)] : w \in late}
  /\ since' = [r \in Replica |-> IF leading[r] THEN since[r] + 1 ELSE since[r]]
  /\ el' = [r \in Replica |->
       IF pc[r] \in {"reading", "writing", "written"} THEN el[r] + 1 ELSE el[r]]
  /\ due' = [r \in Replica |-> IF pc[r] \in {"idle", "exiting"} THEN due[r] - 1 ELSE due[r]]
  /\ UNCHANGED <<pc, leading, valid, acting>>

---------------------------------------------------------------------------
Process(r) ==
  \/ LostLeadership(r) \/ BeginStep(r)
  \/ ReadMayTake(r) \/ ReadHeldByOther(r) \/ Deposed(r)
  \/ WriteCommits(r) \/ WriteAnswered(r) \/ WriteConflicts(r)
  \/ RequestTimesOut(r) \/ Exit(r)

Unedited ==
  \/ \E r \in Replica :
       Boot(r) \/ Process(r) \/ StartControllers(r) \/ RequestErrs(r) \/ Crash(r)
  \/ \E w \in late : LateCommit(w)
  \/ Tick

Next == (Unedited /\ UNCHANGED edited) \/ DeleteLease

Spec == Init /\ [][Next]_vars

---------------------------------------------------------------------------
(* An apiserver that answers in time: no request fails, and the environment *)
(* keeps a read under ReadLatency and a whole step under StepLatency.       *)
CONSTANTS ReadLatency, StepLatency

ASSUME LatencyAssumption ==
  /\ ReadLatency \in Nat /\ StepLatency \in Nat
  /\ ReadLatency < ReadTimeout /\ ReadLatency <= StepLatency /\ StepLatency < RenewPeriod
  /\ RenewPeriod + Lateness + StepLatency < RenewDeadline

PromptTick ==
  /\ Tick
  /\ \A r \in Replica :
       /\ pc[r] = "reading" => el[r] < ReadLatency
       /\ pc[r] \in {"writing", "written"} => el[r] < StepLatency

HealthyNext ==
  /\ \/ \E r \in Replica : Boot(r) \/ Process(r) \/ StartControllers(r) \/ Crash(r)
     \/ \E w \in late : LateCommit(w)
     \/ PromptTick
  /\ UNCHANGED edited

\* tokio runs every ready task (the election loop and main's poll of the flag
\* are two of them) and the apiserver answers every request.  Nothing is assumed
\* of crashes, restarts or abandoned writes.
Fairness ==
  /\ \A r \in Replica : /\ WF_vars(Process(r) /\ UNCHANGED edited)
                        /\ WF_vars(StartControllers(r) /\ UNCHANGED edited)
  /\ WF_vars(PromptTick /\ UNCHANGED edited)

HealthySpec == Init /\ [][HealthyNext]_vars /\ Fairness

---------------------------------------------------------------------------
(* Properties.                                                             *)

\* Type invariant: the Lease, its abandoned writes and every process's local
\* variables keep their types.
TypeOK ==
  /\ lease \in [exists : BOOLEAN, holder : Replica \cup {NoReplica}, age : Nat]
  /\ lease.exists => lease.holder \in Replica
  /\ late \in SUBSET [by : Replica, age : Nat]
  /\ pc \in [Replica -> PC]
  /\ leading \in [Replica -> BOOLEAN]
  /\ since \in [Replica -> Nat]
  /\ el \in [Replica -> Nat]
  /\ due \in [Replica -> Int]
  /\ valid \in [Replica -> BOOLEAN]
  /\ acting \in [Replica -> BOOLEAN]
  /\ edited \in BOOLEAN

\* A leader must STOP before any other replica may START (LeaderConfig): two
\* processes never have their controllers running at once, late timers, clock
\* skew, abandoned writes and crashes included, unless a human deletes the Lease.
AtMostOneActing ==
  ~edited => \A a, b \in Replica : acting[a] /\ acting[b] => a = b

\* Nobody may take a Lease its holder is still renewing (the Deposed arm of
\* `run`): while a process believes it leads, the Lease names it and was
\* stamped no earlier than the renewal it counts its deadline from.
LeaderHoldsLease ==
  ~edited => \A r \in Replica :
    leading[r] => lease.exists /\ lease.holder = r /\ lease.age <= since[r]

\* Whatever happens to the Lease, hung requests and human edits included, no
\* process runs its controllers longer than the deadline and three late
\* wake-ups after the last renewal it stamped: nothing it has in flight can
\* re-open the gate later.
TenureIsBounded ==
  \A r \in Replica :
    acting[r] => leading[r] /\ since[r] <= RenewDeadline + 3 * Lateness

\* The read and write bounds of LeaderConfig never cost a working leader its
\* Lease: while the apiserver answers reads within read_timeout and whole
\* steps within what is left of the deadline, no process steps down.
HealthyLeaderKeepsLease == \A r \in Replica : pc[r] # "exiting"

\* Once processes stop crashing and one of them is up, controllers keep running
\* somewhere: a dead holder's Lease goes stale and is taken even if its pod
\* never returns, and an abandoned write cannot keep everyone out.
SomeoneActs ==
  /\ <>[][~ \E r \in Replica : Crash(r)]_vars
  /\ <>[](\E r \in Replica : pc[r] # "down")
  => []<>(\E r \in Replica : acting[r])

============================================================================
