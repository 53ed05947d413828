----------------------- MODULE LeaderElectionProofs -----------------------
(***************************************************************************)
(* Proofs about LeaderElection for every set of replicas, all timings that *)
(* leave the margin, every bounded skew and any number of abandoned writes.*)
(***************************************************************************)
EXTENDS LeaderElection, TLAPS

InStep == {"reading", "writing", "written"}

(* How far each process's clock can have run: what Tick's urgency gives.   *)
TimeInv ==
  \A r \in Replica :
    /\ pc[r] = "down" => ~leading[r]
    /\ acting[r] => leading[r]
    /\ pc[r] = "idle" /\ leading[r] => since[r] + due[r] <= RenewDeadline + Lateness
    /\ pc[r] = "exiting" => leading[r] /\ since[r] + due[r] <= RenewDeadline + 2 * Lateness
    /\ pc[r] \in {"idle", "exiting"} => due[r] >= -Lateness
    /\ pc[r] \notin InStep => el[r] = 0
    /\ pc[r] \in InStep /\ leading[r] =>
         el[r] <= since[r] /\ since[r] <= RenewDeadline + Lateness
    /\ pc[r] \in InStep /\ ~leading[r] => el[r] <= RenewPeriod + Lateness

(* A write that is still valid was decided on a Lease nobody can be acting *)
(* on: the writer's own, or one that is stale for every clock.             *)
Takeable(r) ==
  lease.exists /\ lease.holder # r => lease.age >= LeaseDuration + Second - MaxSkew

HoldsLease ==
  \A r \in Replica :
    leading[r] => lease.exists /\ lease.holder = r /\ lease.age <= since[r]

LeaseInv ==
  /\ HoldsLease
  /\ \A r \in Replica :
       /\ pc[r] = "written" => lease.exists /\ lease.holder = r /\ lease.age <= el[r]
       /\ pc[r] = "writing" /\ valid[r] => Takeable(r)
  /\ \A w \in late :
       /\ Takeable(w.by)
       /\ pc[w.by] # "written"
       /\ leading[w.by] => w.age <= since[w.by]

(* The Lease protects its holder until a human deletes it.                 *)
IndInv == TypeOK /\ TimeInv /\ (~edited => LeaseInv)

---------------------------------------------------------------------------
LEMMA TypeInit == Init => TypeOK
<1>1. Init => edited \in BOOLEAN
  BY Zenon DEF Init
<1> QED BY <1>1, TimingAssumption, ReplicaAssumption DEF Init, TypeOK, NoLease, PC

(* Every step keeps the types: the Lease, the abandoned writes and the     *)
(* locals of `run`.                                                        *)
LEMMA TypeNext == TypeOK /\ [Next]_vars => TypeOK'
<1> SUFFICES ASSUME TypeOK, [Next]_vars PROVE TypeOK'
  OBVIOUS
<1>e. edited' \in BOOLEAN
  BY Zenon DEF TypeOK, Next, Unedited, DeleteLease, vars
<1> USE <1>e, TimingAssumption, ReplicaAssumption DEF TypeOK, PC
<1>0. ASSUME NEW r \in Replica, Boot(r) PROVE TypeOK'
  BY <1>0 DEF Boot
<1>1. ASSUME NEW r \in Replica, Process(r) PROVE TypeOK'
  <2>2. CASE LostLeadership(r) BY <2>2 DEF LostLeadership, StepDown, ForgetStep
  <2>3. CASE BeginStep(r) BY <2>3 DEF BeginStep
  <2>4. CASE ReadMayTake(r) BY <2>4 DEF ReadMayTake
  <2>5. CASE ReadHeldByOther(r)
    BY <2>5 DEF ReadHeldByOther, SleepOnePeriod, ForgetStep, NotBefore0
  <2>6. CASE Deposed(r) BY <2>6 DEF Deposed, StepDown, ForgetStep
  <2>7. CASE WriteCommits(r) BY <2>7 DEF WriteCommits, Commit, LeaseSpec
  <2>8. CASE WriteAnswered(r)
    BY <2>8 DEF WriteAnswered, SleepOnePeriod, ForgetStep, NotBefore0
  <2>9. CASE WriteConflicts(r)
    BY <2>9 DEF WriteConflicts, StepFailed, ForgetStep, NotBefore0, Least
  <2>10. CASE RequestTimesOut(r)
    BY <2>10 DEF RequestTimesOut, Abandon, StepFailed, ForgetStep, NotBefore0, Least
  <2>11. CASE Exit(r) BY <2>11 DEF Exit, ProcessEnds, Abandon, ForgetStep
  <2> QED
    BY <1>1, <2>2, <2>3, <2>4, <2>5, <2>6, <2>7, <2>8, <2>9, <2>10, <2>11
       DEF Process
<1>2. ASSUME NEW r \in Replica, StartControllers(r) PROVE TypeOK'
  BY <1>2 DEF StartControllers
<1>3. ASSUME NEW r \in Replica, RequestErrs(r) PROVE TypeOK'
  BY <1>3 DEF RequestErrs, Abandon, StepFailed, ForgetStep, NotBefore0, Least
<1>4. ASSUME NEW r \in Replica, Crash(r) PROVE TypeOK'
  BY <1>4 DEF Crash, ProcessEnds, Abandon, ForgetStep
<1>5. ASSUME NEW w \in late, LateCommit(w) PROVE TypeOK'
  BY <1>5 DEF LateCommit, Commit, LeaseSpec
<1>6. CASE DeleteLease BY <1>6 DEF DeleteLease, NoLease
<1>7. CASE Tick
  <2>1. \A n \in Nat : Capped(n) \in Nat
    BY DEF Capped, Least, Horizon
  <2>2. lease' \in [exists : BOOLEAN, holder : Replica \cup {NoReplica}, age : Nat]
        /\ (lease'.exists => lease'.holder \in Replica)
    BY <1>7, <2>1 DEF Tick
  <2>3. late' \in SUBSET [by : Replica, age : Nat]
    BY <1>7, <2>1 DEF Tick
  <2>4. /\ since' \in [Replica -> Nat]
        /\ el' \in [Replica -> Nat]
        /\ due' \in [Replica -> Int]
    BY <1>7 DEF Tick
  <2> QED BY <1>7, <2>2, <2>3, <2>4 DEF Tick
<1>8. CASE UNCHANGED vars BY <1>8 DEF vars
<1> QED BY <1>0, <1>1, <1>2, <1>3, <1>4, <1>5, <1>6, <1>7, <1>8 DEF Next, Unedited

(* The Lease, the abandoned writes and every process's local variables     *)
(* always have the types of TypeOK.                                        *)
THEOREM TypeCorrect == Spec => []TypeOK
  BY TypeInit, TypeNext, PTL DEF Spec

---------------------------------------------------------------------------
(* The clocks of a process that no step of its own touches stay in bounds. *)
LEMMA TimeNext == TypeOK /\ TimeInv /\ [Next]_vars => TimeInv'
<1> SUFFICES ASSUME TypeOK, TimeInv, [Next]_vars PROVE TimeInv'
  OBVIOUS
<1> USE TimingAssumption DEF TypeOK, PC, TimeInv, InStep
<1>0. ASSUME NEW r \in Replica, Boot(r) PROVE TimeInv'
  BY <1>0 DEF Boot
<1>1. ASSUME NEW r \in Replica, Process(r) PROVE TimeInv'
  <2>2. CASE LostLeadership(r)
    BY <2>2 DEF LostLeadership, StepDown, ForgetStep, StepWindowClosed
  <2>3. CASE BeginStep(r) BY <2>3 DEF BeginStep, StepWindowClosed
  <2>4. CASE ReadMayTake(r) BY <2>4 DEF ReadMayTake
  <2>5. CASE ReadHeldByOther(r)
    BY <2>5 DEF ReadHeldByOther, SleepOnePeriod, ForgetStep, NotBefore0
  <2>6. CASE Deposed(r) BY <2>6 DEF Deposed, StepDown, ForgetStep
  <2>7. CASE WriteCommits(r) BY <2>7 DEF WriteCommits, Commit
  <2>8. CASE WriteAnswered(r)
    BY <2>8 DEF WriteAnswered, SleepOnePeriod, ForgetStep, NotBefore0
  <2>9. CASE WriteConflicts(r)
    BY <2>9 DEF WriteConflicts, StepFailed, ForgetStep, NotBefore0, Least
  <2>10. CASE RequestTimesOut(r)
    BY <2>10 DEF RequestTimesOut, StepFailed, ForgetStep, NotBefore0, Least
  <2>11. CASE Exit(r) BY <2>11 DEF Exit, ProcessEnds, ForgetStep
  <2> QED
    BY <1>1, <2>2, <2>3, <2>4, <2>5, <2>6, <2>7, <2>8, <2>9, <2>10, <2>11
       DEF Process
<1>2. ASSUME NEW r \in Replica, StartControllers(r) PROVE TimeInv'
  BY <1>2 DEF StartControllers, Gate
<1>3. ASSUME NEW r \in Replica, RequestErrs(r) PROVE TimeInv'
  BY <1>3 DEF RequestErrs, StepFailed, ForgetStep, NotBefore0, Least
<1>4. ASSUME NEW r \in Replica, Crash(r) PROVE TimeInv'
  BY <1>4 DEF Crash, ProcessEnds, ForgetStep
<1>5. ASSUME NEW w \in late, LateCommit(w) PROVE TimeInv'
  BY <1>5 DEF LateCommit
<1>6. CASE DeleteLease BY <1>6 DEF DeleteLease
<1>7. CASE Tick
  BY <1>7 DEF Tick, MayWait, PastBound, PastReadBound, PastWriteBound, PastWindow
<1>8. CASE UNCHANGED vars BY <1>8 DEF vars
<1> QED BY <1>0, <1>1, <1>2, <1>3, <1>4, <1>5, <1>6, <1>7, <1>8 DEF Next, Unedited

(* No process runs its controllers past its deadline and three late        *)
(* wake-ups, whatever the apiserver answers and whoever edits the Lease:   *)
(* the step-down is decided by time and bounds every request.              *)
THEOREM BoundedTenure == Spec => []TenureIsBounded
<1>1. Init => TimeInv
  BY DEF Init, TimeInv, InStep
<1>2. TypeOK /\ TimeInv => TenureIsBounded
  BY TimingAssumption DEF TypeOK, PC, TimeInv, InStep, TenureIsBounded
<1> QED BY <1>1, <1>2, TypeCorrect, TimeNext, PTL DEF Spec

---------------------------------------------------------------------------
(* Nobody leads, or waits for the answer of a committed write, on a Lease  *)
(* that somebody else may take.                                            *)
LEMMA TakeableIsIdle ==
  ASSUME TypeOK, TimeInv, LeaseInv, NEW b \in Replica, Takeable(b)
  PROVE  \A a \in Replica \ {b} : ~leading[a] /\ pc[a] # "written"
  BY TimingAssumption, MarginAssumption
     DEF TypeOK, PC, TimeInv, LeaseInv, HoldsLease, InStep, Takeable

(* A commit of a valid write, on time or late, keeps every leader holding  *)
(* the Lease.                                                              *)
LEMMA CommitKeeps ==
  ASSUME TypeOK, TimeInv, LeaseInv, NEW b \in Replica, NEW n \in Nat, Takeable(b),
         leading[b] => n <= since[b], Commit(b, n), UNCHANGED <<leading, since, el>>,
         \A a \in Replica \ {b} : pc'[a] = pc[a],
         pc'[b] = "written" => n <= el[b]
  PROVE  LeaseInv'
  BY TakeableIsIdle DEF TypeOK, LeaseInv, HoldsLease, Commit, LeaseSpec, Takeable

(* No step but a human's edit breaks the Lease's invariant.                *)
LEMMA LeaseNext ==
  TypeOK /\ TimeInv /\ LeaseInv /\ [Next]_vars /\ ~edited' => LeaseInv'
<1> SUFFICES ASSUME TypeOK, TimeInv, LeaseInv, [Next]_vars, ~edited' PROVE LeaseInv'
  OBVIOUS
<1> USE TimingAssumption, MarginAssumption
    DEF TypeOK, PC, LeaseInv, HoldsLease
<1>0. ASSUME NEW r \in Replica, Boot(r) PROVE LeaseInv'
  BY <1>0 DEF Boot, Takeable
<1>1. ASSUME NEW r \in Replica, Process(r) PROVE LeaseInv'
  <2>2. CASE LostLeadership(r)
    BY <2>2 DEF LostLeadership, StepDown, ForgetStep, Takeable
  <2>3. CASE BeginStep(r) BY <2>3 DEF BeginStep, Takeable
  <2>4. CASE ReadMayTake(r)
    BY <2>4 DEF ReadMayTake, Takeable, MayTakeLease, IsLeaseStale
  <2>5. CASE ReadHeldByOther(r)
    BY <2>5 DEF ReadHeldByOther, SleepOnePeriod, ForgetStep, Takeable
  <2>6. CASE Deposed(r) BY <2>6 DEF Deposed, StepDown, ForgetStep, Takeable
  <2>7. CASE WriteCommits(r) BY <2>7, CommitKeeps DEF WriteCommits, TimeInv, InStep
  <2>8. CASE WriteAnswered(r)
    BY <2>8 DEF WriteAnswered, SleepOnePeriod, ForgetStep, Takeable
  <2>9. CASE WriteConflicts(r)
    BY <2>9 DEF WriteConflicts, StepFailed, ForgetStep, Takeable
  <2>10. CASE RequestTimesOut(r)
    BY <2>10 DEF RequestTimesOut, Abandon, StepFailed, ForgetStep, Takeable, TimeInv, InStep
  <2>11. CASE Exit(r) BY <2>11 DEF Exit, ProcessEnds, Abandon, ForgetStep, Takeable
  <2> QED
    BY <1>1, <2>2, <2>3, <2>4, <2>5, <2>6, <2>7, <2>8, <2>9, <2>10, <2>11
       DEF Process
<1>2. ASSUME NEW r \in Replica, StartControllers(r) PROVE LeaseInv'
  BY <1>2 DEF StartControllers, Takeable
<1>3. ASSUME NEW r \in Replica, RequestErrs(r) PROVE LeaseInv'
  BY <1>3 DEF RequestErrs, Abandon, StepFailed, ForgetStep, Takeable, TimeInv, InStep
<1>4. ASSUME NEW r \in Replica, Crash(r) PROVE LeaseInv'
  BY <1>4 DEF Crash, ProcessEnds, Abandon, ForgetStep, Takeable
<1>5. ASSUME NEW w \in late, LateCommit(w) PROVE LeaseInv'
  BY <1>5, CommitKeeps DEF LateCommit
<1>6. ~DeleteLease BY DEF DeleteLease
<1>7. CASE Tick
  <2>1. /\ \A n \in Nat : Capped(n) <= n
        /\ \A n \in Nat : n >= LeaseDuration + Second - MaxSkew
             => Capped(n + 1) >= LeaseDuration + Second - MaxSkew
    BY DEF Capped, Least, Horizon
  <2>a. /\ lease.age + 1 \in Nat /\ Capped(lease.age + 1) <= lease.age + 1
        /\ lease'.exists = lease.exists /\ lease'.holder = lease.holder
        /\ lease.exists => lease'.age = Capped(lease.age + 1)
    BY <1>7, <2>1 DEF Tick
  <2>b. lease.exists => lease'.age <= lease.age + 1
    BY <2>a
  <2>c. lease'.age \in Nat
    BY TypeNext
  <2>2. HoldsLease' BY <1>7, <2>a, <2>b, <2>c DEF Tick
  <2>3. \A r \in Replica : Takeable(r) => Takeable(r)'
    BY <1>7, <2>1 DEF Tick, Takeable
  <2>4. \A r \in Replica :
          pc'[r] = "written" => lease'.exists /\ lease'.holder = r /\ lease'.age <= el'[r]
    BY <1>7, <2>a, <2>b, <2>c DEF Tick
  <2>5. \A w \in late' : \E v \in late : w.by = v.by /\ w.age <= v.age + 1
    BY <1>7, <2>1 DEF Tick
  <2>6. \A w \in late' : Takeable(w.by)' /\ pc'[w.by] # "written"
                         /\ (leading'[w.by] => w.age <= since'[w.by])
    BY <1>7, <2>3, <2>5, TypeNext DEF Tick
  <2> QED BY <1>7, <2>2, <2>3, <2>4, <2>6 DEF Tick
<1>8. CASE UNCHANGED vars BY <1>8 DEF vars, Takeable
<1> QED BY <1>0, <1>1, <1>2, <1>3, <1>4, <1>5, <1>6, <1>7, <1>8 DEF Next, Unedited

(* The inductive invariant holds in every behaviour.                       *)
LEMMA IndInvEver == Spec => []IndInv
<1>1. Init => IndInv
  BY TypeInit DEF Init, IndInv, TimeInv, LeaseInv, HoldsLease, InStep
<1>2. IndInv /\ [Next]_vars => IndInv'
  <2> SUFFICES ASSUME IndInv, [Next]_vars PROVE IndInv'
    OBVIOUS
  <2>1. edited => edited'
    BY DEF IndInv, TypeOK, Next, DeleteLease, vars
  <2> QED BY <2>1, TypeNext, TimeNext, LeaseNext DEF IndInv
<1> QED BY <1>1, <1>2, PTL DEF Spec

(* Until a human deletes the Lease, no two processes act at once: the      *)
(* margin between renew_deadline and lease_duration covers late timers,    *)
(* skew and writes that commit late.                                       *)
THEOREM MutualExclusion == Spec => []AtMostOneActing
<1>1. IndInv => AtMostOneActing
  BY DEF IndInv, TypeOK, TimeInv, LeaseInv, HoldsLease, AtMostOneActing
<1> QED BY <1>1, IndInvEver, PTL

(* Until a human deletes the Lease, it names whoever believes to lead, and *)
(* is no older than the renewal that the leader counts from.               *)
THEOREM LeaseNamesLeader == Spec => []LeaderHoldsLease
<1>1. IndInv => LeaderHoldsLease
  BY DEF IndInv, LeaseInv, HoldsLease, LeaderHoldsLease
<1> QED BY <1>1, IndInvEver, PTL

---------------------------------------------------------------------------
(* An apiserver that answers in time.                                      *)

(* What a leader has left of its deadline, and the writes nobody can have  *)
(* in flight beside its own.                                               *)
HealthyInv ==
  \A r \in Replica :
    /\ pc[r] # "exiting"
    /\ pc[r] = "reading" => el[r] <= ReadLatency
    /\ pc[r] \in {"writing", "written"} => el[r] <= StepLatency
    /\ leading[r] /\ pc[r] = "idle" => since[r] + due[r] <= RenewPeriod
    /\ leading[r] /\ pc[r] \in InStep => since[r] <= RenewPeriod + Lateness + el[r]
    /\ leading[r] /\ pc[r] = "writing" => valid[r]
    /\ leading[r] \/ pc[r] = "written" => late = {}

(* A write that may be committed or abandoned is nobody's but the leader's. *)
LEMMA WriterIsAlone ==
  ASSUME TypeOK, TimeInv, LeaseInv, NEW b \in Replica, pc[b] = "writing", valid[b]
  PROVE  \A a \in Replica \ {b} : ~leading[a] /\ pc[a] # "written"
  BY TakeableIsIdle DEF LeaseInv

(* No request of a healthy apiserver's is cut off.                         *)
LEMMA NoCutOff ==
  ASSUME TypeOK, HealthyInv, NEW r \in Replica
  PROVE  ~RequestTimesOut(r)
  BY TimingAssumption, LatencyAssumption
     DEF TypeOK, HealthyInv, InStep, RequestTimesOut, PastBound, PastReadBound, PastWriteBound,
         PastWindow

(* Every step of a healthy run keeps the leader within its deadline.       *)
LEMMA HealthyStep ==
  ASSUME TypeOK, TimeInv, LeaseInv, HealthyInv, [HealthyNext]_vars
  PROVE  HealthyInv'
<1> USE TimingAssumption, LatencyAssumption DEF TypeOK, PC, HealthyInv, InStep
<1>0. ASSUME NEW r \in Replica, Boot(r) PROVE HealthyInv'
  BY <1>0 DEF Boot, TimeInv
<1>1. ASSUME NEW r \in Replica, Process(r) PROVE HealthyInv'
  <2>1. ~LostLeadership(r)
    BY DEF LostLeadership, StepWindowClosed, TimeInv
  <2>2. CASE BeginStep(r)
    BY <2>2 DEF BeginStep, TimeInv
  <2>3. CASE ReadMayTake(r)
    BY <2>3 DEF ReadMayTake
  <2>4. CASE ReadHeldByOther(r)
    BY <2>4 DEF ReadHeldByOther, SleepOnePeriod, ForgetStep, NotBefore0
  <2>5. ~Deposed(r)
    BY DEF Deposed, MayTakeLease, LeaseInv, HoldsLease
  <2>6. CASE WriteCommits(r)
    BY <2>6, WriterIsAlone DEF WriteCommits, Commit
  <2>7. CASE WriteAnswered(r)
    BY <2>7 DEF WriteAnswered, SleepOnePeriod, ForgetStep, NotBefore0
  <2>8. CASE WriteConflicts(r)
    BY <2>8 DEF WriteConflicts, StepFailed, ForgetStep, NotBefore0
  <2>9. ~RequestTimesOut(r)
    BY NoCutOff
  <2>10. ~Exit(r)
    BY DEF Exit
  <2> QED
    BY <1>1, <2>1, <2>2, <2>3, <2>4, <2>5, <2>6, <2>7, <2>8, <2>9, <2>10 DEF Process
<1>2. ASSUME NEW r \in Replica, StartControllers(r) PROVE HealthyInv'
  BY <1>2 DEF StartControllers
<1>3. ASSUME NEW r \in Replica, Crash(r) PROVE HealthyInv'
  <2>1. late' = late \/ (pc[r] = "writing" /\ valid[r])
    BY <1>3 DEF Crash, ProcessEnds, Abandon
  <2> QED
    BY <1>3, <2>1, WriterIsAlone DEF Crash, ProcessEnds, ForgetStep
<1>4. ASSUME NEW w \in late, LateCommit(w) PROVE HealthyInv'
  BY <1>4 DEF LateCommit, Commit
<1>5. CASE PromptTick
  <2>1. late = {} => late' = {}
    BY <1>5 DEF PromptTick, Tick
  <2> QED
    BY <1>5, <2>1 DEF PromptTick, Tick, TimeInv
<1>6. CASE UNCHANGED vars
  BY <1>6 DEF vars
<1> QED
  BY <1>0, <1>1, <1>2, <1>3, <1>4, <1>5, <1>6 DEF HealthyNext

(* A step of a healthy run is a step of the system, and nobody edits.      *)
LEMMA HealthyIsNext ==
  HealthyNext => Next /\ UNCHANGED edited
  BY DEF HealthyNext, Next, Unedited, PromptTick

(* A working leader never steps down: the bounds on its reads and writes   *)
(* do not cost it the Lease while the apiserver answers in time.           *)
THEOREM LeaderStays == HealthySpec => []HealthyLeaderKeepsLease
<1> DEFINE Inv == IndInv /\ ~edited /\ HealthyInv
<1>1. Init => Inv
  BY TypeInit DEF Init, IndInv, TimeInv, LeaseInv, HoldsLease, InStep, HealthyInv
<1>2. Inv /\ [HealthyNext]_vars => Inv'
  <2> SUFFICES ASSUME Inv, [HealthyNext]_vars PROVE Inv'
    OBVIOUS
  <2>1. [Next]_vars /\ ~edited'
    BY HealthyIsNext DEF vars
  <2>2. HealthyInv'
    BY HealthyStep DEF IndInv
  <2> QED BY <2>1, <2>2, TypeNext, TimeNext, LeaseNext DEF IndInv
<1>3. Inv => HealthyLeaderKeepsLease
  BY DEF HealthyInv, HealthyLeaderKeepsLease
<1> QED BY <1>1, <1>2, <1>3, PTL DEF HealthySpec

============================================================================
