--------------------------- MODULE KeyspaceProofs ---------------------------
(***************************************************************************)
(* Proofs about Keyspace, for any claims, shared databases, instances and  *)
(* pool size, and any number of dropped passes and abandoned writes.       *)
(***************************************************************************)
EXTENDS Keyspace, FiniteSetTheorems, TLAPS

\* Where a pass of each kind can be.
Checking == {"check_claims", "check_retained", "check_shared"}
Allocating == {"lock", "own_snapshot", "list_claims", "list_retained", "list_shared", "commit"}
ClaimProvision == Allocating \cup Checking \cup
  {"cancel_before_release", "release", "keep", "flush", "setuser", "terminal", "cancel"}
ClaimDrop == {"find_snapshot", "snapshot", "unfinalize"}
SharedProvision == (Allocating \ {"own_snapshot"}) \cup Checking \cup
  {"release", "refuse", "flush", "terminal"}
SharedDrop == Checking \cup {"flush", "unfinalize"}
Collecting == Checking \cup {"flush", "deluser", "delete"}

\* A provisioning pass from its first re-read on, and once it has found nobody.
Committed == Checking \cup {"flush", "setuser", "terminal", "keep", "cancel_before_release", "release"}
Cleared == {"flush", "setuser", "terminal"}

\* An object has the instance of its class, and an absent one nothing.
ObjectInv ==
  \A h \in Holder :
    /\ obj[h].st # "absent" => obj[h].inst \in Instance
    /\ cache[h].st # "absent" => cache[h].inst \in Instance
    /\ obj[h].st = "absent" => obj[h] = NoObj

\* What each pass is for, and that it allocates on an instance.
ShapeOf(a, p) ==
  \/ p = Idle
  \/ /\ a = "claim" /\ p.obj \in Claim
     /\ \/ p.goal = "provision" /\ p.pc \in ClaimProvision
        \/ p.goal = "drop" /\ p.pc \in ClaimDrop
  \/ /\ a = "shared" /\ p.obj \in Shared /\ ~p.skip /\ ~p.reatt
     /\ \/ p.goal = "provision" /\ p.pc \in SharedProvision
        \/ p.goal = "drop" /\ p.pc \in SharedDrop
     /\ p.pc \in Allocating \ {"commit"} => p.key = NoKey
  \/ a \in Claim /\ p.obj = a /\ p.goal = "drop" /\ p.pc \in Collecting /\ ~p.skip /\ ~p.reatt

Fits(a, p) ==
  /\ ShapeOf(a, p)
  /\ p.pc \in Allocating => p.inst \in Instance
  /\ p.goal = "provision" /\ p.pc \in Committed \cup {"own_snapshot", "commit"} => p.key \in Key
  /\ p.pc = "list_shared" /\ p.reatt => p.key \in Key

ShapeInv == \A a \in Actor : Fits(a, pass[a])

Busy(a) == a \in Controller /\ pass[a].pc # "idle"
Provisioning(a) == Busy(a) /\ pass[a].goal = "provision"

\* A pass that provisions holds its object by the finalizer; a pass that drops is
\* over an object that is on its way out, or out; and what a pass is told of its
\* object, late as it may be, is true of the finalizer.
PinnedInv ==
  /\ \A a \in Controller :
       /\ Provisioning(a) => obj[Me(a)].fin
       /\ Busy(a) /\ pass[a].goal = "drop" =>
            /\ ~(obj[Me(a)].st = "live" /\ obj[Me(a)].fin)
            /\ ~(Seen(Me(a)).st = "live" /\ Seen(Me(a)).fin)
  /\ \A h \in Holder :
       /\ Seen(h).st = "live" /\ Seen(h).fin => obj[h].fin
       /\ Seen(h).st = "deleting" => ~(obj[h].st = "live" /\ obj[h].fin)
       /\ obj[h].st # "absent" /\ ~obj[h].fin => obj[h].st = "live" /\ obj[h].key = NoKey

\* An abandoned write is of an object that is there and has no pass; there is
\* one of each at most.
LateInv ==
  \A w \in late :
    /\ obj[w.obj].fin
    /\ \A a \in Controller : Busy(a) => Me(a) # w.obj
    /\ \A v \in late : v.obj = w.obj => v = w

\* A write that would put its object in use.
Provisions(w) ==
  IF w.obj \in Claim THEN w.w.ready ELSE w.w.key # NoKey /\ ~w.w.unfin

\* A pass past its checkpoint is on the number its object names.
HeldInv ==
  /\ \A a \in Controller :
       /\ Provisioning(a) /\ pass[a].pc \in Committed => obj[Me(a)].key = pass[a].key
       /\ pass[a].pc = "refuse" /\ pass[a].key # NoKey =>
            obj[Me(a)].key = pass[a].key /\ ~obj[Me(a)].unfin
  /\ \A h \in Claim : obj[h].ready => obj[h].key # NoKey
  /\ \A w \in late : Provisions(w) => w.w.key # NoKey /\ obj[w.obj].key = w.w.key

\* h is in use, or nothing but its own pass or abandoned write is missing for it.
Won(h) ==
  \/ Provisioned(h)
  \/ \E w \in late : w.obj = h /\ Provisions(w)
  \/ \E a \in Controller : Provisioning(a) /\ Me(a) = h /\ pass[a].pc \in Cleared

\* Nobody wins a number that somebody else has won, because a re-read shows the
\* claims that have.
WonInv ==
  /\ \A g, h \in Holder : g # h /\ Won(g) /\ Won(h) => obj[g].key # obj[h].key
  /\ \A a \in Controller :
       Provisioning(a) /\ pass[a].pc \in {"check_retained", "check_shared"} =>
         \A c \in Claim \ {Me(a)} :
           Won(c) /\ obj[c].key = pass[a].key => c \in pass[a].acc


-----------------------------------------------------------------------------
(* Types. *)

\* The names of the actors and of no object are apart.
LEMMA Names ==
  /\ "claim" \in Actor /\ "shared" \in Actor /\ "claim" \in Controller /\ "shared" \in Controller
  /\ \A c \in Claim : c \in Actor /\ c \in Holder /\ c \notin Shared /\ c \notin Controller
  /\ \A s \in Shared : s \in Holder /\ s \notin Claim
  /\ \A a \in Controller : a \in Actor /\ a \in {"claim", "shared"}
  /\ NoHolder \notin Holder /\ NoKey \notin Key
  /\ DbnumMax \in Nat /\ MaxDrops \in Nat
BY ConstantsAssumption DEF Actor, Controller, Holder

\* An idle pass is a pass.
LEMMA IdleFits == Idle \in PassType /\ \A a \in Actor : Fits(a, Idle)
<1>1. Idle \in PassType
  BY DEF Idle, PassType, PassPC, KeyOrNone
<1>2. \A a \in Actor : Fits(a, Idle)
  BY DEF Fits, ShapeOf, Idle, Allocating, Committed, Checking
<1> QED
  BY <1>1, <1>2

\* The lowest free number is one of the instance's, and free.
LEMMA LowestFree ==
  ASSUME NEW used, ~(Dbnum \subseteq used)
  PROVE  AllocateDbnum(used) \in Dbnum \ used
<1> DEFINE Unused == Dbnum \ used
<1>1. Unused \subseteq Nat /\ Unused # {}
  BY Names DEF Dbnum
<1>2. PICK x \in Unused : \A y \in Unused : ~(<<y, x>> \in OpToRel(<, Nat))
  BY <1>1, NatLessThanWellFounded, WFMin, Zenon
<1>3. \A y \in Unused : x =< y
  <2> SUFFICES ASSUME NEW y \in Unused PROVE x =< y
    OBVIOUS
  <2>1. x \in Nat /\ y \in Nat
    BY <1>1
  <2>2. ~(y < x)
    BY <1>2, <2>1 DEF OpToRel
  <2> QED
    BY <2>1, <2>2
<1>4. Min(Unused) \in Unused
  BY <1>3 DEF Min
<1> QED
  BY <1>4 DEF AllocateDbnum

\* A pass moves on within its kind.
LEMMA MoveTo ==
  ASSUME TypeOK, ShapeInv, NEW a \in Actor, NEW p \in PassType, Fits(a, p),
         pass' = [pass EXCEPT ![a] = p]
  PROVE  pass' \in [Actor -> PassType] /\ ShapeInv'
<1>1. pass \in [Actor -> PassType]
  BY DEF TypeOK
<1>2. \A b \in Actor : pass'[b] = IF b = a THEN p ELSE pass[b]
  BY <1>1
<1> QED
  BY <1>1, <1>2 DEF ShapeInv

\* A pass that only changes its place.
LEMMA GoTo ==
  ASSUME TypeOK, ShapeInv, NEW a \in Actor, NEW pc \in PassPC, Go(a, pc),
         Fits(a, [pass[a] EXCEPT !.pc = pc])
  PROVE  pass' \in [Actor -> PassType] /\ ShapeInv'
<1>1. pass[a] \in PassType
  BY DEF TypeOK
<1>2. [pass[a] EXCEPT !.pc = pc] \in PassType
  BY <1>1 DEF PassType
<1>3. pass' = [pass EXCEPT ![a] = [pass[a] EXCEPT !.pc = pc]]
  BY DEF Go
<1> QED
  BY <1>2, <1>3, MoveTo

\* A pass that ends.
LEMMA EndOf ==
  ASSUME TypeOK, ShapeInv, NEW a \in Actor, End(a)
  PROVE  pass' \in [Actor -> PassType] /\ ShapeInv'
BY IdleFits, MoveTo DEF End

\* The type invariant by parts.
ObjOK == obj \in [Holder -> ObjType] /\ cache \in [Holder -> ObjType] /\ ObjectInv
SnapOK == snap \in [Claim -> [there : BOOLEAN, key : KeyOrNone, expired : BOOLEAN]]
DataOK == data \in [Key -> SUBSET (Holder \cup {NoHolder})]
AclOK == acl \in [Claim -> [Instance -> KeyOrNone]]
PassOK == pass \in [Actor -> PassType] /\ ShapeInv
LockOK == lock \in Controller \cup {Free}
LateOK == late \subseteq [obj : Holder, w : StatusType]
DropsOK == drops \in 0 .. MaxDrops

BaseInv == ObjOK /\ SnapOK /\ DataOK /\ AclOK /\ PassOK /\ LockOK /\ LateOK /\ DropsOK

\* The parts are the whole.
LEMMA BaseParts == BaseInv <=> TypeOK /\ ObjectInv /\ ShapeInv
BY DEF BaseInv, TypeOK, ObjOK, SnapOK, DataOK, AclOK, PassOK, LockOK, LateOK, DropsOK

\* What a step does not touch keeps its type.
LEMMA Kept ==
  /\ ObjOK /\ UNCHANGED <<obj, cache>> => ObjOK'
  /\ SnapOK /\ UNCHANGED snap => SnapOK'
  /\ DataOK /\ UNCHANGED data => DataOK'
  /\ AclOK /\ UNCHANGED acl => AclOK'
  /\ PassOK /\ UNCHANGED pass => PassOK'
  /\ LockOK /\ UNCHANGED lock => LockOK'
  /\ LateOK /\ UNCHANGED late => LateOK'
  /\ DropsOK /\ UNCHANGED drops => DropsOK'
BY DEF ObjOK, ObjectInv, SnapOK, DataOK, AclOK, PassOK, ShapeInv, LockOK, LateOK, DropsOK

\* Where an allocator takes the lock and reads what is held.
LEMMA AllocateBase ==
  ASSUME BaseInv, NEW a \in Controller,
         TakeLock(a) \/ ListClaims(a) \/ ListRetained(a) \/ ListShared(a)
  PROVE  BaseInv'
<1>0. /\ TypeOK /\ ShapeInv /\ a \in Actor /\ a \in {"claim", "shared"} /\ pass[a] \in PassType
      /\ Fits(a, pass[a]) /\ pass[a].obj \in Holder \cup {NoHolder}
      /\ pass \in [Actor -> PassType]
  BY BaseParts, Names DEF TypeOK, ShapeInv, PassType
<1>1. CASE TakeLock(a)
  <2> DEFINE next == IF pass[a].key = NoKey THEN "list_claims" ELSE "own_snapshot"
  <2>1. pass[a].pc = "lock" /\ Go(a, next) /\ next \in PassPC
    BY <1>1 DEF TakeLock, At, PassPC
  <2>2. Fits(a, [pass[a] EXCEPT !.pc = next])
    BY <1>0, <2>1, Names DEF Fits, ShapeOf, Idle, PassType, Allocating, Checking, Committed,
       ClaimProvision, ClaimDrop, SharedProvision, SharedDrop, Collecting, KeyOrNone
  <2>3. PassOK'
    BY <1>0, <2>1, <2>2, GoTo DEF PassOK
  <2>4. LockOK'
    BY <1>1 DEF TakeLock, LockOK
  <2> QED
    BY <1>1, <2>3, <2>4, Kept DEF TakeLock, BaseInv
<1>2. CASE ListClaims(a)
  <2> DEFINE p == [pass[a] EXCEPT !.pc = "list_retained",
                      !.acc = Used(a, [k \in Key |-> ClaimHolders(k, NoHolder)])]
  <2>1. pass[a].pc = "list_claims" /\ pass' = [pass EXCEPT ![a] = p]
    BY <1>0, <1>2 DEF ListClaims, At
  <2>2. p \in PassType
    BY <1>0 DEF PassType, PassPC, Used
  <2>3. Fits(a, p)
    BY <1>0, <2>1, Names DEF Fits, ShapeOf, Idle, PassType, Allocating, Checking, Committed,
       ClaimProvision, ClaimDrop, SharedProvision, SharedDrop, Collecting
  <2>4. PassOK'
    BY <1>0, <2>1, <2>2, <2>3, MoveTo DEF PassOK
  <2> QED
    BY <1>2, <2>4, Kept DEF ListClaims, BaseInv
<1>3. CASE ListRetained(a)
  <2> DEFINE mine == a = "claim" /\ snap[Me(a)].key \in {pass[a].inst} \X Dbnum
             p == [pass[a] EXCEPT !.pc = "list_shared",
                     !.acc = pass[a].acc \cup Used(a, [k \in Key |-> RetainedHolders(k, NoHolder)]),
                     !.reatt = mine, !.key = IF mine THEN snap[Me(a)].key ELSE NoKey]
  <2>1. pass[a].pc = "list_retained" /\ pass' = [pass EXCEPT ![a] = p]
    BY <1>0, <1>3 DEF ListRetained, At
  <2>2. pass[a].inst \in Instance
    BY <1>0, <2>1 DEF Fits, Allocating
  <2>3. mine => snap[Me(a)].key \in Key
    BY <2>2 DEF Key
  <2>4. mine \in BOOLEAN
    OBVIOUS
  <2> HIDE DEF mine
  <2>5. p \in PassType
    BY <1>0, <2>3, <2>4 DEF PassType, PassPC, Used, KeyOrNone
  <2>6. mine => a = "claim"
    BY DEF mine
  <2>7. Fits(a, p)
    BY <1>0, <2>1, <2>3, <2>4, <2>6, Names DEF Fits, ShapeOf, Idle, PassType, Allocating, Checking,
       Committed, ClaimProvision, ClaimDrop, SharedProvision, SharedDrop, Collecting
  <2>8. PassOK'
    BY <1>0, <2>1, <2>5, <2>7, MoveTo DEF PassOK
  <2> QED
    BY <1>3, <2>8, Kept DEF ListRetained, BaseInv
<1>4. CASE ListShared(a)
  <2> DEFINE used == pass[a].acc \cup Used(a, [k \in Key |-> SharedHolders(k, NoHolder)])
             p == [pass[a] EXCEPT !.acc = {}]
  <2>1. /\ pass[a].pc = "list_shared" /\ pass[a].inst \in Instance
        /\ pass[a].reatt => pass[a].key \in Key
    BY <1>0, <1>4 DEF ListShared, At, Fits, Allocating
  <2>2. p \in PassType /\ p.pc = "list_shared" /\ p.inst = pass[a].inst /\ p.key = pass[a].key
        /\ p.reatt = pass[a].reatt /\ p.goal = pass[a].goal /\ p.obj = pass[a].obj
        /\ p.skip = pass[a].skip
    BY <1>0, <2>1 DEF PassType
  <2> HIDE DEF p
  <2>3. CASE p.reatt
    <3> DEFINE q == [p EXCEPT !.pc = "commit", !.skip = p.inst = "persistent"]
    <3>1. pass' = [pass EXCEPT ![a] = q] /\ UNCHANGED lock
      BY <1>4, <2>3 DEF ListShared, p
    <3>2. q \in PassType
      BY <2>2 DEF PassType, PassPC, WritePC
    <3>3. Fits(a, q)
      BY <1>0, <2>1, <2>2, <2>3, Names DEF Fits, ShapeOf, Idle, PassType, Allocating, Checking,
         Committed, ClaimProvision, ClaimDrop, SharedProvision, SharedDrop, Collecting
    <3> QED
      BY <1>0, <1>4, <3>1, <3>2, <3>3, MoveTo, Kept DEF ListShared, BaseInv, PassOK
  <2>4. CASE ~p.reatt /\ Dbnum \subseteq used
    <3> DEFINE q == [p EXCEPT !.pc = "refuse"]
    <3>1. /\ pass' = [pass EXCEPT ![a] = IF a = "claim" THEN Idle ELSE q]
          /\ lock' = IF a = "claim" THEN Free ELSE lock
      BY <1>4, <2>4 DEF ListShared, p
    <3>2. q \in PassType
      BY <2>2 DEF PassType, PassPC, WritePC
    <3>3. a = "shared" => Fits(a, q)
      BY <1>0, <2>1, <2>2, <2>4, Names DEF Fits, ShapeOf, Idle, PassType, Allocating, Checking,
         Committed, ClaimProvision, ClaimDrop, SharedProvision, SharedDrop, Collecting
    <3>4. PassOK'
      BY <1>0, <3>1, <3>2, <3>3, MoveTo, IdleFits DEF PassOK
    <3>5. LockOK'
      BY <3>1 DEF LockOK, BaseInv
    <3> QED
      BY <1>4, <3>4, <3>5, Kept DEF ListShared, BaseInv
  <2>5. CASE ~p.reatt /\ ~(Dbnum \subseteq used)
    <3> DEFINE k == <<p.inst, AllocateDbnum(used)>>
               q == [p EXCEPT !.pc = "commit", !.key = k]
    <3>1. pass' = [pass EXCEPT ![a] = q] /\ UNCHANGED lock
      BY <1>4, <2>5 DEF ListShared, p
    <3>2. k \in Key
      BY <2>1, <2>2, <2>5, LowestFree DEF Key
    <3> HIDE DEF k
    <3>3. q \in PassType
      BY <2>2, <3>2 DEF PassType, PassPC, WritePC, KeyOrNone
    <3>4. Fits(a, q)
      BY <1>0, <2>1, <2>2, <2>5, <3>2, Names DEF Fits, ShapeOf, Idle, PassType, Allocating,
         Checking, Committed, ClaimProvision, ClaimDrop, SharedProvision, SharedDrop, Collecting
    <3> QED
      BY <1>0, <1>4, <3>1, <3>3, <3>4, MoveTo, Kept DEF ListShared, BaseInv, PassOK
  <2> QED
    BY <2>3, <2>4, <2>5
<1> QED
  BY <1>1, <1>2, <1>3, <1>4

\* Where a pass re-reads the holders of its number and flushes it.
LEMMA FlusherBase ==
  ASSUME BaseInv, NEW a \in Actor, FlusherStep(a)
  PROVE  BaseInv'
<1>0. /\ TypeOK /\ ShapeInv /\ pass[a] \in PassType /\ Fits(a, pass[a])
      /\ pass \in [Actor -> PassType]
  BY BaseParts DEF TypeOK, ShapeInv
<1>1. CASE CheckClaims(a)
  <2> DEFINE p == [pass[a] EXCEPT !.pc = "check_retained",
                                  !.acc = ClaimHolders(pass[a].key, Me(a))]
  <2>1. pass[a].pc = "check_claims" /\ pass' = [pass EXCEPT ![a] = p]
    BY <1>0, <1>1 DEF CheckClaims, At
  <2>2. p \in PassType
    BY <1>0 DEF PassType, PassPC, ClaimHolders, Holder
  <2>3. Fits(a, p)
    BY <1>0, <2>1, Names DEF Fits, ShapeOf, Idle, PassType, Allocating, Checking, Committed,
       ClaimProvision, ClaimDrop, SharedProvision, SharedDrop, Collecting
  <2>4. PassOK'
    BY <1>0, <2>1, <2>2, <2>3, MoveTo DEF PassOK
  <2> QED
    BY <1>1, <2>4, Kept DEF CheckClaims, BaseInv
<1>2. CASE CheckRetained(a)
  <2> DEFINE p == [pass[a] EXCEPT !.pc = "check_shared",
                     !.acc = pass[a].acc \cup RetainedHolders(pass[a].key, Me(a))]
  <2>1. pass[a].pc = "check_retained" /\ pass' = [pass EXCEPT ![a] = p]
    BY <1>0, <1>2 DEF CheckRetained, At
  <2>2. p \in PassType
    BY <1>0 DEF PassType, PassPC, RetainedHolders, Holder
  <2>3. Fits(a, p)
    BY <1>0, <2>1, Names DEF Fits, ShapeOf, Idle, PassType, Allocating, Checking, Committed,
       ClaimProvision, ClaimDrop, SharedProvision, SharedDrop, Collecting
  <2>4. PassOK'
    BY <1>0, <2>1, <2>2, <2>3, MoveTo DEF PassOK
  <2> QED
    BY <1>2, <2>4, Kept DEF CheckRetained, BaseInv
<1>3. CASE CheckShared(a)
  <2>1. PICK others : /\ pass[a].pc = "check_shared"
                      /\ pass' = [pass EXCEPT ![a] =
                           [pass[a] EXCEPT !.pc = AfterCheck(a, others), !.acc = {}]]
    BY <1>0, <1>3 DEF CheckShared, At
  <2> DEFINE p == [pass[a] EXCEPT !.pc = AfterCheck(a, others), !.acc = {}]
  <2>2. AfterCheck(a, others) \in PassPC
    BY DEF AfterCheck, AfterFlush, PassPC, WritePC
  <2>3. p \in PassType
    BY <1>0, <2>2 DEF PassType
  <2>4. Fits(a, p)
    BY <1>0, <2>1, Names DEF Fits, ShapeOf, Idle, PassType, Allocating, Checking, Committed,
       ClaimProvision, ClaimDrop, SharedProvision, SharedDrop, Collecting, AfterCheck, AfterFlush
  <2>5. PassOK'
    BY <1>0, <2>1, <2>3, <2>4, MoveTo DEF PassOK
  <2> QED
    BY <1>3, <2>5, Kept DEF CheckShared, BaseInv
<1>4. CASE Flush(a) \/ FlushFails(a)
  <2>1. pass[a].pc = "flush" /\ Go(a, AfterFlush(a)) /\ AfterFlush(a) \in PassPC
    BY <1>4 DEF Flush, FlushFails, At, AfterFlush, PassPC, WritePC
  <2>2. Fits(a, [pass[a] EXCEPT !.pc = AfterFlush(a)])
    BY <1>0, <2>1, Names DEF Fits, ShapeOf, Idle, PassType, Allocating, Checking, Committed,
       ClaimProvision, ClaimDrop, SharedProvision, SharedDrop, Collecting, AfterFlush
  <2>3. PassOK'
    BY <1>0, <2>1, <2>2, GoTo DEF PassOK
  <2>4. DataOK'
    BY <1>4 DEF Flush, FlushFails, BaseInv, DataOK
  <2> QED
    BY <1>4, <2>3, <2>4, Kept DEF Flush, FlushFails, BaseInv
<1> QED
  BY <1>1, <1>2, <1>3, <1>4 DEF FlusherStep

\* What is left behind is typed like what was there.
LEMMA DisownedType ==
  ASSUME DataOK, NEW h
  PROVE  Disowned(h) \in [Key -> SUBSET (Holder \cup {NoHolder})]
BY DEF Disowned, DataOK

\* The steps of a claim's pass that write to no object.
LEMMA ClaimBase ==
  ASSUME BaseInv,
         \/ OwnSnapshot("claim") \/ CancelBeforeRelease("claim") \/ SetUser("claim")
         \/ Cancel("claim") \/ FindSnapshot("claim") \/ TakeSnapshot("claim")
  PROVE  BaseInv'
<1> DEFINE a == "claim"
<1>0. /\ TypeOK /\ ShapeInv /\ a \in Actor /\ pass[a] \in PassType /\ Fits(a, pass[a])
      /\ pass \in [Actor -> PassType] /\ a \notin Claim
  BY BaseParts, Names DEF TypeOK, ShapeInv
<1>1. CASE OwnSnapshot(a)
  <2> DEFINE own == snap[Me(a)].key = pass[a].key
             sk == own /\ pass[a].inst = "persistent"
             p == [pass[a] EXCEPT !.pc = "commit", !.reatt = own, !.skip = sk]
  <2>1. pass[a].pc = "own_snapshot" /\ pass' = [pass EXCEPT ![a] = p]
    BY <1>0, <1>1 DEF OwnSnapshot, At
  <2>2. own \in BOOLEAN /\ sk \in BOOLEAN
    OBVIOUS
  <2> HIDE DEF own, sk
  <2>3. p \in PassType
    BY <1>0, <2>2 DEF PassType, PassPC, WritePC
  <2>4. Fits(a, p)
    BY <1>0, <2>1, <2>2, Names DEF Fits, ShapeOf, Idle, PassType, Allocating, Checking, Committed,
       ClaimProvision, ClaimDrop, SharedProvision, SharedDrop, Collecting
  <2>5. PassOK'
    BY <1>0, <2>1, <2>3, <2>4, MoveTo DEF PassOK
  <2> QED
    BY <1>1, <2>5, Kept DEF OwnSnapshot, BaseInv
<1>2. CASE CancelBeforeRelease(a)
  <2>1. pass[a].pc = "cancel_before_release" /\ Go(a, "release") /\ "release" \in PassPC
    BY <1>2 DEF CancelBeforeRelease, At, PassPC, WritePC
  <2>2. Fits(a, [pass[a] EXCEPT !.pc = "release"])
    BY <1>0, <2>1, Names DEF Fits, ShapeOf, Idle, PassType, Allocating, Checking, Committed,
       ClaimProvision, ClaimDrop, SharedProvision, SharedDrop, Collecting
  <2>3. PassOK'
    BY <1>0, <2>1, <2>2, GoTo DEF PassOK
  <2>4. SnapOK'
    BY <1>2 DEF CancelBeforeRelease, BaseInv, SnapOK, NoSnap, KeyOrNone
  <2> QED
    BY <1>2, <2>3, <2>4, Kept DEF CancelBeforeRelease, BaseInv
<1>3. CASE SetUser(a)
  <2>1. pass[a].pc = "setuser" /\ Go(a, "terminal") /\ "terminal" \in PassPC
    BY <1>3 DEF SetUser, At, PassPC, WritePC
  <2>2. Fits(a, [pass[a] EXCEPT !.pc = "terminal"])
    BY <1>0, <2>1, Names DEF Fits, ShapeOf, Idle, PassType, Allocating, Checking, Committed,
       ClaimProvision, ClaimDrop, SharedProvision, SharedDrop, Collecting
  <2>3. PassOK'
    BY <1>0, <2>1, <2>2, GoTo DEF PassOK
  <2>4. AclOK'
    BY <1>0, <1>3 DEF SetUser, BaseInv, AclOK, PassType
  <2> QED
    BY <1>3, <2>3, <2>4, Kept DEF SetUser, BaseInv
<1>4. CASE Cancel(a)
  <2>1. PassOK'
    BY <1>0, <1>4, EndOf DEF Cancel, PassOK
  <2>2. SnapOK'
    BY <1>4 DEF Cancel, BaseInv, SnapOK, NoSnap, KeyOrNone
  <2>3. DataOK'
    BY <1>4, DisownedType DEF Cancel, BaseInv, DataOK
  <2> QED
    BY <1>4, <2>1, <2>2, <2>3, Kept DEF Cancel, BaseInv
<1>5. CASE FindSnapshot(a)
  <2> DEFINE next == IF snap[Me(a)].there THEN "unfinalize" ELSE "snapshot"
  <2>1. pass[a].pc = "find_snapshot" /\ Go(a, next) /\ next \in PassPC
    BY <1>5 DEF FindSnapshot, At, PassPC
  <2>2. Fits(a, [pass[a] EXCEPT !.pc = next])
    BY <1>0, <2>1, Names DEF Fits, ShapeOf, Idle, PassType, Allocating, Checking, Committed,
       ClaimProvision, ClaimDrop, SharedProvision, SharedDrop, Collecting
  <2>3. PassOK'
    BY <1>0, <2>1, <2>2, GoTo DEF PassOK
  <2> QED
    BY <1>5, <2>3, Kept DEF FindSnapshot, BaseInv
<1>6. CASE TakeSnapshot(a)
  <2>1. pass[a].pc = "snapshot" /\ Go(a, "unfinalize") /\ "unfinalize" \in PassPC
    BY <1>6 DEF TakeSnapshot, At, PassPC
  <2>2. Fits(a, [pass[a] EXCEPT !.pc = "unfinalize"])
    BY <1>0, <2>1, Names DEF Fits, ShapeOf, Idle, PassType, Allocating, Checking, Committed,
       ClaimProvision, ClaimDrop, SharedProvision, SharedDrop, Collecting
  <2>3. PassOK'
    BY <1>0, <2>1, <2>2, GoTo DEF PassOK
  <2>4. SnapOK'
    BY <1>0, <1>6 DEF TakeSnapshot, BaseInv, SnapOK, PassType
  <2> QED
    BY <1>6, <2>3, <2>4, Kept DEF TakeSnapshot, BaseInv
<1> QED
  BY <1>1, <1>2, <1>3, <1>4, <1>5, <1>6

\* The grace-period GC.
LEMMA CollectBase ==
  ASSUME BaseInv, NEW c \in Claim, GCStep(c)
  PROVE  BaseInv'
<1>0. /\ TypeOK /\ ShapeInv /\ c \in Actor /\ c \in Holder /\ c \notin Controller
      /\ pass[c] \in PassType /\ Fits(c, pass[c]) /\ pass \in [Actor -> PassType]
  BY BaseParts, Names DEF TypeOK, ShapeInv
<1>1. CASE BeginCollect(c)
  <2>1. PICK pc \in {"delete", "check_claims"}, key \in KeyOrNone :
          pass' = [pass EXCEPT ![c] = [Idle EXCEPT !.pc = pc, !.goal = "drop", !.obj = c,
                                                   !.inst = "none", !.key = key]]
    BY <1>0, <1>1 DEF BeginCollect, Start, TypeOK, KeyOrNone
  <2> DEFINE p == [Idle EXCEPT !.pc = pc, !.goal = "drop", !.obj = c, !.inst = "none", !.key = key]
  <2>2. p \in PassType
    BY <1>0 DEF PassType, PassPC, Idle
  <2>3. Fits(c, p)
    BY <1>0 DEF Fits, ShapeOf, Idle, Allocating, Checking, Committed, Collecting
  <2>4. PassOK'
    BY <1>0, <2>1, <2>2, <2>3, MoveTo DEF PassOK
  <2>5. late' = late
    BY <1>0, <1>1 DEF BeginCollect, Start
  <2> QED
    BY <1>1, <2>4, <2>5, Kept DEF BeginCollect, BaseInv
<1>2. CASE DelUser(c) \/ DelUserFails(c)
  <2>1. pass[c].pc = "deluser" /\ Go(c, "delete") /\ "delete" \in PassPC
    BY <1>2 DEF DelUser, DelUserFails, At, PassPC
  <2>2. Fits(c, [pass[c] EXCEPT !.pc = "delete"])
    BY <1>0, <2>1, Names DEF Fits, ShapeOf, Idle, PassType, Allocating, Checking, Committed,
       ClaimProvision, ClaimDrop, SharedProvision, SharedDrop, Collecting
  <2>3. PassOK'
    BY <1>0, <2>1, <2>2, GoTo DEF PassOK
  <2>4. AclOK'
    BY <1>0, <1>2 DEF DelUser, DelUserFails, BaseInv, AclOK, KeyOrNone
  <2> QED
    BY <1>2, <2>3, <2>4, Kept DEF DelUser, DelUserFails, BaseInv
<1>3. CASE DeleteSnapshot(c)
  <2>1. PassOK'
    BY <1>0, <1>3, EndOf DEF DeleteSnapshot, PassOK
  <2>2. SnapOK'
    BY <1>3 DEF DeleteSnapshot, BaseInv, SnapOK, NoSnap, KeyOrNone
  <2>3. DataOK'
    BY <1>3, DisownedType DEF DeleteSnapshot, BaseInv, DataOK
  <2> QED
    BY <1>3, <2>1, <2>2, <2>3, Kept DEF DeleteSnapshot, BaseInv
<1> QED
  BY <1>1, <1>2, <1>3 DEF GCStep

\* A status write is typed.
LEMMA InFlightType ==
  ASSUME NEW p \in PassType, p.pc \in WritePC
  PROVE  InFlight(p) \in StatusType
<1>1. (p.obj \in Shared) \in BOOLEAN
  OBVIOUS
<1>2. NoKey \in KeyOrNone /\ p.key \in KeyOrNone
  BY DEF KeyOrNone, PassType
<1>3. CASE p.pc = "commit"
  BY <1>1, <1>2, <1>3 DEF InFlight, Status, StatusType
<1>4. CASE p.pc = "keep"
  BY <1>1, <1>2, <1>4 DEF InFlight, Status, StatusType
<1>5. CASE p.pc = "release"
  BY <1>1, <1>2, <1>5 DEF InFlight, Status, StatusType
<1>6. CASE p.pc = "refuse"
  BY <1>1, <1>2, <1>6 DEF InFlight, Status, StatusType
<1>7. CASE p.pc = "terminal"
  BY <1>1, <1>2, <1>7 DEF InFlight, Status, StatusType
<1> QED
  BY <1>3, <1>4, <1>5, <1>6, <1>7 DEF WritePC

\* An apply of a status leaves the rest of the object.
LEMMA AppliedEffect ==
  ASSUME NEW o \in ObjType, NEW w \in StatusType
  PROVE  /\ Applied(o, w) \in ObjType
         /\ Applied(o, w).st = o.st /\ Applied(o, w).fin = o.fin /\ Applied(o, w).inst = o.inst
         /\ Applied(o, w).ready = w.ready /\ Applied(o, w).unfin = w.unfin
         /\ Applied(o, w).key = w.key
BY DEF Applied, ObjType, StatusType

\* A write by a pass.
LEMMA WriteBase ==
  ASSUME BaseInv, NEW a \in Actor, NEW w \in StatusType, NEW next \in PassPC,
         Me(a) \in Holder, Write(a, w, next),
         next # "idle" => Fits(a, [pass[a] EXCEPT !.pc = next])
  PROVE  ObjOK' /\ PassOK' /\ SnapOK' /\ DataOK' /\ AclOK' /\ LateOK' /\ DropsOK'
<1>0. TypeOK /\ ShapeInv /\ obj \in [Holder -> ObjType]
  BY BaseParts DEF TypeOK
<1>1. PassOK'
  BY <1>0, EndOf, GoTo DEF Write, PassOK
<1>2. ObjOK'
  <2>1. CASE obj[Me(a)].st = "absent"
    BY <2>1, Kept DEF Write, BaseInv
  <2>2. CASE obj[Me(a)].st # "absent"
    <3>1. obj' = [obj EXCEPT ![Me(a)] = Applied(obj[Me(a)], w)] /\ cache' = cache
      BY <2>2 DEF Write
    <3>2. obj[Me(a)] \in ObjType
      BY <1>0
    <3>3. \A h \in Holder : obj'[h] = IF h = Me(a) THEN Applied(obj[Me(a)], w) ELSE obj[h]
      BY <1>0, <3>1
    <3> QED
      BY <1>0, <2>2, <3>1, <3>2, <3>3, AppliedEffect DEF BaseInv, ObjOK, ObjectInv
  <2> QED
    BY <2>1, <2>2
<1>3. DataOK'
  BY DisownedType, Kept DEF Write, BaseInv, DataOK
<1> QED
  BY <1>1, <1>2, <1>3, Kept DEF Write, BaseInv

\* The status writes of the two controllers.
LEMMA WritesBase ==
  ASSUME BaseInv, NEW a \in Controller,
         Checkpoint(a) \/ Release(a) \/ Refuse(a) \/ KeepConflicting(a) \/ Terminal(a)
  PROVE  BaseInv'
<1>0. /\ TypeOK /\ ShapeInv /\ a \in Actor /\ a \in {"claim", "shared"} /\ pass[a] \in PassType
      /\ Fits(a, pass[a])
  BY BaseParts, Names DEF TypeOK, ShapeInv
<1>1. pass[a].pc \in WritePC
  BY DEF Checkpoint, Release, Refuse, KeepConflicting, Terminal, At, WritePC
<1>2. InFlight(pass[a]) \in StatusType
  BY <1>0, <1>1, InFlightType
<1>3. Me(a) \in Holder
  BY <1>0, <1>1, Names DEF Me, Fits, ShapeOf, Idle, WritePC
<1>4. "idle" \in PassPC /\ "cancel" \in PassPC /\ "check_claims" \in PassPC
  BY DEF PassPC
<1>5. CASE Checkpoint(a)
  <2>1. pass[a].pc = "commit" /\ Write(a, InFlight(pass[a]), "check_claims") /\ lock' = Free
    BY <1>5 DEF Checkpoint, At
  <2>2. Fits(a, [pass[a] EXCEPT !.pc = "check_claims"])
    BY <1>0, <2>1, Names DEF Fits, ShapeOf, Idle, PassType, Allocating, Checking, Committed,
       ClaimProvision, ClaimDrop, SharedProvision, SharedDrop, Collecting
  <2> QED
    BY <1>0, <1>2, <1>3, <1>4, <2>1, <2>2, WriteBase DEF BaseInv, LockOK
<1>6. CASE Release(a) \/ Refuse(a) \/ KeepConflicting(a)
  <2>1. Write(a, InFlight(pass[a]), "idle") /\ lock' \in {lock, Free}
    BY <1>6 DEF Release, Refuse, KeepConflicting, Released
  <2> QED
    BY <1>0, <1>2, <1>3, <1>4, <2>1, WriteBase DEF BaseInv, LockOK
<1>7. CASE Terminal(a)
  <2> DEFINE next == IF a = "claim" THEN "cancel" ELSE "idle"
  <2>1. pass[a].pc = "terminal" /\ Write(a, InFlight(pass[a]), next) /\ lock' = lock
    BY <1>7 DEF Terminal, At
  <2>2. a = "claim" => Fits(a, [pass[a] EXCEPT !.pc = "cancel"])
    BY <1>0, <2>1, Names DEF Fits, ShapeOf, Idle, PassType, Allocating, Checking, Committed,
       ClaimProvision, ClaimDrop, SharedProvision, SharedDrop, Collecting
  <2> QED
    BY <1>0, <1>2, <1>3, <1>4, <2>1, <2>2, WriteBase DEF BaseInv, LockOK
<1> QED
  BY <1>5, <1>6, <1>7

\* The object a pass starts from is a version of its object.
LEMMA SeenType ==
  ASSUME BaseInv, NEW h \in Holder
  PROVE  /\ Seen(h) \in ObjType /\ (Seen(h).st # "absent" => Seen(h).inst \in Instance)
         /\ Seen(h).inst \in Instance \cup {"none"} /\ Seen(h).key \in KeyOrNone
         /\ OwnKey(Seen(h)) \in KeyOrNone /\ BackingOf(Seen(h)) \in KeyOrNone
<1>1. Seen(h) \in ObjType /\ (Seen(h).st # "absent" => Seen(h).inst \in Instance)
  BY DEF Seen, BaseInv, ObjOK, ObjectInv
<1> QED
  BY <1>1 DEF OwnKey, BackingOf, ObjType, KeyOrNone

\* The finalizer goes on an object that is there.
LEMMA FinalizedBase ==
  ASSUME BaseInv, NEW h \in Holder, Finalized(h), UNCHANGED cache
  PROVE  ObjOK'
<1>1. PICK v \in BOOLEAN : /\ obj' = [obj EXCEPT ![h].fin = v]
                           /\ obj[h].st = "absent" => v = obj[h].fin
  <2>1. obj[h].fin \in BOOLEAN /\ (obj[h].st = "absent" => Seen(h).fin)
    BY DEF Finalized, BaseInv, ObjOK, ObjType
  <2>2. obj' = [obj EXCEPT ![h].fin = obj[h].fin \/ ~Seen(h).fin]
    BY DEF Finalized
  <2>3. (obj[h].fin \/ ~Seen(h).fin) \in BOOLEAN
    OBVIOUS
  <2>4. obj[h].st = "absent" => (obj[h].fin \/ ~Seen(h).fin) = obj[h].fin
    BY <2>1
  <2> QED
    BY <2>2, <2>3, <2>4
<1>2. obj[h] \in ObjType /\ obj \in [Holder -> ObjType] /\ cache \in [Holder -> ObjType] /\ ObjectInv
  BY DEF BaseInv, ObjOK
<1>3. [obj[h] EXCEPT !.fin = v] \in ObjType
  BY <1>2 DEF ObjType
<1>4. \A g \in Holder : obj'[g] = IF g = h THEN [obj[h] EXCEPT !.fin = v] ELSE obj[g]
  BY <1>1, <1>2
<1>5. obj[h].st = "absent" => [obj[h] EXCEPT !.fin = v] = obj[h]
  BY <1>1, <1>2 DEF ObjType
<1>6. [obj[h] EXCEPT !.fin = v].st = obj[h].st /\ [obj[h] EXCEPT !.fin = v].inst = obj[h].inst
  BY <1>2 DEF ObjType
<1>7. obj' \in [Holder -> ObjType]
  BY <1>1, <1>2, <1>3
<1>8. ObjectInv'
  BY <1>2, <1>4, <1>5, <1>6 DEF ObjectInv
<1> QED
  BY <1>2, <1>7, <1>8 DEF ObjOK

\* A pass begins.
LEMMA StartBase ==
  ASSUME BaseInv, NEW a \in Controller, NEW h \in Holder, NEW pc \in PassPC,
         NEW goal \in {"provision", "drop"}, NEW inst \in Instance \cup {"none"},
         NEW key \in KeyOrNone, Start(a, h, pc, goal, inst, key),
         pc # "idle", pc \in Allocating => inst \in Instance,
         goal = "provision" /\ pc \in Committed \cup {"own_snapshot", "commit"} => key \in Key,
         a = "shared" /\ pc \in Allocating \ {"commit"} => key = NoKey,
         \/ a = "claim" /\ h \in Claim /\ goal = "provision" /\ pc \in ClaimProvision
         \/ a = "claim" /\ h \in Claim /\ goal = "drop" /\ pc \in ClaimDrop
         \/ a = "shared" /\ h \in Shared /\ goal = "provision" /\ pc \in SharedProvision
         \/ a = "shared" /\ h \in Shared /\ goal = "drop" /\ pc \in SharedDrop
  PROVE  PassOK' /\ LateOK'
<1>0. TypeOK /\ ShapeInv /\ a \in Actor
  BY BaseParts, Names
<1> DEFINE p == [Idle EXCEPT !.pc = pc, !.goal = goal, !.obj = h, !.inst = inst, !.key = key]
<1>1. /\ p.pc = pc /\ p.goal = goal /\ p.obj = h /\ p.inst = inst /\ p.key = key
      /\ ~p.skip /\ ~p.reatt
  BY DEF Idle
<1>2. p \in PassType
  BY DEF PassType, Idle
<1>3. pass' = [pass EXCEPT ![a] = p]
  BY DEF Start
<1> HIDE DEF p
<1>4. Fits(a, p)
  BY <1>1 DEF Fits, ShapeOf
<1>5. PassOK'
  BY <1>0, <1>2, <1>3, <1>4, MoveTo DEF PassOK
<1>6. LateOK'
  BY DEF Start, StillLate, BaseInv, LateOK
<1> QED
  BY <1>5, <1>6

\* The passes of the two controllers begin.
LEMMA BeginBase ==
  ASSUME BaseInv,
         \/ \E c \in Claim : BeginClaim(c) \/ BeginClaimDelete(c)
         \/ \E s \in Shared : BeginShared(s) \/ BeginSharedRefusal(s) \/ BeginSharedDelete(s)
  PROVE  BaseInv'
<1>0. "lock" \in PassPC /\ "find_snapshot" \in PassPC /\ "terminal" \in PassPC
      /\ "check_claims" \in PassPC /\ "unfinalize" \in PassPC /\ "refuse" \in PassPC
  BY DEF PassPC, WritePC
<1>1. ASSUME NEW c \in Claim, BeginClaim(c) PROVE BaseInv'
  <2>1. /\ c \in Holder /\ Start("claim", c, "lock", "provision", Seen(c).inst, OwnKey(Seen(c)))
        /\ Seen(c).inst \in Instance /\ OwnKey(Seen(c)) \in KeyOrNone /\ "claim" \in Controller
    BY <1>1, SeenType, Names DEF BeginClaim
  <2>2. "lock" \in ClaimProvision /\ "lock" \in Allocating
        /\ "lock" \notin Committed \cup {"own_snapshot", "commit"}
    BY DEF ClaimProvision, Allocating, Committed, Checking
  <2>3. PassOK' /\ LateOK'
    BY <1>0, <2>1, <2>2, StartBase
  <2>4. ObjOK'
    BY <1>1, <2>1, FinalizedBase DEF BeginClaim
  <2> QED
    BY <1>1, <2>3, <2>4, Kept DEF BeginClaim, BaseInv
<1>2. ASSUME NEW c \in Claim, BeginClaimDelete(c) PROVE BaseInv'
  <2>1. /\ c \in Holder /\ Start("claim", c, "find_snapshot", "drop", Seen(c).inst, Seen(c).key)
        /\ Seen(c).inst \in Instance /\ Seen(c).key \in KeyOrNone /\ "claim" \in Controller
    BY <1>2, SeenType, Names DEF BeginClaimDelete
  <2>2. "find_snapshot" \in ClaimDrop /\ "find_snapshot" \notin Allocating
    BY DEF ClaimDrop, Allocating
  <2>3. PassOK' /\ LateOK'
    BY <1>0, <2>1, <2>2, StartBase
  <2> QED
    BY <1>2, <2>3, Kept DEF BeginClaimDelete, BaseInv
<1>3. ASSUME NEW s \in Shared, BeginShared(s) PROVE BaseInv'
  <2> DEFINE own == OwnKey(Seen(s))
             pc == IF own = NoKey THEN "lock"
                   ELSE IF Seen(s).unfin THEN "check_claims" ELSE "terminal"
  <2>1. /\ s \in Holder /\ Start("shared", s, pc, "provision", Seen(s).inst, own)
        /\ Seen(s).inst \in Instance /\ own \in KeyOrNone /\ "shared" \in Controller
    BY <1>3, SeenType, Names DEF BeginShared
  <2>2. pc \in SharedProvision /\ pc \in PassPC /\ pc # "idle"
    BY <1>0 DEF SharedProvision, Allocating, Checking
  <2>3. pc \in Committed \cup {"own_snapshot", "commit"} => own \in Key
    BY <2>1 DEF KeyOrNone, Committed, Checking
  <2>4. pc \in Allocating => own = NoKey
    BY DEF Allocating
  <2> HIDE DEF pc, own
  <2>5. PassOK' /\ LateOK'
    BY <2>1, <2>2, <2>3, <2>4, StartBase
  <2>6. ObjOK'
    BY <1>3, <2>1, FinalizedBase DEF BeginShared
  <2> QED
    BY <1>3, <2>5, <2>6, Kept DEF BeginShared, BaseInv
<1>4. ASSUME NEW s \in Shared, BeginSharedRefusal(s) PROVE BaseInv'
  <2>1. /\ s \in Holder
        /\ Start("shared", s, "refuse", "provision", Seen(s).inst, BackingOf(Seen(s)))
        /\ Seen(s).inst \in Instance \cup {"none"} /\ BackingOf(Seen(s)) \in KeyOrNone
        /\ "shared" \in Controller
    BY <1>4, SeenType, Names DEF BeginSharedRefusal
  <2>2. "refuse" \in SharedProvision /\ "refuse" \notin Allocating
        /\ "refuse" \notin Committed \cup {"own_snapshot", "commit"}
    BY DEF SharedProvision, Allocating, Committed, Checking
  <2>3. PassOK' /\ LateOK'
    BY <1>0, <2>1, <2>2, StartBase
  <2>4. ObjOK'
    BY <1>4, <2>1, FinalizedBase, Kept DEF BeginSharedRefusal, BaseInv
  <2> QED
    BY <1>4, <2>3, <2>4, Kept DEF BeginSharedRefusal, BaseInv
<1>5. ASSUME NEW s \in Shared, BeginSharedDelete(s) PROVE BaseInv'
  <2> DEFINE pc == IF Seen(s).key = NoKey THEN "unfinalize" ELSE "check_claims"
  <2>1. /\ s \in Holder /\ Start("shared", s, pc, "drop", Seen(s).inst, Seen(s).key)
        /\ Seen(s).inst \in Instance \cup {"none"} /\ Seen(s).key \in KeyOrNone
        /\ "shared" \in Controller
    BY <1>5, SeenType, Names DEF BeginSharedDelete
  <2>2. pc \in SharedDrop /\ pc \notin Allocating /\ pc \in PassPC /\ pc # "idle"
    BY <1>0 DEF SharedDrop, Allocating, Checking
  <2> HIDE DEF pc
  <2>3. PassOK' /\ LateOK'
    BY <2>1, <2>2, StartBase
  <2> QED
    BY <1>5, <2>3, Kept DEF BeginSharedDelete, BaseInv
<1> QED
  BY <1>1, <1>2, <1>3, <1>4, <1>5

\* The finalizer goes, and with it an object that is being deleted.
LEMMA UnfinalizeBase ==
  ASSUME BaseInv, NEW a \in Controller, Unfinalize(a)
  PROVE  BaseInv'
<1>0. /\ TypeOK /\ ShapeInv /\ a \in Actor /\ pass[a] \in PassType /\ Fits(a, pass[a])
      /\ obj \in [Holder -> ObjType] /\ cache \in [Holder -> ObjType] /\ ObjectInv
  BY BaseParts, Names DEF TypeOK, ShapeInv
<1>1. Me(a) \in Holder
  BY <1>0, Names DEF Me, Fits, ShapeOf, Idle, Unfinalize, At
<1>2. NoObj \in ObjType /\ [obj[Me(a)] EXCEPT !.fin = FALSE] \in ObjType
  BY <1>0, <1>1 DEF NoObj, ObjType, KeyOrNone
<1> DEFINE o == IF obj[Me(a)].st = "live" THEN [obj[Me(a)] EXCEPT !.fin = FALSE] ELSE NoObj
<1>3. obj' = [obj EXCEPT ![Me(a)] = o] /\ cache' = cache
  BY DEF Unfinalize
<1>4. o \in ObjType /\ (o.st = "absent" => o = NoObj) /\ (o.st # "absent" => o.inst = obj[Me(a)].inst /\ obj[Me(a)].st = "live")
  BY <1>0, <1>1, <1>2 DEF NoObj, ObjType
<1> HIDE DEF o
<1>5. \A h \in Holder : obj'[h] = IF h = Me(a) THEN o ELSE obj[h]
  BY <1>0, <1>3
<1>6. ObjOK'
  BY <1>0, <1>1, <1>3, <1>4, <1>5 DEF ObjOK, ObjectInv
<1>7. PassOK'
  BY <1>0, EndOf DEF Unfinalize, PassOK
<1>8. DataOK'
  BY DisownedType DEF Unfinalize, BaseInv, DataOK
<1> QED
  BY <1>6, <1>7, <1>8, Kept DEF Unfinalize, BaseInv

\* Failures, users and time.
LEMMA EnvironmentBase ==
  ASSUME BaseInv, EnvironmentStep
  PROVE  BaseInv'
<1>0. /\ TypeOK /\ ShapeInv /\ obj \in [Holder -> ObjType] /\ cache \in [Holder -> ObjType]
      /\ ObjectInv /\ late \subseteq [obj : Holder, w : StatusType]
  BY BaseParts DEF TypeOK
<1>1. ASSUME NEW a \in Actor, DropPass(a) PROVE BaseInv'
  <2>1. PassOK'
    BY <1>0, <1>1, EndOf DEF DropPass, PassOK
  <2>2. pass[a] \in PassType /\ Fits(a, pass[a])
    BY <1>0 DEF TypeOK, ShapeInv
  <2>3. pass[a].pc \in WritePC => pass[a].obj \in Holder
    BY <2>2, Names DEF Fits, ShapeOf, Idle, WritePC
  <2>4. pass[a].pc \in WritePC =>
          [obj |-> pass[a].obj, w |-> InFlight(pass[a])] \in [obj : Holder, w : StatusType]
    BY <2>2, <2>3, InFlightType
  <2>5. late' = late \/ (/\ pass[a].pc \in WritePC
                         /\ late' = late \cup {[obj |-> pass[a].obj, w |-> InFlight(pass[a])]})
    BY <1>1 DEF DropPass
  <2>6. LateOK'
    BY <1>0, <2>4, <2>5 DEF LateOK
  <2>7. LockOK' /\ DropsOK'
    BY <1>1, Names DEF DropPass, Released, BaseInv, LockOK, DropsOK
  <2> QED
    BY <1>1, <2>1, <2>6, <2>7, Kept DEF DropPass, BaseInv
<1>2. ASSUME NEW w \in late, LateCommit(w) PROVE BaseInv'
  <2>1. w.obj \in Holder /\ w.w \in StatusType /\ obj[w.obj] \in ObjType
    BY <1>0
  <2>2. ObjOK'
    <3>1. CASE obj[w.obj].st = "absent"
      BY <1>2, <3>1, Kept DEF LateCommit, BaseInv
    <3>2. CASE obj[w.obj].st # "absent"
      <4>1. obj' = [obj EXCEPT ![w.obj] = Applied(obj[w.obj], w.w)] /\ cache' = cache
        BY <1>2, <3>2 DEF LateCommit
      <4>2. \A h \in Holder : obj'[h] = IF h = w.obj THEN Applied(obj[w.obj], w.w) ELSE obj[h]
        BY <1>0, <4>1
      <4> QED
        BY <1>0, <2>1, <3>2, <4>1, <4>2, AppliedEffect DEF ObjOK, ObjectInv
    <3> QED
      BY <3>1, <3>2
  <2>3. LateOK'
    BY <1>0, <1>2 DEF LateCommit, LateOK
  <2>4. DataOK'
    BY <1>2, DisownedType DEF LateCommit, BaseInv, DataOK
  <2> QED
    BY <1>2, <2>2, <2>3, <2>4, Kept DEF LateCommit, BaseInv
<1>3. ASSUME NEW h \in Holder, WatchDelivers(h) PROVE BaseInv'
  <2>1. cache' = [cache EXCEPT ![h] = obj[h]] /\ obj' = obj
    BY <1>3 DEF WatchDelivers
  <2>2. ObjOK'
    BY <1>0, <2>1 DEF ObjOK, ObjectInv
  <2> QED
    BY <1>3, <2>2, Kept DEF WatchDelivers, BaseInv
<1>4. NoObj \in ObjType /\ NoObj.st = "absent"
  BY DEF NoObj, ObjType, KeyOrNone
<1>5. ASSUME NEW h \in Holder, Delete(h) PROVE BaseInv'
  <2> DEFINE o == IF obj[h].fin THEN [obj[h] EXCEPT !.st = "deleting"] ELSE NoObj
  <2>1. obj' = [obj EXCEPT ![h] = o] /\ cache' = cache /\ obj[h].st = "live"
    BY <1>5 DEF Delete
  <2>2. obj[h] \in ObjType
    BY <1>0
  <2>3. o \in ObjType /\ (o.st = "absent" => o = NoObj) /\ (o.st # "absent" => o.inst = obj[h].inst)
    BY <1>4, <2>2 DEF ObjType
  <2> HIDE DEF o
  <2>4. \A g \in Holder : obj'[g] = IF g = h THEN o ELSE obj[g]
    BY <1>0, <2>1
  <2>5. ObjOK'
    BY <1>0, <2>1, <2>3, <2>4 DEF ObjOK, ObjectInv
  <2> QED
    BY <1>5, <2>5, Kept DEF Delete, BaseInv
<1>6. ASSUME NEW h \in Holder, NEW i \in Instance, Create(h, i) PROVE BaseInv'
  <2> DEFINE o == [NoObj EXCEPT !.st = "live", !.inst = i]
  <2>1. obj' = [obj EXCEPT ![h] = o] /\ cache' = cache
    BY <1>6 DEF Create
  <2>2. o \in ObjType /\ o.st = "live" /\ o.inst = i
    BY DEF NoObj, ObjType, KeyOrNone
  <2> HIDE DEF o
  <2>3. \A g \in Holder : obj'[g] = IF g = h THEN o ELSE obj[g]
    BY <1>0, <2>1
  <2>4. ObjOK'
    BY <1>0, <2>1, <2>2, <2>3 DEF ObjOK, ObjectInv
  <2> QED
    BY <1>6, <2>4, Kept DEF Create, BaseInv
<1>7. ASSUME NEW h \in Holder, NEW k \in Key, Use(h, k) PROVE BaseInv'
  <2>1. DataOK'
    BY <1>7 DEF Use, BaseInv, DataOK
  <2> QED
    BY <1>7, <2>1, Kept DEF Use, BaseInv
<1>8. ASSUME NEW c \in Claim, GraceElapses(c) PROVE BaseInv'
  <2>1. SnapOK'
    BY <1>8 DEF GraceElapses, BaseInv, SnapOK
  <2> QED
    BY <1>8, <2>1, Kept DEF GraceElapses, BaseInv
<1> QED
  BY <1>1, <1>2, <1>3, <1>5, <1>6, <1>7, <1>8 DEF EnvironmentStep

\* Every step keeps the types, and every pass within its kind.
LEMMA BaseStep == BaseInv /\ [Next]_vars => BaseInv'
<1> SUFFICES ASSUME BaseInv, [Next]_vars PROVE BaseInv'
  OBVIOUS
<1>1. CASE OperatorStep
  BY <1>1, AllocateBase, FlusherBase, ClaimBase, CollectBase, WritesBase, BeginBase,
     UnfinalizeBase, Names
     DEF OperatorStep, ClaimStep, SharedStep, AllocatorStep
<1>2. CASE EnvironmentStep
  BY <1>2, EnvironmentBase
<1>3. CASE UNCHANGED vars
  BY <1>3, Kept DEF vars, BaseInv
<1> QED
  BY <1>1, <1>2, <1>3 DEF Next

\* Nothing is held at the start.
LEMMA BaseInit == Init => BaseInv
<1> SUFFICES ASSUME Init PROVE BaseInv
  OBVIOUS
<1>1. NoObj \in ObjType /\ NoObj.st = "absent"
  BY DEF NoObj, ObjType, KeyOrNone
<1>2. ObjOK
  BY <1>1 DEF Init, ObjOK, ObjectInv
<1>3. SnapOK /\ DataOK /\ AclOK
  BY DEF Init, SnapOK, DataOK, AclOK, NoSnap, KeyOrNone
<1>4. PassOK
  BY IdleFits DEF Init, PassOK, ShapeInv
<1>5. LockOK /\ LateOK /\ DropsOK
  BY Names DEF Init, LockOK, LateOK, DropsOK
<1> QED
  BY <1>2, <1>3, <1>4, <1>5 DEF BaseInv

\* The stored objects, the passes and the lock keep their types, stale caches,
\* abandoned writes and dropped passes included: no pass allocates for an object
\* without a class, and no number is handed out that its instance does not have.
THEOREM TypeCorrect == Spec => []TypeOK
<1>1. BaseInv => TypeOK
  BY BaseParts
<1> QED
  BY <1>1, BaseInit, BaseStep, PTL DEF Spec

-----------------------------------------------------------------------------
(* What a step does to the objects, to the abandoned writes and to the passes. *)

\* The steps of a pass that write to no object.
InnerStep(a) ==
  \/ a \in Controller /\ (TakeLock(a) \/ ListClaims(a) \/ ListRetained(a) \/ ListShared(a))
  \/ FlusherStep(a)
  \/ /\ a = "claim"
     /\ \/ OwnSnapshot(a) \/ CancelBeforeRelease(a) \/ SetUser(a) \/ Cancel(a)
        \/ FindSnapshot(a) \/ TakeSnapshot(a)
  \/ a \in Claim /\ GCStep(a)

Begin(a, h) ==
  \/ a = "claim" /\ h \in Claim /\ (BeginClaim(h) \/ BeginClaimDelete(h))
  \/ /\ a = "shared" /\ h \in Shared
     /\ BeginShared(h) \/ BeginSharedRefusal(h) \/ BeginSharedDelete(h)

WriteStep(a) == Checkpoint(a) \/ Release(a) \/ Refuse(a) \/ KeepConflicting(a) \/ Terminal(a)

\* Nothing but these.
LEMMA Steps ==
  Next =>
    \/ \E a \in Actor : InnerStep(a)
    \/ \E a \in Controller, h \in Holder : Begin(a, h)
    \/ \E a \in Controller : WriteStep(a) \/ Unfinalize(a)
    \/ \E a \in Actor : DropPass(a)
    \/ \E w \in late : LateCommit(w)
    \/ \E h \in Holder : WatchDelivers(h) \/ Delete(h)
    \/ \E h \in Holder, i \in Instance : Create(h, i)
    \/ UNCHANGED <<obj, cache, pass, late>>
<1>1. CASE OperatorStep
  BY <1>1, Names DEF OperatorStep, ClaimStep, SharedStep, AllocatorStep, InnerStep, Begin, WriteStep
<1>2. CASE EnvironmentStep
  BY <1>2 DEF EnvironmentStep, Use, GraceElapses
<1> QED
  BY <1>1, <1>2 DEF Next

\* A pass goes on: to a place after its checkpoint only from such a place, and to
\* one past the re-read only when that has found nobody.
LEMMA InnerEffect ==
  ASSUME BaseInv, NEW a \in Actor, InnerStep(a)
  PROVE  /\ UNCHANGED <<obj, cache, late>>
         /\ \A b \in Actor \ {a} : pass'[b] = pass[b]
         /\ a \in Controller /\ pass'[a].pc # "idle" =>
              /\ pass[a].pc # "idle" /\ pass'[a].obj = pass[a].obj /\ pass'[a].goal = pass[a].goal
              /\ pass'[a].pc = "refuse" => pass'[a].key = NoKey
              /\ pass[a].goal = "provision" /\ pass'[a].pc \in Committed =>
                   pass[a].pc \in Committed /\ pass'[a].key = pass[a].key
              /\ pass[a].goal = "provision" /\ pass'[a].pc \in Cleared =>
                   \/ pass[a].pc \in Cleared
                   \/ /\ pass[a].pc = "check_shared" /\ pass[a].acc = {}
                      /\ SharedHolders(pass[a].key, Me(a)) = {}
              /\ pass'[a].pc \in {"check_retained", "check_shared"} =>
                   \/ pass'[a].acc = ClaimHolders(pass[a].key, Me(a)) /\ pass[a].pc = "check_claims"
                   \/ pass[a].pc = "check_retained" /\ pass[a].acc \subseteq pass'[a].acc
<1>0. /\ pass \in [Actor -> PassType] /\ pass[a] \in PassType /\ Fits(a, pass[a])
      /\ a \in Controller => a \in {"claim", "shared"} /\ a \notin Claim
  BY Names DEF BaseInv, PassOK, ShapeInv
<1>1. CASE a \in Claim /\ GCStep(a)
  BY <1>0, <1>1, Names DEF GCStep, BeginCollect, DelUser, DelUserFails, DeleteSnapshot, Start, Go, End
<1>2. CASE TakeLock(a) /\ a \in Controller
  BY <1>0, <1>2 DEF TakeLock, Go, At, PassType, Committed, Checking, Cleared
<1>3. CASE ListClaims(a) /\ a \in Controller
  BY <1>0, <1>3 DEF ListClaims, At, PassType, Committed, Checking, Cleared
<1>4. CASE ListRetained(a) /\ a \in Controller
  BY <1>0, <1>4 DEF ListRetained, At, PassType, Committed, Checking, Cleared
<1>5. CASE ListShared(a) /\ a \in Controller
  <2>1. pass[a].pc = "list_shared" /\ UNCHANGED <<obj, cache, late>>
    BY <1>5 DEF ListShared, At
  <2>2. a = "shared" => pass[a].key = NoKey
    BY <1>0, <2>1, Names DEF Fits, ShapeOf, Idle, Allocating
  <2> DEFINE p == [pass[a] EXCEPT !.acc = {}]
             kept == [p EXCEPT !.pc = "commit", !.skip = p.inst = "persistent"]
             full == IF a = "claim" THEN Idle ELSE [p EXCEPT !.pc = "refuse"]
  <2>3. p.obj = pass[a].obj /\ p.goal = pass[a].goal /\ p.key = pass[a].key /\ p \in PassType
    BY <1>0 DEF PassType
  <2>4. PICK k : \/ pass' = [pass EXCEPT ![a] = kept]
                 \/ pass' = [pass EXCEPT ![a] = full]
                 \/ pass' = [pass EXCEPT ![a] = [p EXCEPT !.pc = "commit", !.key = k]]
    BY <1>5 DEF ListShared
  <2> HIDE DEF p
  <2>5. CASE pass' = [pass EXCEPT ![a] = kept]
    <3>1. kept.pc = "commit" /\ kept.obj = pass[a].obj /\ kept.goal = pass[a].goal
      BY <2>3 DEF PassType
    <3> QED
      BY <1>0, <2>1, <2>5, <3>1 DEF Committed, Checking, Cleared
  <2>6. CASE pass' = [pass EXCEPT ![a] = full]
    <3>1. CASE a = "claim"
      BY <1>0, <2>1, <2>6, <3>1 DEF Idle
    <3>2. CASE a # "claim"
      <4>1. /\ full.pc = "refuse" /\ full.obj = pass[a].obj /\ full.goal = pass[a].goal
            /\ full.key = pass[a].key
        BY <2>3, <3>2 DEF PassType
      <4> QED
        BY <1>0, <1>5, <2>1, <2>2, <2>6, <3>2, <4>1 DEF Committed, Checking, Cleared
    <3> QED
      BY <3>1, <3>2
  <2>7. CASE pass' = [pass EXCEPT ![a] = [p EXCEPT !.pc = "commit", !.key = k]]
    <3> DEFINE new == [p EXCEPT !.pc = "commit", !.key = k]
    <3>1. new.pc = "commit" /\ new.obj = pass[a].obj /\ new.goal = pass[a].goal
      BY <2>3 DEF PassType
    <3> QED
      BY <1>0, <2>1, <2>7, <3>1 DEF Committed, Checking, Cleared
  <2> QED
    BY <2>4, <2>5, <2>6, <2>7
<1>6. CASE CheckClaims(a)
  BY <1>0, <1>6 DEF CheckClaims, At, PassType, Committed, Checking, Cleared
<1>7. CASE CheckRetained(a)
  BY <1>0, <1>7 DEF CheckRetained, At, PassType, Committed, Checking, Cleared
<1>8. CASE CheckShared(a)
  <2> DEFINE others == pass[a].acc \cup SharedHolders(pass[a].key, Me(a))
             q == [pass[a] EXCEPT !.pc = AfterCheck(a, others), !.acc = {}]
  <2>1. pass[a].pc = "check_shared" /\ UNCHANGED <<obj, cache, late>> /\ pass' = [pass EXCEPT ![a] = q]
    BY <1>0, <1>8 DEF CheckShared, At
  <2>2. /\ q.obj = pass[a].obj /\ q.goal = pass[a].goal /\ q.key = pass[a].key
        /\ q.pc = AfterCheck(a, others)
    BY <1>0 DEF PassType
  <2>3. AfterCheck(a, others) \notin {"refuse", "check_retained", "check_shared"}
    BY DEF AfterCheck, AfterFlush
  <2>4. others # {} /\ pass[a].goal = "provision" => AfterCheck(a, others) \notin Cleared
    BY DEF AfterCheck, Cleared
  <2> HIDE DEF q
  <2> QED
    BY <1>0, <2>1, <2>2, <2>3, <2>4 DEF Committed, Checking
<1>9. CASE Flush(a) \/ FlushFails(a)
  <2>1. /\ pass[a].pc = "flush" /\ UNCHANGED <<obj, cache, late>>
        /\ pass' = [pass EXCEPT ![a] = [pass[a] EXCEPT !.pc = AfterFlush(a)]]
    BY <1>9 DEF Flush, FlushFails, At, Go
  <2>2. AfterFlush(a) \notin {"refuse", "check_retained", "check_shared"}
    BY DEF AfterFlush
  <2> QED
    BY <1>0, <2>1, <2>2 DEF PassType, Committed, Checking, Cleared
<1>10. CASE /\ a = "claim"
            /\ \/ OwnSnapshot(a) \/ CancelBeforeRelease(a) \/ SetUser(a) \/ Cancel(a)
               \/ FindSnapshot(a) \/ TakeSnapshot(a)
  BY <1>0, <1>10 DEF OwnSnapshot, CancelBeforeRelease, SetUser, Cancel, FindSnapshot, TakeSnapshot,
     At, Go, End, Idle, PassType, Committed, Checking, Cleared
<1> QED
  BY <1>1, <1>2, <1>3, <1>4, <1>5, <1>6, <1>7, <1>8, <1>9, <1>10 DEF InnerStep, FlusherStep

\* A pass begins over an object that is then held by its finalizer, or that is on
\* its way out; what it takes for its number is what the object names.
LEMMA BeginEffect ==
  ASSUME SettledWrites, FreshCache \/ Shared = {}, BaseInv, PinnedInv,
         NEW a \in Controller, NEW h \in Holder, Begin(a, h)
  PROVE  /\ pass[a].pc = "idle" /\ (h \in Claim <=> a = "claim")
         /\ \A b \in Actor \ {a} : pass'[b] = pass[b]
         /\ pass'[a].obj = h /\ pass'[a].pc # "idle"
         /\ late' = {w \in late : w.obj # h} /\ cache' = cache
         /\ \A g \in Holder \ {h} : obj'[g] = obj[g]
         /\ obj'[h].st = obj[h].st /\ obj'[h].key = obj[h].key /\ obj'[h].ready = obj[h].ready
         /\ obj'[h].unfin = obj[h].unfin /\ obj'[h].inst = obj[h].inst
         /\ pass'[a].goal = "drop" => obj' = obj /\ Seen(h).st = "deleting"
         /\ pass'[a].goal # "drop" => obj'[h].fin /\ (obj[h].fin \/ Seen(h).st = "live")
         /\ pass'[a].goal # "drop" =>
              \/ pass'[a].pc = "lock"
              \/ /\ pass'[a].pc = "refuse"
                 /\ pass'[a].key = NoKey \/ (pass'[a].key = obj[h].key /\ ~obj[h].unfin)
              \/ pass'[a].pc = "check_claims" /\ pass'[a].key = obj[h].key
              \/ pass'[a].pc = "terminal" /\ pass'[a].key = obj[h].key /\ Provisioned(h)
<1>0. /\ pass \in [Actor -> PassType] /\ a \in Actor /\ obj \in [Holder -> ObjType]
      /\ obj[h] \in ObjType /\ Seen(h) \in ObjType
  BY Names, SeenType DEF BaseInv, PassOK, ObjOK
<1>1. h \in Claim <=> a = "claim"
  BY Names DEF Begin
<1>2. ASSUME Finalized(h), Seen(h).st = "live"
      PROVE  /\ \A g \in Holder \ {h} : obj'[g] = obj[g]
             /\ obj'[h].st = obj[h].st /\ obj'[h].key = obj[h].key /\ obj'[h].ready = obj[h].ready
             /\ obj'[h].unfin = obj[h].unfin /\ obj'[h].inst = obj[h].inst /\ obj'[h].fin
  <2>1. PICK v : obj' = [obj EXCEPT ![h].fin = v] /\ v = (obj[h].fin \/ ~Seen(h).fin)
    BY <1>2 DEF Finalized
  <2>2. v
    BY <1>2, <2>1 DEF PinnedInv
  <2>3. obj'[h] = [obj[h] EXCEPT !.fin = v] /\ \A g \in Holder \ {h} : obj'[g] = obj[g]
    BY <1>0, <2>1
  <2> QED
    BY <1>0, <2>2, <2>3 DEF ObjType
<1>3. ASSUME NEW pc, NEW goal, NEW inst, NEW key, Start(a, h, pc, goal, inst, key)
      PROVE  /\ \A b \in Actor \ {a} : pass'[b] = pass[b]
             /\ pass'[a].obj = h /\ pass'[a].pc = pc /\ pass'[a].goal = goal /\ pass'[a].key = key
             /\ late' = {w \in late : w.obj # h}
  <2>1. pass'[a] = [Idle EXCEPT !.pc = pc, !.goal = goal, !.obj = h, !.inst = inst, !.key = key]
    BY <1>0, <1>3 DEF Start
  <2>2. pass'[a].obj = h /\ pass'[a].pc = pc /\ pass'[a].goal = goal /\ pass'[a].key = key
    BY <2>1 DEF Idle
  <2> QED
    BY <1>0, <1>3, <2>2 DEF Start, StillLate
<1>4. CASE h \in Claim /\ BeginClaim(h)
  <2>1. /\ a = "claim" /\ Start(a, h, "lock", "provision", Seen(h).inst, OwnKey(Seen(h)))
        /\ Finalized(h) /\ Seen(h).st = "live" /\ pass[a].pc = "idle" /\ cache' = cache
    BY <1>1, <1>4 DEF BeginClaim, At
  <2> QED
    BY <1>1, <1>2, <1>3, <2>1
<1>5. CASE h \in Claim /\ BeginClaimDelete(h)
  <2>1. /\ a = "claim" /\ Start(a, h, "find_snapshot", "drop", Seen(h).inst, Seen(h).key)
        /\ Seen(h).st = "deleting" /\ pass[a].pc = "idle" /\ cache' = cache /\ obj' = obj
    BY <1>1, <1>5 DEF BeginClaimDelete, At
  <2> QED
    BY <1>1, <1>3, <2>1
<1>6. h \in Shared => FreshCache /\ Seen(h) = obj[h] /\ h \notin Claim
  BY Names DEF Seen
<1>7. CASE h \in Shared /\ BeginShared(h)
  <2> DEFINE own == OwnKey(Seen(h))
             pc == IF own = NoKey THEN "lock" ELSE IF Seen(h).unfin THEN "check_claims" ELSE "terminal"
  <2>1. /\ a = "shared" /\ Start(a, h, pc, "provision", Seen(h).inst, own)
        /\ Finalized(h) /\ Seen(h).st = "live" /\ pass[a].pc = "idle" /\ cache' = cache
    BY <1>6, <1>7, Names DEF BeginShared, At, Begin
  <2>2. own # NoKey => own = obj[h].key
    BY <1>6, <1>7 DEF OwnKey
  <2>3. \/ pc = "lock"
        \/ pc = "check_claims" /\ own = obj[h].key
        \/ pc = "terminal" /\ own = obj[h].key /\ Provisioned(h)
    BY <1>6, <1>7, <2>2 DEF Provisioned
  <2>4. pc # "idle"
    OBVIOUS
  <2> HIDE DEF pc, own
  <2> QED
    BY <1>1, <1>2, <1>3, <2>1, <2>3, <2>4
<1>8. CASE h \in Shared /\ BeginSharedRefusal(h)
  <2>1. /\ a = "shared"
        /\ Start(a, h, "refuse", "provision", Seen(h).inst, BackingOf(Seen(h)))
        /\ pass[a].pc = "idle" /\ cache' = cache
        /\ \/ Seen(h).st = "live" /\ Finalized(h)
           \/ Seen(h).fin /\ obj' = obj
    BY <1>6, <1>8, Names DEF BeginSharedRefusal, At, Begin
  <2>2. BackingOf(Seen(h)) = NoKey \/ (BackingOf(Seen(h)) = obj[h].key /\ ~obj[h].unfin)
    BY <1>6, <1>8 DEF BackingOf
  <2>3. CASE Seen(h).st = "live" /\ Finalized(h)
    BY <1>1, <1>2, <1>3, <2>1, <2>2, <2>3
  <2>4. CASE Seen(h).fin /\ obj' = obj
    BY <1>1, <1>3, <1>6, <1>8, <2>1, <2>2, <2>4
  <2> QED
    BY <2>1, <2>3, <2>4
<1>9. CASE h \in Shared /\ BeginSharedDelete(h)
  <2> DEFINE pc == IF Seen(h).key = NoKey THEN "unfinalize" ELSE "check_claims"
  <2>1. /\ a = "shared" /\ Start(a, h, pc, "drop", Seen(h).inst, Seen(h).key) /\ pc # "idle"
        /\ Seen(h).st = "deleting" /\ pass[a].pc = "idle" /\ cache' = cache /\ obj' = obj
    BY <1>6, <1>9, Names DEF BeginSharedDelete, At, Begin
  <2> HIDE DEF pc
  <2> QED
    BY <1>1, <1>3, <2>1
<1> QED
  BY <1>4, <1>5, <1>7, <1>8, <1>9 DEF Begin

\* The status a controller's pass sends: one that provisions names the number the
\* pass is on.
LEMMA InFlightEffect ==
  ASSUME BaseInv, NEW a \in Controller, pass[a].pc \in WritePC
  PROVE  /\ Me(a) \in Holder /\ (Me(a) \in Claim <=> a = "claim") /\ pass[a].goal = "provision"
         /\ InFlight(pass[a]) \in StatusType
         /\ InFlight(pass[a]).key = IF pass[a].pc = "release" THEN NoKey ELSE pass[a].key
         /\ InFlight(pass[a]).ready <=> pass[a].pc = "terminal"
         /\ a = "shared" => (InFlight(pass[a]).unfin <=> pass[a].pc \in {"commit", "release"})
         /\ a = "claim" => pass[a].pc # "refuse"
         /\ a = "shared" => pass[a].pc # "keep"
<1>0. pass[a] \in PassType /\ Fits(a, pass[a]) /\ a \in {"claim", "shared"}
  BY Names DEF BaseInv, PassOK, ShapeInv
<1>1. /\ Me(a) \in Holder /\ (Me(a) \in Claim <=> a = "claim") /\ pass[a].goal = "provision"
      /\ a = "claim" => pass[a].pc # "refuse"
      /\ a = "shared" => pass[a].pc # "keep" /\ Me(a) \in Shared
  BY <1>0, Names DEF Me, Fits, ShapeOf, Idle, WritePC, ClaimDrop, SharedDrop, Checking,
     ClaimProvision, SharedProvision, Allocating
<1>2. InFlight(pass[a]) \in StatusType
  BY <1>0, InFlightType
<1>3. CASE pass[a].pc = "commit"
  BY <1>1, <1>2, <1>3 DEF InFlight, Status, Me
<1>4. CASE pass[a].pc = "keep"
  BY <1>1, <1>2, <1>4 DEF InFlight, Status, Me
<1>5. CASE pass[a].pc = "release"
  BY <1>1, <1>2, <1>5 DEF InFlight, Status, Me
<1>6. CASE pass[a].pc = "refuse"
  BY <1>1, <1>2, <1>6 DEF InFlight, Status, Me
<1>7. CASE pass[a].pc = "terminal"
  BY <1>1, <1>2, <1>7 DEF InFlight, Status, Me
<1> QED
  BY <1>3, <1>4, <1>5, <1>6, <1>7 DEF WritePC

\* A pass that writes finds its object, and goes on or ends.
LEMMA WriteEffect ==
  ASSUME BaseInv, PinnedInv, NEW a \in Controller, WriteStep(a)
  PROVE  /\ pass[a].pc \in WritePC /\ UNCHANGED <<cache, late>>
         /\ \A b \in Actor \ {a} : pass'[b] = pass[b]
         /\ obj[Me(a)].fin
         /\ obj' = [obj EXCEPT ![Me(a)] = Applied(obj[Me(a)], InFlight(pass[a]))]
         /\ \/ pass'[a] = Idle
            \/ pass[a].pc = "commit" /\ pass'[a] = [pass[a] EXCEPT !.pc = "check_claims"]
            \/ /\ pass[a].pc = "terminal" /\ a = "claim"
               /\ pass'[a] = [pass[a] EXCEPT !.pc = "cancel"]
<1>0. pass \in [Actor -> PassType] /\ pass[a] \in PassType /\ a \in Actor
  BY Names DEF BaseInv, PassOK
<1>1. pass[a].pc \in WritePC
  BY DEF WriteStep, Checkpoint, Release, Refuse, KeepConflicting, Terminal, At, WritePC
<1>2. obj[Me(a)].fin
  BY <1>1, InFlightEffect DEF PinnedInv, Provisioning, Busy, WritePC
<1>3. obj[Me(a)].st # "absent"
  BY <1>1, <1>2, InFlightEffect DEF BaseInv, ObjOK, ObjectInv, NoObj
<1>4. PICK next : /\ Write(a, InFlight(pass[a]), next)
                  /\ \/ next = "idle" \/ (next = "check_claims" /\ pass[a].pc = "commit")
                     \/ next = "cancel" /\ pass[a].pc = "terminal" /\ a = "claim"
  BY DEF WriteStep, Checkpoint, Release, Refuse, KeepConflicting, Terminal, At
<1>5. /\ obj' = [obj EXCEPT ![Me(a)] = Applied(obj[Me(a)], InFlight(pass[a]))]
      /\ IF next = "idle" THEN End(a) ELSE Go(a, next)
      /\ UNCHANGED <<cache, late>>
  BY <1>3, <1>4 DEF Write
<1>6. CASE next = "idle"
  BY <1>0, <1>1, <1>2, <1>5, <1>6 DEF End
<1>7. CASE next # "idle"
  BY <1>0, <1>1, <1>2, <1>4, <1>5, <1>7 DEF Go
<1> QED
  BY <1>6, <1>7

\* A pass is over an object of its controller's kind, so no two are over one.
LEMMA Apart ==
  ASSUME BaseInv
  PROVE  /\ \A a \in Controller : Busy(a) => Me(a) \in Holder /\ (Me(a) \in Claim <=> a = "claim")
         /\ \A a, b \in Controller : Busy(a) /\ Busy(b) /\ a # b => Me(a) # Me(b)
         /\ \A a \in Controller : pass[a].goal # "drop" <=> pass[a].goal = "provision"
         /\ \A a \in Controller : pass[a].pc = "refuse" => Provisioning(a)
<1>1. \A a \in Controller : pass[a] \in PassType /\ Fits(a, pass[a]) /\ a \in {"claim", "shared"}
  BY Names DEF BaseInv, PassOK, ShapeInv
<1>2. \A a \in Controller : Busy(a) => Me(a) \in Holder /\ (Me(a) \in Claim <=> a = "claim")
  BY <1>1, Names DEF Busy, Me, Fits, ShapeOf, Idle
<1>3. \A a \in Controller : pass[a].goal # "drop" <=> pass[a].goal = "provision"
  BY <1>1 DEF PassType
<1>4. \A a \in Controller : pass[a].pc = "refuse" => Provisioning(a)
  BY <1>1, Names DEF Fits, ShapeOf, Idle, ClaimProvision, ClaimDrop, SharedDrop, Checking,
     Allocating, Provisioning, Busy
<1> QED
  BY <1>1, <1>2, <1>3, <1>4

\* A status write of a pass, field by field.
LEMMA WriteFields ==
  ASSUME BaseInv, PinnedInv, NEW a \in Controller, WriteStep(a)
  PROVE  /\ Provisioning(a) /\ Me(a) \in Holder /\ pass[a].pc \in WritePC /\ UNCHANGED <<cache, late>>
         /\ \A b \in Actor \ {a} : pass'[b] = pass[b]
         /\ \A g \in Holder \ {Me(a)} : obj'[g] = obj[g]
         /\ obj'[Me(a)].st = obj[Me(a)].st /\ obj'[Me(a)].fin /\ obj[Me(a)].fin
         /\ obj'[Me(a)].inst = obj[Me(a)].inst
         /\ obj'[Me(a)].key = IF pass[a].pc = "release" THEN NoKey ELSE pass[a].key
         /\ obj'[Me(a)].ready <=> pass[a].pc = "terminal"
         /\ a = "shared" => (obj'[Me(a)].unfin <=> pass[a].pc \in {"commit", "release"})
         /\ pass'[a].pc # "idle" =>
              /\ Me(a)' = Me(a) /\ pass'[a].goal = pass[a].goal /\ pass'[a].key = pass[a].key
              /\ \/ pass[a].pc = "commit" /\ pass'[a].pc = "check_claims"
                 \/ pass[a].pc = "terminal" /\ pass'[a].pc = "cancel"
<1>0. pass[a] \in PassType /\ obj \in [Holder -> ObjType]
  BY Names DEF BaseInv, PassOK, ObjOK
<1>1. /\ pass[a].pc \in WritePC /\ Me(a) \in Holder /\ InFlight(pass[a]) \in StatusType
      /\ pass[a].goal = "provision"
  BY WriteEffect, InFlightEffect
<1>2. Provisioning(a)
  BY <1>1 DEF Provisioning, Busy, WritePC
<1>a. obj' = [obj EXCEPT ![Me(a)] = Applied(obj[Me(a)], InFlight(pass[a]))] /\ obj[Me(a)].fin
      /\ UNCHANGED <<cache, late>> /\ \A b \in Actor \ {a} : pass'[b] = pass[b]
  BY WriteEffect
<1>3. obj[Me(a)] \in ObjType /\ obj'[Me(a)] = Applied(obj[Me(a)], InFlight(pass[a]))
      /\ \A g \in Holder \ {Me(a)} : obj'[g] = obj[g]
  BY <1>0, <1>1, <1>a
<1>4. /\ obj'[Me(a)].st = obj[Me(a)].st /\ obj'[Me(a)].fin = obj[Me(a)].fin
      /\ obj'[Me(a)].inst = obj[Me(a)].inst
      /\ obj'[Me(a)].key = InFlight(pass[a]).key /\ obj'[Me(a)].ready = InFlight(pass[a]).ready
      /\ obj'[Me(a)].unfin = InFlight(pass[a]).unfin
  BY <1>1, <1>3, AppliedEffect
<1>5. pass'[a].pc # "idle" =>
        /\ Me(a)' = Me(a) /\ pass'[a].goal = pass[a].goal /\ pass'[a].key = pass[a].key
        /\ \/ pass[a].pc = "commit" /\ pass'[a].pc = "check_claims"
           \/ pass[a].pc = "terminal" /\ pass'[a].pc = "cancel"
  <2>1. CASE pass'[a] = Idle
    BY <2>1 DEF Idle
  <2>2. CASE pass[a].pc = "commit" /\ pass'[a] = [pass[a] EXCEPT !.pc = "check_claims"]
    BY <1>0, <2>2 DEF PassType, Me
  <2>3. CASE pass[a].pc = "terminal" /\ pass'[a] = [pass[a] EXCEPT !.pc = "cancel"]
    BY <1>0, <2>3 DEF PassType, Me
  <2> QED
    BY <2>1, <2>2, <2>3, WriteEffect
<1>6. /\ InFlight(pass[a]).key = IF pass[a].pc = "release" THEN NoKey ELSE pass[a].key
      /\ InFlight(pass[a]).ready <=> pass[a].pc = "terminal"
      /\ a = "shared" => (InFlight(pass[a]).unfin <=> pass[a].pc \in {"commit", "release"})
  BY <1>1, InFlightEffect
<1> QED
  BY <1>1, <1>2, <1>3, <1>4, <1>5, <1>6, <1>a

\* The end of a drop: the object goes, or has nothing that goes.
LEMMA UnfinalizeEffect ==
  ASSUME BaseInv, PinnedInv, NEW a \in Controller, Unfinalize(a)
  PROVE  /\ Busy(a) /\ pass[a].goal = "drop" /\ Me(a) \in Holder /\ UNCHANGED <<cache, late>>
         /\ \A b \in Actor \ {a} : pass'[b] = pass[b]
         /\ pass'[a] = Idle
         /\ \A g \in Holder \ {Me(a)} : obj'[g] = obj[g]
         /\ obj'[Me(a)] = obj[Me(a)] \/ obj'[Me(a)] = NoObj
<1>0. /\ pass \in [Actor -> PassType] /\ pass[a] \in PassType /\ a \in Actor /\ Fits(a, pass[a])
      /\ obj \in [Holder -> ObjType] /\ a \in {"claim", "shared"}
  BY Names DEF BaseInv, PassOK, ObjOK, ShapeInv
<1>1. Busy(a) /\ pass[a].goal = "drop" /\ UNCHANGED <<cache, late>>
  BY <1>0, Names DEF Unfinalize, At, Busy, Fits, ShapeOf, Idle, ClaimProvision, SharedProvision,
     Allocating, Checking
<1>2. Me(a) \in Holder
  BY <1>1, Apart
<1>3. obj[Me(a)].st = "live" => [obj[Me(a)] EXCEPT !.fin = FALSE] = obj[Me(a)]
  <2> SUFFICES ASSUME obj[Me(a)].st = "live" PROVE [obj[Me(a)] EXCEPT !.fin = FALSE] = obj[Me(a)]
    OBVIOUS
  <2>1. obj[Me(a)].fin = FALSE
    BY <1>0, <1>1, <1>2 DEF PinnedInv, ObjType
  <2> QED
    BY <1>0, <1>2, <2>1 DEF ObjType
<1> DEFINE o == IF obj[Me(a)].st = "live" THEN [obj[Me(a)] EXCEPT !.fin = FALSE] ELSE NoObj
<1>4. obj' = [obj EXCEPT ![Me(a)] = o] /\ pass' = [pass EXCEPT ![a] = Idle]
  BY DEF Unfinalize, End
<1>5. o = obj[Me(a)] \/ o = NoObj
  BY <1>3
<1> HIDE DEF o
<1> QED
  BY <1>0, <1>1, <1>2, <1>4, <1>5

\* A dropped pass is over, and leaves at most the write it was in.
LEMMA DropEffect ==
  ASSUME BaseInv, NEW a \in Actor, DropPass(a)
  PROVE  /\ UNCHANGED <<obj, cache>> /\ pass'[a] = Idle
         /\ \A b \in Actor \ {a} : pass'[b] = pass[b]
         /\ \/ late' = late
            \/ /\ a \in Controller /\ pass[a].pc \in WritePC
               /\ late' = late \cup {[obj |-> Me(a), w |-> InFlight(pass[a])]}
<1>0. pass \in [Actor -> PassType] /\ Fits(a, pass[a])
  BY DEF BaseInv, PassOK, ShapeInv
<1>1. a \in Claim => pass[a].pc \notin WritePC
  BY <1>0, Names DEF Fits, ShapeOf, Idle, Collecting, Checking, WritePC
<1>2. a \in Controller \/ a \in Claim
  BY DEF Actor
<1> QED
  BY <1>0, <1>1, <1>2 DEF DropPass, End, Me

\* An abandoned write commits to an object that is there.
LEMMA LateEffect ==
  ASSUME BaseInv, LateInv, NEW w \in late, LateCommit(w)
  PROVE  /\ UNCHANGED <<cache, pass>> /\ late' = late \ {w} /\ w.obj \in Holder
         /\ \A g \in Holder \ {w.obj} : obj'[g] = obj[g]
         /\ obj'[w.obj].st = obj[w.obj].st /\ obj'[w.obj].fin /\ obj[w.obj].fin
         /\ obj'[w.obj].key = w.w.key /\ obj'[w.obj].ready = w.w.ready
         /\ obj'[w.obj].unfin = w.w.unfin /\ obj'[w.obj].inst = obj[w.obj].inst
<1>0. obj \in [Holder -> ObjType] /\ w.obj \in Holder /\ w.w \in StatusType
  BY DEF BaseInv, ObjOK, LateOK
<1>1. obj[w.obj].fin /\ obj[w.obj].st # "absent"
  BY <1>0 DEF LateInv, BaseInv, ObjOK, ObjectInv, NoObj
<1>2. obj' = [obj EXCEPT ![w.obj] = Applied(obj[w.obj], w.w)]
  BY <1>1 DEF LateCommit
<1>3. obj'[w.obj] = Applied(obj[w.obj], w.w) /\ \A g \in Holder \ {w.obj} : obj'[g] = obj[g]
  BY <1>0, <1>2
<1>4. obj[w.obj] \in ObjType
  BY <1>0
<1> QED
  BY <1>0, <1>1, <1>3, <1>4, AppliedEffect DEF LateCommit

\* A user's deletion leaves a finalized object's status, and a creation has none.
LEMMA UserEffect ==
  ASSUME BaseInv, NEW h \in Holder, Delete(h) \/ \E i \in Instance : Create(h, i)
  PROVE  /\ UNCHANGED <<cache, pass, late>>
         /\ \A g \in Holder \ {h} : obj'[g] = obj[g]
         /\ \/ /\ obj[h].fin /\ obj'[h].fin /\ obj[h].st = "live" /\ obj'[h].st = "deleting"
               /\ obj'[h].key = obj[h].key /\ obj'[h].inst = obj[h].inst
               /\ obj'[h].ready = obj[h].ready /\ obj'[h].unfin = obj[h].unfin
            \/ /\ ~obj[h].fin /\ ~obj'[h].fin /\ obj'[h].key = NoKey /\ ~obj'[h].ready
               /\ obj'[h].st \in {"absent", "live"}
<1>0. obj \in [Holder -> ObjType] /\ obj[h] \in ObjType
  BY DEF BaseInv, ObjOK
<1>1. CASE Delete(h) /\ obj[h].fin
  BY <1>0, <1>1 DEF Delete, ObjType
<1>2. CASE Delete(h) /\ ~obj[h].fin
  BY <1>0, <1>2 DEF Delete, NoObj
<1>3. CASE \E i \in Instance : Create(h, i)
  <2>1. PICK i \in Instance : Create(h, i)
    BY <1>3
  <2>2. obj[h] = NoObj
    BY <2>1 DEF Create, BaseInv, ObjOK, ObjectInv
  <2>3. obj'[h] = [NoObj EXCEPT !.st = "live", !.inst = i]
    BY <1>0, <2>1 DEF Create
  <2>4. ~obj'[h].fin /\ obj'[h].key = NoKey /\ ~obj'[h].ready /\ obj'[h].st = "live"
    BY <2>3 DEF NoObj
  <2>5. ~obj[h].fin
    BY <2>2 DEF NoObj
  <2> QED
    BY <1>0, <2>1, <2>4, <2>5 DEF Create
<1> QED
  BY <1>1, <1>2, <1>3

-----------------------------------------------------------------------------
(* A number is in the use of one holder. *)

\* The finalizer of an object is taken away by the end of its own drop only.
LEMMA PinnedStep ==
  ASSUME SettledWrites, FreshCache \/ Shared = {}, BaseInv, PinnedInv, LateInv, Next
  PROVE  PinnedInv'
<1> USE DEF Provisioning, Busy, Me
<1>0. /\ \A h \in Holder : Seen(h) = IF FreshCache THEN obj[h] ELSE cache[h]
      /\ \A h \in Holder : Seen(h)' = IF FreshCache THEN obj'[h] ELSE cache'[h]
      /\ \A a \in Controller : a \in Actor
  BY Names DEF Seen
<1>a. /\ \A a \in Controller : Busy(a) => Me(a) \in Holder
      /\ \A a, b \in Controller : Busy(a) /\ Busy(b) /\ a # b => Me(a) # Me(b)
  BY Apart
<1>1. ASSUME NEW a \in Actor, InnerStep(a) PROVE PinnedInv'
  <2>1. UNCHANGED <<obj, cache>> /\ \A h \in Holder : Seen(h)' = Seen(h)
    BY <1>0, <1>1, InnerEffect
  <2>2. \A b \in Controller : pass'[b].pc # "idle" =>
          pass[b].pc # "idle" /\ pass'[b].obj = pass[b].obj /\ pass'[b].goal = pass[b].goal
    BY <1>0, <1>1, InnerEffect
  <2> QED
    BY <1>a, <2>1, <2>2 DEF PinnedInv
<1>2. ASSUME NEW a \in Controller, NEW h \in Holder, Begin(a, h) PROVE PinnedInv'
  <2> DEFINE e == /\ pass[a].pc = "idle"
                  /\ \A b \in Actor \ {a} : pass'[b] = pass[b]
                  /\ pass'[a].obj = h
                  /\ cache' = cache
                  /\ \A g \in Holder \ {h} : obj'[g] = obj[g]
                  /\ obj'[h].st = obj[h].st /\ obj'[h].key = obj[h].key
                  /\ pass'[a].goal = "drop" => obj' = obj /\ Seen(h).st = "deleting"
                  /\ pass'[a].goal # "drop" => obj'[h].fin /\ (obj[h].fin \/ Seen(h).st = "live")
  <2>1. e
    BY <1>2, BeginEffect
  <2>2. \A b \in Controller \ {a} : Busy(b) => Me(b) # h
    BY <1>2, BeginEffect, Apart, Names
  <2>3. CASE pass'[a].goal = "drop"
    <3>1. UNCHANGED <<obj, cache>> /\ \A g \in Holder : Seen(g)' = Seen(g)
      BY <1>0, <2>1, <2>3
    <3>2. ~(obj[h].st = "live" /\ obj[h].fin) /\ Seen(h).st = "deleting"
      BY <2>1, <2>3 DEF PinnedInv
    <3> QED
      BY <1>0, <1>a, <2>1, <2>3, <3>1, <3>2 DEF PinnedInv
  <2>4. CASE pass'[a].goal # "drop"
    <3>1. \A g \in Holder \ {h} : Seen(g)' = Seen(g) /\ obj'[g] = obj[g]
      BY <1>0, <2>1
    <3>2. obj'[h].fin /\ (Seen(h)'.st = "deleting" => obj'[h].st # "live")
      BY <1>0, <2>1, <2>4 DEF PinnedInv
    <3>3. \A g \in Holder :
            /\ Seen(g)'.st = "live" /\ Seen(g)'.fin => obj'[g].fin
            /\ Seen(g)'.st = "deleting" => ~(obj'[g].st = "live" /\ obj'[g].fin)
            /\ obj'[g].st # "absent" /\ ~obj'[g].fin => obj'[g].st = "live" /\ obj'[g].key = NoKey
      BY <3>1, <3>2 DEF PinnedInv
    <3>4. ASSUME NEW b \in Controller
          PROVE  /\ Provisioning(b)' => obj'[Me(b)'].fin
                 /\ Busy(b)' /\ pass'[b].goal = "drop" =>
                      /\ ~(obj'[Me(b)'].st = "live" /\ obj'[Me(b)'].fin)
                      /\ ~(Seen(Me(b))'.st = "live" /\ Seen(Me(b))'.fin)
      <4>1. CASE b = a
        BY <2>1, <2>4, <3>2, <4>1
      <4>2. CASE b # a
        <5>1. pass'[b] = pass[b] /\ (Busy(b) => Me(b) \in Holder \ {h})
          BY <1>0, <1>a, <2>1, <2>2, <4>2
        <5>2. Busy(b) => Seen(Me(b))' = Seen(Me(b)) /\ obj'[Me(b)] = obj[Me(b)]
          BY <3>1, <5>1
        <5> QED
          BY <5>1, <5>2 DEF PinnedInv
      <4> QED
        BY <4>1, <4>2
    <3> QED
      BY <3>3, <3>4 DEF PinnedInv
  <2> QED
    BY <2>3, <2>4
<1>3. ASSUME NEW a \in Controller, WriteStep(a) PROVE PinnedInv'
  <2>1. /\ Provisioning(a) /\ Me(a) \in Holder /\ UNCHANGED <<cache, late>>
        /\ \A b \in Actor \ {a} : pass'[b] = pass[b]
        /\ \A g \in Holder \ {Me(a)} : obj'[g] = obj[g]
        /\ obj'[Me(a)].st = obj[Me(a)].st /\ obj'[Me(a)].fin /\ obj[Me(a)].fin
        /\ pass'[a].pc # "idle" => Me(a)' = Me(a) /\ pass'[a].goal = pass[a].goal
    BY <1>3, WriteFields
  <2> QED
    BY <1>0, <1>a, <2>1 DEF PinnedInv
<1>4. ASSUME NEW a \in Controller, Unfinalize(a) PROVE PinnedInv'
  <2>1. NoObj.st = "absent" /\ ~NoObj.fin
    BY DEF NoObj
  <2>2. /\ Busy(a) /\ pass[a].goal = "drop" /\ Me(a) \in Holder /\ UNCHANGED <<cache, late>>
        /\ \A b \in Actor \ {a} : pass'[b] = pass[b]
        /\ pass'[a].pc = "idle"
        /\ \A g \in Holder \ {Me(a)} : obj'[g] = obj[g]
        /\ obj'[Me(a)] = obj[Me(a)] \/ obj'[Me(a)] = NoObj
    BY <1>4, UnfinalizeEffect DEF Idle
  <2> QED
    BY <1>0, <1>a, <2>1, <2>2 DEF PinnedInv
<1>5. ASSUME NEW a \in Actor, DropPass(a) PROVE PinnedInv'
  <2>1. /\ UNCHANGED <<obj, cache>> /\ pass'[a].pc = "idle"
        /\ \A b \in Actor \ {a} : pass'[b] = pass[b]
    BY <1>5, DropEffect DEF Idle
  <2> QED
    BY <1>0, <1>a, <2>1 DEF PinnedInv
<1>6. ASSUME NEW w \in late, LateCommit(w) PROVE PinnedInv'
  BY <1>0, <1>6, <1>a, LateEffect DEF PinnedInv
<1>7. ASSUME NEW h \in Holder, WatchDelivers(h) PROVE PinnedInv'
  <2>1. UNCHANGED <<obj, pass>> /\ ~FreshCache /\ cache'[h] = obj[h]
        /\ \A g \in Holder \ {h} : cache'[g] = cache[g]
    BY <1>7 DEF WatchDelivers, BaseInv, ObjOK
  <2> QED
    BY <1>0, <1>a, <2>1 DEF PinnedInv
<1>8. ASSUME NEW h \in Holder, Delete(h) \/ \E i \in Instance : Create(h, i) PROVE PinnedInv'
  BY <1>0, <1>8, <1>a, UserEffect DEF PinnedInv
<1>9. CASE UNCHANGED <<obj, cache, pass, late>>
  BY <1>0, <1>9, <1>a DEF PinnedInv
<1> QED
  BY <1>1, <1>2, <1>3, <1>4, <1>5, <1>6, <1>7, <1>8, <1>9, Steps

\* An abandoned write is left by the only pass over its object, and is settled
\* when the next one begins.
LEMMA LateStep ==
  ASSUME SettledWrites, FreshCache \/ Shared = {}, BaseInv, PinnedInv, LateInv, Next
  PROVE  LateInv'
<1> USE DEF Busy, Me
<1>0. /\ \A a \in Controller : a \in Actor
      /\ \A w \in late : w.obj \in Holder
  BY Names DEF BaseInv, LateOK
<1>a. /\ \A a \in Controller : Busy(a) => Me(a) \in Holder
      /\ \A a, b \in Controller : Busy(a) /\ Busy(b) /\ a # b => Me(a) # Me(b)
  BY Apart
<1>1. ASSUME NEW a \in Actor, InnerStep(a) PROVE LateInv'
  <2>1. UNCHANGED <<obj, late>>
    BY <1>1, InnerEffect
  <2>2. \A b \in Controller : pass'[b].pc # "idle" => pass[b].pc # "idle" /\ pass'[b].obj = pass[b].obj
    BY <1>0, <1>1, InnerEffect
  <2> QED
    BY <2>1, <2>2 DEF LateInv
<1>2. ASSUME NEW a \in Controller, NEW h \in Holder, Begin(a, h) PROVE LateInv'
  <2>1. /\ \A b \in Actor \ {a} : pass'[b] = pass[b]
        /\ pass'[a].obj = h /\ late' = {w \in late : w.obj # h}
        /\ \A g \in Holder \ {h} : obj'[g] = obj[g]
    BY <1>2, BeginEffect
  <2> QED
    BY <1>0, <2>1 DEF LateInv
<1>3. ASSUME NEW a \in Controller, WriteStep(a) PROVE LateInv'
  <2>1. /\ Busy(a) /\ late' = late
        /\ \A b \in Actor \ {a} : pass'[b] = pass[b]
        /\ \A g \in Holder \ {Me(a)} : obj'[g] = obj[g]
        /\ pass'[a].pc # "idle" => Me(a)' = Me(a)
    BY <1>3, WriteFields DEF Provisioning
  <2> QED
    BY <1>0, <2>1 DEF LateInv
<1>4. ASSUME NEW a \in Controller, Unfinalize(a) PROVE LateInv'
  <2>1. /\ Busy(a) /\ late' = late
        /\ \A b \in Actor \ {a} : pass'[b] = pass[b]
        /\ \A g \in Holder \ {Me(a)} : obj'[g] = obj[g]
        /\ pass'[a].pc = "idle"
    BY <1>4, UnfinalizeEffect DEF Idle
  <2> QED
    BY <1>0, <2>1 DEF LateInv
<1>5. ASSUME NEW a \in Actor, DropPass(a) PROVE LateInv'
  <2>1. /\ UNCHANGED obj /\ pass'[a].pc = "idle"
        /\ \A b \in Actor \ {a} : pass'[b] = pass[b]
    BY <1>5, DropEffect DEF Idle
  <2>2. CASE late' = late
    BY <1>0, <2>1, <2>2 DEF LateInv
  <2>3. CASE late' # late
    <3> DEFINE w == [obj |-> Me(a), w |-> InFlight(pass[a])]
    <3>1. late' = late \cup {w} /\ a \in Controller /\ pass[a].pc \in WritePC /\ w.obj = Me(a)
      BY <1>5, <2>3, DropEffect
    <3>2. Busy(a) /\ Provisioning(a)
      BY <3>1, InFlightEffect DEF Provisioning, WritePC
    <3> HIDE DEF w
    <3>3. obj[w.obj].fin
      BY <3>1, <3>2 DEF PinnedInv
    <3>4. \A b \in Controller : Busy(b)' => Busy(b) /\ Me(b)' = Me(b) /\ Me(b) # w.obj
      BY <1>0, <1>a, <2>1, <3>1, <3>2
    <3>5. \A v \in late : v.obj # w.obj
      BY <3>1, <3>2 DEF LateInv
    <3> QED
      BY <2>1, <3>1, <3>3, <3>4, <3>5 DEF LateInv
  <2> QED
    BY <2>2, <2>3
<1>6. ASSUME NEW w \in late, LateCommit(w) PROVE LateInv'
  BY <1>0, <1>6, LateEffect DEF LateInv
<1>7. ASSUME NEW h \in Holder, WatchDelivers(h) PROVE LateInv'
  BY <1>7 DEF WatchDelivers, LateInv
<1>8. ASSUME NEW h \in Holder, Delete(h) \/ \E i \in Instance : Create(h, i) PROVE LateInv'
  BY <1>0, <1>8, UserEffect DEF LateInv
<1>9. CASE UNCHANGED <<obj, cache, pass, late>>
  BY <1>9 DEF LateInv
<1> QED
  BY <1>1, <1>2, <1>3, <1>4, <1>5, <1>6, <1>7, <1>8, <1>9, Steps

\* A pass is on the number its object names until the object is its own no more.
LEMMA HeldStep ==
  ASSUME SettledWrites, FreshCache \/ Shared = {}, BaseInv, PinnedInv, LateInv, HeldInv, Next
  PROVE  HeldInv'
<1> USE DEF Provisioning, Busy, Me
<1>0. /\ \A a \in Controller : a \in Actor
      /\ \A w \in late : w.obj \in Holder
      /\ Claim \subseteq Holder
  BY Names DEF BaseInv, LateOK
<1>a. /\ \A a \in Controller : Busy(a) => Me(a) \in Holder
      /\ \A a, b \in Controller : Busy(a) /\ Busy(b) /\ a # b => Me(a) # Me(b)
      /\ \A a \in Controller : pass[a].goal # "drop" <=> pass[a].goal = "provision"
      /\ \A a \in Controller : pass[a].pc = "refuse" => Provisioning(a)
  BY Apart
<1>b. "idle" \notin Committed /\ "refuse" \notin Committed /\ "lock" \notin Committed
      /\ "cancel" \notin Committed
  BY DEF Committed, Checking
<1>1. ASSUME NEW a \in Actor, InnerStep(a) PROVE HeldInv'
  <2>1. UNCHANGED <<obj, late>>
    BY <1>1, InnerEffect
  <2>2. \A b \in Actor \ {a} : pass'[b] = pass[b]
    BY <1>1, InnerEffect
  <2>3. a \in Controller /\ pass'[a].pc # "idle" =>
          /\ pass[a].pc # "idle" /\ pass'[a].obj = pass[a].obj /\ pass'[a].goal = pass[a].goal
          /\ pass'[a].pc = "refuse" => pass'[a].key = NoKey
          /\ pass[a].goal = "provision" /\ pass'[a].pc \in Committed =>
               pass[a].pc \in Committed /\ pass'[a].key = pass[a].key
    BY <1>1, InnerEffect
  <2> QED
    BY <1>0, <2>1, <2>2, <2>3 DEF HeldInv, Provisions
<1>2. ASSUME NEW a \in Controller, NEW h \in Holder, Begin(a, h) PROVE HeldInv'
  <2>1. /\ \A b \in Actor \ {a} : pass'[b] = pass[b]
        /\ pass'[a].obj = h /\ late' = {w \in late : w.obj # h}
        /\ \A g \in Holder \ {h} : obj'[g] = obj[g]
        /\ obj'[h].st = obj[h].st /\ obj'[h].key = obj[h].key /\ obj'[h].ready = obj[h].ready
        /\ obj'[h].unfin = obj[h].unfin
    BY <1>2, BeginEffect
  <2>2. \A g \in Holder : /\ obj'[g].key = obj[g].key /\ obj'[g].ready = obj[g].ready
                          /\ obj'[g].unfin = obj[g].unfin
    BY <2>1
  <2>3. pass'[a].goal = "provision" =>
              \/ pass'[a].pc = "lock"
              \/ /\ pass'[a].pc = "refuse"
                 /\ pass'[a].key = NoKey \/ (pass'[a].key = obj[h].key /\ ~obj[h].unfin)
              \/ pass'[a].pc \in {"check_claims", "terminal"} /\ pass'[a].key = obj[h].key
    BY <1>2, BeginEffect
  <2>4. pass'[a].pc = "refuse" => pass'[a].goal = "provision"
    <3>1. BaseInv'
      BY BaseStep
    <3>2. Fits(a, pass'[a])
      BY <1>0, <3>1 DEF BaseInv, PassOK, ShapeInv, Fits, ShapeOf
    <3> QED
      BY <3>2, Names DEF Fits, ShapeOf, Idle, ClaimProvision, ClaimDrop, SharedDrop, Checking,
         Allocating
  <2> QED
    BY <1>0, <1>a, <1>b, <2>1, <2>2, <2>3, <2>4 DEF HeldInv, Provisions
<1>3. ASSUME NEW a \in Controller, WriteStep(a) PROVE HeldInv'
  <2>1. /\ Provisioning(a) /\ Me(a) \in Holder /\ late' = late
        /\ \A b \in Actor \ {a} : pass'[b] = pass[b]
        /\ \A g \in Holder \ {Me(a)} : obj'[g] = obj[g]
        /\ obj'[Me(a)].key = IF pass[a].pc = "release" THEN NoKey ELSE pass[a].key
        /\ obj'[Me(a)].ready <=> pass[a].pc = "terminal"
        /\ pass'[a].pc # "idle" =>
             /\ Me(a)' = Me(a) /\ pass'[a].key = pass[a].key
             /\ \/ pass[a].pc = "commit" /\ pass'[a].pc = "check_claims"
                \/ pass[a].pc = "terminal" /\ pass'[a].pc = "cancel"
    BY <1>3, WriteFields
  <2>2. pass[a].pc = "terminal" => pass[a].key # NoKey
    BY <1>0, <2>1, Names DEF BaseInv, PassOK, ShapeInv, Fits, Committed
  <2>3. \A b \in Controller \ {a} : Busy(b) => Me(b) \in Holder \ {Me(a)}
    BY <1>a, <2>1
  <2>4. \A w \in late : w.obj \in Holder \ {Me(a)}
    BY <1>0, <2>1 DEF LateInv
  <2>5. \A h \in Claim : obj'[h].ready => obj'[h].key # NoKey
    BY <1>0, <2>1, <2>2 DEF HeldInv
  <2>6. \A w \in late' : Provisions(w)' => w.w.key # NoKey /\ obj'[w.obj].key = w.w.key
    BY <2>1, <2>4 DEF HeldInv, Provisions
  <2>7. \A b \in Controller \ {a} :
          /\ Provisioning(b)' /\ pass'[b].pc \in Committed => obj'[Me(b)'].key = pass'[b].key
          /\ pass'[b].pc = "refuse" /\ pass'[b].key # NoKey =>
               obj'[Me(b)'].key = pass'[b].key /\ ~obj'[Me(b)'].unfin
    BY <1>0, <2>1, <2>3 DEF HeldInv
  <2> QED
    BY <1>b, <2>1, <2>5, <2>6, <2>7 DEF HeldInv
<1>4. ASSUME NEW a \in Controller, Unfinalize(a) PROVE HeldInv'
  <2>1. ~NoObj.ready
    BY DEF NoObj
  <2>2. /\ Busy(a) /\ late' = late
        /\ \A b \in Actor \ {a} : pass'[b] = pass[b]
        /\ pass'[a].pc = "idle"
        /\ \A g \in Holder \ {Me(a)} : obj'[g] = obj[g]
        /\ obj'[Me(a)] = obj[Me(a)] \/ obj'[Me(a)] = NoObj
    BY <1>4, UnfinalizeEffect DEF Idle
  <2>3. \A b \in Controller \ {a} : Busy(b) => Me(b) \in Holder \ {Me(a)}
    BY <1>a, <2>2
  <2>4. \A w \in late : w.obj \in Holder \ {Me(a)}
    BY <1>0, <2>2 DEF LateInv
  <2> QED
    BY <1>0, <1>b, <2>1, <2>2, <2>3, <2>4 DEF HeldInv, Provisions
<1>5. ASSUME NEW a \in Actor, DropPass(a) PROVE HeldInv'
  <2>1. /\ UNCHANGED obj /\ pass'[a].pc = "idle"
        /\ \A b \in Actor \ {a} : pass'[b] = pass[b]
    BY <1>5, DropEffect DEF Idle
  <2>2. \A w \in late' : w \in late \/ (/\ w = [obj |-> Me(a), w |-> InFlight(pass[a])]
                                        /\ a \in Controller /\ pass[a].pc \in WritePC)
    BY <1>5, DropEffect
  <2>3. ASSUME a \in Controller, pass[a].pc \in WritePC,
               Provisions([obj |-> Me(a), w |-> InFlight(pass[a])])
        PROVE  InFlight(pass[a]).key # NoKey /\ obj[Me(a)].key = InFlight(pass[a]).key
    <3>1. /\ Me(a) \in Claim <=> a = "claim"
          /\ a \in {"claim", "shared"} /\ Provisioning(a)
          /\ InFlight(pass[a]).key = IF pass[a].pc = "release" THEN NoKey ELSE pass[a].key
          /\ InFlight(pass[a]).ready <=> pass[a].pc = "terminal"
          /\ a = "shared" => (InFlight(pass[a]).unfin <=> pass[a].pc \in {"commit", "release"})
          /\ a = "shared" => pass[a].pc # "keep"
      BY <2>3, InFlightEffect, Names DEF WritePC
    <3>2. \/ pass[a].pc = "terminal"
          \/ pass[a].pc = "refuse" /\ InFlight(pass[a]).key # NoKey
      BY <2>3, <3>1 DEF Provisions, WritePC
    <3>3. pass[a].pc = "terminal" => pass[a].key # NoKey /\ obj[Me(a)].key = pass[a].key
      BY <1>0, <3>1, Names DEF BaseInv, PassOK, ShapeInv, Fits, Committed, HeldInv
    <3> QED
      BY <2>3, <3>1, <3>2, <3>3 DEF HeldInv
  <2>4. \A w \in late' : Provisions(w)' => w.w.key # NoKey /\ obj[w.obj].key = w.w.key
    BY <2>2, <2>3 DEF HeldInv, Provisions
  <2> QED
    BY <1>0, <1>b, <2>1, <2>4 DEF HeldInv
<1>6. ASSUME NEW w \in late, LateCommit(w) PROVE HeldInv'
  <2>1. /\ pass' = pass /\ late' = late \ {w} /\ w.obj \in Holder
        /\ \A g \in Holder \ {w.obj} : obj'[g] = obj[g]
        /\ obj'[w.obj].key = w.w.key /\ obj'[w.obj].ready = w.w.ready
    BY <1>6, LateEffect
  <2>2. \A v \in late' : v \in late /\ v.obj \in Holder \ {w.obj}
    BY <1>0, <2>1 DEF LateInv
  <2>3. \A b \in Controller : Busy(b) => Me(b) \in Holder \ {w.obj}
    BY <1>a DEF LateInv
  <2>4. w.obj \in Claim /\ w.w.ready => w.w.key # NoKey
    BY DEF HeldInv, Provisions
  <2> QED
    BY <1>0, <1>b, <2>1, <2>2, <2>3, <2>4 DEF HeldInv, Provisions
<1>7. ASSUME NEW h \in Holder, WatchDelivers(h) PROVE HeldInv'
  BY <1>7 DEF WatchDelivers, HeldInv, Provisions
<1>8. ASSUME NEW h \in Holder, Delete(h) \/ \E i \in Instance : Create(h, i) PROVE HeldInv'
  <2>1. /\ UNCHANGED <<pass, late>>
        /\ \A g \in Holder \ {h} : obj'[g] = obj[g]
        /\ \/ /\ obj'[h].key = obj[h].key /\ obj'[h].ready = obj[h].ready
              /\ obj'[h].unfin = obj[h].unfin
           \/ ~obj[h].fin /\ ~obj'[h].ready
    BY <1>8, UserEffect
  <2>2. \A b \in Controller : Provisioning(b) => obj[Me(b)].fin
    BY DEF PinnedInv
  <2>3. \A w \in late : obj[w.obj].fin
    BY DEF LateInv
  <2>4. CASE /\ obj'[h].key = obj[h].key /\ obj'[h].ready = obj[h].ready
             /\ obj'[h].unfin = obj[h].unfin
    BY <1>0, <1>a, <2>1, <2>4 DEF HeldInv, Provisions
  <2>5. CASE ~obj[h].fin /\ ~obj'[h].ready
    BY <1>0, <1>a, <2>1, <2>2, <2>3, <2>5 DEF HeldInv, Provisions
  <2> QED
    BY <2>1, <2>4, <2>5
<1>9. CASE UNCHANGED <<obj, cache, pass, late>>
  BY <1>9 DEF HeldInv, Provisions
<1> QED
  BY <1>1, <1>2, <1>3, <1>4, <1>5, <1>6, <1>7, <1>8, <1>9, Steps

\* The last read of a re-read that has found nobody.
Wins(a) ==
  /\ a \in Controller /\ Provisioning(a) /\ UNCHANGED obj
  /\ pass[a].pc = "check_shared" /\ pass[a].acc = {} /\ SharedHolders(pass[a].key, Me(a)) = {}
  /\ pass'[a].pc \in Cleared

\* Nothing but a re-read that has found nobody wins a number.
LEMMA WonBefore ==
  ASSUME SettledWrites, FreshCache \/ Shared = {}, BaseInv, PinnedInv, LateInv, HeldInv, Next,
         NEW h \in Holder, Won(h)'
  PROVE  \/ Won(h) /\ obj'[h].key = obj[h].key
         \/ \E a \in Controller : Wins(a) /\ Me(a) = h /\ \A b \in Controller \ {a} : pass'[b] = pass[b]
<1> USE DEF Provisioning, Busy, Me
<1>0. /\ \A a \in Controller : a \in Actor
      /\ \A w \in late : w.obj \in Holder
      /\ h \in Claim \/ h \in Shared
  BY Names DEF BaseInv, LateOK, Holder
<1>a. /\ \A a \in Controller : Busy(a) => Me(a) \in Holder
      /\ \A a, b \in Controller : Busy(a) /\ Busy(b) /\ a # b => Me(a) # Me(b)
  BY Apart
<1>b. /\ {"idle", "lock", "refuse", "check_claims", "cancel"} \cap Cleared = {}
      /\ "terminal" \in Cleared /\ Cleared \subseteq Committed
  BY DEF Cleared, Committed
<1>c. ASSUME obj'[h].key = obj[h].key, obj'[h].ready = obj[h].ready, obj'[h].unfin = obj[h].unfin
      PROVE  Provisioned(h)' => Provisioned(h)
  BY <1>c DEF Provisioned
<1>1. ASSUME NEW a \in Actor, InnerStep(a)
      PROVE  \/ Won(h) /\ obj'[h].key = obj[h].key
             \/ \E b \in Controller : Wins(b) /\ Me(b) = h /\ \A c \in Controller \ {b} : pass'[c] = pass[c]
  <2>1. UNCHANGED <<obj, late>> /\ \A b \in Actor \ {a} : pass'[b] = pass[b]
    BY <1>1, InnerEffect
  <2>2. a \in Controller /\ pass'[a].pc # "idle" =>
              /\ pass[a].pc # "idle" /\ pass'[a].obj = pass[a].obj /\ pass'[a].goal = pass[a].goal
              /\ pass[a].goal = "provision" /\ pass'[a].pc \in Cleared =>
                   \/ pass[a].pc \in Cleared
                   \/ /\ pass[a].pc = "check_shared" /\ pass[a].acc = {}
                      /\ SharedHolders(pass[a].key, Me(a)) = {}
    BY <1>1, InnerEffect
  <2>3. CASE Provisioned(h)' \/ \E w \in late' : w.obj = h /\ Provisions(w)'
    BY <2>1, <2>3 DEF Won, Provisioned, Provisions
  <2>4. ASSUME NEW b \in Controller, Provisioning(b)', Me(b)' = h, pass'[b].pc \in Cleared
        PROVE  \/ Won(h) /\ obj'[h].key = obj[h].key
               \/ Wins(b) /\ Me(b) = h /\ \A c \in Controller \ {b} : pass'[c] = pass[c]
    <3>1. CASE b # a
      BY <1>0, <2>1, <2>4, <3>1 DEF Won
    <3>2. CASE b = a /\ pass[b].pc \in Cleared
      BY <2>1, <2>2, <2>4, <3>2 DEF Won
    <3>3. CASE b = a /\ pass[b].pc \notin Cleared
      BY <1>0, <2>1, <2>2, <2>4, <3>3 DEF Wins
    <3> QED
      BY <3>1, <3>2, <3>3
  <2> QED
    BY <2>3, <2>4 DEF Won
<1>2. ASSUME NEW a \in Controller, NEW g \in Holder, Begin(a, g)
      PROVE  Won(h) /\ obj'[h].key = obj[h].key
  <2>1. /\ \A b \in Actor \ {a} : pass'[b] = pass[b]
        /\ pass'[a].obj = g /\ late' = {w \in late : w.obj # g}
        /\ \A f \in Holder \ {g} : obj'[f] = obj[f]
        /\ obj'[g].key = obj[g].key /\ obj'[g].ready = obj[g].ready
        /\ obj'[g].unfin = obj[g].unfin
    BY <1>2, BeginEffect
  <2>2. obj'[h].key = obj[h].key /\ obj'[h].ready = obj[h].ready /\ obj'[h].unfin = obj[h].unfin
    BY <2>1
  <2>3. pass'[a].goal = "provision" /\ pass'[a].pc \in Cleared => Provisioned(g)
    BY <1>2, <1>b, BeginEffect
  <2>4. CASE Provisioned(h)' \/ \E w \in late' : w.obj = h /\ Provisions(w)'
    BY <1>c, <2>1, <2>2, <2>4 DEF Won, Provisions
  <2>5. CASE \E b \in Controller : Provisioning(b)' /\ Me(b)' = h /\ pass'[b].pc \in Cleared
    BY <1>0, <2>1, <2>2, <2>3, <2>5 DEF Won
  <2> QED
    BY <2>4, <2>5 DEF Won
<1>3. ASSUME NEW a \in Controller, WriteStep(a)
      PROVE  Won(h) /\ obj'[h].key = obj[h].key
  <2>1. /\ Provisioning(a) /\ Me(a) \in Holder /\ late' = late /\ pass[a].pc \in WritePC
        /\ \A b \in Actor \ {a} : pass'[b] = pass[b]
        /\ \A g \in Holder \ {Me(a)} : obj'[g] = obj[g]
        /\ obj'[Me(a)].key = IF pass[a].pc = "release" THEN NoKey ELSE pass[a].key
        /\ obj'[Me(a)].ready <=> pass[a].pc = "terminal"
        /\ a = "shared" => (obj'[Me(a)].unfin <=> pass[a].pc \in {"commit", "release"})
        /\ pass'[a].pc \in {"idle", "check_claims", "cancel"}
    BY <1>3, WriteFields
  <2>2. ASSUME h = Me(a), Provisioned(h)' PROVE Won(h) /\ obj'[h].key = obj[h].key
    <3>1. /\ Me(a) \in Claim <=> a = "claim"
          /\ a \in {"claim", "shared"} /\ (a = "shared" => pass[a].pc # "keep")
      BY <2>1, InFlightEffect, Names
    <3>2. CASE pass[a].pc = "terminal"
      BY <1>b, <2>1, <2>2, <3>2 DEF Won, HeldInv
    <3>3. CASE pass[a].pc # "terminal"
      <4>1. a = "shared" /\ pass[a].pc = "refuse" /\ pass[a].key # NoKey /\ h \notin Claim
        BY <2>1, <2>2, <3>1, <3>3 DEF Provisioned, WritePC
      <4>2. obj[h].key = pass[a].key /\ ~obj[h].unfin
        BY <2>2, <4>1 DEF HeldInv
      <4> QED
        BY <2>1, <2>2, <4>1, <4>2 DEF Won, Provisioned
    <3> QED
      BY <3>2, <3>3
  <2>3. \A w \in late : w.obj # Me(a)
    BY <2>1 DEF LateInv
  <2>4. \A b \in Controller \ {a} : Busy(b) => Me(b) # Me(a)
    BY <1>a, <2>1
  <2>5. CASE h = Me(a)
    <3>1. Provisioned(h)'
      BY <1>0, <1>b, <2>1, <2>3, <2>4, <2>5 DEF Won
    <3> QED
      BY <2>2, <2>5, <3>1
  <2>6. CASE h # Me(a)
    BY <1>0, <1>b, <2>1, <2>6 DEF Won, Provisioned, Provisions
  <2> QED
    BY <2>5, <2>6
<1>4. ASSUME NEW a \in Controller, Unfinalize(a)
      PROVE  Won(h) /\ obj'[h].key = obj[h].key
  <2>1. ~NoObj.ready /\ NoObj.key = NoKey
    BY DEF NoObj
  <2>2. /\ Busy(a) /\ late' = late
        /\ \A b \in Actor \ {a} : pass'[b] = pass[b]
        /\ pass'[a].pc = "idle"
        /\ \A g \in Holder \ {Me(a)} : obj'[g] = obj[g]
        /\ obj'[Me(a)] = obj[Me(a)] \/ obj'[Me(a)] = NoObj
    BY <1>4, UnfinalizeEffect DEF Idle
  <2>3. CASE obj'[h] = NoObj /\ h = Me(a)
    <3>1. ~Provisioned(h)'
      BY <2>1, <2>3 DEF Provisioned
    <3>2. \A w \in late' : w.obj # h
      BY <2>2, <2>3 DEF LateInv
    <3>3. \A b \in Controller : Busy(b)' => Me(b)' # h
      BY <1>0, <1>a, <2>2, <2>3
    <3> QED
      BY <3>1, <3>2, <3>3 DEF Won
  <2>4. CASE obj'[h] = obj[h]
    BY <1>0, <2>2, <2>4 DEF Won, Provisioned, Provisions
  <2> QED
    BY <2>2, <2>3, <2>4
<1>5. ASSUME NEW a \in Actor, DropPass(a)
      PROVE  Won(h) /\ obj'[h].key = obj[h].key
  <2>1. /\ UNCHANGED obj /\ pass'[a].pc = "idle"
        /\ \A b \in Actor \ {a} : pass'[b] = pass[b]
    BY <1>5, DropEffect DEF Idle
  <2>2. \A w \in late' : w \in late \/ (/\ w = [obj |-> Me(a), w |-> InFlight(pass[a])]
                                        /\ a \in Controller /\ pass[a].pc \in WritePC)
    BY <1>5, DropEffect
  <2>3. ASSUME a \in Controller, pass[a].pc \in WritePC, h = Me(a),
               Provisions([obj |-> Me(a), w |-> InFlight(pass[a])])
        PROVE  Won(h)
    <3>1. /\ Me(a) \in Claim <=> a = "claim"
          /\ a \in {"claim", "shared"} /\ Provisioning(a)
          /\ InFlight(pass[a]).key = IF pass[a].pc = "release" THEN NoKey ELSE pass[a].key
          /\ InFlight(pass[a]).ready <=> pass[a].pc = "terminal"
          /\ a = "shared" => (InFlight(pass[a]).unfin <=> pass[a].pc \in {"commit", "release"})
          /\ a = "shared" => pass[a].pc # "keep"
          /\ a = "claim" => pass[a].pc # "refuse"
      BY <2>3, InFlightEffect, Names DEF WritePC
    <3>2. \/ pass[a].pc = "terminal"
          \/ pass[a].pc = "refuse" /\ pass[a].key # NoKey /\ h \notin Claim
      BY <2>3, <3>1 DEF Provisions, WritePC
    <3>3. pass[a].pc = "refuse" /\ pass[a].key # NoKey => obj[h].key = pass[a].key /\ ~obj[h].unfin
      BY <2>3 DEF HeldInv
    <3> QED
      BY <1>b, <2>3, <3>1, <3>2, <3>3 DEF Won, Provisioned
  <2>4. CASE \E w \in late' : w.obj = h /\ Provisions(w)'
    <3>1. PICK w \in late' : w.obj = h /\ Provisions(w)'
      BY <2>4
    <3>2. Provisions(w)
      BY <3>1 DEF Provisions
    <3> QED
      BY <2>1, <2>2, <2>3, <3>1, <3>2 DEF Won
  <2>5. CASE Provisioned(h)'
    BY <2>1, <2>5 DEF Won, Provisioned
  <2>6. CASE \E b \in Controller : Provisioning(b)' /\ Me(b)' = h /\ pass'[b].pc \in Cleared
    BY <1>0, <1>b, <2>1, <2>6 DEF Won
  <2> QED
    BY <2>4, <2>5, <2>6 DEF Won
<1>6. ASSUME NEW w \in late, LateCommit(w)
      PROVE  Won(h) /\ obj'[h].key = obj[h].key
  <2>1. /\ pass' = pass /\ late' = late \ {w} /\ w.obj \in Holder
        /\ \A g \in Holder \ {w.obj} : obj'[g] = obj[g]
        /\ obj'[w.obj].key = w.w.key /\ obj'[w.obj].ready = w.w.ready
        /\ obj'[w.obj].unfin = w.w.unfin
    BY <1>6, LateEffect
  <2>2. \A v \in late' : v \in late /\ v.obj # w.obj
    BY <2>1 DEF LateInv
  <2>3. \A b \in Controller : Busy(b) => Me(b) # w.obj
    BY DEF LateInv
  <2>4. CASE h = w.obj
    <3>1. Provisioned(h)'
      BY <2>1, <2>2, <2>3, <2>4 DEF Won
    <3>2. Provisions(w)
      BY <2>1, <2>4, <3>1 DEF Provisioned, Provisions
    <3> QED
      BY <2>1, <2>4, <3>2 DEF Won, HeldInv
  <2>5. CASE h # w.obj
    BY <2>1, <2>5 DEF Won, Provisioned, Provisions
  <2> QED
    BY <2>4, <2>5
<1>7. ASSUME NEW g \in Holder, WatchDelivers(g)
      PROVE  Won(h) /\ obj'[h].key = obj[h].key
  BY <1>7 DEF WatchDelivers, Won, Provisioned, Provisions
<1>8. ASSUME NEW g \in Holder, Delete(g) \/ \E i \in Instance : Create(g, i)
      PROVE  Won(h) /\ obj'[h].key = obj[h].key
  <2>1. /\ UNCHANGED <<pass, late>>
        /\ \A f \in Holder \ {g} : obj'[f] = obj[f]
        /\ \/ /\ obj'[g].key = obj[g].key /\ obj'[g].ready = obj[g].ready
              /\ obj'[g].unfin = obj[g].unfin
           \/ ~obj[g].fin /\ ~obj'[g].ready /\ obj'[g].key = NoKey
    BY <1>8, UserEffect
  <2>2. CASE obj'[h].key = obj[h].key /\ obj'[h].ready = obj[h].ready /\ obj'[h].unfin = obj[h].unfin
    BY <1>c, <2>1, <2>2 DEF Won, Provisions
  <2>3. CASE h = g /\ ~obj[g].fin /\ ~obj'[g].ready /\ obj'[g].key = NoKey
    <3>1. ~Provisioned(h)'
      BY <2>3 DEF Provisioned
    <3>2. \A w \in late' : w.obj # h
      BY <2>1, <2>3 DEF LateInv
    <3>3. \A b \in Controller : Provisioning(b)' => Me(b)' # h
      BY <2>1, <2>3 DEF PinnedInv
    <3> QED
      BY <3>1, <3>2, <3>3 DEF Won
  <2> QED
    BY <2>1, <2>2, <2>3
<1>9. CASE UNCHANGED <<obj, cache, pass, late>>
  BY <1>9 DEF Won, Provisioned, Provisions
<1> QED
  BY <1>1, <1>2, <1>3, <1>4, <1>5, <1>6, <1>7, <1>8, <1>9, Steps

\* A re-read is its claims' LIST and what is added to it.
LEMMA CheckBefore ==
  ASSUME SettledWrites, FreshCache \/ Shared = {}, BaseInv, PinnedInv, LateInv, Next,
         NEW b \in Controller, Provisioning(b)', pass'[b].pc \in {"check_retained", "check_shared"}
  PROVE  /\ Provisioning(b) /\ Me(b)' = Me(b) /\ pass'[b].key = pass[b].key
         /\ pass[b].pc \in Committed
         /\ \/ UNCHANGED obj /\ pass'[b].acc = ClaimHolders(pass[b].key, Me(b))
            \/ /\ pass[b].pc \in {"check_retained", "check_shared"}
               /\ pass[b].acc \subseteq pass'[b].acc
<1> USE DEF Provisioning, Busy, Me
<1>0. /\ b \in Actor /\ {"check_claims", "check_retained", "check_shared"} \subseteq Committed
      /\ \A a \in Controller : pass[a].goal # "drop" <=> pass[a].goal = "provision"
  BY Names, Apart DEF Committed, Checking
<1>1. CASE pass'[b] = pass[b]
  BY <1>0, <1>1
<1>2. ASSUME NEW a \in Actor, InnerStep(a), pass'[b] # pass[b]
      PROVE  /\ Provisioning(b) /\ Me(b)' = Me(b) /\ pass'[b].key = pass[b].key
             /\ pass[b].pc \in Committed
             /\ \/ UNCHANGED obj /\ pass'[b].acc = ClaimHolders(pass[b].key, Me(b))
                \/ /\ pass[b].pc \in {"check_retained", "check_shared"}
                   /\ pass[b].acc \subseteq pass'[b].acc
  <2>1. a = b
    BY <1>0, <1>2, InnerEffect
  <2>2. /\ UNCHANGED obj
        /\ pass'[a].pc # "idle" =>
              /\ pass[a].pc # "idle" /\ pass'[a].obj = pass[a].obj /\ pass'[a].goal = pass[a].goal
              /\ pass[a].goal = "provision" /\ pass'[a].pc \in Committed =>
                   pass[a].pc \in Committed /\ pass'[a].key = pass[a].key
              /\ pass'[a].pc \in {"check_retained", "check_shared"} =>
                   \/ pass'[a].acc = ClaimHolders(pass[a].key, Me(a)) /\ pass[a].pc = "check_claims"
                   \/ pass[a].pc = "check_retained" /\ pass[a].acc \subseteq pass'[a].acc
    BY <1>2, <2>1, InnerEffect
  <2> QED
    BY <1>0, <2>1, <2>2
<1>3. ASSUME NEW a \in Controller, NEW h \in Holder, Begin(a, h) PROVE pass'[b] = pass[b]
  <2>1. /\ \A c \in Actor \ {a} : pass'[c] = pass[c]
        /\ pass'[a].goal # "drop" => pass'[a].pc \in {"lock", "refuse", "check_claims", "terminal"}
    BY <1>3, BeginEffect
  <2> QED
    BY <1>0, <2>1
<1>4. ASSUME NEW a \in Controller, WriteStep(a) PROVE pass'[b] = pass[b]
  <2>1. /\ \A c \in Actor \ {a} : pass'[c] = pass[c]
        /\ pass'[a].pc \in {"idle", "check_claims", "cancel"}
    BY <1>4, WriteFields
  <2> QED
    BY <1>0, <2>1
<1>5. ASSUME NEW a \in Controller, Unfinalize(a) PROVE pass'[b] = pass[b]
  <2>1. (\A c \in Actor \ {a} : pass'[c] = pass[c]) /\ pass'[a].pc = "idle"
    BY <1>5, UnfinalizeEffect DEF Idle
  <2> QED
    BY <1>0, <2>1
<1>6. ASSUME NEW a \in Actor, DropPass(a) PROVE pass'[b] = pass[b]
  <2>1. (\A c \in Actor \ {a} : pass'[c] = pass[c]) /\ pass'[a].pc = "idle"
    BY <1>6, DropEffect DEF Idle
  <2> QED
    BY <1>0, <2>1
<1> QED
  BY <1>1, <1>2, <1>3, <1>4, <1>5, <1>6, Steps DEF LateCommit, WatchDelivers, Delete, Create

\* Two holders never win one number: whoever reads last sees the other.
LEMMA WonStep ==
  ASSUME SettledWrites, FreshCache \/ Shared = {}, BaseInv, PinnedInv, LateInv, HeldInv, WonInv,
         Next
  PROVE  WonInv'
<1>1. ASSUME NEW a \in Controller, Wins(a)
      PROVE  /\ Me(a) \in Holder /\ obj[Me(a)].key = pass[a].key /\ obj' = obj
             /\ \A g \in Holder \ {Me(a)} : Won(g) => obj[g].key # pass[a].key
             /\ \A s \in Shared \ {Me(a)} : obj[s].key # pass[a].key
  <2>1. /\ Provisioning(a) /\ pass[a].pc = "check_shared" /\ pass[a].acc = {} /\ obj' = obj
        /\ SharedHolders(pass[a].key, Me(a)) = {}
    BY <1>1 DEF Wins
  <2>2. Me(a) \in Holder /\ obj[Me(a)].key = pass[a].key
    BY <2>1, Apart DEF Provisioning, HeldInv, Committed, Checking
  <2>3. \A c \in Claim \ {Me(a)} : Won(c) => obj[c].key # pass[a].key
    BY <2>1 DEF WonInv
  <2>4. \A s \in Shared \ {Me(a)} : obj[s].key # pass[a].key
    BY <2>1 DEF SharedHolders
  <2> QED
    BY <2>1, <2>2, <2>3, <2>4 DEF Holder
<1>2. ASSUME NEW g \in Holder, NEW h \in Holder, g # h, Won(g)', Won(h)'
      PROVE  obj'[g].key # obj'[h].key
  <2>1. CASE Won(g) /\ obj'[g].key = obj[g].key /\ Won(h) /\ obj'[h].key = obj[h].key
    BY <1>2, <2>1 DEF WonInv
  <2>2. ASSUME NEW x \in Holder, NEW y \in Holder, x # y, Won(x)', Won(y)',
               NEW a \in Controller, Wins(a), Me(a) = x,
               \A b \in Controller \ {a} : pass'[b] = pass[b]
        PROVE  obj'[x].key # obj'[y].key
    <3>1. \A b \in Controller : Wins(b) => b = a
      BY <2>2 DEF Wins, Cleared
    <3>2. Won(y)
      BY <2>2, <3>1, WonBefore
    <3> QED
      BY <1>1, <2>2, <3>2
  <2> QED
    BY <1>2, <2>1, <2>2, WonBefore
<1>3. ASSUME NEW b \in Controller, Provisioning(b)', pass'[b].pc \in {"check_retained", "check_shared"},
             NEW c \in Claim \ {Me(b)'}, Won(c)', obj'[c].key = pass'[b].key
      PROVE  c \in pass'[b].acc
  <2>1. /\ Provisioning(b) /\ Me(b)' = Me(b) /\ pass'[b].key = pass[b].key
        /\ pass[b].pc \in Committed
        /\ \/ UNCHANGED obj /\ pass'[b].acc = ClaimHolders(pass[b].key, Me(b))
           \/ /\ pass[b].pc \in {"check_retained", "check_shared"}
              /\ pass[b].acc \subseteq pass'[b].acc
    BY <1>3, CheckBefore
  <2>2. CASE UNCHANGED obj /\ pass'[b].acc = ClaimHolders(pass[b].key, Me(b))
    BY <1>3, <2>1, <2>2 DEF ClaimHolders
  <2>3. CASE /\ pass[b].pc \in {"check_retained", "check_shared"}
             /\ pass[b].acc \subseteq pass'[b].acc
    <3>1. c \in Holder
      BY Names
    <3>2. CASE Won(c) /\ obj'[c].key = obj[c].key
      BY <1>3, <2>1, <2>3, <3>2 DEF WonInv
    <3>3. ASSUME NEW a \in Controller, Wins(a), Me(a) = c PROVE FALSE
      <4>1. a # b
        BY <1>3, <3>3 DEF Wins, Cleared
      <4>2. Busy(a) /\ Busy(b)
        BY <2>1, <3>3 DEF Wins, Provisioning
      <4>3. a = "claim" /\ b = "shared"
        BY <3>3, <4>1, <4>2, Apart, Names
      <4>4. Me(b) \in Shared \ {Me(a)}
        BY <3>3, <4>2, <4>3, Apart DEF Holder
      <4>5. obj[Me(b)].key = pass[b].key
        BY <2>1 DEF HeldInv
      <4>6. obj[c].key = pass[b].key /\ obj[c].key = pass[a].key
        BY <1>1, <1>3, <2>1, <3>3
      <4> QED
        BY <1>1, <3>3, <4>4, <4>5, <4>6
    <3> QED
      BY <1>3, <3>1, <3>2, <3>3, WonBefore
  <2> QED
    BY <2>1, <2>2, <2>3
<1> QED
  BY <1>2, <1>3 DEF WonInv

\* What makes the holders exclusive.
TenureInv == BaseInv /\ PinnedInv /\ LateInv /\ HeldInv /\ WonInv

\* Nothing is provisioned, abandoned or under way at the start.
LEMMA TenureInit == Init => TenureInv
<1> SUFFICES ASSUME Init PROVE TenureInv
  OBVIOUS
<1>1. \A a \in Controller : pass[a] = Idle /\ ~Busy(a) /\ ~Provisioning(a) /\ pass[a].pc = "idle"
  BY Names DEF Init, Busy, Provisioning, Idle
<1>2. \A h \in Holder : Seen(h) = NoObj /\ obj[h] = NoObj
  BY DEF Init, Seen
<1>3. NoObj.st = "absent" /\ ~NoObj.fin /\ ~NoObj.ready /\ NoObj.key = NoKey
  BY DEF NoObj
<1>4. late = {}
  BY DEF Init
<1>5. PinnedInv /\ LateInv
  BY <1>1, <1>2, <1>3, <1>4 DEF PinnedInv, LateInv
<1>6. HeldInv
  BY <1>1, <1>2, <1>3, <1>4, Names DEF HeldInv
<1>7. \A h \in Holder : ~Won(h)
  BY <1>1, <1>2, <1>3, <1>4 DEF Won, Provisioned
<1>8. WonInv
  BY <1>1, <1>7 DEF WonInv
<1> QED
  BY <1>5, <1>6, <1>8, BaseInit DEF TenureInv

\* A step that changes none of it.
LEMMA TenureStutter == TenureInv /\ UNCHANGED vars => TenureInv'
<1> SUFFICES ASSUME TenureInv, UNCHANGED vars PROVE TenureInv'
  OBVIOUS
<1>1. UNCHANGED <<obj, cache, pass, late>>
  BY DEF vars
<1>2. BaseInv'
  BY BaseStep DEF TenureInv
<1>3. PinnedInv' /\ LateInv' /\ HeldInv'
  BY <1>1 DEF TenureInv, PinnedInv, LateInv, HeldInv, Provisions, Seen, Provisioning, Busy, Me
<1>4. \A h : Won(h)' => Won(h)
  BY <1>1 DEF Won, Provisioned, Provisions, Provisioning, Busy, Me
<1>5. WonInv'
  BY <1>1, <1>4 DEF TenureInv, WonInv, Provisioning, Busy, Me
<1> QED
  BY <1>2, <1>3, <1>5 DEF TenureInv

\* No two holders are ever provisioned on one number (Exclusive), whatever passes
\* are dropped and whatever checkpoints they leave behind, when an abandoned status
\* write does not outlive the start of its object's next pass, and the shared
\* databases' controller, if there are any, does not start from a stale object
\* (dbnum_holders_besides and the checkpoint of provision_dragonfly and
\* reconcile_redis).
THEOREM ExclusiveEver ==
  ASSUME SettledWrites, FreshCache \/ Shared = {}
  PROVE  Spec => []Exclusive
<1>1. TenureInv /\ [Next]_vars => TenureInv'
  BY BaseStep, PinnedStep, LateStep, HeldStep, WonStep, TenureStutter DEF TenureInv
<1>2. TenureInv => Exclusive
  BY DEF TenureInv, WonInv, Won, Exclusive
<1> QED
  BY <1>1, <1>2, TenureInit, PTL DEF Spec

-----------------------------------------------------------------------------
(* The data in the numbers.  From here on a pass starts from the stored object *)
(* and users leave a claim alone while its snapshot is collected.              *)

\* A pass stays over its object, and on its number.
Along(a) ==
  pass'[a].obj = pass[a].obj /\ pass'[a].goal = pass[a].goal /\ pass'[a].inst = pass[a].inst
Still(a) ==
  /\ Along(a) /\ pass'[a].key = pass[a].key
  /\ pass'[a].reatt = pass[a].reatt /\ pass'[a].skip = pass[a].skip

\* The re-read, and the flush.
Rereads(a) ==
  /\ Still(a)
  /\ \/ /\ pass[a].pc = "check_claims" /\ pass'[a].pc = "check_retained"
        /\ pass'[a].acc = ClaimHolders(pass[a].key, Me(a))
     \/ /\ pass[a].pc = "check_retained" /\ pass'[a].pc = "check_shared"
        /\ pass'[a].acc = pass[a].acc \cup RetainedHolders(pass[a].key, Me(a))
     \/ /\ pass[a].pc = "check_shared"
        /\ pass'[a].pc = AfterCheck(a, pass[a].acc \cup SharedHolders(pass[a].key, Me(a)))
     \/ pass[a].pc = "flush" /\ pass'[a].pc = AfterFlush(a)

\* An allocation, up to the checkpoint.
Allocates(a) ==
  /\ Along(a)
  /\ \/ /\ pass[a].pc = "lock" /\ Still(a)
        /\ pass'[a].pc = IF pass[a].key = NoKey THEN "list_claims" ELSE "own_snapshot"
     \/ pass[a].pc = "list_claims" /\ pass'[a].pc = "list_retained" /\ Still(a)
     \/ LET mine == a = "claim" /\ snap[Me(a)].key \in {pass[a].inst} \X Dbnum IN
        /\ pass[a].pc = "list_retained" /\ pass'[a].pc = "list_shared"
        /\ pass'[a].reatt = mine /\ pass'[a].skip = pass[a].skip
        /\ pass'[a].key = IF mine THEN snap[Me(a)].key ELSE NoKey
     \/ /\ pass[a].pc = "own_snapshot" /\ pass'[a].pc = "commit" /\ pass'[a].key = pass[a].key
        /\ pass'[a].reatt = (snap[Me(a)].key = pass[a].key)
        /\ pass'[a].skip = (snap[Me(a)].key = pass[a].key /\ pass[a].inst = "persistent")
     \/ /\ pass[a].pc = "list_shared" /\ pass'[a].pc = "commit" /\ pass[a].reatt
        /\ pass'[a].key = pass[a].key /\ pass'[a].reatt = pass[a].reatt
        /\ pass'[a].skip = (pass[a].inst = "persistent")
     \/ /\ pass[a].pc = "list_shared" /\ pass'[a].pc = "commit" /\ ~pass[a].reatt
        /\ pass'[a].key \in {pass[a].inst} \X Dbnum /\ pass'[a].reatt = pass[a].reatt
        /\ pass'[a].skip = pass[a].skip
     \/ pass[a].pc = "list_shared" /\ pass'[a].pc = "refuse" /\ a = "shared" /\ Still(a)

\* The other steps of a claim's pass that write no status.
Settles(a) ==
  /\ Still(a) /\ a = "claim"
  /\ \/ pass[a].pc = "cancel_before_release" /\ pass'[a].pc = "release"
     \/ pass[a].pc = "setuser" /\ pass'[a].pc = "terminal"
     \/ pass[a].pc = "find_snapshot" /\ pass'[a].pc \in {"snapshot", "unfinalize"}
     \/ pass[a].pc = "snapshot" /\ pass'[a].pc = "unfinalize"

\* How a flusher moves.
LEMMA FlusherMoves ==
  ASSUME BaseInv, NEW a \in Actor, FlusherStep(a)
  PROVE  Rereads(a) /\ UNCHANGED <<obj, snap, acl, late>> /\ \A b \in Actor \ {a} : pass'[b] = pass[b]
<1>0. pass \in [Actor -> PassType] /\ pass[a] \in PassType
  BY DEF BaseInv, PassOK
<1>1. CASE CheckClaims(a)
  BY <1>0, <1>1 DEF CheckClaims, At, PassType, Rereads, Still, Along
<1>2. CASE CheckRetained(a)
  BY <1>0, <1>2 DEF CheckRetained, At, PassType, Rereads, Still, Along
<1>3. CASE CheckShared(a)
  <2> DEFINE next == AfterCheck(a, pass[a].acc \cup SharedHolders(pass[a].key, Me(a)))
             q == [pass[a] EXCEPT !.pc = next, !.acc = {}]
  <2>1. /\ pass[a].pc = "check_shared" /\ UNCHANGED <<obj, snap, acl, late>>
        /\ pass' = [pass EXCEPT ![a] = q]
    BY <1>0, <1>3 DEF CheckShared, At
  <2> HIDE DEF next
  <2>2. pass'[a] = q /\ \A b \in Actor \ {a} : pass'[b] = pass[b]
    BY <1>0, <2>1
  <2>3. /\ q.obj = pass[a].obj /\ q.goal = pass[a].goal /\ q.inst = pass[a].inst
        /\ q.key = pass[a].key /\ q.reatt = pass[a].reatt /\ q.skip = pass[a].skip /\ q.pc = next
    BY <1>0 DEF PassType
  <2> QED
    BY <2>1, <2>2, <2>3 DEF Rereads, Still, Along, next
<1>4. CASE Flush(a) \/ FlushFails(a)
  <2> DEFINE next == AfterFlush(a)
             q == [pass[a] EXCEPT !.pc = next]
  <2>1. /\ pass[a].pc = "flush" /\ UNCHANGED <<obj, snap, acl, late>>
        /\ pass' = [pass EXCEPT ![a] = q]
    BY <1>0, <1>4 DEF Flush, FlushFails, At, Go
  <2> HIDE DEF next
  <2>2. pass'[a] = q /\ \A b \in Actor \ {a} : pass'[b] = pass[b]
    BY <1>0, <2>1
  <2>3. /\ q.obj = pass[a].obj /\ q.goal = pass[a].goal /\ q.inst = pass[a].inst
        /\ q.key = pass[a].key /\ q.reatt = pass[a].reatt /\ q.skip = pass[a].skip /\ q.pc = next
    BY <1>0 DEF PassType
  <2> QED
    BY <2>1, <2>2, <2>3 DEF Rereads, Still, Along, next
<1> QED
  BY <1>1, <1>2, <1>3, <1>4 DEF FlusherStep

\* How a controller's pass moves when it writes no status.
LEMMA InnerMoves ==
  ASSUME BaseInv, NEW a \in Controller, InnerStep(a), pass'[a].pc # "idle"
  PROVE  Rereads(a) \/ Allocates(a) \/ Settles(a)
<1>0. /\ pass \in [Actor -> PassType] /\ pass[a] \in PassType /\ Fits(a, pass[a]) /\ a \in Actor
      /\ a \in {"claim", "shared"} /\ a \notin Claim
  BY Names DEF BaseInv, PassOK, ShapeInv
<1>1. CASE FlusherStep(a)
  BY <1>0, <1>1, FlusherMoves
<1>2. CASE TakeLock(a) \/ ListClaims(a)
  BY <1>0, <1>2 DEF TakeLock, ListClaims, Go, At, PassType, Allocates, Still, Along
<1>3. CASE ListRetained(a)
  <2> DEFINE mine == a = "claim" /\ snap[Me(a)].key \in {pass[a].inst} \X Dbnum
  <2>1. mine \in BOOLEAN
    OBVIOUS
  <2>2. PICK acc : /\ pass[a].pc = "list_retained"
                   /\ pass' = [pass EXCEPT ![a] = [pass[a] EXCEPT !.pc = "list_shared", !.acc = acc,
                         !.reatt = mine, !.key = IF mine THEN snap[Me(a)].key ELSE NoKey]]
    BY <1>0, <1>3 DEF ListRetained, At
  <2> HIDE DEF mine
  <2>3. /\ pass'[a].pc = "list_shared" /\ pass'[a].reatt = mine /\ pass'[a].skip = pass[a].skip
        /\ pass'[a].key = (IF mine THEN snap[Me(a)].key ELSE NoKey) /\ Along(a)
    BY <1>0, <2>1, <2>2 DEF PassType, Along
  <2> QED
    BY <2>2, <2>3 DEF Allocates, mine
<1>4. CASE ListShared(a)
  <2> DEFINE used == pass[a].acc \cup Used(a, [k \in Key |-> SharedHolders(k, NoHolder)])
             p == [pass[a] EXCEPT !.acc = {}]
             kept == [p EXCEPT !.pc = "commit", !.skip = p.inst = "persistent"]
             full == IF a = "claim" THEN Idle ELSE [p EXCEPT !.pc = "refuse"]
             fresh == [p EXCEPT !.pc = "commit", !.key = <<p.inst, AllocateDbnum(used)>>]
  <2>1. pass[a].pc = "list_shared"
    BY <1>4 DEF ListShared, At
  <2>2. /\ p.obj = pass[a].obj /\ p.goal = pass[a].goal /\ p.key = pass[a].key /\ p \in PassType
        /\ p.inst = pass[a].inst /\ p.reatt = pass[a].reatt /\ p.skip = pass[a].skip
    BY <1>0 DEF PassType
  <2>3. \/ p.reatt /\ pass' = [pass EXCEPT ![a] = kept]
        \/ pass' = [pass EXCEPT ![a] = full]
        \/ ~p.reatt /\ ~(Dbnum \subseteq used) /\ pass' = [pass EXCEPT ![a] = fresh]
    BY <1>4 DEF ListShared
  <2> HIDE DEF p, used
  <2>4. CASE p.reatt /\ pass' = [pass EXCEPT ![a] = kept]
    <3>1. /\ kept.pc = "commit" /\ kept.obj = p.obj /\ kept.goal = p.goal /\ kept.inst = p.inst
          /\ kept.key = p.key /\ kept.reatt = p.reatt /\ kept.skip = (p.inst = "persistent")
      BY <2>2 DEF PassType
    <3>2. pass'[a] = kept
      BY <1>0, <2>4
    <3> QED
      BY <2>1, <2>2, <2>4, <3>1, <3>2 DEF Allocates, Along
  <2>5. CASE pass' = [pass EXCEPT ![a] = full]
    <3>1. pass'[a] = full
      BY <1>0, <2>5
    <3>2. a # "claim"
      BY <3>1 DEF Idle
    <3>3. /\ full.pc = "refuse" /\ full.obj = p.obj /\ full.goal = p.goal /\ full.inst = p.inst
          /\ full.key = p.key /\ full.reatt = p.reatt /\ full.skip = p.skip
      BY <2>2, <3>2 DEF PassType
    <3> QED
      BY <1>0, <2>1, <2>2, <3>1, <3>2, <3>3 DEF Allocates, Along, Still
  <2>6. CASE ~p.reatt /\ ~(Dbnum \subseteq used) /\ pass' = [pass EXCEPT ![a] = fresh]
    <3>1. AllocateDbnum(used) \in Dbnum
      BY <2>6, LowestFree
    <3>2. pass'[a] = fresh
      BY <1>0, <2>6
    <3>3. /\ fresh.pc = "commit" /\ fresh.obj = p.obj /\ fresh.goal = p.goal /\ fresh.inst = p.inst
          /\ fresh.key = <<p.inst, AllocateDbnum(used)>> /\ fresh.reatt = p.reatt /\ fresh.skip = p.skip
      BY <2>2 DEF PassType
    <3>4. fresh.key \in {p.inst} \X Dbnum
      BY <3>1, <3>3
    <3> QED
      BY <2>1, <2>2, <2>6, <3>2, <3>3, <3>4 DEF Allocates, Along
  <2> QED
    BY <2>3, <2>4, <2>5, <2>6
<1>5. CASE a = "claim" /\ OwnSnapshot(a)
  <2> DEFINE own == snap[Me(a)].key = pass[a].key
  <2>1. own \in BOOLEAN
    OBVIOUS
  <2>2. /\ pass[a].pc = "own_snapshot"
        /\ pass' = [pass EXCEPT ![a] = [pass[a] EXCEPT !.pc = "commit", !.reatt = own,
                                          !.skip = own /\ pass[a].inst = "persistent"]]
    BY <1>0, <1>5 DEF OwnSnapshot, At
  <2> HIDE DEF own
  <2>3. /\ pass'[a].pc = "commit" /\ pass'[a].reatt = own /\ pass'[a].key = pass[a].key
        /\ pass'[a].skip = (own /\ pass[a].inst = "persistent") /\ Along(a)
    BY <1>0, <2>1, <2>2 DEF PassType, Along
  <2> QED
    BY <2>2, <2>3 DEF Allocates, own
<1>6. CASE /\ a = "claim"
           /\ \/ CancelBeforeRelease(a) \/ SetUser(a) \/ Cancel(a) \/ FindSnapshot(a) \/ TakeSnapshot(a)
  BY <1>0, <1>6 DEF CancelBeforeRelease, SetUser, Cancel, FindSnapshot, TakeSnapshot,
     At, Go, End, Idle, PassType, Settles, Still, Along
<1> QED
  BY <1>0, <1>1, <1>2, <1>3, <1>4, <1>5, <1>6 DEF InnerStep

\* What happens to a snapshot.
LEMMA SnapEffect ==
  ASSUME BaseInv, Next, NEW c \in Claim
  PROVE  \/ snap'[c] = snap[c]
         \/ snap'[c] = NoSnap /\ Me("claim") = c /\ (Cancel("claim") \/ CancelBeforeRelease("claim"))
         \/ snap'[c] = NoSnap /\ DeleteSnapshot(c)
         \/ /\ TakeSnapshot("claim") /\ Me("claim") = c /\ ~snap[c].there
            /\ snap'[c] = [there |-> TRUE, key |-> pass["claim"].key, expired |-> FALSE]
         \/ GraceElapses(c) /\ snap'[c] = [snap[c] EXCEPT !.expired = TRUE]
<1>0. /\ snap \in [Claim -> [there : BOOLEAN, key : KeyOrNone, expired : BOOLEAN]]
      /\ pass["claim"] \in PassType /\ Fits("claim", pass["claim"]) /\ "claim" \notin Claim
      /\ \A d \in Claim : pass[d] \in PassType /\ Fits(d, pass[d]) /\ d \notin Controller
  BY Names DEF BaseInv, SnapOK, PassOK, ShapeInv
<1>1. CASE OperatorStep
  <2>1. CASE \E a \in Controller, h \in Holder : Begin(a, h)
    BY <2>1 DEF Begin, BeginClaim, BeginClaimDelete, BeginShared, BeginSharedRefusal, BeginSharedDelete
  <2>2. CASE \E a \in Controller : AllocatorStep(a) \/ Refuse(a) \/ KeepConflicting(a)
    BY <2>2 DEF AllocatorStep, TakeLock, ListClaims, ListRetained, ListShared, Checkpoint, Release,
       Terminal, Unfinalize, Refuse, KeepConflicting, Write
  <2>3. CASE \E a \in Actor : FlusherStep(a)
    BY <2>3, FlusherMoves
  <2>4. CASE OwnSnapshot("claim") \/ SetUser("claim") \/ FindSnapshot("claim")
    BY <2>4 DEF OwnSnapshot, SetUser, FindSnapshot
  <2>5. CASE Cancel("claim") \/ CancelBeforeRelease("claim")
    <3>1. snap' = [snap EXCEPT ![Me("claim")] = NoSnap]
      BY <2>5 DEF Cancel, CancelBeforeRelease
    <3> QED
      BY <1>0, <2>5, <3>1
  <2>6. CASE TakeSnapshot("claim")
    <3> DEFINE new == [there |-> TRUE, key |-> pass["claim"].key, expired |-> FALSE]
    <3>1. snap' = [snap EXCEPT ![Me("claim")] = IF @.there THEN @ ELSE new]
      BY <2>6 DEF TakeSnapshot
    <3> HIDE DEF new
    <3>2. snap'[c] = snap[c] \/ (Me("claim") = c /\ ~snap[c].there /\ snap'[c] = new)
      BY <1>0, <3>1
    <3> QED
      BY <2>6, <3>2 DEF new
  <2>7. ASSUME NEW d \in Claim, GCStep(d)
        PROVE  snap'[c] = snap[c] \/ (snap'[c] = NoSnap /\ DeleteSnapshot(c))
    <3>1. CASE BeginCollect(d) \/ DelUser(d) \/ DelUserFails(d)
      BY <3>1 DEF BeginCollect, DelUser, DelUserFails
    <3>2. CASE DeleteSnapshot(d)
      <4>0. pass[d].obj = d
        BY <1>0, <3>2, Names DEF DeleteSnapshot, At, Fits, ShapeOf, Idle
      <4>1. snap' = [snap EXCEPT ![d] = NoSnap]
        BY <3>2, <4>0 DEF DeleteSnapshot, Me
      <4> QED
        BY <1>0, <3>2, <4>1
    <3> QED
      BY <2>7, <3>1, <3>2 DEF GCStep
  <2> QED
    BY <1>1, <2>1, <2>2, <2>3, <2>4, <2>5, <2>6, <2>7, Names
       DEF OperatorStep, ClaimStep, SharedStep, Begin
<1>2. CASE EnvironmentStep
  <2>1. ASSUME NEW d \in Claim, GraceElapses(d)
        PROVE  snap'[c] = snap[c] \/ (GraceElapses(c) /\ snap'[c] = [snap[c] EXCEPT !.expired = TRUE])
    BY <1>0, <2>1 DEF GraceElapses
  <2> QED
    BY <1>2, <2>1 DEF EnvironmentStep, DropPass, LateCommit, WatchDelivers, Delete, Create, Use
<1> QED
  BY <1>1, <1>2 DEF Next

\* What happens to an ACL user.
LEMMA AclEffect ==
  ASSUME BaseInv, Next, NEW c \in Claim, NEW i \in Instance
  PROVE  \/ acl'[c][i] = acl[c][i]
         \/ DelUser(c)
         \/ /\ SetUser("claim") /\ Me("claim") = c
            /\ i = pass["claim"].inst => acl'[c][i] = pass["claim"].key
<1>0. /\ acl \in [Claim -> [Instance -> KeyOrNone]] /\ acl[c] \in [Instance -> KeyOrNone]
      /\ \A d \in Claim : pass[d] \in PassType /\ Fits(d, pass[d]) /\ d \notin Controller
  BY Names DEF BaseInv, AclOK, PassOK, ShapeInv
<1>1. CASE UNCHANGED acl
  BY <1>1
<1>2. CASE SetUser("claim")
  <2>1. acl' = [acl EXCEPT ![Me("claim")][pass["claim"].inst] = pass["claim"].key]
    BY <1>2 DEF SetUser
  <2>2. CASE Me("claim") = c
    BY <1>0, <1>2, <2>1, <2>2
  <2>3. CASE Me("claim") # c
    BY <1>0, <2>1, <2>3
  <2> QED
    BY <2>2, <2>3
<1>3. ASSUME NEW d \in Claim, DelUser(d) PROVE acl'[c][i] = acl[c][i] \/ DelUser(c)
  <2>1. Me(d) = d
    BY <1>0, <1>3, Names DEF DelUser, Me, At, Fits, ShapeOf, Idle
  <2>2. acl' = [acl EXCEPT ![d][pass[d].key[1]] = NoKey]
    BY <1>3, <2>1 DEF DelUser
  <2> QED
    BY <1>0, <1>3, <2>2
<1>4. CASE OperatorStep
  <2>1. CASE \E a \in Controller, h \in Holder : Begin(a, h)
    BY <1>1, <2>1 DEF Begin, BeginClaim, BeginClaimDelete, BeginShared, BeginSharedRefusal, BeginSharedDelete
  <2>2. CASE \E a \in Controller : AllocatorStep(a) \/ Refuse(a) \/ KeepConflicting(a)
    BY <1>1, <2>2 DEF AllocatorStep, TakeLock, ListClaims, ListRetained, ListShared, Checkpoint,
       Release, Terminal, Unfinalize, Refuse, KeepConflicting, Write
  <2>3. CASE \E a \in Actor : FlusherStep(a)
    BY <1>1, <2>3, FlusherMoves
  <2>4. CASE \/ OwnSnapshot("claim") \/ FindSnapshot("claim") \/ Cancel("claim")
             \/ CancelBeforeRelease("claim") \/ TakeSnapshot("claim")
    BY <1>1, <2>4 DEF OwnSnapshot, FindSnapshot, Cancel, CancelBeforeRelease, TakeSnapshot
  <2>5. CASE \E d \in Claim : BeginCollect(d) \/ DelUserFails(d) \/ DeleteSnapshot(d)
    BY <1>1, <2>5 DEF BeginCollect, DelUserFails, DeleteSnapshot
  <2> QED
    BY <1>2, <1>3, <1>4, <2>1, <2>2, <2>3, <2>4, <2>5, Names
       DEF OperatorStep, ClaimStep, SharedStep, Begin, GCStep
<1>5. CASE EnvironmentStep
  BY <1>1, <1>5 DEF EnvironmentStep, DropPass, LateCommit, WatchDelivers, Delete, Create, Use,
     GraceElapses
<1> QED
  BY <1>4, <1>5 DEF Next

\* A pass that starts from the stored object.
LEMMA FreshBegin ==
  ASSUME SettledWrites, FreshCache, BaseInv, PinnedInv,
         NEW a \in Controller, NEW h \in Holder, Begin(a, h)
  PROVE  /\ pass'[a].inst = obj[h].inst /\ ~pass'[a].reatt /\ ~pass'[a].skip
         /\ UNCHANGED <<snap, data, acl>>
         /\ \/ /\ pass'[a].goal = "drop" /\ obj[h].st = "deleting" /\ pass'[a].key = obj[h].key
               /\ pass'[a].pc \in {"find_snapshot", "unfinalize", "check_claims"}
            \/ /\ pass'[a].goal = "provision" /\ pass'[a].pc = "lock"
               /\ pass'[a].key = OwnKey(obj[h]) /\ (a = "claim" => ~obj[h].ready)
            \/ /\ pass'[a].goal = "provision" /\ a = "shared" /\ pass'[a].key = OwnKey(obj[h])
               /\ OwnKey(obj[h]) # NoKey
               /\ pass'[a].pc = IF obj[h].unfin THEN "check_claims" ELSE "terminal"
            \/ /\ pass'[a].goal = "provision" /\ a = "shared" /\ pass'[a].pc = "refuse"
               /\ pass'[a].key = BackingOf(obj[h])
<1>0. pass \in [Actor -> PassType] /\ a \in Actor /\ Seen(h) = obj[h]
  BY Names DEF BaseInv, PassOK, Seen
<1>1. ASSUME NEW pc, NEW goal, NEW inst, NEW key, Start(a, h, pc, goal, inst, key)
      PROVE  /\ pass'[a].pc = pc /\ pass'[a].goal = goal /\ pass'[a].key = key
             /\ pass'[a].inst = inst /\ ~pass'[a].reatt /\ ~pass'[a].skip
  <2>1. pass'[a] = [Idle EXCEPT !.pc = pc, !.goal = goal, !.obj = h, !.inst = inst, !.key = key]
    BY <1>0, <1>1 DEF Start
  <2> QED
    BY <2>1 DEF Idle
<1>2. CASE a = "claim" /\ BeginClaim(h)
  <2>1. /\ Start(a, h, "lock", "provision", obj[h].inst, OwnKey(obj[h])) /\ ~obj[h].ready
        /\ UNCHANGED <<snap, data, acl>>
    BY <1>0, <1>2 DEF BeginClaim, ShouldProvision
  <2> QED
    BY <1>1, <2>1
<1>3. CASE a = "claim" /\ BeginClaimDelete(h)
  <2>1. /\ Start(a, h, "find_snapshot", "drop", obj[h].inst, obj[h].key) /\ obj[h].st = "deleting"
        /\ UNCHANGED <<snap, data, acl>>
    BY <1>0, <1>3 DEF BeginClaimDelete
  <2> QED
    BY <1>1, <2>1
<1>4. CASE a = "shared" /\ BeginShared(h)
  <2> DEFINE own == OwnKey(obj[h])
             pc == IF own = NoKey THEN "lock" ELSE IF obj[h].unfin THEN "check_claims" ELSE "terminal"
  <2>1. Start(a, h, pc, "provision", obj[h].inst, own) /\ UNCHANGED <<snap, data, acl>>
    BY <1>0, <1>4 DEF BeginShared
  <2>2. /\ pass'[a].pc = pc /\ pass'[a].goal = "provision" /\ pass'[a].key = own
        /\ pass'[a].inst = obj[h].inst /\ ~pass'[a].reatt /\ ~pass'[a].skip
    BY <1>1, <2>1
  <2>3. CASE own = NoKey
    BY <1>4, <2>1, <2>2, <2>3
  <2>4. CASE own # NoKey
    BY <1>4, <2>1, <2>2, <2>4
  <2> QED
    BY <2>3, <2>4
<1>5. CASE a = "shared" /\ BeginSharedRefusal(h)
  <2>1. /\ Start(a, h, "refuse", "provision", obj[h].inst, BackingOf(obj[h]))
        /\ UNCHANGED <<snap, data, acl>>
    BY <1>0, <1>5 DEF BeginSharedRefusal
  <2> QED
    BY <1>1, <1>5, <2>1
<1>6. CASE a = "shared" /\ BeginSharedDelete(h)
  <2> DEFINE pc == IF obj[h].key = NoKey THEN "unfinalize" ELSE "check_claims"
  <2>1. /\ Start(a, h, pc, "drop", obj[h].inst, obj[h].key) /\ obj[h].st = "deleting"
        /\ UNCHANGED <<snap, data, acl>> /\ pc \in {"find_snapshot", "unfinalize", "check_claims"}
    BY <1>0, <1>6 DEF BeginSharedDelete
  <2> HIDE DEF pc
  <2> QED
    BY <1>1, <2>1
<1> QED
  BY <1>2, <1>3, <1>4, <1>5, <1>6 DEF Begin

\* Key k is on instance i.
On(k, i) == k # NoKey /\ k[1] = i

\* An object's number is on the instance of its class, and what a pass takes for
\* its object's number is that; only a pass on a persistent instance keeps what it
\* finds there.
OwnRecord(h) == obj[h].key # NoKey => On(obj[h].key, obj[h].inst)
LateRecord(w) == w.w.key # NoKey => On(w.w.key, obj[w.obj].inst)
ProvisionRecord(a) ==
  /\ pass[a].inst = obj[Me(a)].inst
  /\ pass[a].key # NoKey => On(pass[a].key, pass[a].inst)
  /\ pass[a].pc \in {"lock", "own_snapshot"} => obj[Me(a)].key = pass[a].key
  /\ pass[a].pc \in {"list_claims", "list_retained", "list_shared"} => obj[Me(a)].key = NoKey
  /\ pass[a].pc = "commit" => obj[Me(a)].key \in {NoKey, pass[a].key}
  /\ pass[a].pc \in Allocating \ {"commit"} => ~pass[a].skip
  /\ pass[a].skip => pass[a].inst = "persistent"
DropRecord(a) == obj[Me(a)].st = "deleting" /\ obj[Me(a)].key = pass[a].key
PassRecord(a) ==
  /\ Provisioning(a) => ProvisionRecord(a)
  /\ Busy(a) /\ pass[a].goal = "drop" => DropRecord(a)

RecordInv ==
  /\ \A c \in Claim : ~snap[c].there => snap[c].key = NoKey
  /\ \A h \in Holder : OwnRecord(h)
  /\ \A w \in late : LateRecord(w)
  /\ \A a \in Controller : PassRecord(a)

\* A status without a number of its class has none.
LEMMA OwnKeyIs ==
  ASSUME BaseInv, NEW h \in Holder, OwnRecord(h)
  PROVE  OwnKey(obj[h]) = obj[h].key
<1>1. obj[h].key \in KeyOrNone
  BY DEF BaseInv, ObjOK, ObjType
<1>2. obj[h].key # NoKey => obj[h].key \in {obj[h].inst} \X Dbnum
  BY <1>1 DEF OwnRecord, On, KeyOrNone, Key
<1> QED
  BY <1>2 DEF OwnKey

\* A pass and its object that a step leaves alone.
LEMMA RecordFrame ==
  ASSUME NEW a \in Controller, PassRecord(a), pass'[a] = pass[a],
         Busy(a) => /\ obj'[Me(a)].key = obj[Me(a)].key /\ obj'[Me(a)].inst = obj[Me(a)].inst
                    /\ pass[a].goal = "drop" => obj'[Me(a)].st = obj[Me(a)].st
  PROVE  PassRecord(a)'
<1>1. Provisioning(a)' => ProvisionRecord(a)'
  BY DEF PassRecord, ProvisionRecord, Provisioning, Busy, Me
<1>2. Busy(a)' /\ pass'[a].goal = "drop" => DropRecord(a)'
  BY DEF PassRecord, DropRecord, Busy, Me
<1> QED
  BY <1>1, <1>2 DEF PassRecord

\* Records stay where they are until their holder lets go.
LEMMA RecordStep ==
  ASSUME SettledWrites, FreshCache, BaseInv, PinnedInv, LateInv, RecordInv, Next
  PROVE  RecordInv'
<1>0. /\ \A a \in Controller : a \in Actor
      /\ \A a \in Controller : Busy(a) => Me(a) \in Holder
      /\ \A a, b \in Controller : Busy(a) /\ Busy(b) /\ a # b => Me(a) # Me(b)
      /\ \A w \in late : w.obj \in Holder
      /\ \A a \in Controller : pass[a].pc = "idle" <=> ~Busy(a)
      /\ \A a \in Controller : Provisioning(a) => Busy(a)
      /\ \A a \in Controller : pass'[a].pc = "idle" => ~Busy(a)' /\ ~Provisioning(a)'
  BY Names, Apart DEF BaseInv, LateOK, Busy, Provisioning
<1>1. \A c \in Claim : ~snap'[c].there => snap'[c].key = NoKey
  <2> SUFFICES ASSUME NEW c \in Claim PROVE ~snap'[c].there => snap'[c].key = NoKey
    OBVIOUS
  <2>1. snap[c] \in [there : BOOLEAN, key : KeyOrNone, expired : BOOLEAN]
    BY DEF BaseInv, SnapOK
  <2>2. CASE snap'[c] = snap[c] \/ snap'[c] = [snap[c] EXCEPT !.expired = TRUE]
    BY <2>1, <2>2 DEF RecordInv
  <2> QED
    BY <2>2, SnapEffect DEF NoSnap
<1>2. ASSUME UNCHANGED <<obj, late>>
      PROVE  (\A h \in Holder : OwnRecord(h)') /\ (\A w \in late' : LateRecord(w)')
  BY <1>2 DEF RecordInv, OwnRecord, LateRecord
<1>3. ASSUME NEW a \in Actor, InnerStep(a) PROVE RecordInv'
  <2>1. UNCHANGED <<obj, late>> /\ \A b \in Actor \ {a} : pass'[b] = pass[b]
    BY <1>3, InnerEffect
  <2>2. \A b \in Controller \ {a} : PassRecord(b)'
    BY <1>0, <2>1, RecordFrame DEF RecordInv
  <2>3. ASSUME a \in Controller, Busy(a)' PROVE PassRecord(a)'
    <3>1. /\ pass'[a].pc # "idle" /\ pass[a].pc # "idle" /\ PassRecord(a) /\ Busy(a)
          /\ pass'[a].obj = pass[a].obj /\ pass'[a].goal = pass[a].goal
          /\ pass[a].key \in KeyOrNone /\ Fits(a, pass[a]) /\ a \in {"claim", "shared"}
      BY <1>0, <1>3, <2>3, InnerEffect, Names DEF Busy, RecordInv, BaseInv, PassOK, ShapeInv, PassType
    <3>2. CASE Rereads(a) \/ Settles(a)
      <4>1. Still(a) /\ pass'[a].pc \notin Allocating
        BY <3>2 DEF Rereads, Settles, AfterCheck, AfterFlush, Allocating
      <4> QED
        BY <2>1, <3>1, <4>1 DEF PassRecord, ProvisionRecord, DropRecord, Provisioning, Busy, Me,
           Still, Along, Allocating
    <3>3. CASE Allocates(a)
      <4>1. Provisioning(a) /\ ProvisionRecord(a) /\ Provisioning(a)'
        BY <3>1, <3>3, Names DEF Allocates, Fits, ShapeOf, Idle, ClaimDrop, SharedDrop, Checking,
           Provisioning, Busy, PassRecord
      <4>2. pass'[a].pc \in {"own_snapshot", "list_claims", "list_retained", "list_shared",
                             "commit", "refuse"}
        BY <3>3 DEF Allocates
      <4>3. pass'[a].key # NoKey => On(pass'[a].key, pass[a].inst)
        <5>1. \A k \in {pass[a].inst} \X Dbnum : k[1] = pass[a].inst
          OBVIOUS
        <5> QED
          BY <3>3, <4>1, <5>1 DEF Allocates, Still, ProvisionRecord, On
      <4>4. /\ pass[a].pc \in {"lock", "own_snapshot"} => obj[Me(a)].key = pass[a].key
            /\ pass[a].pc \in {"list_claims", "list_retained", "list_shared"} => obj[Me(a)].key = NoKey
            /\ pass[a].pc \in Allocating \ {"commit"} => ~pass[a].skip
            /\ pass[a].inst = obj[Me(a)].inst
        BY <4>1 DEF ProvisionRecord
      <4>5. /\ pass'[a].pc = "own_snapshot" => pass'[a].key = obj[Me(a)].key
            /\ pass'[a].pc \in {"list_claims", "list_retained", "list_shared"} => obj[Me(a)].key = NoKey
            /\ pass'[a].pc = "commit" => obj[Me(a)].key \in {NoKey, pass'[a].key}
            /\ pass'[a].pc \in Allocating \ {"commit"} => ~pass'[a].skip
            /\ pass'[a].pc # "lock"
        BY <3>3, <4>4 DEF Allocates, Still, Allocating
      <4>a. pass'[a].skip => pass[a].inst = "persistent"
        BY <3>3, <4>1 DEF Allocates, Still, ProvisionRecord
      <4>6. ProvisionRecord(a)'
        BY <2>1, <3>1, <3>3, <4>2, <4>3, <4>4, <4>5, <4>a DEF ProvisionRecord, Me, Allocates, Along
      <4> QED
        BY <4>1, <4>6 DEF PassRecord, Provisioning
    <3> QED
      BY <1>3, <2>3, <3>1, <3>2, <3>3, InnerMoves
  <2>4. ASSUME a \in Controller, ~Busy(a)' PROVE PassRecord(a)'
    BY <2>4 DEF PassRecord, Provisioning
  <2> QED
    BY <1>1, <1>2, <2>1, <2>2, <2>3, <2>4 DEF RecordInv
<1>4. ASSUME NEW a \in Controller, NEW h \in Holder, Begin(a, h) PROVE RecordInv'
  <2>1. /\ \A b \in Actor \ {a} : pass'[b] = pass[b]
        /\ pass'[a].obj = h /\ late' = {w \in late : w.obj # h}
        /\ \A g \in Holder \ {h} : obj'[g] = obj[g]
        /\ obj'[h].st = obj[h].st /\ obj'[h].key = obj[h].key /\ obj'[h].inst = obj[h].inst
    BY <1>4, BeginEffect
  <2>2. \A g \in Holder : obj'[g].st = obj[g].st /\ obj'[g].key = obj[g].key /\ obj'[g].inst = obj[g].inst
    BY <2>1
  <2>3. (\A g \in Holder : OwnRecord(g)') /\ (\A w \in late' : LateRecord(w)')
    BY <1>0, <2>1, <2>2 DEF RecordInv, OwnRecord, LateRecord
  <2>4. \A b \in Controller \ {a} : PassRecord(b)'
    BY <1>0, <2>1, <2>2, RecordFrame DEF RecordInv
  <2>5. OwnRecord(h) /\ OwnKey(obj[h]) = obj[h].key
    BY OwnKeyIs DEF RecordInv
  <2>6. BackingOf(obj[h]) \in {NoKey, obj[h].key}
    BY DEF BackingOf
  <2>7. PassRecord(a)'
    <3>1. /\ pass'[a].inst = obj[h].inst /\ ~pass'[a].skip
          /\ \/ pass'[a].goal = "drop" /\ obj[h].st = "deleting" /\ pass'[a].key = obj[h].key
             \/ /\ pass'[a].goal = "provision" /\ pass'[a].key \in {NoKey, obj[h].key}
                /\ \/ pass'[a].pc = "lock" /\ pass'[a].key = obj[h].key
                   \/ pass'[a].pc \in {"check_claims", "terminal", "refuse"}
      BY <1>4, <2>5, <2>6, FreshBegin
    <3> QED
      BY <2>1, <2>5, <3>1 DEF PassRecord, ProvisionRecord, DropRecord, Provisioning, Busy, Me, OwnRecord,
         Allocating
  <2> QED
    BY <1>1, <2>3, <2>4, <2>7 DEF RecordInv
<1>5. ASSUME NEW a \in Controller, WriteStep(a) PROVE RecordInv'
  <2>1. /\ Provisioning(a) /\ Me(a) \in Holder /\ late' = late
        /\ \A b \in Actor \ {a} : pass'[b] = pass[b]
        /\ \A g \in Holder \ {Me(a)} : obj'[g] = obj[g]
        /\ obj'[Me(a)].st = obj[Me(a)].st /\ obj'[Me(a)].inst = obj[Me(a)].inst
        /\ obj'[Me(a)].key = IF pass[a].pc = "release" THEN NoKey ELSE pass[a].key
    BY <1>5, WriteFields
  <2>2. ProvisionRecord(a)
    BY <2>1 DEF RecordInv, PassRecord
  <2>3. \A g \in Holder : OwnRecord(g)'
    BY <2>1, <2>2 DEF OwnRecord, ProvisionRecord, On, RecordInv
  <2>4. \A w \in late' : LateRecord(w)'
    BY <1>0, <2>1 DEF RecordInv, LateRecord
  <2>5. \A b \in Controller \ {a} : PassRecord(b)'
    BY <1>0, <2>1, RecordFrame DEF RecordInv
  <2>6. ASSUME Busy(a)' PROVE PassRecord(a)'
    <3>1. pass[a] \in PassType
      BY <1>0 DEF BaseInv, PassOK
    <3>2. \/ pass'[a] = [pass[a] EXCEPT !.pc = "check_claims"]
          \/ pass'[a] = [pass[a] EXCEPT !.pc = "cancel"]
      BY <1>5, <2>6, WriteEffect DEF Busy, Idle
    <3>3. /\ pass'[a].pc \in {"check_claims", "cancel"} /\ pass'[a].obj = pass[a].obj
          /\ pass'[a].goal = pass[a].goal /\ pass'[a].inst = pass[a].inst /\ pass'[a].key = pass[a].key
          /\ pass'[a].skip = pass[a].skip
      BY <3>1, <3>2 DEF PassType
    <3> QED
      BY <2>1, <2>2, <3>3 DEF PassRecord, ProvisionRecord, Provisioning, Busy, Me, Allocating
  <2>7. ~Busy(a)' => PassRecord(a)'
    BY DEF PassRecord, Provisioning
  <2> QED
    BY <1>1, <2>3, <2>4, <2>5, <2>6, <2>7 DEF RecordInv
<1>6. ASSUME NEW a \in Controller, Unfinalize(a) PROVE RecordInv'
  <2>1. /\ Busy(a) /\ Me(a) \in Holder /\ late' = late /\ pass'[a] = Idle
        /\ \A b \in Actor \ {a} : pass'[b] = pass[b]
        /\ \A g \in Holder \ {Me(a)} : obj'[g] = obj[g]
        /\ obj'[Me(a)] = obj[Me(a)] \/ obj'[Me(a)] = NoObj
    BY <1>6, UnfinalizeEffect
  <2>2. \A g \in Holder : OwnRecord(g)'
    BY <2>1 DEF OwnRecord, RecordInv, NoObj
  <2>3. \A w \in late' : LateRecord(w)'
    BY <1>0, <2>1 DEF RecordInv, LateRecord, LateInv
  <2>4. \A b \in Controller \ {a} : PassRecord(b)'
    BY <1>0, <2>1, RecordFrame DEF RecordInv
  <2>5. PassRecord(a)'
    BY <2>1 DEF PassRecord, Provisioning, Busy, Idle
  <2> QED
    BY <1>1, <2>2, <2>3, <2>4, <2>5 DEF RecordInv
<1>7. ASSUME NEW a \in Actor, DropPass(a) PROVE RecordInv'
  <2>1. /\ obj' = obj /\ pass'[a] = Idle /\ \A b \in Actor \ {a} : pass'[b] = pass[b]
        /\ \/ late' = late
           \/ /\ a \in Controller /\ pass[a].pc \in WritePC
              /\ late' = late \cup {[obj |-> Me(a), w |-> InFlight(pass[a])]}
    BY <1>7, DropEffect
  <2>2. ASSUME a \in Controller, pass[a].pc \in WritePC
        PROVE  InFlight(pass[a]).key # NoKey => On(InFlight(pass[a]).key, obj[Me(a)].inst)
    <3>1. /\ InFlight(pass[a]).key = IF pass[a].pc = "release" THEN NoKey ELSE pass[a].key
          /\ pass[a].goal = "provision"
      BY <2>2, InFlightEffect
    <3>2. ProvisionRecord(a)
      BY <2>2, <3>1 DEF RecordInv, PassRecord, Provisioning, Busy, WritePC
    <3> QED
      BY <3>1, <3>2 DEF ProvisionRecord
  <2>3. \A w \in late' : LateRecord(w)'
    BY <2>1, <2>2 DEF LateRecord, RecordInv
  <2>4. \A b \in Controller \ {a} : PassRecord(b)'
    BY <1>0, <2>1, RecordFrame DEF RecordInv
  <2>5. a \in Controller => PassRecord(a)'
    BY <2>1 DEF PassRecord, Provisioning, Busy, Idle
  <2>6. \A g \in Holder : OwnRecord(g)'
    BY <2>1 DEF OwnRecord, RecordInv
  <2> QED
    BY <1>1, <2>3, <2>4, <2>5, <2>6 DEF RecordInv
<1>8. ASSUME NEW w \in late, LateCommit(w) PROVE RecordInv'
  <2>1. /\ pass' = pass /\ late' = late \ {w} /\ w.obj \in Holder
        /\ \A g \in Holder \ {w.obj} : obj'[g] = obj[g]
        /\ obj'[w.obj].key = w.w.key /\ obj'[w.obj].inst = obj[w.obj].inst
    BY <1>8, LateEffect
  <2>2. \A g \in Holder : OwnRecord(g)'
    BY <2>1 DEF OwnRecord, LateRecord, RecordInv
  <2>3. \A v \in late' : LateRecord(v)'
    BY <1>0, <2>1 DEF RecordInv, LateRecord
  <2>4. \A b \in Controller : PassRecord(b)'
    BY <1>0, <2>1, RecordFrame DEF RecordInv, LateInv
  <2> QED
    BY <1>1, <2>2, <2>3, <2>4 DEF RecordInv
<1>9. ASSUME NEW h \in Holder, Delete(h) \/ \E i \in Instance : Create(h, i) PROVE RecordInv'
  <2>1. /\ UNCHANGED <<pass, late>> /\ \A g \in Holder \ {h} : obj'[g] = obj[g]
        /\ \/ /\ obj[h].fin /\ obj[h].st = "live" /\ obj'[h].key = obj[h].key
              /\ obj'[h].inst = obj[h].inst
           \/ ~obj[h].fin /\ obj'[h].key = NoKey
    BY <1>9, UserEffect
  <2>2. \A g \in Holder : OwnRecord(g)'
    BY <2>1 DEF OwnRecord, RecordInv
  <2>3. \A v \in late' : LateRecord(v)'
    BY <1>0, <2>1 DEF RecordInv, LateRecord, LateInv
  <2>4. ASSUME NEW b \in Controller, Busy(b) PROVE PassRecord(b)'
    <3>1. Provisioning(b) => obj[Me(b)].fin
      BY DEF PinnedInv
    <3>2. Provisioning(b) \/ pass[b].goal = "drop"
      BY <2>4, Apart DEF Provisioning
    <3>3. pass[b].goal = "drop" => Me(b) # h
      <4>1. pass[b].goal = "drop" => obj[Me(b)].st = "deleting"
        BY <2>4 DEF RecordInv, PassRecord, DropRecord
      <4>2. obj[h].st # "deleting"
        BY <1>9 DEF Delete, Create
      <4> QED
        BY <4>1, <4>2
    <3>4. /\ obj'[Me(b)].key = obj[Me(b)].key /\ obj'[Me(b)].inst = obj[Me(b)].inst
          /\ pass[b].goal = "drop" => obj'[Me(b)].st = obj[Me(b)].st
      BY <1>0, <2>1, <2>4, <3>1, <3>2, <3>3
    <3> QED
      BY <2>1, <3>4, RecordFrame DEF RecordInv
  <2>5. \A b \in Controller : ~Busy(b) => PassRecord(b)'
    BY <2>1 DEF PassRecord, Provisioning, Busy
  <2> QED
    BY <1>1, <2>2, <2>3, <2>4, <2>5 DEF RecordInv
<1>10. CASE UNCHANGED <<obj, pass, late>>
  <2>1. \A b \in Controller : PassRecord(b)'
    BY <1>10, RecordFrame DEF RecordInv
  <2> QED
    BY <1>1, <1>2, <1>10, <2>1 DEF RecordInv
<1> QED
  BY <1>3, <1>4, <1>5, <1>6, <1>7, <1>8, <1>9, <1>10, Steps DEF WatchDelivers

\* h and what is at work on it: its status, its pass and its abandoned write.
Of(a, h) == Busy(a) /\ Me(a) = h
LateOf(h) == {w \in late : w.obj = h}
ControllerOf(a, h) == a \in Controller /\ h \in Holder /\ (h \in Claim <=> a = "claim")

Untouched(a, h) ==
  /\ obj'[h] = obj[h] /\ LateOf(h)' = LateOf(h)
  /\ Of(a, h)' <=> Of(a, h)
  /\ Of(a, h) => pass'[a] = pass[a]

\* A step of h's own pass that writes to no object.
Progress(a, h) ==
  /\ InnerStep(a) /\ Of(a, h) /\ obj' = obj /\ LateOf(h)' = LateOf(h)
  /\ Of(a, h)' => Rereads(a) \/ Allocates(a) \/ Settles(a)

\* The steps that touch h leave every other holder alone.
LEMMA HolderStep ==
  ASSUME SettledWrites, FreshCache, BaseInv, PinnedInv, LateInv, Next,
         NEW a, NEW h, ControllerOf(a, h)
  PROVE  \/ Untouched(a, h)
         \/ Progress(a, h)
         \/ Begin(a, h)
         \/ WriteStep(a) /\ Of(a, h)
         \/ Unfinalize(a) /\ Of(a, h)
         \/ DropPass(a) /\ Of(a, h)
         \/ \E w \in LateOf(h) : LateCommit(w)
         \/ Delete(h) \/ \E i \in Instance : Create(h, i)
<1> USE DEF Of, LateOf
<1>0. /\ a \in Controller /\ a \in Actor /\ h \in Holder /\ (h \in Claim <=> a = "claim")
      /\ \A b \in Controller : b \in Actor
      /\ \A b \in Controller : Busy(b) => Me(b) \in Holder /\ (Me(b) \in Claim <=> b = "claim")
      /\ \A b \in Controller : b # a => ~Of(b, h)
      /\ \A b \in Controller : Busy(b) <=> pass[b].pc # "idle"
      /\ \A b \in Controller : Busy(b)' <=> pass'[b].pc # "idle"
  BY Names, Apart DEF ControllerOf, Busy, Holder
<1>1. ASSUME obj'[h] = obj[h], late' = late, pass'[a] = pass[a] PROVE Untouched(a, h)
  BY <1>1 DEF Untouched, Busy, Me
<1>2. ASSUME NEW b \in Actor, InnerStep(b) PROVE Untouched(a, h) \/ Progress(a, h)
  <2>1. obj' = obj /\ late' = late /\ \A c \in Actor \ {b} : pass'[c] = pass[c]
    BY <1>2, InnerEffect
  <2>2. CASE b # a
    BY <1>0, <1>1, <2>1, <2>2
  <2>3. CASE b = a /\ Of(a, h)
    BY <1>0, <1>2, <2>1, <2>3, InnerMoves DEF Progress
  <2>4. CASE b = a /\ ~Of(a, h)
    <3>1. Of(a, h)' => Of(a, h)
      BY <1>0, <1>2, <2>4, InnerEffect DEF Me
    <3> QED
      BY <2>1, <2>4, <3>1 DEF Untouched
  <2> QED
    BY <2>2, <2>3, <2>4
<1>3. ASSUME NEW b \in Controller, NEW g \in Holder, Begin(b, g) PROVE Untouched(a, h) \/ Begin(a, h)
  <2>1. /\ (g \in Claim <=> b = "claim") /\ pass[b].pc = "idle" /\ pass'[b].obj = g
        /\ \A c \in Actor \ {b} : pass'[c] = pass[c]
        /\ late' = {w \in late : w.obj # g} /\ \A i \in Holder \ {g} : obj'[i] = obj[i]
    BY <1>3, BeginEffect
  <2>2. CASE g = h
    BY <1>0, <1>3, <2>1, <2>2, Names
  <2>3. CASE g # h
    <3>1. LateOf(h)' = LateOf(h) /\ obj'[h] = obj[h]
      BY <1>0, <2>1, <2>3
    <3>2. b = a => ~Of(a, h)' /\ ~Of(a, h)
      BY <1>0, <2>1, <2>3 DEF Me
    <3>3. b # a => pass'[a] = pass[a]
      BY <1>0, <2>1
    <3> QED
      BY <3>1, <3>2, <3>3 DEF Untouched, Busy, Me
  <2> QED
    BY <2>2, <2>3
<1>4. ASSUME NEW b \in Controller, WriteStep(b) PROVE Untouched(a, h) \/ (WriteStep(a) /\ Of(a, h))
  <2>1. /\ Provisioning(b) /\ late' = late /\ \A c \in Actor \ {b} : pass'[c] = pass[c]
        /\ \A g \in Holder \ {Me(b)} : obj'[g] = obj[g]
        /\ pass'[b].pc # "idle" => Me(b)' = Me(b)
    BY <1>4, WriteFields
  <2>2. CASE Of(b, h)
    BY <1>0, <1>4, <2>2
  <2>3. CASE ~Of(b, h)
    <3>1. obj'[h] = obj[h]
      BY <1>0, <2>1, <2>3 DEF Provisioning
    <3>2. b = a => ~Of(a, h)' /\ ~Of(a, h)
      BY <1>0, <2>1, <2>3 DEF Provisioning
    <3>3. b # a => pass'[a] = pass[a]
      BY <1>0, <2>1
    <3> QED
      BY <2>1, <3>1, <3>2, <3>3 DEF Untouched, Busy, Me
  <2> QED
    BY <2>2, <2>3
<1>5. ASSUME NEW b \in Controller, Unfinalize(b) PROVE Untouched(a, h) \/ (Unfinalize(a) /\ Of(a, h))
  <2>1. /\ Busy(b) /\ late' = late /\ \A c \in Actor \ {b} : pass'[c] = pass[c]
        /\ \A g \in Holder \ {Me(b)} : obj'[g] = obj[g] /\ pass'[b] = Idle
    BY <1>5, UnfinalizeEffect
  <2>2. CASE Of(b, h)
    BY <1>0, <1>5, <2>2
  <2>3. CASE ~Of(b, h)
    <3>1. obj'[h] = obj[h] /\ pass'[b] = Idle
      BY <1>0, <1>5, <2>1, <2>3, UnfinalizeEffect
    <3>2. b = a => ~Of(a, h)' /\ ~Of(a, h)
      BY <1>0, <2>3, <3>1 DEF Idle
    <3>3. b # a => pass'[a] = pass[a]
      BY <1>0, <2>1
    <3> QED
      BY <2>1, <3>1, <3>2, <3>3 DEF Untouched, Busy, Me
  <2> QED
    BY <2>2, <2>3
<1>6. ASSUME NEW b \in Actor, DropPass(b) PROVE Untouched(a, h) \/ (DropPass(a) /\ Of(a, h))
  <2>1. /\ obj' = obj /\ pass'[b] = Idle /\ \A c \in Actor \ {b} : pass'[c] = pass[c]
        /\ \/ late' = late
           \/ /\ b \in Controller /\ pass[b].pc \in WritePC
              /\ late' = late \cup {[obj |-> Me(b), w |-> InFlight(pass[b])]}
    BY <1>6, DropEffect
  <2>2. CASE b = a /\ Of(a, h)
    BY <1>6, <2>2
  <2>3. CASE ~(b = a /\ Of(a, h))
    <3>1. b \in Controller /\ pass[b].pc \in WritePC => Me(b) # h
      BY <1>0, <2>3 DEF WritePC
    <3>2. LateOf(h)' = LateOf(h)
      BY <2>1, <3>1
    <3>3. b = a => ~Of(a, h)' /\ ~Of(a, h)
      BY <1>0, <2>1, <2>3 DEF Idle
    <3>4. b # a => pass'[a] = pass[a]
      BY <1>0, <2>1
    <3> QED
      BY <2>1, <3>2, <3>3, <3>4 DEF Untouched, Busy, Me
  <2> QED
    BY <2>2, <2>3
<1>7. ASSUME NEW w \in late, LateCommit(w) PROVE Untouched(a, h) \/ (w \in LateOf(h))
  <2>1. /\ pass' = pass /\ late' = late \ {w} /\ \A g \in Holder \ {w.obj} : obj'[g] = obj[g]
    BY <1>7, LateEffect
  <2> QED
    BY <1>0, <2>1 DEF Untouched, Busy, Me
<1>8. ASSUME NEW g \in Holder, Delete(g) \/ \E i \in Instance : Create(g, i)
      PROVE  Untouched(a, h) \/ g = h
  <2>1. /\ pass' = pass /\ late' = late /\ \A i \in Holder \ {g} : obj'[i] = obj[i]
    BY <1>8, UserEffect
  <2> QED
    BY <1>0, <1>1, <2>1
<1>9. CASE UNCHANGED <<obj, pass, late>>
  BY <1>1, <1>9
<1> QED
  BY <1>2, <1>3, <1>4, <1>5, <1>6, <1>7, <1>8, <1>9, Steps DEF WatchDelivers

\* A collector that a returning claim takes by surprise may revoke its user.
Pins(k) == IF QuietGC THEN {k} ELSE {k, NoKey}

\* A claim that is ready has its ACL user on its number, and no pass or write
\* takes it for unfinished.
ReadyOf(c) ==
  /\ obj[c].ready => acl[c][obj[c].inst] \in Pins(obj[c].key)
  /\ Of("claim", c) /\ pass["claim"].goal = "provision" =>
       /\ obj[c].ready <=> pass["claim"].pc = "cancel"
       /\ pass["claim"].pc = "terminal" => acl[c][obj[c].inst] \in Pins(pass["claim"].key)
  /\ \A w \in LateOf(c) :
       /\ ~obj[c].ready
       /\ w.w.ready => acl[c][obj[c].inst] \in Pins(w.w.key)
ReadyInv == \A c \in Claim : ReadyOf(c)

\* What is collected is expired and its claim gone, or is no number that a claim is
\* re-attaching to.
CollectOf(c) ==
  pass[c].pc # "idle" =>
    IF pass[c].key # NoKey
    THEN obj[c].st = "absent" /\ snap[c].key = pass[c].key /\ snap[c].expired
    ELSE /\ obj[c].st # "deleting" /\ pass[c].pc = "delete"
         /\ On(snap[c].key, "persistent") => obj[c].ready \/ ~On(snap[c].key, obj[c].inst)
CollectInv == \A c \in Claim : CollectOf(c)

\* An object that is gone has neither pass nor abandoned write.
LEMMA GoneAlone ==
  ASSUME BaseInv, PinnedInv, LateInv, RecordInv, NEW a, NEW h, ControllerOf(a, h), ~obj[h].fin
  PROVE  ~Of(a, h) /\ LateOf(h) = {}
<1>1. a \in Controller
  BY DEF ControllerOf
<1>2. CASE Of(a, h)
  <2>1. pass[a].goal = "drop"
    BY <1>1, <1>2, Apart DEF PinnedInv, Of, Provisioning
  <2>2. obj[h].st = "deleting"
    BY <1>1, <1>2, <2>1 DEF RecordInv, PassRecord, DropRecord, Of
  <2> QED
    BY <2>2 DEF PinnedInv, ControllerOf
<1>3. LateOf(h) = {}
  BY DEF LateOf, LateInv
<1> QED
  BY <1>2, <1>3

\* A ready claim's ACL user stays on its number.
LEMMA ReadyStep ==
  ASSUME SettledWrites, FreshCache, BaseInv, PinnedInv, LateInv, RecordInv, ReadyInv,
         QuietGC => CollectInv, Next
  PROVE  ReadyInv'
<1> SUFFICES ASSUME NEW c \in Claim PROVE ReadyOf(c)'
  BY DEF ReadyInv
<1> DEFINE p == pass["claim"]
<1>0. /\ ReadyOf(c) /\ c \in Holder /\ ControllerOf("claim", c) /\ "claim" \in Actor
      /\ obj[c] \in ObjType /\ (obj[c].st = "absent" => obj[c] = NoObj)
      /\ (obj[c].st # "absent" => obj[c].inst \in Instance)
  BY Names DEF ReadyInv, ControllerOf, BaseInv, ObjOK, ObjectInv
<1>1. Of("claim", c) /\ p.goal = "provision" =>
        /\ p.inst = obj[c].inst /\ p.inst \in Instance
  BY <1>0 DEF PinnedInv, RecordInv, PassRecord, ProvisionRecord, Of, Provisioning, ControllerOf, NoObj
<1>2. LateOf(c) # {} => obj[c].inst \in Instance /\ ~Of("claim", c)
  BY <1>0 DEF LateInv, LateOf, NoObj, Of, ControllerOf
<1>3. obj[c].ready => obj[c].inst \in Instance
  BY <1>0 DEF NoObj
<1>4. CASE \A i \in Instance : acl'[c][i] = acl[c][i]
  <2>1. CASE Untouched("claim", c)
    BY <1>0, <1>1, <1>2, <1>3, <1>4, <2>1 DEF Untouched, ReadyOf, Of
  <2>2. CASE Progress("claim", c)
    <3>1. /\ obj' = obj /\ LateOf(c)' = LateOf(c) /\ Of("claim", c)
          /\ Of("claim", c)' => Rereads("claim") \/ Allocates("claim") \/ Settles("claim")
      BY <2>2 DEF Progress
    <3>2. LateOf(c) = {}
      BY <1>2, <3>1
    <3>3. SUFFICES ASSUME Of("claim", c)', pass'["claim"].goal = "provision"
                   PROVE  /\ ~obj[c].ready /\ pass'["claim"].pc # "cancel"
                          /\ pass'["claim"].pc = "terminal" => acl'[c][obj[c].inst] \in Pins(pass'["claim"].key)
      BY <1>0, <1>3, <1>4, <3>1, <3>2 DEF ReadyOf
    <3>4. p.goal = "provision"
      BY <3>1, <3>3 DEF Rereads, Allocates, Settles, Still, Along
    <3>5. pass'["claim"].pc # "cancel" /\ p.pc # "cancel"
      BY <3>1, <3>3 DEF Rereads, Allocates, Settles, AfterCheck, AfterFlush
    <3>6. ASSUME pass'["claim"].pc = "terminal" PROVE acl'[c][obj[c].inst] \in Pins(pass'["claim"].key)
      <4>1. p.pc = "setuser"
        BY <3>1, <3>3, <3>4, <3>6 DEF Rereads, Allocates, Settles, AfterCheck, AfterFlush
      <4>2. SetUser("claim")
        BY <2>2, <4>1, Names DEF Progress, InnerStep, SetUser, TakeLock, ListClaims, ListRetained,
           ListShared, FlusherStep, CheckClaims, CheckRetained, CheckShared, Flush, FlushFails,
           OwnSnapshot, CancelBeforeRelease, Cancel, FindSnapshot, TakeSnapshot, At
      <4>3. /\ acl' = [acl EXCEPT ![c][p.inst] = p.key] /\ p.inst = obj[c].inst /\ p.inst \in Instance
            /\ acl \in [Claim -> [Instance -> KeyOrNone]] /\ pass'["claim"].key = p.key
        BY <1>1, <3>1, <3>4, <4>1, <4>2, <3>3 DEF SetUser, Of, BaseInv, AclOK, Rereads, Allocates,
           Settles, Still, Me
      <4> QED
        BY <4>3 DEF Pins
    <3> QED
      BY <1>0, <3>1, <3>4, <3>5, <3>6 DEF ReadyOf
  <2>3. CASE Begin("claim", c)
    <3>1. /\ pass'["claim"].obj = c /\ late' = {w \in late : w.obj # c}
          /\ obj'[c].ready = obj[c].ready /\ obj'[c].inst = obj[c].inst /\ obj'[c].key = obj[c].key
      BY <1>0, <2>3, BeginEffect, Names
    <3>2. \/ pass'["claim"].goal = "drop"
          \/ pass'["claim"].pc = "lock" /\ ~obj[c].ready
      BY <1>0, <2>3, FreshBegin, Names
    <3>3. LateOf(c)' = {}
      BY <3>1 DEF LateOf
    <3> QED
      BY <1>0, <1>3, <1>4, <3>1, <3>2, <3>3 DEF ReadyOf
  <2>4. CASE WriteStep("claim") /\ Of("claim", c)
    <3>1. /\ Provisioning("claim") /\ late' = late /\ p.pc \in WritePC
          /\ obj'[c].inst = obj[c].inst
          /\ obj'[c].key = IF p.pc = "release" THEN NoKey ELSE p.key
          /\ obj'[c].ready <=> p.pc = "terminal"
          /\ pass'["claim"].pc # "idle" =>
               /\ \/ p.pc = "commit" /\ pass'["claim"].pc = "check_claims"
                  \/ p.pc = "terminal" /\ pass'["claim"].pc = "cancel"
      BY <2>4, WriteFields, Names DEF Of
    <3>2. LateOf(c)' = {}
      BY <1>2, <2>4, <3>1 DEF LateOf
    <3>3. p.pc = "terminal" => acl'[c][obj[c].inst] \in Pins(p.key)
      BY <1>0, <1>1, <1>4, <2>4, <3>1 DEF ReadyOf, Provisioning
    <3> QED
      BY <3>1, <3>2, <3>3 DEF ReadyOf, Of, Busy
  <2>5. CASE Unfinalize("claim") /\ Of("claim", c)
    <3>1. /\ late' = late /\ pass'["claim"] = Idle /\ (obj'[c] = obj[c] \/ obj'[c] = NoObj)
      BY <2>5, UnfinalizeEffect, Names DEF Of
    <3>2. LateOf(c)' = {} /\ ~Of("claim", c)'
      BY <1>2, <2>5, <3>1 DEF LateOf, Of, Busy, Idle
    <3> QED
      BY <1>0, <1>3, <1>4, <3>1, <3>2 DEF ReadyOf, NoObj
  <2>6. CASE DropPass("claim") /\ Of("claim", c)
    <3>1. /\ obj' = obj /\ pass'["claim"] = Idle
          /\ \/ late' = late
             \/ /\ p.pc \in WritePC
                /\ late' = late \cup {[obj |-> c, w |-> InFlight(p)]}
      BY <1>0, <2>6, DropEffect, Names DEF Of
    <3>2. ~Of("claim", c)' /\ LateOf(c) = {}
      BY <1>2, <2>6, <3>1 DEF Of, Busy, Idle
    <3>3. ASSUME NEW w \in LateOf(c)' PROVE ~obj[c].ready /\ (w.w.ready => acl'[c][obj[c].inst] \in Pins(w.w.key))
      <4>1. p.pc \in WritePC /\ w = [obj |-> c, w |-> InFlight(p)]
        BY <3>1, <3>2, <3>3 DEF LateOf
      <4>2. /\ p.goal = "provision" /\ (InFlight(p).ready <=> p.pc = "terminal")
            /\ InFlight(p).key = IF p.pc = "release" THEN NoKey ELSE p.key
        BY <4>1, InFlightEffect, Names
      <4> QED
        BY <1>0, <1>1, <1>4, <2>6, <4>1, <4>2 DEF ReadyOf, WritePC
    <3> QED
      BY <1>0, <1>3, <1>4, <3>1, <3>2, <3>3 DEF ReadyOf
  <2>7. ASSUME NEW w \in LateOf(c), LateCommit(w) PROVE ReadyOf(c)'
    <3>1. /\ pass' = pass /\ late' = late \ {w} /\ obj'[c].inst = obj[c].inst
          /\ obj'[c].key = w.w.key /\ obj'[c].ready = w.w.ready
      BY <2>7, LateEffect DEF LateOf
    <3>2. LateOf(c)' = {}
      BY <2>7, <3>1 DEF LateOf, LateInv
    <3>3. ~Of("claim", c)'
      BY <1>2, <2>7, <3>1 DEF Of, Busy, Me
    <3> QED
      BY <1>0, <1>2, <1>4, <2>7, <3>1, <3>2, <3>3 DEF ReadyOf
  <2>8. CASE Delete(c) \/ \E i \in Instance : Create(c, i)
    <3>1. /\ UNCHANGED <<pass, late>>
          /\ \/ /\ obj'[c].key = obj[c].key /\ obj'[c].inst = obj[c].inst /\ obj'[c].ready = obj[c].ready
             \/ ~obj[c].fin /\ ~obj'[c].ready
      BY <1>0, <2>8, UserEffect
    <3>2. LateOf(c)' = LateOf(c) /\ (Of("claim", c)' <=> Of("claim", c))
      BY <3>1 DEF LateOf, Of, Busy, Me
    <3> QED
      BY <1>0, <1>1, <1>2, <1>3, <1>4, <3>1, <3>2, GoneAlone DEF ReadyOf
  <2> QED
    BY <1>0, <2>1, <2>2, <2>3, <2>4, <2>5, <2>6, <2>7, <2>8, HolderStep
<1>5. CASE DelUser(c)
  <2>1. /\ pass[c].pc = "deluser" /\ obj' = obj /\ late' = late /\ pass' = [pass EXCEPT ![c].pc = "delete"]
        /\ acl' = [acl EXCEPT ![pass[c].obj][pass[c].key[1]] = NoKey]
    BY <1>5 DEF DelUser, At, Go, Me
  <2>2. /\ pass'["claim"] = p /\ LateOf(c)' = LateOf(c) /\ (Of("claim", c)' <=> Of("claim", c))
    BY <2>1, Names DEF Of, LateOf, Busy, Me, BaseInv, PassOK
  <2>3. CASE QuietGC
    <3>1. obj[c].st = "absent"
      BY <2>1, <2>3 DEF CollectInv, CollectOf
    <3>2. ~obj[c].fin /\ ~obj[c].ready
      BY <1>0, <3>1 DEF NoObj
    <3>3. ~Of("claim", c) /\ LateOf(c) = {}
      BY <1>0, <3>2, GoneAlone
    <3> QED
      BY <2>1, <2>2, <3>2, <3>3 DEF ReadyOf
  <2>4. CASE ~QuietGC
    <3>1. acl \in [Claim -> [Instance -> KeyOrNone]] /\ pass[c].obj = c
      BY <2>1, Names DEF BaseInv, AclOK, PassOK, ShapeInv, Fits, ShapeOf, Idle
    <3>2. \A i \in Instance : acl'[c][i] \in {acl[c][i], NoKey}
      BY <2>1, <3>1
    <3> QED
      BY <1>0, <1>1, <1>2, <1>3, <2>1, <2>2, <2>4, <3>2 DEF ReadyOf, Pins
  <2> QED
    BY <2>3, <2>4
<1>6. CASE SetUser("claim") /\ Me("claim") = c
  <2>1. /\ p.pc = "setuser" /\ obj' = obj /\ late' = late /\ pass' = [pass EXCEPT !["claim"].pc = "terminal"]
        /\ acl' = [acl EXCEPT ![c][p.inst] = p.key] /\ p \in PassType
    BY <1>0, <1>6 DEF SetUser, At, Go, BaseInv, PassOK
  <2>2. Of("claim", c) /\ p.goal = "provision"
    BY <1>0, <1>6, <2>1, Names DEF Of, Busy, BaseInv, PassOK, ShapeInv, Fits, ShapeOf, Idle, ClaimDrop
  <2>3. LateOf(c)' = {} /\ ~obj[c].ready
    BY <1>0, <1>2, <2>1, <2>2 DEF LateOf, ReadyOf
  <2>4. acl'[c][obj[c].inst] \in Pins(p.key)
    BY <1>1, <2>1, <2>2 DEF BaseInv, AclOK, Pins
  <2>5. pass'["claim"].pc = "terminal" /\ pass'["claim"].key = p.key
    BY <1>0, <2>1 DEF BaseInv, PassOK, PassType
  <2> QED
    BY <2>1, <2>3, <2>4, <2>5 DEF ReadyOf
<1> QED
  BY <1>4, <1>5, <1>6, AclEffect

\* The same of a shared database: what takes its number for unfinished is right.
UnfinishedOf(s) ==
  /\ obj[s].ready => Provisioned(s)
  /\ Of("shared", s) /\ pass["shared"].goal = "provision" =>
       /\ pass["shared"].pc \in Checking \cup {"flush", "release"} => obj[s].unfin
       /\ pass["shared"].pc \in Allocating => obj[s].key = NoKey
       /\ pass["shared"].pc = "refuse" /\ pass["shared"].key = NoKey => ~Provisioned(s)
  /\ \A w \in LateOf(s) :
       /\ w.w.ready => Provisions(w)
       /\ ~Provisions(w) => ~Provisioned(s)
UnfinishedInv == \A s \in Shared : UnfinishedOf(s)

\* A shared database in use is not taken for unfinished.
LEMMA UnfinishedStep ==
  ASSUME SettledWrites, FreshCache, BaseInv, PinnedInv, LateInv, RecordInv, UnfinishedInv, Next
  PROVE  UnfinishedInv'
<1> SUFFICES ASSUME NEW s \in Shared PROVE UnfinishedOf(s)'
  BY DEF UnfinishedInv
<1> DEFINE p == pass["shared"]
<1> DEFINE q == pass'["shared"]
<1>0. /\ UnfinishedOf(s) /\ s \in Holder /\ s \notin Claim /\ ControllerOf("shared", s) /\ "shared" \in Actor
      /\ "shared" \in Controller /\ p \in PassType
  BY Names DEF UnfinishedInv, ControllerOf, BaseInv, PassOK
<1>1. /\ Provisioned(s) <=> obj[s].key # NoKey /\ ~obj[s].unfin
      /\ Provisioned(s)' <=> obj'[s].key # NoKey /\ ~obj'[s].unfin
      /\ \A w \in LateOf(s) : w.obj = s /\ (Provisions(w) <=> w.w.key # NoKey /\ ~w.w.unfin)
      /\ \A w \in LateOf(s)' : w.obj = s /\ (Provisions(w) <=> w.w.key # NoKey /\ ~w.w.unfin)
  BY <1>0 DEF Provisioned, Provisions, LateOf
<1>2. LateOf(s) # {} => ~Of("shared", s)
  BY <1>0 DEF LateInv, LateOf, Of
<1>3. CASE Untouched("shared", s)
  BY <1>0, <1>1, <1>3 DEF Untouched, UnfinishedOf, Of
<1>4. CASE Progress("shared", s)
  <2>1. /\ obj' = obj /\ LateOf(s)' = LateOf(s) /\ Of("shared", s)
        /\ Of("shared", s)' => Rereads("shared") \/ Allocates("shared") \/ Settles("shared")
    BY <1>4 DEF Progress
  <2>2. LateOf(s) = {}
    BY <1>2, <2>1
  <2>3. SUFFICES ASSUME Of("shared", s)', q.goal = "provision"
                 PROVE  /\ q.pc \in Checking \cup {"flush", "release"} => obj[s].unfin
                        /\ q.pc \in Allocating => obj[s].key = NoKey
                        /\ q.pc = "refuse" /\ q.key = NoKey => ~Provisioned(s)
    BY <1>0, <1>1, <2>1, <2>2 DEF UnfinishedOf
  <2>4. p.goal = "provision"
    BY <2>1, <2>3 DEF Rereads, Allocates, Settles, Still, Along
  <2>5. CASE Rereads("shared")
    <3>1. p.pc \in Checking \cup {"flush", "release"} /\ q.pc \notin Allocating /\ q.pc # "refuse"
      BY <2>4, <2>5 DEF Rereads, Checking, Allocating, AfterCheck, AfterFlush
    <3> QED
      BY <1>0, <2>1, <2>4, <3>1 DEF UnfinishedOf
  <2>6. CASE Allocates("shared")
    <3>1. p.pc \in Allocating /\ q.pc \notin Checking \cup {"flush", "release"}
      BY <2>6 DEF Allocates, Allocating, Checking
    <3> QED
      BY <1>0, <1>1, <2>1, <2>4, <3>1 DEF UnfinishedOf
  <2> QED
    BY <2>1, <2>3, <2>5, <2>6 DEF Settles
<1>5. CASE Begin("shared", s)
  <2>1. /\ q.obj = s /\ late' = {w \in late : w.obj # s}
        /\ obj'[s].ready = obj[s].ready /\ obj'[s].unfin = obj[s].unfin /\ obj'[s].key = obj[s].key
    BY <1>0, <1>5, BeginEffect
  <2>2. LateOf(s)' = {}
    BY <2>1 DEF LateOf
  <2>3. OwnKey(obj[s]) = obj[s].key
    BY <1>0, OwnKeyIs DEF RecordInv
  <2>4. \/ q.goal = "drop"
        \/ q.pc = "lock" /\ q.key = obj[s].key
        \/ q.pc = "check_claims" /\ obj[s].unfin
        \/ q.pc = "terminal"
        \/ q.pc = "refuse" /\ q.key = BackingOf(obj[s])
    BY <1>0, <1>5, <2>3, FreshBegin
  <2>5. ASSUME q.pc = "lock", Of("shared", s)', q.goal = "provision" PROVE obj[s].key = NoKey
    <3>1. Fits("shared", q)
      BY <1>0, BaseStep DEF BaseInv, PassOK, ShapeInv
    <3>2. q.key = NoKey
      BY <2>5, <3>1, Names DEF Fits, ShapeOf, Idle, Allocating
    <3> QED
      BY <2>4, <2>5, <3>2 DEF Allocating
  <2> QED
    BY <1>0, <1>1, <2>1, <2>2, <2>4, <2>5 DEF UnfinishedOf, BackingOf, Checking, Allocating
<1>6. CASE WriteStep("shared") /\ Of("shared", s)
  <2>1. /\ Provisioning("shared") /\ late' = late /\ p.pc \in WritePC
        /\ obj'[s].key = IF p.pc = "release" THEN NoKey ELSE p.key
        /\ obj'[s].ready <=> p.pc = "terminal"
        /\ obj'[s].unfin <=> p.pc \in {"commit", "release"}
        /\ q.pc # "idle" => /\ \/ p.pc = "commit" /\ q.pc = "check_claims"
                               \/ p.pc = "terminal" /\ q.pc = "cancel"
    BY <1>0, <1>6, WriteFields DEF Of
  <2>2. LateOf(s)' = {}
    BY <1>2, <1>6, <2>1 DEF LateOf
  <2>3. p.pc = "terminal" => p.key # NoKey
    BY <1>0, <2>1, Names DEF BaseInv, PassOK, ShapeInv, Fits, Committed, Provisioning
  <2> QED
    BY <1>1, <2>1, <2>2, <2>3 DEF UnfinishedOf, Of, Busy, Checking, Allocating
<1>7. CASE Unfinalize("shared") /\ Of("shared", s)
  <2>1. late' = late /\ q = Idle /\ (obj'[s] = obj[s] \/ obj'[s] = NoObj)
    BY <1>0, <1>7, UnfinalizeEffect DEF Of
  <2>2. LateOf(s)' = {} /\ ~Of("shared", s)'
    BY <1>2, <1>7, <2>1 DEF LateOf, Of, Busy, Idle
  <2> QED
    BY <1>0, <1>1, <2>1, <2>2 DEF UnfinishedOf, NoObj
<1>8. CASE DropPass("shared") /\ Of("shared", s)
  <2>1. /\ obj' = obj /\ q = Idle
        /\ late' = late \/ (p.pc \in WritePC /\ late' = late \cup {[obj |-> s, w |-> InFlight(p)]})
    BY <1>0, <1>8, DropEffect DEF Of
  <2>2. ~Of("shared", s)' /\ LateOf(s) = {}
    BY <1>2, <1>8, <2>1 DEF Of, Busy, Idle
  <2>3. ASSUME NEW w \in LateOf(s)'
        PROVE  (w.w.ready => Provisions(w)) /\ (~Provisions(w) => ~Provisioned(s))
    <3>1. p.pc \in WritePC /\ w = [obj |-> s, w |-> InFlight(p)]
      BY <2>1, <2>2, <2>3 DEF LateOf
    <3>2. /\ p.goal = "provision" /\ (InFlight(p).ready <=> p.pc = "terminal") /\ p.pc # "keep"
          /\ InFlight(p).key = IF p.pc = "release" THEN NoKey ELSE p.key
          /\ InFlight(p).unfin <=> p.pc \in {"commit", "release"}
      BY <1>0, <3>1, InFlightEffect
    <3>3. p.pc = "terminal" => p.key # NoKey
      BY <1>0, <3>2, Names DEF BaseInv, PassOK, ShapeInv, Fits, Committed
    <3> QED
      BY <1>0, <1>1, <1>8, <2>3, <3>1, <3>2, <3>3 DEF UnfinishedOf, WritePC, Allocating
  <2> QED
    BY <1>0, <1>1, <2>1, <2>2, <2>3 DEF UnfinishedOf
<1>9. ASSUME NEW w \in LateOf(s), LateCommit(w) PROVE UnfinishedOf(s)'
  <2>1. /\ pass' = pass /\ late' = late \ {w}
        /\ obj'[s].key = w.w.key /\ obj'[s].ready = w.w.ready /\ obj'[s].unfin = w.w.unfin
    BY <1>9, LateEffect DEF LateOf
  <2>2. LateOf(s)' = {}
    BY <1>9, <2>1 DEF LateOf, LateInv
  <2>3. ~Of("shared", s)'
    BY <1>2, <1>9, <2>1 DEF Of, Busy, Me
  <2> QED
    BY <1>0, <1>1, <1>9, <2>1, <2>2, <2>3 DEF UnfinishedOf
<1>10. CASE Delete(s) \/ \E i \in Instance : Create(s, i)
  <2>1. /\ UNCHANGED <<pass, late>>
        /\ \/ /\ obj'[s].key = obj[s].key /\ obj'[s].unfin = obj[s].unfin /\ obj'[s].ready = obj[s].ready
           \/ ~obj[s].fin /\ ~obj'[s].ready
    BY <1>0, <1>10, UserEffect
  <2>2. LateOf(s)' = LateOf(s) /\ (Of("shared", s)' <=> Of("shared", s))
    BY <2>1 DEF LateOf, Of, Busy, Me
  <2> QED
    BY <1>0, <1>1, <2>1, <2>2, GoneAlone DEF UnfinishedOf
<1> QED
  BY <1>0, <1>3, <1>4, <1>5, <1>6, <1>7, <1>8, <1>9, <1>10, HolderStep

\* A claim's snapshot on the instance of its class names the number the claim
\* holds, its pass is on or its abandoned write sends; a pass that re-attaches to
\* a persistent snapshot never flushes and still has the snapshot.
Deciding == {"list_shared", "commit"} \cup Committed
SnapshotOf(c) ==
  /\ obj[c].key # NoKey /\ On(snap[c].key, obj[c].inst) => obj[c].key = snap[c].key
  /\ \A w \in LateOf(c) :
       w.w.key # NoKey /\ On(snap[c].key, obj[c].inst) => w.w.key = snap[c].key
  /\ Of("claim", c) /\ pass["claim"].goal = "provision" /\ pass["claim"].pc \in Deciding =>
       LET p == pass["claim"] IN
       /\ p.reatt => snap[c].key \in {NoKey, p.key}
       /\ ~p.reatt => ~On(snap[c].key, p.inst)
       /\ p.pc # "list_shared" => (p.skip <=> p.reatt /\ p.inst = "persistent")
       /\ p.reatt /\ p.inst = "persistent" => snap[c].key = p.key
       /\ p.pc \in {"flush", "cancel_before_release"} => ~p.skip
       /\ p.pc = "cancel_before_release" => p.reatt
SnapshotInv == \A c \in Claim : SnapshotOf(c)

\* What a pass of a claim takes its snapshot for.
LEMMA SnapshotStep ==
  ASSUME SettledWrites, FreshCache, BaseInv, PinnedInv, LateInv, RecordInv, ReadyInv, CollectInv,
         SnapshotInv, Next
  PROVE  SnapshotInv'
<1> SUFFICES ASSUME NEW c \in Claim PROVE SnapshotOf(c)'
  BY DEF SnapshotInv
<1> DEFINE p == pass["claim"]
<1> DEFINE q == pass'["claim"]
<1>0. /\ SnapshotOf(c) /\ ReadyOf(c) /\ CollectOf(c) /\ c \in Holder /\ ControllerOf("claim", c)
      /\ "claim" \in Actor /\ "claim" \in Controller /\ p \in PassType /\ pass \in [Actor -> PassType]
      /\ snap[c] \in [there : BOOLEAN, key : KeyOrNone, expired : BOOLEAN]
      /\ (obj[c].st = "absent" => ~obj[c].fin)
      /\ "cancel" \notin Deciding
  BY Names DEF SnapshotInv, ReadyInv, CollectInv, ControllerOf, BaseInv, SnapOK, PassOK, ObjOK, ObjectInv,
     NoObj, Deciding, Committed, Checking
<1>1. Of("claim", c) /\ p.goal = "provision" => p.inst = obj[c].inst /\ obj[c].fin
  BY <1>0 DEF PinnedInv, RecordInv, PassRecord, ProvisionRecord, Of, Provisioning, ControllerOf
<1>2. LateOf(c) # {} => ~Of("claim", c)
  BY <1>0 DEF LateInv, LateOf, Of
<1>3. CASE snap'[c].key = snap[c].key
  <2>1. CASE Untouched("claim", c)
    BY <1>0, <1>3, <2>1 DEF Untouched, SnapshotOf, Of
  <2>2. CASE Progress("claim", c)
    <3>1. /\ obj' = obj /\ LateOf(c)' = LateOf(c) /\ Of("claim", c)
          /\ Of("claim", c)' => Rereads("claim") \/ Allocates("claim") \/ Settles("claim")
      BY <2>2 DEF Progress
    <3>2. LateOf(c) = {}
      BY <1>2, <3>1
    <3>3. SUFFICES ASSUME Of("claim", c)', q.goal = "provision", q.pc \in Deciding
                   PROVE  /\ q.reatt => snap[c].key \in {NoKey, q.key}
                          /\ ~q.reatt => ~On(snap[c].key, q.inst)
                          /\ q.pc # "list_shared" => (q.skip <=> q.reatt /\ q.inst = "persistent")
                          /\ q.reatt /\ q.inst = "persistent" => snap[c].key = q.key
                          /\ q.pc \in {"flush", "cancel_before_release"} => ~q.skip
                          /\ q.pc = "cancel_before_release" => q.reatt
      BY <1>0, <1>3, <3>1, <3>2 DEF SnapshotOf
    <3>4. p.goal = "provision" /\ Me("claim") = c
      BY <3>1, <3>3 DEF Rereads, Allocates, Settles, Still, Along, Of
    <3>5. CASE Rereads("claim") \/ Settles("claim")
      <4>1. p.pc \in Deciding /\ Still("claim") /\ q.pc # "list_shared" /\ p.pc # "list_shared"
        BY <3>3, <3>5 DEF Rereads, Settles, Deciding, Committed, Checking, AfterCheck, AfterFlush
      <4>2. /\ q.pc \in {"flush", "cancel_before_release"} => ~p.skip
            /\ q.pc = "cancel_before_release" => p.reatt
        BY <3>4, <3>5 DEF Rereads, Settles, AfterCheck, AfterFlush
      <4> QED
        BY <1>0, <3>1, <3>4, <4>1, <4>2 DEF SnapshotOf, Still, Along
    <3>6. CASE Allocates("claim")
      <4>1. /\ p.pc \in {"lock", "own_snapshot"} => obj[c].key = p.key
            /\ p.pc \in Allocating \ {"commit"} => ~p.skip
        BY <1>0, <3>1, <3>4 DEF RecordInv, PassRecord, ProvisionRecord, Of, Provisioning
      <4>2. CASE p.pc = "list_retained"
        <5>1. snap[c].key \notin {p.inst} \X Dbnum => ~On(snap[c].key, p.inst)
          BY <1>0 DEF On, KeyOrNone, Key
        <5> QED
          BY <3>4, <3>6, <4>2, <5>1 DEF Allocates, Along
      <4>3. CASE p.pc = "own_snapshot"
        <5>1. p.key # NoKey /\ obj[c].key = p.key
          BY <1>0, <3>4, <4>1, <4>3, Names DEF BaseInv, PassOK, ShapeInv, Fits
        <5>2. q.reatt <=> snap[c].key = p.key
          BY <3>4, <3>6, <4>3 DEF Allocates
        <5>3. ~q.reatt => ~On(snap[c].key, p.inst)
          BY <1>0, <1>1, <3>1, <3>4, <5>1, <5>2 DEF SnapshotOf
        <5> QED
          BY <3>4, <3>6, <4>3, <5>2, <5>3 DEF Allocates, Along
      <4>4. CASE p.pc = "list_shared"
        <5>1. p.pc \in Deciding /\ ~p.skip
          BY <4>1, <4>4 DEF Deciding, Allocating
        <5>2. /\ p.reatt => snap[c].key \in {NoKey, p.key}
              /\ ~p.reatt => ~On(snap[c].key, p.inst)
              /\ p.reatt /\ p.inst = "persistent" => snap[c].key = p.key
          BY <1>0, <3>1, <3>4, <5>1 DEF SnapshotOf
        <5>3. /\ q.pc = "commit" /\ q.inst = p.inst /\ q.reatt = p.reatt /\ (p.reatt => q.key = p.key)
              /\ q.skip = (IF p.reatt THEN p.inst = "persistent" ELSE p.skip)
          BY <3>6, <4>4, <3>3 DEF Allocates, Along, Deciding, Committed, Checking
        <5> QED
          BY <1>0, <5>1, <5>2, <5>3 DEF PassType
      <4>5. CASE p.pc \in {"lock", "list_claims"}
        BY <3>3, <3>6, <4>5 DEF Allocates, Deciding, Committed, Checking
      <4> QED
        BY <3>6, <4>2, <4>3, <4>4, <4>5 DEF Allocates
    <3> QED
      BY <3>1, <3>3, <3>5, <3>6
  <2>3. CASE Begin("claim", c)
    <3>1. /\ q.obj = c /\ late' = {w \in late : w.obj # c}
          /\ obj'[c].inst = obj[c].inst /\ obj'[c].key = obj[c].key
      BY <1>0, <2>3, BeginEffect
    <3>2. q.goal = "drop" \/ q.pc = "lock"
      BY <1>0, <2>3, FreshBegin
    <3>3. LateOf(c)' = {}
      BY <3>1 DEF LateOf
    <3> QED
      BY <1>0, <1>3, <3>1, <3>2, <3>3 DEF SnapshotOf, Deciding, Committed, Checking
  <2>4. CASE WriteStep("claim") /\ Of("claim", c)
    <3>1. /\ Provisioning("claim") /\ late' = late /\ p.pc \in WritePC
          /\ obj'[c].inst = obj[c].inst
          /\ obj'[c].key = IF p.pc = "release" THEN NoKey ELSE p.key
      BY <1>0, <2>4, WriteFields DEF Of
    <3>2. LateOf(c)' = {}
      BY <1>2, <2>4, <3>1 DEF LateOf
    <3>3. p.pc \in Deciding /\ p.goal = "provision"
      BY <1>0, <3>1, InFlightEffect DEF WritePC, Deciding, Committed, Checking, Provisioning
    <3>4. /\ p.reatt => snap[c].key \in {NoKey, p.key}
          /\ ~p.reatt => ~On(snap[c].key, p.inst)
      BY <1>0, <2>4, <3>3 DEF SnapshotOf
    <3>5. obj'[c].key # NoKey /\ On(snap'[c].key, obj'[c].inst) => obj'[c].key = snap'[c].key
      BY <1>1, <1>3, <2>4, <3>1, <3>3, <3>4 DEF On
    <3>6. \/ q = Idle
          \/ p.pc = "commit" /\ q = [p EXCEPT !.pc = "check_claims"]
          \/ p.pc = "terminal" /\ q = [p EXCEPT !.pc = "cancel"]
      BY <1>0, <2>4, WriteEffect
    <3>7. CASE q = Idle
      BY <3>2, <3>5, <3>7 DEF SnapshotOf, Of, Busy, Idle
    <3>8. CASE p.pc = "terminal" /\ q = [p EXCEPT !.pc = "cancel"]
      BY <1>0, <3>2, <3>5, <3>8 DEF SnapshotOf, PassType
    <3>9. CASE p.pc = "commit" /\ q = [p EXCEPT !.pc = "check_claims"]
      <4>1. /\ q.pc = "check_claims" /\ q.reatt = p.reatt /\ q.skip = p.skip /\ q.key = p.key
            /\ q.inst = p.inst
        BY <1>0, <3>9 DEF PassType
      <4> QED
        BY <1>0, <1>3, <2>4, <3>2, <3>3, <3>5, <3>9, <4>1 DEF SnapshotOf
    <3> QED
      BY <3>6, <3>7, <3>8, <3>9
  <2>5. CASE Unfinalize("claim") /\ Of("claim", c)
    <3>1. late' = late /\ q = Idle /\ (obj'[c] = obj[c] \/ obj'[c] = NoObj)
      BY <1>0, <2>5, UnfinalizeEffect DEF Of
    <3>2. LateOf(c)' = {} /\ ~Of("claim", c)'
      BY <1>2, <2>5, <3>1 DEF LateOf, Of, Busy, Idle
    <3> QED
      BY <1>0, <1>3, <3>1, <3>2 DEF SnapshotOf, NoObj
  <2>6. CASE DropPass("claim") /\ Of("claim", c)
    <3>1. /\ obj' = obj /\ q = Idle
          /\ late' = late \/ (p.pc \in WritePC /\ late' = late \cup {[obj |-> c, w |-> InFlight(p)]})
      BY <1>0, <2>6, DropEffect DEF Of
    <3>2. ~Of("claim", c)' /\ LateOf(c) = {}
      BY <1>2, <2>6, <3>1 DEF Of, Busy, Idle
    <3>3. ASSUME NEW w \in LateOf(c)', w.w.key # NoKey, On(snap[c].key, obj[c].inst)
          PROVE  w.w.key = snap[c].key
      <4>1. p.pc \in WritePC /\ w = [obj |-> c, w |-> InFlight(p)]
        BY <3>1, <3>2, <3>3 DEF LateOf
      <4>2. /\ p.goal = "provision" /\ p.pc # "refuse"
            /\ InFlight(p).key = IF p.pc = "release" THEN NoKey ELSE p.key
        BY <1>0, <4>1, InFlightEffect
      <4>3. p.pc \in Deciding
        BY <4>1, <4>2 DEF WritePC, Deciding, Committed, Checking
      <4> QED
        BY <1>0, <1>1, <2>6, <3>3, <4>1, <4>2, <4>3 DEF SnapshotOf, On
    <3> QED
      BY <1>0, <1>3, <3>1, <3>2, <3>3 DEF SnapshotOf
  <2>7. ASSUME NEW w \in LateOf(c), LateCommit(w) PROVE SnapshotOf(c)'
    <3>1. /\ pass' = pass /\ late' = late \ {w} /\ obj'[c].inst = obj[c].inst /\ obj'[c].key = w.w.key
      BY <2>7, LateEffect DEF LateOf
    <3>2. LateOf(c)' = {}
      BY <2>7, <3>1 DEF LateOf, LateInv
    <3>3. ~Of("claim", c)'
      BY <1>2, <2>7, <3>1 DEF Of, Busy, Me
    <3> QED
      BY <1>0, <1>3, <2>7, <3>1, <3>2, <3>3 DEF SnapshotOf
  <2>8. CASE Delete(c) \/ \E i \in Instance : Create(c, i)
    <3>1. /\ UNCHANGED <<pass, late>>
          /\ \/ obj'[c].key = obj[c].key /\ obj'[c].inst = obj[c].inst
             \/ ~obj[c].fin /\ obj'[c].key = NoKey
      BY <1>0, <2>8, UserEffect
    <3>2. LateOf(c)' = LateOf(c) /\ (Of("claim", c)' <=> Of("claim", c))
      BY <3>1 DEF LateOf, Of, Busy, Me
    <3> QED
      BY <1>0, <1>3, <3>1, <3>2, GoneAlone DEF SnapshotOf
  <2> QED
    BY <1>0, <2>1, <2>2, <2>3, <2>4, <2>5, <2>6, <2>7, <2>8, HolderStep
<1>4. CASE snap'[c] = NoSnap /\ Me("claim") = c /\ (Cancel("claim") \/ CancelBeforeRelease("claim"))
  <2>1. ~On(snap'[c].key, obj'[c].inst) /\ snap'[c].key = NoKey
    BY <1>4 DEF On, NoSnap
  <2>2. CASE Cancel("claim")
    <3>1. ~Of("claim", c)'
      BY <1>0, <2>2 DEF Cancel, End, Idle, Of, Busy
    <3> QED
      BY <2>1, <3>1 DEF SnapshotOf
  <2>3. CASE CancelBeforeRelease("claim")
    <3>1. /\ p.pc = "cancel_before_release" /\ Of("claim", c) /\ q.pc = "release" /\ q.reatt = p.reatt
          /\ q.skip = p.skip /\ q.inst = p.inst /\ q.goal = p.goal
      BY <1>0, <1>4, <2>3 DEF CancelBeforeRelease, At, Go, Of, Busy, PassType
    <3>2. p.goal = "provision" => ~p.skip /\ (p.skip <=> p.reatt /\ p.inst = "persistent")
      BY <1>0, <3>1 DEF SnapshotOf, Deciding, Committed
    <3> QED
      BY <1>0, <2>1, <3>1, <3>2 DEF SnapshotOf, On
  <2> QED
    BY <1>4, <2>2, <2>3
<1>5. CASE snap'[c] = NoSnap /\ DeleteSnapshot(c)
  <2>1. ~On(snap'[c].key, obj'[c].inst) /\ snap'[c].key = NoKey
    BY <1>5 DEF On, NoSnap
  <2>2. /\ obj' = obj /\ late' = late /\ pass[c].pc = "delete" /\ q = p /\ c # "claim"
    BY <1>0, <1>5, Names DEF DeleteSnapshot, At, End
  <2>3. SUFFICES ASSUME Of("claim", c), p.goal = "provision", p.pc \in Deciding,
                        p.reatt, p.inst = "persistent"
                 PROVE  FALSE
    BY <1>0, <2>1, <2>2 DEF SnapshotOf, On, Of, Busy, Me
  <2>4. snap[c].key = p.key /\ p.key # NoKey /\ On(p.key, "persistent") /\ obj[c].inst = "persistent"
    <3>1. p.key \in Key
      BY <1>0, <2>3 DEF BaseInv, PassOK, ShapeInv, Fits, Deciding
    <3>2. On(p.key, p.inst)
      BY <1>0, <2>3, <3>1, Names DEF RecordInv, PassRecord, ProvisionRecord, Of, Provisioning
    <3> QED
      BY <1>0, <1>1, <2>3, <3>1, <3>2, Names DEF SnapshotOf
  <2>5. obj[c].st # "absent"
    BY <1>0, <1>1, <2>3
  <2>6. obj[c].ready
    BY <1>0, <2>2, <2>4, <2>5 DEF CollectOf
  <2> QED
    BY <1>0, <2>3, <2>6 DEF ReadyOf
<1>6. CASE /\ TakeSnapshot("claim") /\ Me("claim") = c
           /\ snap'[c] = [there |-> TRUE, key |-> p.key, expired |-> FALSE]
  <2>1. /\ p.pc = "snapshot" /\ q.pc = "unfinalize" /\ obj' = obj /\ late' = late /\ Of("claim", c)
    BY <1>0, <1>6 DEF TakeSnapshot, At, Go, Of, Busy
  <2>2. p.goal = "drop"
    BY <1>0, <2>1, Names DEF BaseInv, PassOK, ShapeInv, Fits, ShapeOf, Idle, ClaimProvision, Allocating, Checking
  <2>3. obj[c].key = p.key
    BY <1>0, <2>1, <2>2 DEF RecordInv, PassRecord, DropRecord, Of
  <2>4. LateOf(c)' = {}
    BY <1>2, <2>1 DEF LateOf
  <2> QED
    BY <1>6, <2>1, <2>3, <2>4 DEF SnapshotOf, Deciding, Committed, Checking
<1>7. CASE snap'[c] = snap[c] \/ snap'[c] = [snap[c] EXCEPT !.expired = TRUE]
  BY <1>0, <1>3, <1>7
<1> QED
  BY <1>4, <1>5, <1>6, <1>7, SnapEffect

\* How the collector of a snapshot moves.
LEMMA CollectorStep ==
  ASSUME BaseInv, Next, NEW c \in Claim
  PROVE  \/ pass'[c] = pass[c]
         \/ FlusherStep(c) \/ GCStep(c) \/ DropPass(c)
<1>0. /\ c \in Actor /\ c # "claim" /\ c # "shared" /\ c \notin Controller
      /\ pass \in [Actor -> PassType]
  BY Names DEF Controller, BaseInv, PassOK
<1>1. ASSUME NEW a \in Actor, InnerStep(a) PROVE pass'[c] = pass[c] \/ FlusherStep(c) \/ GCStep(c)
  BY <1>0, <1>1, InnerEffect DEF InnerStep
<1>2. ASSUME NEW a \in Controller, NEW h \in Holder, Begin(a, h) PROVE pass'[c] = pass[c]
  <2>1. \E pc, goal, inst, key : Start(a, h, pc, goal, inst, key)
    BY <1>2 DEF Begin, BeginClaim, BeginClaimDelete, BeginShared, BeginSharedRefusal, BeginSharedDelete
  <2> QED
    BY <1>0, <2>1 DEF Start
<1>3. ASSUME NEW a \in Controller, WriteStep(a) PROVE pass'[c] = pass[c]
  <2>1. \E w, next : Write(a, w, next)
    BY <1>3 DEF WriteStep, Checkpoint, Release, Refuse, KeepConflicting, Terminal
  <2> QED
    BY <1>0, <2>1 DEF Write, End, Go
<1>4. ASSUME NEW a \in Controller, Unfinalize(a) PROVE pass'[c] = pass[c]
  BY <1>0, <1>4 DEF Unfinalize, End
<1>5. ASSUME NEW a \in Actor, DropPass(a) PROVE pass'[c] = pass[c] \/ DropPass(c)
  BY <1>0, <1>5, DropEffect
<1>6. ASSUME NEW w \in late, LateCommit(w) PROVE pass'[c] = pass[c]
  BY <1>6 DEF LateCommit
<1>7. ASSUME NEW h \in Holder, Delete(h) \/ \E i \in Instance : Create(h, i) PROVE pass'[c] = pass[c]
  BY <1>7, UserEffect
<1> QED
  BY <1>1, <1>2, <1>3, <1>4, <1>5, <1>6, <1>7, Steps DEF WatchDelivers

\* What is collected stays collectable while it is.
LEMMA CollectStep ==
  ASSUME SettledWrites, FreshCache, QuietGC, BaseInv, PinnedInv, LateInv, RecordInv, ReadyInv,
         SnapshotInv, CollectInv, Next
  PROVE  CollectInv'
<1> SUFFICES ASSUME NEW c \in Claim PROVE CollectOf(c)'
  BY DEF CollectInv
<1> DEFINE p == pass["claim"]
<1>0. /\ SnapshotOf(c) /\ ReadyOf(c) /\ CollectOf(c) /\ c \in Holder /\ ControllerOf("claim", c)
      /\ "claim" \in Actor /\ "claim" \in Controller /\ c \in Actor /\ c \notin Controller /\ c # "claim"
      /\ snap[c] \in [there : BOOLEAN, key : KeyOrNone, expired : BOOLEAN]
      /\ obj[c] \in ObjType /\ (obj[c].st = "absent" => obj[c] = NoObj)
      /\ pass \in [Actor -> PassType] /\ pass[c] \in PassType
      /\ p \in PassType /\ Fits("claim", p)
  BY Names DEF SnapshotInv, ReadyInv, CollectInv, ControllerOf, BaseInv, SnapOK, PassOK, ObjOK, ObjectInv,
     ShapeInv
<1>a. Idle.pc = "idle" /\ (obj[c].st = "absent" => ~obj[c].fin)
  BY <1>0 DEF Idle, NoObj
<1>1. CASE pass'[c] = pass[c] /\ pass[c].pc # "idle"
  <2>a. ~Delete(c) /\ ~ \E i \in Instance : Create(c, i)
    BY <1>0, <1>1 DEF Delete, Create, Undisturbed, At
  <2>b. ~DeleteSnapshot(c)
    BY <1>0, <1>a, <1>1 DEF DeleteSnapshot, End
  <2>c. TakeSnapshot("claim") /\ Me("claim") = c => Of("claim", c) /\ obj[c].st = "deleting"
    <3> SUFFICES ASSUME TakeSnapshot("claim"), Me("claim") = c
                 PROVE  Of("claim", c) /\ obj[c].st = "deleting"
      OBVIOUS
    <3>1. p.pc = "snapshot" /\ Of("claim", c)
      BY <1>0 DEF TakeSnapshot, At, Of, Busy
    <3>2. p.goal = "drop"
      BY <1>0, <3>1, Names DEF Fits, ShapeOf, Idle, ClaimProvision, Allocating, Checking
    <3> QED
      BY <1>0, <3>1, <3>2 DEF RecordInv, PassRecord, DropRecord, Of
  <2>1. CASE pass[c].key # NoKey
    <3>1. obj[c].st = "absent" /\ snap[c].key = pass[c].key /\ snap[c].expired
      BY <1>0, <1>1, <2>1 DEF CollectOf
    <3>2. ~Of("claim", c) /\ LateOf(c) = {}
      BY <1>0, <1>a, <3>1, GoneAlone
    <3>3. ~Begin("claim", c)
      BY <1>0, <3>1, Names DEF Begin, BeginClaim, BeginClaimDelete, Seen
    <3>4. obj'[c] = obj[c]
      BY <1>0, <2>a, <3>2, <3>3, HolderStep DEF Untouched, Progress
    <3>5. ~(Me("claim") = c /\ (Cancel("claim") \/ CancelBeforeRelease("claim") \/ TakeSnapshot("claim")))
      BY <1>0, <3>2 DEF Cancel, CancelBeforeRelease, TakeSnapshot, At, Of, Busy
    <3>6. snap'[c] = snap[c] \/ snap'[c] = [snap[c] EXCEPT !.expired = TRUE]
      BY <2>b, <3>5, SnapEffect
    <3> QED
      BY <1>0, <1>1, <2>1, <3>1, <3>4, <3>6 DEF CollectOf
  <2>2. CASE pass[c].key = NoKey
    <3>1. /\ obj[c].st # "deleting" /\ pass[c].pc = "delete"
          /\ On(snap[c].key, "persistent") => obj[c].ready \/ ~On(snap[c].key, obj[c].inst)
      BY <1>0, <1>1, <2>2 DEF CollectOf
    <3>2. Of("claim", c) => p.goal = "provision"
      BY <1>0, <3>1, Apart DEF Of, RecordInv, PassRecord, DropRecord
    <3>3. /\ obj'[c].st # "deleting"
          /\ On(snap[c].key, "persistent") => obj'[c].ready \/ ~On(snap[c].key, obj'[c].inst)
      <4>1. CASE Begin("claim", c)
        BY <1>0, <3>1, <4>1, BeginEffect
      <4>2. CASE WriteStep("claim") /\ Of("claim", c)
        <5>1. p.pc \in WritePC /\ obj'[c].st = obj[c].st /\ obj'[c].inst = obj[c].inst
          BY <1>0, <4>2, WriteFields DEF Of
        <5>2. ~obj[c].ready
          BY <1>0, <3>2, <4>2, <5>1 DEF ReadyOf, WritePC
        <5> QED
          BY <3>1, <5>1, <5>2
      <4>3. CASE Unfinalize("claim") /\ Of("claim", c)
        BY <1>0, <3>2, <4>3, UnfinalizeEffect
      <4>4. CASE DropPass("claim") /\ Of("claim", c)
        BY <1>0, <3>1, <4>4, DropEffect
      <4>5. ASSUME NEW w \in LateOf(c), LateCommit(w)
            PROVE  /\ obj'[c].st # "deleting"
                   /\ On(snap[c].key, "persistent") => obj'[c].ready \/ ~On(snap[c].key, obj'[c].inst)
        <5>1. obj'[c].st = obj[c].st /\ obj'[c].inst = obj[c].inst
          BY <4>5, LateEffect DEF LateOf
        <5>2. ~obj[c].ready
          BY <1>0, <4>5 DEF ReadyOf
        <5> QED
          BY <3>1, <5>1, <5>2
      <4> QED
        BY <1>0, <2>a, <3>1, <4>1, <4>2, <4>3, <4>4, <4>5, HolderStep DEF Untouched, Progress
    <3>4. snap'[c].key = snap[c].key \/ snap'[c].key = NoKey
      <4>1. NoSnap.key = NoKey /\ [snap[c] EXCEPT !.expired = TRUE].key = snap[c].key
        BY <1>0 DEF NoSnap
      <4> QED
        BY <2>b, <2>c, <3>1, <4>1, SnapEffect
    <3> QED
      BY <1>1, <2>2, <3>1, <3>3, <3>4 DEF CollectOf, On
  <2> QED
    BY <2>1, <2>2
<1>2. CASE pass'[c] = pass[c] /\ pass[c].pc = "idle"
  BY <1>2 DEF CollectOf
<1>3. CASE FlusherStep(c)
  <2>1. /\ Rereads(c) /\ obj' = obj /\ snap' = snap
    BY <1>0, <1>3, FlusherMoves
  <2>2. pass[c].pc \notin {"idle", "delete"}
    BY <2>1 DEF Rereads
  <2> QED
    BY <1>0, <2>1, <2>2 DEF CollectOf, Rereads, Still
<1>4. CASE BeginCollect(c)
  <2> DEFINE key == IF obj[c].st = "live" THEN NoKey ELSE snap[c].key
  <2> DEFINE pc == IF obj[c].st = "live" \/ snap[c].key = NoKey THEN "delete" ELSE "check_claims"
  <2>1. /\ snap[c].expired /\ obj[c].st # "deleting" /\ obj' = obj /\ snap' = snap
        /\ ~(obj[c].st = "live" /\ ReattachInProgress(snap[c], obj[c]))
        /\ Start(c, c, pc, "drop", "none", key)
    BY <1>4 DEF BeginCollect
  <2> HIDE DEF key, pc
  <2>2. pass'[c].key = key /\ pass'[c].pc = pc
    BY <1>0, <2>1 DEF Start, Idle
  <2>3. CASE obj[c].st = "live"
    <3>1. key = NoKey /\ pc = "delete"
      BY <2>3 DEF key, pc
    <3>2. ASSUME On(snap[c].key, "persistent"), ~obj[c].ready PROVE ~On(snap[c].key, obj[c].inst)
      <4>1. snap[c].key \in {"persistent"} \X Dbnum
        BY <1>0, <3>2 DEF On, KeyOrNone, Key
      <4>2. obj[c].key \notin {NoKey, snap[c].key}
        BY <2>1, <2>3, <3>2, <4>1 DEF ReattachInProgress, On
      <4> QED
        BY <1>0, <4>2 DEF SnapshotOf
    <3> QED
      BY <2>1, <2>2, <3>1, <3>2 DEF CollectOf
  <2>4. CASE obj[c].st = "absent"
    BY <1>0, <2>1, <2>2, <2>4 DEF CollectOf, key, pc, On, NoObj
  <2> QED
    BY <1>0, <2>1, <2>3, <2>4 DEF ObjType
<1>5. CASE DelUser(c) \/ DelUserFails(c)
  <2>1. pass[c].pc = "deluser" /\ obj' = obj /\ snap' = snap /\ pass' = [pass EXCEPT ![c].pc = "delete"]
    BY <1>5 DEF DelUser, DelUserFails, At, Go
  <2>2. pass'[c].key = pass[c].key /\ pass'[c].pc = "delete"
    BY <1>0, <2>1 DEF PassType
  <2> QED
    BY <1>0, <2>1, <2>2 DEF CollectOf
<1>6. CASE DeleteSnapshot(c) \/ DropPass(c)
  <2>1. pass'[c] = Idle
    BY <1>0, <1>6 DEF DeleteSnapshot, DropPass, End
  <2> QED
    BY <1>a, <2>1 DEF CollectOf
<1> QED
  BY <1>1, <1>2, <1>3, <1>4, <1>5, <1>6, CollectorStep DEF GCStep

\* What changes the data: a flush, a use, or a step after which it may be nobody's.
LEMMA DataSteps ==
  Next => \/ data' = data
          \/ \E g : data' = Disowned(g)
          \/ \E a \in Actor : Flush(a)
          \/ \E g \in Holder, i \in Key : Use(g, i)
<1>1. ASSUME NEW a, NEW w, NEW next, Write(a, w, next)
      PROVE  data' = data \/ \E g : data' = Disowned(g)
  BY <1>1 DEF Write
<1>2. CASE OperatorStep
  <2>1. CASE ClaimStep
    BY <1>1, <2>1 DEF ClaimStep, BeginClaim, BeginClaimDelete, OwnSnapshot, CancelBeforeRelease,
       KeepConflicting, SetUser, Cancel, FindSnapshot, TakeSnapshot
  <2>2. CASE SharedStep
    BY <1>1, <2>2 DEF SharedStep, BeginShared, BeginSharedRefusal, BeginSharedDelete, Refuse
  <2>3. CASE \E c \in Claim : GCStep(c)
    BY <2>3 DEF GCStep, BeginCollect, DelUser, DelUserFails, DeleteSnapshot
  <2>4. CASE \E a \in Controller : AllocatorStep(a)
    BY <1>1, <2>4 DEF AllocatorStep, TakeLock, ListClaims, ListRetained, ListShared, Checkpoint,
       Release, Terminal, Unfinalize
  <2>5. CASE \E a \in Actor : FlusherStep(a)
    BY <2>5 DEF FlusherStep, CheckClaims, CheckRetained, CheckShared, FlushFails
  <2> QED
    BY <1>2, <2>1, <2>2, <2>3, <2>4, <2>5 DEF OperatorStep
<1>3. CASE EnvironmentStep
  BY <1>3 DEF EnvironmentStep, DropPass, LateCommit, WatchDelivers, Delete, Create, GraceElapses
<1> QED
  BY <1>2, <1>3 DEF Next

\* Where a holder's data comes from.
LEMMA DataEffect ==
  ASSUME BaseInv, Next, NEW h \in Holder, NEW k \in Key, h \in data'[k]
  PROVE  h \in data[k] \/ Use(h, k)
<1>0. data \in [Key -> SUBSET (Holder \cup {NoHolder})] /\ h # NoHolder
  BY Names DEF BaseInv, DataOK
<1>1. ASSUME NEW g, data' = Disowned(g) PROVE h \in data[k]
  BY <1>0, <1>1 DEF Disowned
<1>2. ASSUME NEW a, Flush(a) PROVE h \in data[k]
  BY <1>0, <1>2 DEF Flush
<1>3. ASSUME NEW g, NEW i, Use(g, i) PROVE h \in data[k] \/ Use(h, k)
  <2>1. data' = [data EXCEPT ![i] = @ \cup {g}]
    BY <1>3 DEF Use
  <2>2. data'[k] = data[k] \/ (i = k /\ data'[k] = data[k] \cup {g})
    BY <1>0, <2>1
  <2> QED
    BY <1>3, <2>2
<1> QED
  BY <1>1, <1>2, <1>3, DataSteps

\* Nothing but FLUSHDB empties a number.
LEMMA FlushEffect ==
  ASSUME BaseInv, Next, NEW k \in Key, NEW h \in data[k], data'[k] = {}
  PROVE  \E a \in Actor : Flush(a) /\ pass[a].key = k
<1>0. data \in [Key -> SUBSET (Holder \cup {NoHolder})]
  BY DEF BaseInv, DataOK
<1>1. ASSUME NEW g, data' = Disowned(g) PROVE FALSE
  <2>1. CASE data'[k] = data[k]
    BY <2>1
  <2>2. CASE data'[k] = {IF f = g THEN NoHolder ELSE f : f \in data[k]}
    <3>1. (IF h = g THEN NoHolder ELSE h) \in data'[k]
      BY <2>2
    <3> QED
      BY <3>1
  <2> QED
    BY <1>1, <2>1, <2>2 DEF Disowned
<1>2. ASSUME NEW a \in Actor, Flush(a) PROVE \E b \in Actor : Flush(b) /\ pass[b].key = k
  BY <1>0, <1>2 DEF Flush
<1>3. ASSUME NEW g, NEW i, Use(g, i) PROVE FALSE
  <2>1. data' = [data EXCEPT ![i] = @ \cup {g}]
    BY <1>3 DEF Use
  <2>2. data'[k] = data[k] \/ data'[k] = data[k] \cup {g}
    BY <1>0, <2>1
  <2> QED
    BY <2>2
<1> QED
  BY <1>1, <1>2, <1>3, DataSteps

\* On a persistent instance a claim's data is that of its status when it is ready,
\* or its snapshot's; a shared database has data only where it is provisioned.
DataOf(h) ==
  \A k \in Key : h \in data[k] =>
    /\ h \in Claim /\ k[1] = "persistent" => (obj[h].ready /\ obj[h].key = k) \/ snap[h].key = k
    /\ h \in Shared => Provisioned(h) /\ obj[h].key = k
DataInv == \A h \in Holder : DataOf(h)

\* What a step that disowns data leaves.
LEMMA Left ==
  ASSUME BaseInv, NEW h \in Holder, NEW k \in Key, data' = Disowned(h), h \in data'[k]
  PROVE  obj'[h].key = k \/ (h \in Claim /\ snap'[h].key = k)
BY Names DEF Disowned

\* The data of a claim stays where its status or its snapshot says.
LEMMA ClaimDataStep ==
  ASSUME SettledWrites, FreshCache, QuietGC, BaseInv, PinnedInv, LateInv, HeldInv, RecordInv, ReadyInv,
         SnapshotInv, CollectInv, DataInv, Next, NEW c \in Claim
  PROVE  DataOf(c)'
<1> DEFINE p == pass["claim"]
<1>0. /\ SnapshotOf(c) /\ ReadyOf(c) /\ CollectOf(c) /\ DataOf(c) /\ c \in Holder /\ c \notin Shared
      /\ ControllerOf("claim", c)
      /\ "claim" \in Actor /\ "claim" \in Controller /\ c \in Actor /\ c \notin Controller /\ c # "claim"
      /\ snap[c] \in [there : BOOLEAN, key : KeyOrNone, expired : BOOLEAN]
      /\ obj[c] \in ObjType /\ (obj[c].st = "absent" => obj[c] = NoObj)
      /\ p \in PassType /\ Fits("claim", p) /\ NoKey \notin Key
  BY Names DEF SnapshotInv, ReadyInv, CollectInv, DataInv, ControllerOf, BaseInv, SnapOK, PassOK, ObjOK,
     ObjectInv, ShapeInv
<1> SUFFICES ASSUME NEW k \in Key, c \in data'[k], k[1] = "persistent",
                    ~(obj'[c].ready /\ obj'[c].key = k), snap'[c].key # k
             PROVE  FALSE
  BY <1>0 DEF DataOf
<1>a. NoObj.key = NoKey /\ ~NoObj.ready /\ ~NoObj.fin /\ NoSnap.key = NoKey
  BY DEF NoObj, NoSnap
<1>1. (obj[c].ready /\ obj[c].key = k) \/ snap[c].key = k
  <2>1. CASE c \in data[k]
    BY <1>0, <2>1 DEF DataOf
  <2>2. CASE Use(c, k)
    BY <1>0, <2>2 DEF Use, ReadyOf, Pins
  <2> QED
    BY <1>0, <2>1, <2>2, DataEffect
<1>2. CASE obj[c].ready /\ obj[c].key = k
  <2>0. obj[c].fin /\ LateOf(c) = {}
    BY <1>0, <1>a, <1>2 DEF PinnedInv, ReadyOf
  <2>1. CASE Begin("claim", c)
    BY <1>0, <1>2, <2>1, BeginEffect
  <2>2. CASE WriteStep("claim") /\ Of("claim", c)
    <3>1. p.pc \in WritePC /\ p.goal = "provision"
      BY <1>0, <2>2, WriteFields DEF Provisioning
    <3> QED
      BY <1>0, <1>2, <2>2, <3>1 DEF ReadyOf, WritePC
  <2>3. CASE Unfinalize("claim") /\ Of("claim", c)
    <3>1. obj'[c] = obj[c] \/ obj'[c] = NoObj
      BY <1>0, <2>3, UnfinalizeEffect DEF Of
    <3>2. data' = Disowned(c)
      BY <2>3 DEF Unfinalize, Of
    <3> QED
      BY <1>0, <1>a, <1>2, <3>1, <3>2, Left
  <2>4. CASE DropPass("claim") /\ Of("claim", c)
    BY <1>0, <1>2, <2>4, DropEffect
  <2>5. CASE Delete(c) \/ \E i \in Instance : Create(c, i)
    BY <1>0, <1>2, <2>0, <2>5, UserEffect
  <2> QED
    BY <1>0, <1>2, <2>0, <2>1, <2>2, <2>3, <2>4, <2>5, HolderStep DEF Untouched, Progress
<1>3. CASE snap[c].key = k /\ ~(obj[c].ready /\ obj[c].key = k)
  <2>1. CASE Me("claim") = c /\ Cancel("claim") /\ snap'[c] = NoSnap
    <3>1. /\ p.pc = "cancel" /\ Of("claim", c) /\ obj' = obj /\ data' = Disowned(c)
      BY <1>0, <2>1 DEF Cancel, At, Of, Busy
    <3>2. p.goal = "provision"
      BY <1>0, <3>1, Names DEF Fits, ShapeOf, Idle, ClaimDrop
    <3>3. obj[c].ready
      BY <1>0, <3>1, <3>2 DEF ReadyOf
    <3> QED
      BY <1>0, <1>3, <3>1, <3>3, Left
  <2>2. CASE Me("claim") = c /\ CancelBeforeRelease("claim")
    <3>1. p.pc = "cancel_before_release" /\ Of("claim", c)
      BY <1>0, <2>2 DEF CancelBeforeRelease, At, Of, Busy
    <3>2. p.goal = "provision"
      BY <1>0, <3>1, Names DEF Fits, ShapeOf, Idle, ClaimDrop
    <3>3. /\ p.reatt /\ ~p.skip /\ snap[c].key \in {NoKey, p.key}
          /\ p.skip <=> p.reatt /\ p.inst = "persistent"
      BY <1>0, <3>1, <3>2 DEF SnapshotOf, Deciding, Committed
    <3>4. p.key # NoKey => On(p.key, p.inst)
      BY <1>0, <3>1, <3>2 DEF RecordInv, PassRecord, ProvisionRecord, Of, Provisioning
    <3> QED
      BY <1>0, <1>3, <3>3, <3>4 DEF On
  <2>3. CASE DeleteSnapshot(c) /\ snap'[c] = NoSnap
    <3>1. /\ pass[c].pc = "delete" /\ obj' = obj /\ data' = Disowned(Me(c))
      BY <2>3 DEF DeleteSnapshot, At
    <3>2. Me(c) = c
      BY <1>0, <3>1, Names DEF BaseInv, PassOK, ShapeInv, Fits, ShapeOf, Idle, Me
    <3>3. obj[c].key = k /\ ~obj[c].ready
      BY <1>0, <1>a, <1>3, <2>3, <3>1, <3>2, Left
    <3>4. On(snap[c].key, "persistent") /\ On(snap[c].key, obj[c].inst)
      BY <1>0, <1>3, <3>3 DEF RecordInv, OwnRecord, On
    <3>5. obj[c].st # "absent"
      BY <1>0, <1>a, <3>3
    <3> QED
      BY <1>0, <3>1, <3>3, <3>4, <3>5 DEF CollectOf
  <2>4. CASE ~snap[c].there
    BY <1>0, <1>3, <2>4 DEF RecordInv
  <2>5. [snap[c] EXCEPT !.expired = TRUE].key = snap[c].key
    BY <1>0
  <2> QED
    BY <1>3, <2>1, <2>2, <2>3, <2>4, <2>5, SnapEffect
<1> QED
  BY <1>1, <1>2, <1>3

\* A shared database is provisioned for as long as it has data.
LEMMA SharedDataStep ==
  ASSUME SettledWrites, FreshCache, BaseInv, PinnedInv, LateInv, HeldInv, RecordInv, UnfinishedInv,
         DataInv, Next, NEW s \in Shared
  PROVE  DataOf(s)'
<1> DEFINE p == pass["shared"]
<1>0. /\ UnfinishedOf(s) /\ DataOf(s) /\ s \in Holder /\ s \notin Claim
      /\ ControllerOf("shared", s) /\ "shared" \in Actor /\ "shared" \in Controller
      /\ p \in PassType /\ Fits("shared", p) /\ NoKey \notin Key
      /\ NoObj.key = NoKey
  BY Names DEF UnfinishedInv, DataInv, ControllerOf, BaseInv, PassOK, ShapeInv, NoObj
<1> SUFFICES ASSUME NEW k \in Key, s \in data'[k], ~(Provisioned(s)' /\ obj'[s].key = k) PROVE FALSE
  BY <1>0 DEF DataOf
<1>a. /\ Provisioned(s) <=> obj[s].key # NoKey /\ ~obj[s].unfin
      /\ Provisioned(s)' <=> obj'[s].key # NoKey /\ ~obj'[s].unfin
  BY <1>0 DEF Provisioned
<1>1. Provisioned(s) /\ obj[s].key = k
  <2>1. CASE s \in data[k]
    BY <1>0, <2>1 DEF DataOf
  <2>2. CASE Use(s, k)
    BY <1>0, <2>2 DEF Use, UnfinishedOf
  <2> QED
    BY <1>0, <2>1, <2>2, DataEffect
<1>2. obj[s].key # NoKey /\ ~obj[s].unfin /\ obj[s].fin
  BY <1>0, <1>a, <1>1 DEF PinnedInv, BaseInv, ObjOK, ObjectInv
<1>3. CASE Begin("shared", s)
  BY <1>0, <1>a, <1>1, <1>2, <1>3, BeginEffect
<1>4. CASE WriteStep("shared") /\ Of("shared", s)
  <2>1. /\ p.pc \in WritePC /\ p.goal = "provision"
        /\ obj'[s].key = IF p.pc = "release" THEN NoKey ELSE p.key
        /\ obj'[s].unfin <=> p.pc \in {"commit", "release"}
    BY <1>0, <1>4, WriteFields DEF Of, Provisioning
  <2>2. p.pc \in {"refuse", "terminal"}
    BY <1>0, <1>2, <1>4, <2>1, InFlightEffect DEF UnfinishedOf, Allocating, WritePC
  <2>3. p.key # NoKey
    BY <1>0, <1>1, <1>4, <2>1, <2>2 DEF UnfinishedOf, Fits, Committed
  <2>4. p.key = k
    BY <1>0, <1>1, <1>4, <2>1, <2>2, <2>3 DEF HeldInv, Of, Provisioning, Busy, Committed
  <2> QED
    BY <1>a, <2>1, <2>2, <2>3, <2>4
<1>5. CASE Unfinalize("shared") /\ Of("shared", s)
  <2>1. obj'[s] = obj[s] \/ obj'[s] = NoObj
    BY <1>0, <1>5, UnfinalizeEffect DEF Of
  <2>2. data' = Disowned(s)
    BY <1>5 DEF Unfinalize, Of
  <2> QED
    BY <1>0, <1>a, <1>1, <1>2, <2>1, <2>2, Left
<1>6. CASE DropPass("shared") /\ Of("shared", s)
  BY <1>0, <1>a, <1>1, <1>2, <1>6, DropEffect
<1>7. ASSUME NEW w \in LateOf(s), LateCommit(w) PROVE FALSE
  <2>1. obj'[s].key = w.w.key /\ obj'[s].unfin = w.w.unfin /\ w.obj = s
    BY <1>7, LateEffect DEF LateOf
  <2>2. Provisions(w)
    BY <1>0, <1>1, <1>7 DEF UnfinishedOf
  <2>3. w.w.key = k
    BY <1>1, <1>7, <2>1, <2>2 DEF HeldInv, LateOf
  <2> QED
    BY <1>0, <1>a, <2>1, <2>2, <2>3 DEF Provisions
<1>8. CASE Delete(s) \/ \E i \in Instance : Create(s, i)
  BY <1>0, <1>a, <1>1, <1>2, <1>8, UserEffect
<1> QED
  BY <1>0, <1>a, <1>1, <1>2, <1>3, <1>4, <1>5, <1>6, <1>7, <1>8, HolderStep DEF Untouched, Progress

\* c's snapshot keeps its data in k.
Stored(c, k) == c \in Claim /\ snap[c].key = k /\ k[1] = "persistent" /\ c \in data[k]

Keeps(h, k) == (Won(h) /\ obj[h].key = k) \/ Stored(h, k)

\* Whoever is about to flush has found everybody else who keeps something there.
FoundWon(a) ==
  pass[a].pc \in {"check_retained", "check_shared"} =>
    \A c \in Claim \ {Me(a)} : Won(c) /\ obj[c].key = pass[a].key => c \in pass[a].acc
FoundStored(a) ==
  pass[a].pc = "check_shared" =>
    \A c \in Claim \ {Me(a)}, k \in Key : Stored(c, k) /\ k = pass[a].key => c \in pass[a].acc
FoundAll(a) ==
  pass[a].pc = "flush" => \A h \in Holder \ {Me(a)}, k \in Key : k = pass[a].key => ~Keeps(h, k)

\* A number has one keeper; the claims' controller finds every snapshot, and the
\* shared databases' controller one that is being collected.
KeepInv ==
  /\ \A g, h \in Holder, k \in Key : g # h => ~(Keeps(g, k) /\ Keeps(h, k))
  /\ \A a \in Actor : FoundWon(a) /\ FoundStored(a) /\ FoundAll(a)
  /\ pass["claim"].pc = "check_shared" =>
       \A c \in Claim \ {Me("claim")} : snap[c].key = pass["claim"].key => c \in pass["claim"].acc
  /\ \A c \in Claim :
       /\ pass[c].pc = "flush" /\ Provisioning("shared") /\ pass["shared"].pc = "check_shared"
       /\ pass["shared"].key = pass[c].key
       => c \in pass["shared"].acc

\* A re-read, or a flush, is entered from the place before it and in no other way.
LEMMA FlushBefore ==
  ASSUME SettledWrites, FreshCache, BaseInv, PinnedInv, LateInv, Next, NEW a \in Actor,
         pass'[a].pc \in {"check_retained", "check_shared", "flush"}
  PROVE  \/ pass'[a] = pass[a]
         \/ /\ Rereads(a) /\ UNCHANGED <<obj, snap, late>>
            /\ \A b \in Actor \ {a} : pass'[b] = pass[b]
<1>0. \A b \in Controller : b \in Actor
  BY Names
<1>1. ASSUME NEW b \in Actor, InnerStep(b), ~FlusherStep(b) PROVE pass'[a] = pass[a]
  <2>1. \A c \in Actor \ {b} : pass'[c] = pass[c]
    BY <1>1, InnerEffect
  <2>2. b = a => pass'[a].pc \notin {"check_retained", "check_shared", "flush"}
    <3> SUFFICES ASSUME b = a PROVE pass'[a].pc \notin {"check_retained", "check_shared", "flush"}
      OBVIOUS
    <3>0. pass \in [Actor -> PassType]
      BY DEF BaseInv, PassOK
    <3>1. CASE a \in Controller /\ pass'[a].pc # "idle"
      <4>1. Allocates(a) \/ Settles(a) => pass'[a].pc \notin {"check_retained", "check_shared", "flush"}
        BY DEF Allocates, Settles
      <4>2. ASSUME Rereads(a) PROVE FALSE
        <5>1. pass[a].pc \in {"check_claims", "check_retained", "check_shared", "flush"}
          BY <4>2 DEF Rereads
        <5> QED
          BY <1>1, <3>1, <5>1, Names DEF InnerStep, TakeLock, ListClaims, ListRetained, ListShared,
             OwnSnapshot, CancelBeforeRelease, SetUser, Cancel, FindSnapshot, TakeSnapshot, At
      <4> QED
        BY <1>1, <3>1, <4>1, <4>2, InnerMoves
    <3>4. CASE GCStep(a)
      <4>1. CASE BeginCollect(a)
        BY <3>0, <4>1 DEF BeginCollect, Start, Idle
      <4>2. CASE DelUser(a) \/ DelUserFails(a) \/ DeleteSnapshot(a)
        BY <3>0, <4>2 DEF DelUser, DelUserFails, DeleteSnapshot, Go, End, Idle, PassType
      <4> QED
        BY <3>4, <4>1, <4>2 DEF GCStep
    <3> QED
      BY <1>1, <3>1, <3>4, Names DEF InnerStep
  <2> QED
    BY <2>1, <2>2
<1>2. ASSUME NEW b \in Actor, FlusherStep(b)
      PROVE  \/ pass'[a] = pass[a]
             \/ /\ Rereads(a) /\ UNCHANGED <<obj, snap, late>>
                /\ \A c \in Actor \ {a} : pass'[c] = pass[c]
  BY <1>2, FlusherMoves
<1>3. ASSUME NEW b \in Controller, NEW h \in Holder, Begin(b, h) PROVE pass'[a] = pass[a]
  <2>1. \A c \in Actor \ {b} : pass'[c] = pass[c]
    BY <1>3, BeginEffect
  <2>2. b = a => pass'[a].pc \notin {"check_retained", "check_shared", "flush"}
    BY <1>3, FreshBegin
  <2> QED
    BY <2>1, <2>2
<1>4. ASSUME NEW b \in Controller, WriteStep(b) PROVE pass'[a] = pass[a]
  <2>1. \A c \in Actor \ {b} : pass'[c] = pass[c]
    BY <1>4, WriteFields
  <2>2. b = a => pass'[a].pc \notin {"check_retained", "check_shared", "flush"}
    BY <1>4, WriteFields
  <2> QED
    BY <2>1, <2>2
<1>5. ASSUME NEW b \in Controller, Unfinalize(b) PROVE pass'[a] = pass[a]
  BY <1>0, <1>5, UnfinalizeEffect DEF Idle
<1>6. ASSUME NEW b \in Actor, DropPass(b) PROVE pass'[a] = pass[a]
  BY <1>6, DropEffect DEF Idle
<1>7. ASSUME NEW w \in late, LateCommit(w) PROVE pass'[a] = pass[a]
  BY <1>7, LateEffect
<1>8. ASSUME NEW h \in Holder, Delete(h) \/ \E i \in Instance : Create(h, i) PROVE pass'[a] = pass[a]
  BY <1>8, UserEffect
<1> QED
  BY <1>1, <1>2, <1>3, <1>4, <1>5, <1>6, <1>7, <1>8, Steps DEF WatchDelivers

\* Nobody comes to keep anything in a number but by winning it.
LEMMA KeptBefore ==
  ASSUME SettledWrites, FreshCache, QuietGC, BaseInv, PinnedInv, LateInv, HeldInv, RecordInv, ReadyInv,
         DataInv, Next, NEW h \in Holder, NEW k \in Key
  PROVE  /\ Stored(h, k)' => Keeps(h, k)
         /\ Keeps(h, k)' =>
              \/ Keeps(h, k)
              \/ \E a \in Controller : /\ Wins(a) /\ Me(a) = h /\ pass[a].key = k
                                       /\ \A b \in Controller \ {a} : pass'[b] = pass[b]
<1>1. ASSUME Stored(h, k)' PROVE Keeps(h, k)
  <2>1. h \in Claim /\ k[1] = "persistent" /\ h \in data'[k]
    BY <1>1 DEF Stored
  <2>2. CASE h \in data[k]
    <3>1. (obj[h].ready /\ obj[h].key = k) \/ snap[h].key = k
      BY <2>1, <2>2 DEF DataInv, DataOf
    <3> QED
      BY <2>1, <2>2, <3>1 DEF Keeps, Stored, Won, Provisioned
  <2>3. CASE Use(h, k)
    <3>1. obj[h].ready /\ obj[h].key = k
      BY <2>1, <2>3 DEF Use, ReadyInv, ReadyOf, Pins
    <3> QED
      BY <2>1, <3>1 DEF Keeps, Won, Provisioned
  <2> QED
    BY <2>1, <2>2, <2>3, DataEffect
<1>2. ASSUME Won(h)', obj'[h].key = k
      PROVE  \/ Keeps(h, k)
             \/ \E a \in Controller : /\ Wins(a) /\ Me(a) = h /\ pass[a].key = k
                                      /\ \A b \in Controller \ {a} : pass'[b] = pass[b]
  <2>1. CASE Won(h) /\ obj'[h].key = obj[h].key
    BY <1>2, <2>1 DEF Keeps
  <2>2. ASSUME NEW a \in Controller, Wins(a), Me(a) = h PROVE pass[a].key = k
    BY <1>2, <2>2 DEF Wins, HeldInv, Committed, Checking
  <2> QED
    BY <1>2, <2>1, <2>2, WonBefore
<1> QED
  BY <1>1, <1>2 DEF Keeps

\* A number that somebody flushes or re-reads is the record of the pass it is of.
LEMMA FlusherRecord ==
  ASSUME BaseInv, HeldInv, RecordInv, CollectInv, NEW a \in Actor, pass[a].pc \in Checking \cup {"flush"}
  PROVE  /\ a \in Controller => Busy(a) /\ Me(a) \in Holder /\ obj[Me(a)].key = pass[a].key
         /\ a \in Claim => Me(a) = a /\ snap[a].key = pass[a].key /\ pass[a].key \in Key
         /\ a = "claim" => Me(a) \in Claim /\ Provisioning(a) /\ pass[a].key \in Key
         /\ a = "shared" => Me(a) \in Shared
<1>0. /\ Fits(a, pass[a]) /\ pass[a].key \in KeyOrNone /\ pass[a].pc # "idle" /\ pass[a].pc # "delete"
      /\ Idle.pc = "idle"
  BY DEF BaseInv, PassOK, ShapeInv, PassType, Checking, Idle
<1>1. a \in Claim => Me(a) = a
  BY <1>0, Names DEF Fits, ShapeOf, Me
<1>2. a \in Claim => snap[a].key = pass[a].key /\ pass[a].key # NoKey
  BY <1>0 DEF CollectInv, CollectOf
<1>3. a = "claim" => Me(a) \in Claim /\ pass[a].goal = "provision" /\ a \in Controller
  BY <1>0, Names DEF Fits, ShapeOf, ClaimDrop, Me, Checking
<1>4. a = "shared" => Me(a) \in Shared
  BY <1>0, Names DEF Fits, ShapeOf, Me
<1>5. a \in Controller => Busy(a) /\ Me(a) \in Holder /\ obj[Me(a)].key = pass[a].key
  <2> SUFFICES ASSUME a \in Controller PROVE Busy(a) /\ Me(a) \in Holder /\ obj[Me(a)].key = pass[a].key
    OBVIOUS
  <2>1. Busy(a) /\ Me(a) \in Holder
    BY <1>0, Apart DEF Busy
  <2>2. Provisioning(a) \/ pass[a].goal = "drop"
    BY <2>1, Apart DEF Provisioning
  <2>3. Provisioning(a) => obj[Me(a)].key = pass[a].key
    BY DEF HeldInv, Committed
  <2>4. pass[a].goal = "drop" => obj[Me(a)].key = pass[a].key
    BY <2>1 DEF RecordInv, PassRecord, DropRecord
  <2> QED
    BY <2>1, <2>2, <2>3, <2>4
<1>6. a = "claim" => Provisioning(a) /\ pass[a].key \in Key
  BY <1>0, <1>3, <1>5 DEF Provisioning, Fits, Committed
<1> QED
  BY <1>0, <1>1, <1>2, <1>3, <1>4, <1>5, <1>6 DEF KeyOrNone

\* What a step that wins a number knows of the others.
LEMMA WinsAlone ==
  ASSUME BaseInv, PinnedInv, LateInv, HeldInv, RecordInv, CollectInv, KeepInv,
         NEW b \in Controller, Wins(b)
  PROVE  /\ Me(b) \in Holder /\ obj[Me(b)].key = pass[b].key /\ obj' = obj /\ pass[b].key \in Key
         /\ \A g \in Holder \ {Me(b)} : ~Keeps(g, pass[b].key)
         /\ \A s \in Shared \ {Me(b)} : obj[s].key # pass[b].key
         /\ \A a \in Actor \ {b} :
              pass[a].pc \in Checking \cup {"flush"} /\ pass[a].key = pass[b].key /\ Me(a) # Me(b)
              => /\ a # "shared" /\ (a \in Claim => b = "shared" /\ pass[a].pc # "flush")
                 /\ a = "claim" => pass[a].pc # "flush"
<1>1. /\ Provisioning(b) /\ pass[b].pc = "check_shared" /\ pass[b].acc = {} /\ obj' = obj
      /\ SharedHolders(pass[b].key, Me(b)) = {} /\ b \in Actor
  BY Names DEF Wins
<1>2. /\ Me(b) \in Holder /\ obj[Me(b)].key = pass[b].key /\ pass[b].key \in Key /\ Busy(b)
      /\ b = "claim" => Me(b) \in Claim
      /\ b = "shared" => Me(b) \in Shared
  BY <1>1, FlusherRecord DEF Checking, BaseInv, PassOK, ShapeInv, Fits, Committed, Provisioning
<1>3. \A s \in Shared \ {Me(b)} : obj[s].key # pass[b].key
  BY <1>1 DEF SharedHolders
<1>4. \A c \in Claim \ {Me(b)} : ~Keeps(c, pass[b].key)
  BY <1>1, <1>2 DEF KeepInv, FoundWon, FoundStored, Keeps
<1>5. \A g \in Holder \ {Me(b)} : ~Keeps(g, pass[b].key)
  BY <1>3, <1>4, Names DEF Keeps, Stored, Holder
<1>6. ASSUME NEW a \in Actor \ {b}, pass[a].pc \in Checking \cup {"flush"}, pass[a].key = pass[b].key,
             Me(a) # Me(b)
      PROVE  /\ a # "shared" /\ (a \in Claim => b = "shared" /\ pass[a].pc # "flush")
             /\ a = "claim" => pass[a].pc # "flush"
  <2>1. a # "shared"
    BY <1>3, <1>6, FlusherRecord, Names
  <2>2. ASSUME a \in Claim PROVE b = "shared" /\ pass[a].pc # "flush"
    <3>1. Me(a) = a /\ snap[a].key = pass[b].key
      BY <1>6, <2>2, FlusherRecord
    <3>2. b # "claim"
      BY <1>1, <1>6, <2>2, <3>1 DEF KeepInv
    <3>3. b = "shared"
      BY <3>2, Names
    <3> QED
      BY <1>1, <1>6, <2>2, <3>3 DEF KeepInv
  <2>3. ASSUME a = "claim", pass[a].pc = "flush" PROVE FALSE
    <3>1. Provisioning(a) /\ Me(a) \in Claim /\ obj[Me(a)].key = pass[b].key /\ a \in Controller
      BY <1>6, <2>3, FlusherRecord, Names
    <3>2. Won(Me(a))
      BY <2>3, <3>1 DEF Won, Cleared
    <3> QED
      BY <1>4, <1>6, <3>1, <3>2 DEF Keeps
  <2> QED
    BY <2>1, <2>2, <2>3
<1> QED
  BY <1>1, <1>2, <1>3, <1>5, <1>6

\* A number keeps one keeper, and whoever flushes it has found all the others.
LEMMA KeepStep ==
  ASSUME SettledWrites, FreshCache, QuietGC, BaseInv, PinnedInv, LateInv, HeldInv, RecordInv, ReadyInv,
         CollectInv, DataInv, KeepInv, Next
  PROVE  KeepInv'
<1>0. /\ \A c \in Claim : c \in Holder /\ c \in Actor
      /\ "claim" \in Actor /\ "shared" \in Actor /\ \A b \in Controller : b \in Actor
      /\ \A b \in Controller : b = "claim" \/ b = "shared"
  BY Names
<1>a. \A b \in Controller : Wins(b) => pass[b].pc = "check_shared" /\ pass'[b] # pass[b]
  BY DEF Wins, Cleared
<1>1. ASSUME NEW g \in Holder, NEW h \in Holder, NEW k \in Key, g # h, Keeps(g, k)', Keeps(h, k)'
      PROVE  FALSE
  <2>1. CASE Keeps(g, k) /\ Keeps(h, k)
    BY <1>1, <2>1 DEF KeepInv
  <2>2. ASSUME NEW x \in Holder, NEW y \in Holder, x # y, Keeps(y, k)', NEW a \in Controller, Wins(a),
               Me(a) = x, pass[a].key = k, \A b \in Controller \ {a} : pass'[b] = pass[b]
        PROVE  FALSE
    <3>1. ~Keeps(y, k)
      BY <2>2, WinsAlone
    <3>2. \A b \in Controller : Wins(b) => b = a
      BY <1>a, <2>2
    <3> QED
      BY <2>2, <3>1, <3>2, KeptBefore
  <2> QED
    BY <1>1, <2>1, <2>2, KeptBefore
<1>2. ASSUME NEW a \in Actor PROVE FoundWon(a)'
  <2> SUFFICES ASSUME pass'[a].pc \in {"check_retained", "check_shared"},
                      NEW c \in Claim \ {Me(a)'}, Won(c)', obj'[c].key = pass'[a].key
               PROVE  c \in pass'[a].acc
    BY DEF FoundWon
  <2>1. CASE Rereads(a) /\ UNCHANGED <<obj, snap, late>>
    <3>1. CASE pass[a].pc = "check_claims" /\ pass'[a].acc = ClaimHolders(pass[a].key, Me(a))
      BY <2>1, <3>1 DEF Rereads, Still, Along, ClaimHolders, Me
    <3>2. CASE pass[a].pc = "check_retained" /\ pass[a].acc \subseteq pass'[a].acc
      <4>1. pass'[a].key = pass[a].key /\ Me(a)' = Me(a)
        BY <2>1 DEF Rereads, Still, Along, Me
      <4>2. CASE Won(c)
        BY <2>1, <3>2, <4>1, <4>2 DEF KeepInv, FoundWon
      <4>3. ASSUME NEW b \in Controller, Wins(b), Me(b) = c, \A d \in Controller \ {b} : pass'[d] = pass[d]
            PROVE  FALSE
        <5>1. a # b /\ Me(a) # Me(b) /\ b = "claim" /\ pass[a].key = pass[b].key
          BY <1>0, <1>a, <2>1, <3>2, <4>1, <4>3, WinsAlone, FlusherRecord, Names DEF Checking
        <5> QED
          BY <1>0, <3>2, <4>3, <5>1, WinsAlone, FlusherRecord, Names DEF Checking, Actor
      <4> QED
        BY <1>0, <2>1, <4>2, <4>3, WonBefore
    <3> QED
      BY <2>1, <3>1, <3>2 DEF Rereads, AfterCheck, AfterFlush
  <2>2. CASE pass'[a] = pass[a]
    <3>1. CASE Won(c) /\ obj'[c].key = obj[c].key
      BY <2>2, <3>1 DEF KeepInv, FoundWon, Me
    <3>2. ASSUME NEW b \in Controller, Wins(b), Me(b) = c PROVE FALSE
      <4>1. a # b /\ Me(a) # Me(b)
        BY <1>a, <2>2, <3>2 DEF Me
      <4>2. b \in Actor /\ pass[b].pc \in Checking
        BY <1>0, <1>a, <3>2 DEF Checking
      <4>3. b = "claim" /\ pass[a].key = pass[b].key
        BY <1>0, <2>2, <3>2, <4>2, WinsAlone, FlusherRecord, Names
      <4> QED
        BY <1>0, <2>2, <3>2, <4>1, <4>3, WinsAlone, Names DEF Checking, Actor
    <3> QED
      BY <1>0, <3>1, <3>2, WonBefore
  <2> QED
    BY <2>1, <2>2, FlushBefore
<1>3. ASSUME NEW a \in Actor PROVE FoundStored(a)'
  <2> SUFFICES ASSUME pass'[a].pc = "check_shared", NEW k \in Key, pass'[a].key = k,
                      NEW c \in Claim \ {Me(a)'}, Stored(c, k)'
               PROVE  c \in pass'[a].acc
    BY DEF FoundStored
  <2>1. CASE Rereads(a) /\ UNCHANGED <<obj, snap, late>>
    BY <2>1 DEF Rereads, Still, Along, Stored, RetainedHolders, Me, AfterCheck, AfterFlush
  <2>2. CASE pass'[a] = pass[a]
    <3>1. Keeps(c, k) /\ pass[a].key = k
      BY <1>0, <2>2, KeptBefore
    <3> QED
      BY <2>2, <3>1 DEF Keeps, KeepInv, FoundWon, FoundStored, Me
  <2> QED
    BY <2>1, <2>2, FlushBefore
<1>4. ASSUME NEW a \in Actor PROVE FoundAll(a)'
  <2> SUFFICES ASSUME pass'[a].pc = "flush", NEW k \in Key, pass'[a].key = k,
                      NEW h \in Holder \ {Me(a)'}, Keeps(h, k)'
               PROVE  FALSE
    BY DEF FoundAll
  <2>0. pass[a].pc \in Checking \cup {"flush"} /\ pass'[a].key = pass[a].key /\ Me(a)' = Me(a)
    BY FlushBefore DEF Rereads, Still, Along, Me, Checking
  <2>1. ~Keeps(h, k)
    <3>1. CASE pass'[a] = pass[a]
      BY <3>1 DEF KeepInv, FoundAll, Me
    <3>2. CASE Rereads(a)
      <4>1. /\ pass[a].pc = "check_shared" /\ pass[a].acc = {}
            /\ SharedHolders(pass[a].key, Me(a)) = {}
        BY <3>2 DEF Rereads, AfterCheck, AfterFlush
      <4>2. h \in Claim => ~Keeps(h, k)
        BY <2>0, <4>1 DEF KeepInv, FoundWon, FoundStored, Keeps
      <4>3. h \in Shared => ~Keeps(h, k)
        BY <2>0, <4>1, Names DEF SharedHolders, Keeps, Stored
      <4> QED
        BY <4>2, <4>3 DEF Holder
    <3> QED
      BY <3>1, <3>2, FlushBefore
  <2>3. PICK b \in Controller : /\ Wins(b) /\ Me(b) = h /\ pass[b].key = k
                                /\ \A d \in Controller \ {b} : pass'[d] = pass[d]
    BY <2>1, KeptBefore
  <2>4. a # b /\ Me(a) # Me(b)
    BY <2>0, <2>3
  <2>5. pass'[a] = pass[a]
    BY <1>0, <1>a, <2>3, <2>4, FlushBefore
  <2> QED
    BY <2>0, <2>3, <2>4, <2>5, WinsAlone, Names DEF Actor
<1>5. ASSUME pass'["claim"].pc = "check_shared", NEW c \in Claim \ {Me("claim")'},
             snap'[c].key = pass'["claim"].key
      PROVE  c \in pass'["claim"].acc
  <2>1. CASE Rereads("claim") /\ UNCHANGED <<obj, snap, late>>
    BY <1>5, <2>1 DEF Rereads, Still, Along, RetainedHolders, Me, AfterCheck, AfterFlush
  <2>2. CASE pass'["claim"] = pass["claim"]
    <3>1. pass["claim"].key \in Key /\ pass["claim"].key # NoKey
      BY <1>0, <1>5, <2>2, FlusherRecord, Names DEF Checking
    <3>2. ~TakeSnapshot("claim")
      BY <1>5, <2>2 DEF TakeSnapshot, At
    <3>3. snap'[c].key \in {snap[c].key, NoKey}
      <4>1. NoSnap.key = NoKey /\ [snap[c] EXCEPT !.expired = TRUE].key = snap[c].key
        BY DEF NoSnap, BaseInv, SnapOK
      <4> QED
        BY <3>2, <4>1, SnapEffect
    <3> QED
      BY <1>5, <2>2, <3>1, <3>3 DEF KeepInv, Me
  <2> QED
    BY <1>0, <1>5, <2>1, <2>2, FlushBefore
<1>6. ASSUME NEW c \in Claim, pass'[c].pc = "flush", Provisioning("shared")',
             pass'["shared"].pc = "check_shared", pass'["shared"].key = pass'[c].key
      PROVE  c \in pass'["shared"].acc
  <2>0. c # "shared" /\ c \in Actor
    BY Names
  <2>1. CASE Rereads("shared") /\ UNCHANGED <<obj, snap, late>> /\ pass'[c] = pass[c]
    <3>1. Me(c) = c /\ snap[c].key = pass[c].key
      BY <1>6, <2>0, <2>1, FlusherRecord
    <3>2. /\ pass'["shared"].acc = pass["shared"].acc \cup RetainedHolders(pass["shared"].key, Me("shared"))
          /\ pass'["shared"].key = pass["shared"].key /\ pass["shared"].pc = "check_retained"
      BY <1>6, <2>1 DEF Rereads, Still, AfterCheck, AfterFlush
    <3>3. Me("shared") \in Shared
      BY <1>0, <3>2, FlusherRecord DEF Checking
    <3> QED
      BY <1>6, <2>1, <3>1, <3>2, <3>3, Names DEF RetainedHolders
  <2>2. CASE Rereads(c) /\ pass'["shared"] = pass["shared"]
    <3>1. SharedHolders(pass[c].key, Me(c)) = {} /\ pass[c].pc = "check_shared" /\ pass'[c].key = pass[c].key
      BY <1>6, <2>2 DEF Rereads, Still, AfterCheck, AfterFlush
    <3>2. Me(c) = c
      BY <2>0, <3>1, FlusherRecord DEF Checking
    <3>3. Me("shared") \in Shared /\ obj[Me("shared")].key = pass["shared"].key
      BY <1>0, <1>6, <2>2, FlusherRecord, Names DEF Checking
    <3> QED
      BY <1>6, <2>2, <3>1, <3>2, <3>3, Names DEF SharedHolders
  <2>3. CASE pass'[c] = pass[c] /\ pass'["shared"] = pass["shared"]
    BY <1>6, <2>3 DEF KeepInv, Provisioning, Busy
  <2> QED
    BY <1>0, <1>6, <2>0, <2>1, <2>2, <2>3, FlushBefore
<1> QED
  BY <1>1, <1>2, <1>3, <1>4, <1>5, <1>6 DEF KeepInv

\* What keeps the data.
CustodyInv ==
  /\ TenureInv /\ RecordInv /\ ReadyInv /\ UnfinishedInv
  /\ SnapshotInv /\ CollectInv /\ DataInv /\ KeepInv

LEMMA CustodyInit == Init => CustodyInv
<1> SUFFICES ASSUME Init PROVE CustodyInv
  OBVIOUS
<1>1. /\ \A a \in Actor : pass[a] = Idle /\ pass[a].pc = "idle"
      /\ "claim" \in Actor /\ "shared" \in Actor /\ \A a \in Controller : a \in Actor
      /\ \A a \in Controller : ~Busy(a) /\ ~Provisioning(a)
      /\ \A c \in Claim : c \in Actor /\ c \in Holder
      /\ \A s \in Shared : s \in Holder /\ s \notin Claim
  BY Names DEF Init, Busy, Provisioning, Idle
<1>2. \A h \in Holder : obj[h] = NoObj
  BY DEF Init
<1>3. NoObj.st = "absent" /\ ~NoObj.fin /\ ~NoObj.ready /\ NoObj.key = NoKey
  BY DEF NoObj
<1>4. \A c \in Claim : snap[c] = NoSnap /\ snap[c].key = NoKey /\ ~snap[c].there
  BY DEF Init, NoSnap
<1>5. late = {} /\ (\A h : LateOf(h) = {}) /\ \A a \in Controller : \A h : ~Of(a, h)
  BY <1>1 DEF Init, LateOf, Of
<1>6. RecordInv
  BY <1>1, <1>2, <1>3, <1>4, <1>5 DEF RecordInv, OwnRecord, PassRecord
<1>7. ReadyInv /\ UnfinishedInv /\ SnapshotInv /\ CollectInv
  BY <1>1, <1>2, <1>3, <1>4, <1>5, Names DEF ReadyInv, ReadyOf, UnfinishedInv, UnfinishedOf, SnapshotInv,
     SnapshotOf, CollectInv, CollectOf, On
<1>8. \A k \in Key : data[k] = {}
  BY DEF Init
<1>9. DataInv
  BY <1>8 DEF DataInv, DataOf
<1>10. \A h \in Holder, k \in Key : ~Keeps(h, k)
  <2>1. \A h \in Holder : ~Won(h)
    BY <1>1, <1>2, <1>3, <1>5 DEF Won, Provisioned
  <2> QED
    BY <1>8, <2>1 DEF Keeps, Stored
<1>11. KeepInv
  BY <1>1, <1>10 DEF KeepInv, FoundWon, FoundStored, FoundAll
<1> QED
  BY <1>6, <1>7, <1>9, <1>11, TenureInit DEF CustodyInv

LEMMA CustodyStutter == CustodyInv /\ UNCHANGED vars => CustodyInv'
<1> SUFFICES ASSUME CustodyInv, UNCHANGED vars PROVE CustodyInv'
  OBVIOUS
<1>1. UNCHANGED <<obj, snap, data, acl, pass, late>>
  BY DEF vars
<1>2. TenureInv'
  BY TenureStutter DEF CustodyInv
<1>3. \A a, h : /\ Of(a, h)' <=> Of(a, h)
                /\ Busy(a)' <=> Busy(a)
                /\ Provisioning(a)' <=> Provisioning(a)
                /\ Me(a)' = Me(a)
                /\ LateOf(h)' = LateOf(h)
                /\ Provisioned(h)' <=> Provisioned(h)
  BY <1>1 DEF Of, Busy, Provisioning, Me, LateOf, Provisioned
<1>4. RecordInv'
  BY <1>1, <1>3 DEF CustodyInv, RecordInv, OwnRecord, LateRecord, PassRecord, ProvisionRecord, DropRecord
<1>5. ReadyInv' /\ UnfinishedInv'
  BY <1>1, <1>3 DEF CustodyInv, ReadyInv, ReadyOf, UnfinishedInv, UnfinishedOf
<1>6. SnapshotInv' /\ CollectInv' /\ DataInv'
  BY <1>1, <1>3 DEF CustodyInv, SnapshotInv, SnapshotOf, CollectInv, CollectOf, DataInv, DataOf
<1>7. \A h : Won(h)' <=> Won(h)
  BY <1>1, <1>3 DEF Won, Provisions
<1>8. \A h, k : (Stored(h, k)' <=> Stored(h, k)) /\ (Keeps(h, k)' <=> Keeps(h, k))
  BY <1>1, <1>7 DEF Stored, Keeps
<1>9. KeepInv'
  BY <1>1, <1>3, <1>7, <1>8 DEF CustodyInv, KeepInv, FoundWon, FoundStored, FoundAll
<1> QED
  BY <1>2, <1>4, <1>5, <1>6, <1>9 DEF CustodyInv

\* The argument is inductive.
LEMMA CustodyStep ==
  ASSUME SettledWrites, FreshCache, QuietGC
  PROVE  CustodyInv /\ [Next]_vars => CustodyInv'
<1> SUFFICES ASSUME CustodyInv, Next PROVE CustodyInv'
  BY CustodyStutter
<1> USE DEF CustodyInv
<1>1. TenureInv'
  BY BaseStep, PinnedStep, LateStep, HeldStep, WonStep DEF TenureInv
<1>2. RecordInv' /\ ReadyInv' /\ UnfinishedInv' /\ SnapshotInv' /\ CollectInv'
  BY RecordStep, ReadyStep, UnfinishedStep, SnapshotStep, CollectStep DEF TenureInv
<1>3. DataInv'
  BY ClaimDataStep, SharedDataStep DEF TenureInv, DataInv, Holder
<1>4. KeepInv'
  BY KeepStep DEF TenureInv
<1> QED
  BY <1>1, <1>2, <1>3, <1>4

\* A FLUSHDB under way: whose number, and whose pass.
LEMMA WipedBy ==
  ASSUME CustodyInv, Next, NEW h \in Holder, NEW k \in Key, Wiped(h, k)
  PROVE  /\ \E a \in Actor : Flush(a) /\ pass[a].key = k /\ pass[a].pc = "flush"
         /\ \A a \in Actor : Flush(a) /\ pass[a].key = k /\ Me(a) # h => ~Keeps(h, k)
<1>1. h \in data[k] /\ data'[k] = {}
  BY DEF Wiped
<1>2. \E a \in Actor : Flush(a) /\ pass[a].key = k
  BY <1>1, FlushEffect DEF CustodyInv, TenureInv
<1>3. ASSUME NEW a \in Actor, Flush(a), pass[a].key = k, Me(a) # h PROVE ~Keeps(h, k)
  BY <1>3 DEF Flush, At, CustodyInv, KeepInv, FoundAll
<1> QED
  BY <1>2, <1>3 DEF Flush, At

\* Nobody's FLUSHDB wipes the data of another holder that is provisioned on the
\* number or whose snapshot reserves it (NoForeignFlush), for any number of claims
\* and shared databases and of dropped passes: of two passes that re-read one
\* number the later one finds the other's holder, and every pass that flushes has
\* re-read (dbnum_holders_besides).
THEOREM NoForeignFlushEver ==
  ASSUME SettledWrites, FreshCache, QuietGC
  PROVE  Spec => NoForeignFlush
<1> DEFINE Unhurt == \A h \in Holder, k \in Key : Occupies(h, k) /\ Wiped(h, k) => FlushesFor(h)
<1>1. CustodyInv /\ [Next]_vars => [Unhurt]_vars
  <2> SUFFICES ASSUME CustodyInv, Next, NEW h \in Holder, NEW k \in Key, Occupies(h, k), Wiped(h, k)
               PROVE  FlushesFor(h)
    OBVIOUS
  <2>1. PICK a \in Actor : Flush(a) /\ pass[a].key = k /\ pass[a].pc = "flush"
    BY WipedBy
  <2>2. Keeps(h, k)
    BY DEF Occupies, Wiped, Keeps, Stored, Won
  <2>3. Me(a) = h
    BY <2>1, <2>2, WipedBy
  <2>4. pass'[a] # pass[a]
    <3>1. pass \in [Actor -> PassType] /\ pass' = [pass EXCEPT ![a].pc = AfterFlush(a)]
      BY <2>1 DEF CustodyInv, TenureInv, BaseInv, PassOK, Flush, Go
    <3>2. pass'[a].pc = AfterFlush(a)
      BY <3>1 DEF PassType
    <3> QED
      BY <2>1, <3>2 DEF AfterFlush
  <2> QED
    BY <2>1, <2>3, <2>4 DEF FlushesFor, At, Me
<1> QED
  BY <1>1, CustodyInit, CustodyStep, PTL DEF Spec, NoForeignFlush

\* Within its grace a deleted claim's data on a persistent instance is flushed by
\* nobody (GraceKeepsData): not by another holder, not by its own re-creation,
\* which re-attaches (skip_flush), and not by the collector (GRACE_PERIOD).
THEOREM GraceKeepsDataEver ==
  ASSUME SettledWrites, FreshCache, QuietGC
  PROVE  Spec => GraceKeepsData
<1> DEFINE Graced == \A c \in Claim, k \in Key :
      snap[c].key = k /\ ~snap[c].expired /\ k[1] = "persistent" => ~Wiped(c, k)
<1>1. CustodyInv /\ [Next]_vars => [Graced]_vars
  <2> SUFFICES ASSUME CustodyInv, Next, NEW c \in Claim, NEW k \in Key, snap[c].key = k,
                      ~snap[c].expired, k[1] = "persistent", Wiped(c, k)
               PROVE  FALSE
    OBVIOUS
  <2>0. c \in Holder /\ NoKey \notin Key /\ "claim" \in Controller
    BY Names
  <2>1. PICK a \in Actor : Flush(a) /\ pass[a].key = k /\ pass[a].pc = "flush"
    BY <2>0, WipedBy
  <2>2. Keeps(c, k)
    BY DEF Wiped, Keeps, Stored
  <2>3. Me(a) = c
    BY <2>0, <2>1, <2>2, WipedBy
  <2>4. /\ a = "claim" => Provisioning(a)
        /\ a \in Claim => Me(a) = a
        /\ a # "shared"
    BY <2>0, <2>1, <2>3, FlusherRecord, Names DEF CustodyInv, TenureInv
  <2>5. a \notin Claim
    BY <2>0, <2>1, <2>3, <2>4 DEF CustodyInv, CollectInv, CollectOf
  <2>6. a = "claim" /\ Provisioning(a) /\ Of(a, c)
    BY <2>3, <2>4, <2>5 DEF Actor, Controller, Of, Provisioning
  <2>7. On(pass[a].key, pass[a].inst)
    BY <2>0, <2>1, <2>6 DEF CustodyInv, RecordInv, PassRecord, ProvisionRecord
  <2>8. SnapshotOf(c) /\ pass[a].pc \in Deciding /\ pass[a].goal = "provision"
    BY <2>1, <2>6 DEF CustodyInv, SnapshotInv, Deciding, Committed, Provisioning
  <2> QED
    BY <2>1, <2>6, <2>7, <2>8 DEF SnapshotOf, On
<1> QED
  BY <1>1, CustodyInit, CustodyStep, PTL DEF Spec, GraceKeepsData

\* The data of a live object that holds its number is flushed by nobody, its own
\* retries included, but for a claim that re-attaches on an ephemeral instance
\* (LiveDataSurvives; skip_flush, reattach_in_progress, backing_of).
THEOREM LiveDataSurvivesEver ==
  ASSUME SettledWrites, FreshCache, QuietGC
  PROVE  Spec => LiveDataSurvives
<1> DEFINE Survives == \A h \in Holder, k \in Key :
      obj[h].st = "live" /\ obj[h].key = k /\ Wiped(h, k)
      => h \in Claim /\ ~obj[h].ready /\ k[1] = "ephemeral"
<1>1. CustodyInv /\ [Next]_vars => [Survives]_vars
  <2> SUFFICES ASSUME CustodyInv, Next, NEW h \in Holder, NEW k \in Key, obj[h].st = "live",
                      obj[h].key = k, Wiped(h, k), ~(h \in Claim /\ ~obj[h].ready /\ k[1] = "ephemeral")
               PROVE  FALSE
    OBVIOUS
  <2>0. NoKey \notin Key /\ "claim" \in Controller /\ "shared" \in Controller
    BY Names
  <2>1. PICK a \in Actor : Flush(a) /\ pass[a].key = k /\ pass[a].pc = "flush"
    BY WipedBy
  <2>2. h \in Claim /\ ~obj[h].ready => k[1] = "persistent" /\ snap[h].key = k
    <3>1. k[1] \in {"ephemeral", "persistent"}
      BY ConstantsAssumption DEF Key
    <3> QED
      BY <3>1 DEF Wiped, CustodyInv, DataInv, DataOf
  <2>3. h \in Shared => Provisioned(h)
    BY DEF Wiped, CustodyInv, DataInv, DataOf
  <2>4. Keeps(h, k)
    BY <2>2, <2>3, Names DEF Keeps, Stored, Won, Provisioned, Wiped, Holder
  <2>5. Me(a) = h
    BY <2>1, <2>4, WipedBy
  <2>6. /\ a = "claim" => Provisioning(a) /\ h \in Claim
        /\ a \in Claim => Me(a) = a
        /\ a = "shared" => h \in Shared /\ Busy(a)
    BY <2>0, <2>1, <2>5, FlusherRecord, Names DEF CustodyInv, TenureInv
  <2>7. a \notin Claim
    BY <2>0, <2>1, <2>5, <2>6 DEF CustodyInv, CollectInv, CollectOf
  <2>8. CASE a = "claim"
    <3>1. Provisioning(a) /\ Of(a, h) /\ h \in Claim
      BY <2>5, <2>6, <2>8 DEF Of, Provisioning
    <3>2. ~obj[h].ready
      BY <2>1, <2>8, <3>1 DEF CustodyInv, ReadyInv, ReadyOf, Provisioning
    <3>3. On(pass[a].key, pass[a].inst)
      BY <2>0, <2>1, <2>8, <3>1 DEF CustodyInv, RecordInv, PassRecord, ProvisionRecord
    <3>4. SnapshotOf(h) /\ pass[a].pc \in Deciding /\ pass[a].goal = "provision"
      BY <2>1, <3>1 DEF CustodyInv, SnapshotInv, Deciding, Committed, Provisioning
    <3> QED
      BY <2>1, <2>2, <2>8, <3>1, <3>2, <3>3, <3>4 DEF SnapshotOf, On
  <2>9. CASE a = "shared"
    <3>1. Of(a, h) /\ h \in Shared /\ Busy(a)
      BY <2>5, <2>6, <2>9 DEF Of
    <3>2. pass[a].goal # "drop"
      BY <2>0, <2>5, <2>9, <3>1 DEF CustodyInv, RecordInv, PassRecord, DropRecord
    <3>3. pass[a].goal = "provision"
      BY <2>0, <2>9, <3>2, Apart DEF CustodyInv, TenureInv
    <3>4. obj[h].unfin
      BY <2>1, <2>9, <3>1, <3>3 DEF CustodyInv, UnfinishedInv, UnfinishedOf
    <3> QED
      BY <2>3, <3>1, <3>4, Names DEF Provisioned
  <2> QED
    BY <2>7, <2>8, <2>9 DEF Actor, Controller
<1> QED
  BY <1>1, CustodyInit, CustodyStep, PTL DEF Spec, LiveDataSurvives

-----------------------------------------------------------------------------
(* The refinement of Tenancy. *)

\* A step changes one object, one snapshot or one number, if any.
Redrawn(h) == data' = data \/ data' = Disowned(h)
ObjMove(h) == (\A g \in Holder \ {h} : obj'[g] = obj[g]) /\ snap' = snap /\ Redrawn(h)
SnapMove(c) ==
  /\ obj' = obj /\ (\A d \in Claim \ {c} : snap'[d] = snap[d]) /\ Redrawn(c)
  /\ snap'[c].key = snap[c].key \/ NoKey \in {snap[c].key, snap'[c].key}

LEMMA StepKinds ==
  ASSUME SettledWrites, FreshCache, CustodyInv, Next
  PROVE  \/ UNCHANGED <<obj, snap, data>>
         \/ \E a \in Actor : Flush(a)
         \/ \E h \in Holder, k \in Key : Use(h, k)
         \/ \E h \in Holder : ObjMove(h)
         \/ \E c \in Claim : SnapMove(c)
<1>0. BaseInv /\ PinnedInv /\ LateInv /\ RecordInv
  BY DEF CustodyInv, TenureInv
<1>a. /\ snap \in [Claim -> [there : BOOLEAN, key : KeyOrNone, expired : BOOLEAN]]
      /\ NoSnap.key = NoKey
      /\ \A c \in Claim : [snap[c] EXCEPT !.expired = TRUE].key = snap[c].key
  BY <1>0 DEF BaseInv, SnapOK, NoSnap
<1>1. ASSUME NEW c \in Claim, snap' = [snap EXCEPT ![c] = NoSnap], obj' = obj, Redrawn(c)
      PROVE  SnapMove(c)
  BY <1>a, <1>1 DEF SnapMove
<1>2. CASE Cancel("claim") \/ CancelBeforeRelease("claim")
  <2>1. pass["claim"].pc \in {"cancel", "cancel_before_release"}
    BY <1>2 DEF Cancel, CancelBeforeRelease, At
  <2>2. Me("claim") \in Claim
    BY <1>0, <2>1, Apart, Names DEF Busy
  <2> QED
    BY <1>1, <1>2, <2>2 DEF Cancel, CancelBeforeRelease, Redrawn
<1>3. CASE TakeSnapshot("claim")
  <2>1. pass["claim"].pc = "snapshot" /\ obj' = obj /\ data' = data
    BY <1>3 DEF TakeSnapshot, At
  <2>2. Me("claim") \in Claim
    BY <1>0, <2>1, Apart, Names DEF Busy
  <2>3. \A d \in Claim \ {Me("claim")} : snap'[d] = snap[d]
    BY <1>a, <1>3, <2>2 DEF TakeSnapshot
  <2>4. \/ snap'[Me("claim")] = snap[Me("claim")]
        \/ ~snap[Me("claim")].there
    BY <1>a, <1>3, <2>2 DEF TakeSnapshot
  <2>5. snap'[Me("claim")].key = snap[Me("claim")].key \/ snap[Me("claim")].key = NoKey
    BY <1>0, <2>2, <2>4 DEF RecordInv
  <2> QED
    BY <2>1, <2>2, <2>3, <2>5 DEF SnapMove, Redrawn
<1>4. ASSUME NEW c \in Claim, DeleteSnapshot(c) PROVE SnapMove(c)
  <2>1. pass[c].obj = c
    BY <1>0, <1>4, Names DEF DeleteSnapshot, At, BaseInv, PassOK, ShapeInv, Fits, ShapeOf, Idle
  <2> QED
    BY <1>1, <1>4, <2>1 DEF DeleteSnapshot, Me, Redrawn
<1>5. ASSUME NEW c \in Claim, GraceElapses(c) PROVE SnapMove(c)
  BY <1>a, <1>5 DEF GraceElapses, SnapMove, Redrawn
<1>6. ASSUME NEW a \in Controller, NEW h \in Holder, Begin(a, h) PROVE ObjMove(h)
  BY <1>0, <1>6, BeginEffect, FreshBegin DEF ObjMove, Redrawn
<1>7. ASSUME NEW a \in Controller, WriteStep(a) PROVE \E h \in Holder : ObjMove(h)
  <2>1. Me(a) \in Holder /\ \A g \in Holder \ {Me(a)} : obj'[g] = obj[g]
    BY <1>0, <1>7, WriteFields
  <2>2. snap' = snap /\ Redrawn(Me(a))
    BY <1>7 DEF WriteStep, Checkpoint, Release, Refuse, KeepConflicting, Terminal, Write, Redrawn
  <2> QED
    BY <2>1, <2>2 DEF ObjMove
<1>8. ASSUME NEW a \in Controller, Unfinalize(a) PROVE \E h \in Holder : ObjMove(h)
  <2>1. Me(a) \in Holder /\ \A g \in Holder \ {Me(a)} : obj'[g] = obj[g]
    BY <1>0, <1>8, UnfinalizeEffect
  <2> QED
    BY <1>8, <2>1 DEF ObjMove, Unfinalize, Redrawn
<1>9. ASSUME NEW w \in late, LateCommit(w) PROVE \E h \in Holder : ObjMove(h)
  <2>1. w.obj \in Holder /\ \A g \in Holder \ {w.obj} : obj'[g] = obj[g]
    BY <1>0, <1>9, LateEffect
  <2> QED
    BY <1>9, <2>1 DEF ObjMove, LateCommit, Redrawn
<1>10. ASSUME NEW h \in Holder, Delete(h) \/ \E i \in Instance : Create(h, i) PROVE ObjMove(h)
  <2>1. \A g \in Holder \ {h} : obj'[g] = obj[g]
    BY <1>0, <1>10, UserEffect
  <2> QED
    BY <1>10, <2>1 DEF ObjMove, Delete, Create, Redrawn
<1>11. CASE OperatorStep
  <2>1. CASE ClaimStep
    BY <1>2, <1>3, <1>6, <1>7, <2>1, Names
       DEF ClaimStep, Begin, WriteStep, OwnSnapshot, SetUser, FindSnapshot
  <2>2. CASE SharedStep
    BY <1>6, <1>7, <2>2, Names DEF SharedStep, Begin, WriteStep
  <2>3. CASE \E c \in Claim : GCStep(c)
    BY <1>4, <2>3 DEF GCStep, BeginCollect, DelUser, DelUserFails
  <2>4. CASE \E a \in Controller : AllocatorStep(a)
    BY <1>7, <1>8, <2>4 DEF AllocatorStep, WriteStep, TakeLock, ListClaims, ListRetained, ListShared
  <2>5. CASE \E a \in Actor : FlusherStep(a)
    BY <2>5 DEF FlusherStep, CheckClaims, CheckRetained, CheckShared, FlushFails
  <2> QED
    BY <1>11, <2>1, <2>2, <2>3, <2>4, <2>5 DEF OperatorStep
<1>12. CASE EnvironmentStep
  BY <1>5, <1>9, <1>10, <1>12 DEF EnvironmentStep, DropPass, WatchDelivers
<1> QED
  BY <1>11, <1>12 DEF Next

\* An owner keeps its number.
LEMMA OwnerKeeps ==
  ASSUME NEW h \in Holder, NEW k \in Key, Owns(h, k)
  PROVE  Keeps(h, k)
BY DEF Owns, Keeps, Stored, Won

\* An owner has kept the number already: it is won before it is put into use.
LEMMA OwnerBefore ==
  ASSUME SettledWrites, FreshCache, QuietGC, CustodyInv, Next, NEW h \in Holder, NEW k \in Key,
         Owns(h, k)'
  PROVE  Keeps(h, k)
<1>1. CASE Provisioned(h)' /\ obj'[h].key = k
  <2>1. Won(h)'
    BY <1>1 DEF Won
  <2>2. CASE Won(h) /\ obj'[h].key = obj[h].key
    BY <1>1, <2>2 DEF Keeps
  <2>3. CASE obj' = obj
    BY <1>1, <2>3 DEF Provisioned, Won, Keeps
  <2> QED
    BY <2>1, <2>2, <2>3, WonBefore DEF CustodyInv, TenureInv, Wins
<1>2. CASE Stored(h, k)'
  BY <1>2, KeptBefore DEF CustodyInv, TenureInv
<1> QED
  BY <1>1, <1>2 DEF Owns, Stored

\* A holder in use stays on its number.
LEMMA SameNumber ==
  ASSUME SettledWrites, FreshCache, CustodyInv, Next, NEW h \in Holder, Provisioned(h)'
  PROVE  obj'[h].key = obj[h].key
BY WonBefore DEF CustodyInv, TenureInv, Wins, Won

\* Nobody flushes a number that has an owner.
LEMMA OwnerUnflushed ==
  ASSUME CustodyInv, NEW a \in Actor, Flush(a), pass[a].key \in Key, NEW h \in Holder
  PROVE  ~Owns(h, pass[a].key)
<1> SUFFICES ASSUME Owns(h, pass[a].key) PROVE FALSE
  OBVIOUS
<1> DEFINE k == pass[a].key
<1>0. /\ NoKey \notin Key /\ "claim" \in Controller /\ "shared" \in Controller
      /\ pass[a].pc = "flush" /\ BaseInv
      /\ \A c \in Claim : obj[c].st = "absent" => ~obj[c].ready
  BY Names DEF Flush, At, CustodyInv, TenureInv, BaseInv, ObjOK, ObjectInv, NoObj
<1>1. Me(a) = h
  BY <1>0, OwnerKeeps DEF CustodyInv, KeepInv, FoundAll
<1>2. /\ a = "claim" => Provisioning(a) /\ h \in Claim
      /\ a \in Claim => Me(a) = a
      /\ a = "shared" => h \in Shared /\ Busy(a)
  BY <1>0, <1>1, FlusherRecord DEF CustodyInv, TenureInv
<1>3. CASE a \in Claim
  BY <1>0, <1>1, <1>2, <1>3 DEF CustodyInv, CollectInv, CollectOf, Owns, Provisioned
<1>4. CASE a = "claim"
  <2>1. Provisioning(a) /\ Of(a, h) /\ h \in Claim /\ h \notin Shared
    BY <1>1, <1>2, <1>4, Names DEF Of, Provisioning
  <2>2. ~obj[h].ready
    BY <1>0, <1>4, <2>1 DEF CustodyInv, ReadyInv, ReadyOf, Provisioning
  <2>3. On(k, pass[a].inst)
    BY <1>0, <1>4, <2>1 DEF CustodyInv, RecordInv, PassRecord, ProvisionRecord
  <2>4. SnapshotOf(h) /\ pass[a].pc \in Deciding /\ pass[a].goal = "provision"
    BY <1>0, <2>1 DEF CustodyInv, SnapshotInv, Deciding, Committed, Provisioning
  <2> QED
    BY <1>0, <1>4, <2>1, <2>2, <2>3, <2>4 DEF SnapshotOf, On, Owns, Provisioned
<1>5. CASE a = "shared"
  <2>1. Of(a, h) /\ h \in Shared /\ h \notin Claim /\ Busy(a)
    BY <1>1, <1>2, <1>5, Names DEF Of
  <2>2. obj[h].st = "live" /\ Provisioned(h)
    BY <2>1 DEF Owns
  <2>3. pass[a].goal # "drop"
    BY <1>0, <1>1, <1>5, <2>1, <2>2 DEF CustodyInv, RecordInv, PassRecord, DropRecord
  <2>4. pass[a].goal = "provision"
    BY <1>0, <1>5, <2>3, Apart
  <2>5. obj[h].unfin
    BY <1>0, <1>5, <2>1, <2>4 DEF CustodyInv, UnfinishedInv, UnfinishedOf
  <2> QED
    BY <2>1, <2>2, <2>5 DEF Provisioned
<1> QED
  BY <1>3, <1>4, <1>5 DEF Actor, Controller

\* Nothing changes for h in room k.
Same(h, k) ==
  /\ Owns(h, k)' <=> Owns(h, k)
  /\ Owns(h, k) => (h \in data'[k] <=> h \in data[k])

\* A room's data is redrawn for its departing holder only.
LEMMA RedrawnFor ==
  ASSUME BaseInv, NEW g \in Holder, Redrawn(g), NEW h \in Holder, NEW k \in Key,
         h # g \/ obj'[g].key = k \/ (g \in Claim /\ snap'[g].key = k)
  PROVE  h \in data'[k] <=> h \in data[k]
<1>0. data \in [Key -> SUBSET (Holder \cup {NoHolder})] /\ h # NoHolder
  BY Names DEF BaseInv, DataOK
<1>1. CASE data' = data
  BY <1>1
<1>2. CASE data' = Disowned(g)
  <2>1. CASE data'[k] = data[k]
    BY <2>1
  <2>2. CASE h # g /\ data'[k] = {IF f = g THEN NoHolder ELSE f : f \in data[k]}
    BY <1>0, <2>2
  <2> QED
    BY <1>2, <2>1, <2>2 DEF Disowned
<1> QED
  BY <1>1, <1>2 DEF Redrawn

\* A step changes one room at most.
LEMMA OneRoom ==
  ASSUME SettledWrites, FreshCache, QuietGC, CustodyInv, Next
  PROVE  \/ \A h \in Holder, k \in Key : Same(h, k)
         \/ \E r \in Key : \A h \in Holder, k \in Key \ {r} : Same(h, k)
<1>0. /\ BaseInv /\ data \in [Key -> SUBSET (Holder \cup {NoHolder})] /\ NoKey \notin Key
      /\ \A c \in Claim : c \in Holder
  BY Names DEF CustodyInv, TenureInv, BaseInv, DataOK
<1>1. ASSUME NEW h \in Holder, NEW k \in Key, obj'[h] = obj[h], h \in Claim => snap'[h] = snap[h],
             h \in data'[k] <=> h \in data[k]
      PROVE  Same(h, k)
  BY <1>1 DEF Same, Owns, Provisioned
<1>2. CASE UNCHANGED <<obj, snap, data>>
  BY <1>1, <1>2
<1>3. ASSUME NEW a \in Actor, Flush(a) PROVE \A h \in Holder, k \in Key : Same(h, k)
  <2>1. data' = [data EXCEPT ![pass[a].key] = {}] /\ obj' = obj /\ snap' = snap
    BY <1>3 DEF Flush
  <2> SUFFICES ASSUME NEW h \in Holder, NEW k \in Key PROVE Same(h, k)
    OBVIOUS
  <2>2. CASE k # pass[a].key
    BY <1>0, <1>1, <2>1, <2>2
  <2>3. CASE k = pass[a].key
    <3>1. ~Owns(h, k)
      BY <1>3, <2>3, OwnerUnflushed
    <3>2. data'[k] = {}
      BY <1>0, <2>1, <2>3
    <3>3. Owns(h, k)' => Owns(h, k)
      BY <2>1, <3>2 DEF Owns, Provisioned
    <3> QED
      BY <3>1, <3>3 DEF Same
  <2> QED
    BY <2>2, <2>3
<1>4. ASSUME NEW g \in Holder, NEW r \in Key, Use(g, r)
      PROVE  \A h \in Holder, k \in Key \ {r} : Same(h, k)
  <2>1. data' = [data EXCEPT ![r] = @ \cup {g}] /\ obj' = obj /\ snap' = snap
    BY <1>4 DEF Use
  <2>2. \A k \in Key \ {r} : data'[k] = data[k]
    BY <1>0, <2>1
  <2> QED
    BY <1>1, <2>1, <2>2
<1>5. ASSUME NEW g \in Holder, ObjMove(g)
      PROVE  \E r \in Key \cup {NoKey} : \A h \in Holder, k \in Key : k # r => Same(h, k)
  <2> DEFINE r == IF Provisioned(g) THEN obj[g].key ELSE obj'[g].key
  <2>1. r \in Key \cup {NoKey}
    BY <1>0, BaseStep DEF BaseInv, ObjOK, ObjType, KeyOrNone
  <2>2. ASSUME NEW h \in Holder, NEW k \in Key, h # g PROVE Same(h, k)
    BY <1>0, <1>1, <1>5, <2>2, RedrawnFor DEF ObjMove
  <2>3. ASSUME NEW k \in Key, k # r PROVE Same(g, k)
    <3>1. ~(Provisioned(g) /\ obj[g].key = k)
      BY <2>3
    <3>2. ~(Provisioned(g)' /\ obj'[g].key = k)
      BY <2>3, SameNumber
    <3>3. g \in Claim /\ snap[g].key = k => (g \in data'[k] <=> g \in data[k])
      BY <1>0, <1>5, RedrawnFor DEF ObjMove
    <3>4. snap' = snap
      BY <1>5 DEF ObjMove
    <3> QED
      BY <3>1, <3>2, <3>3, <3>4 DEF Same, Owns
  <2> HIDE DEF r
  <2> QED
    BY <2>1, <2>2, <2>3
<1>6. ASSUME NEW c \in Claim, SnapMove(c)
      PROVE  \E r \in Key \cup {NoKey} : \A h \in Holder, k \in Key : k # r => Same(h, k)
  <2> DEFINE r == IF snap[c].key # NoKey THEN snap[c].key ELSE snap'[c].key
  <2>1. r \in Key \cup {NoKey}
    BY <1>0, BaseStep DEF BaseInv, SnapOK, KeyOrNone
  <2>2. ASSUME NEW h \in Holder, NEW k \in Key, h # c PROVE Same(h, k)
    BY <1>0, <1>1, <1>6, <2>2, RedrawnFor DEF SnapMove
  <2>3. ASSUME NEW k \in Key, k # r PROVE Same(c, k)
    <3>1. snap[c].key # k /\ snap'[c].key # k
      BY <1>0, <1>6, <2>3 DEF SnapMove
    <3>2. obj' = obj
      BY <1>6 DEF SnapMove
    <3>3. obj[c].key = k => (c \in data'[k] <=> c \in data[k])
      BY <1>0, <1>6, <3>2, RedrawnFor DEF SnapMove
    <3> QED
      BY <3>1, <3>2, <3>3 DEF Same, Owns, Provisioned
  <2> HIDE DEF r
  <2> QED
    BY <1>0, <2>1, <2>2, <2>3
<1>7. ASSUME NEW r \in Key \cup {NoKey}, \A h \in Holder, k \in Key : k # r => Same(h, k)
      PROVE  \/ \A h \in Holder, k \in Key : Same(h, k)
             \/ \E q \in Key : \A h \in Holder, k \in Key \ {q} : Same(h, k)
  BY <1>0, <1>7
<1> QED
  BY <1>2, <1>3, <1>4, <1>5, <1>6, <1>7, StepKinds

\* The owners of a room, and the data they have in it.
OwnersOf(k) == {h \in Holder : Owns(h, k)}
StuffOf(k) == {h \in data[k] \cap Holder : Owns(h, k)}

\* What happens in a room: it has one owner at most, who comes only when nobody is
\* there and whose data stays.
LEMMA RoomStep ==
  ASSUME SettledWrites, FreshCache, QuietGC, CustodyInv, Next, NEW r \in Key
  PROVE  \/ OwnersOf(r)' = {} /\ StuffOf(r)' = {}
         \/ \E t \in Holder :
              /\ OwnersOf(r)' = {t}
              /\ \/ OwnersOf(r) = {} /\ StuffOf(r) = {} /\ StuffOf(r)' \in {{}, {t}}
                 \/ OwnersOf(r) = {t} /\ (StuffOf(r)' = {t} \/ StuffOf(r)' = StuffOf(r))
<1>1. CASE OwnersOf(r)' = {}
  BY <1>1 DEF OwnersOf, StuffOf
<1>2. ASSUME NEW t \in Holder, Owns(t, r)'
      PROVE  /\ OwnersOf(r)' = {t}
             /\ \/ OwnersOf(r) = {} /\ StuffOf(r) = {} /\ StuffOf(r)' \in {{}, {t}}
                \/ OwnersOf(r) = {t} /\ (StuffOf(r)' = {t} \/ StuffOf(r)' = StuffOf(r))
  <2>1. Keeps(t, r)
    BY <1>2, OwnerBefore
  <2>2. \A g \in Holder \ {t} : ~Owns(g, r) /\ ~Owns(g, r)'
    BY <2>1, OwnerKeeps, OwnerBefore DEF CustodyInv, KeepInv
  <2>3. OwnersOf(r)' = {t} /\ OwnersOf(r) \in {{}, {t}}
    BY <1>2, <2>2 DEF OwnersOf
  <2>4. /\ StuffOf(r) = IF Owns(t, r) /\ t \in data[r] THEN {t} ELSE {}
        /\ StuffOf(r)' = IF t \in data'[r] THEN {t} ELSE {}
    BY <1>2, <2>2 DEF StuffOf
  <2>5. ASSUME Owns(t, r), t \in data[r], t \notin data'[r] PROVE FALSE
    <3>0. BaseInv /\ data \in [Key -> SUBSET (Holder \cup {NoHolder})] /\ \A c \in Claim : c \in Holder
      BY Names DEF CustodyInv, TenureInv, BaseInv, DataOK
    <3>1. ASSUME NEW a \in Actor, Flush(a) PROVE FALSE
      <4>1. r # pass[a].key
        BY <2>5, <3>1, OwnerUnflushed
      <4> QED
        BY <2>5, <3>0, <3>1, <4>1 DEF Flush
    <3>2. obj'[t].key = r \/ (t \in Claim /\ snap'[t].key = r)
      BY <1>2 DEF Owns
    <3>3. ASSUME NEW g \in Holder, Redrawn(g) PROVE FALSE
      BY <2>5, <3>0, <3>2, <3>3, RedrawnFor
    <3>4. ASSUME NEW g \in Holder, NEW k \in Key, Use(g, k) PROVE FALSE
      <4>1. data'[r] = data[r] \/ data'[r] = data[r] \cup {g}
        BY <3>0, <3>4 DEF Use
      <4> QED
        BY <2>5, <4>1
    <3> QED
      BY <2>5, <3>0, <3>1, <3>3, <3>4, StepKinds DEF ObjMove, SnapMove
  <2>6. Owns(t, r) <=> OwnersOf(r) = {t}
    BY <2>2 DEF OwnersOf
  <2> QED
    BY <2>3, <2>4, <2>5, <2>6
<1>3. ASSUME OwnersOf(r)' # {} PROVE \E t \in Holder : Owns(t, r)'
  BY <1>3 DEF OwnersOf
<1> QED
  BY <1>1, <1>2, <1>3

Owners == [k \in Key |-> OwnersOf(k)]
Stuff == [k \in Key |-> StuffOf(k)]

\* Every step is a step of Tenancy, or none.
LEMMA TenancyStep ==
  ASSUME SettledWrites, FreshCache, QuietGC, CustodyInv, Next
  PROVE  \/ \E r \in Key :
              \/ Owners' = [Owners EXCEPT ![r] = {}] /\ Stuff' = [Stuff EXCEPT ![r] = {}]
              \/ \E t \in Holder :
                   \/ /\ Owners[r] = {} /\ Owners' = [Owners EXCEPT ![r] = {t}]
                      /\ Stuff' \in {Stuff, [Stuff EXCEPT ![r] = {t}]}
                   \/ Owners[r] = {t} /\ Stuff' = [Stuff EXCEPT ![r] = {t}] /\ Owners' = Owners
         \/ Owners' = Owners /\ Stuff' = Stuff
<1>1. ASSUME NEW k \in Key, \A h \in Holder : Same(h, k)
      PROVE  OwnersOf(k)' = OwnersOf(k) /\ StuffOf(k)' = StuffOf(k)
  BY <1>1 DEF Same, OwnersOf, StuffOf
<1>2. CASE \A h \in Holder, k \in Key : Same(h, k)
  BY <1>1, <1>2 DEF Owners, Stuff
<1>3. ASSUME NEW r \in Key, \A h \in Holder, k \in Key \ {r} : Same(h, k)
      PROVE  \/ Owners' = [Owners EXCEPT ![r] = {}] /\ Stuff' = [Stuff EXCEPT ![r] = {}]
             \/ \E t \in Holder :
                  \/ /\ Owners[r] = {} /\ Owners' = [Owners EXCEPT ![r] = {t}]
                     /\ Stuff' \in {Stuff, [Stuff EXCEPT ![r] = {t}]}
                  \/ Owners[r] = {t} /\ Stuff' = [Stuff EXCEPT ![r] = {t}] /\ Owners' = Owners
             \/ Owners' = Owners /\ Stuff' = Stuff
  <2>1. \A k \in Key \ {r} : OwnersOf(k)' = OwnersOf(k) /\ StuffOf(k)' = StuffOf(k)
    BY <1>1, <1>3
  <2>2. /\ Owners' = [Owners EXCEPT ![r] = OwnersOf(r)']
        /\ Stuff' = [Stuff EXCEPT ![r] = StuffOf(r)']
        /\ Owners[r] = OwnersOf(r) /\ Stuff[r] = StuffOf(r)
    BY <2>1 DEF Owners, Stuff
  <2>3. /\ OwnersOf(r)' = OwnersOf(r) => Owners' = Owners
        /\ StuffOf(r)' = StuffOf(r) => Stuff' = Stuff
    BY <2>1 DEF Owners, Stuff
  <2> QED
    BY <2>2, <2>3, RoomStep
<1> QED
  BY <1>2, <1>3, OneRoom

\* The controllers implement the pool's promise to its tenants (ImplementsTenancy):
\* a number has at most one owner, goes from one to the next only by way of nobody,
\* and the data its owner has in it stays (used_dbnums, the checkpoint and the
\* re-read of provision_dragonfly and reconcile_redis).
THEOREM ImplementsTenancyEver ==
  ASSUME SettledWrites, FreshCache, QuietGC
  PROVE  Spec => ImplementsTenancy
<1>1. Init => T!Init
  <2> SUFFICES ASSUME Init PROVE T!Init
    OBVIOUS
  <2>1. \A k \in Key : OwnersOf(k) = {}
    <3>1. \A h \in Holder, k \in Key : ~Keeps(h, k)
      <4>1. \A h \in Holder : ~Provisioned(h) /\ ~Won(h)
        BY Names DEF Init, Won, Provisioned, NoObj, Provisioning, Busy, Idle
      <4> QED
        BY <4>1 DEF Keeps, Stored, Init
    <3> QED
      BY <3>1, OwnerKeeps DEF OwnersOf
  <2> QED
    BY <2>1 DEF T!Init, OwnersOf
<1>2. CustodyInv /\ [Next]_vars => [T!Next]_(T!tvars)
  <2>1. ASSUME CustodyInv, Next PROVE T!Next \/ UNCHANGED T!tvars
    BY <2>1, TenancyStep DEF T!Next, T!MoveOut, T!MoveIn, T!Furnish, T!tvars, Owners, Stuff, OwnersOf, StuffOf
  <2>2. ASSUME UNCHANGED vars PROVE UNCHANGED T!tvars
    BY <2>2 DEF vars, T!tvars, Owns, Provisioned
  <2> QED
    BY <2>1, <2>2
<1> QED
  BY <1>1, <1>2, CustodyInit, CustodyStep, PTL DEF Spec, ImplementsTenancy, T!Spec
-----------------------------------------------------------------------------
(* What a new holder finds, and who can reach it. *)

\* h is in use or about to be: what was in its number has been flushed, or kept.
Cleaned(h) ==
  \/ Provisioned(h)
  \/ \E w \in late : w.obj = h /\ Provisions(w)
  \/ \E a \in Controller : Provisioning(a) /\ Me(a) = h /\ pass[a].pc \in {"setuser", "terminal"}

CleanOf(h) ==
  \A k \in Key : Cleaned(h) /\ obj[h].key = k /\ (h \in Claim => k[1] # "persistent") => data[k] \subseteq {h}
CleanInv == \A h \in Holder : CleanOf(h)

\* Nothing but its own flush, or a re-read that lets it keep what is there, brings
\* a holder so far.
LEMMA CleanedBefore ==
  ASSUME SettledWrites, FreshCache, BaseInv, PinnedInv, LateInv, HeldInv, RecordInv, Next,
         NEW h \in Holder, Cleaned(h)'
  PROVE  \/ Cleaned(h) /\ obj'[h].key = obj[h].key
         \/ \E a \in Controller : /\ Provisioning(a) /\ Me(a) = h /\ UNCHANGED obj
                                  /\ Flush(a) \/ (pass[a].pc = "check_shared" /\ pass[a].skip)
<1> USE DEF Provisioning, Busy, Me
<1> SUFFICES ASSUME ~(Cleaned(h) /\ obj'[h].key = obj[h].key)
             PROVE  \E a \in Controller : /\ Provisioning(a) /\ Me(a) = h /\ UNCHANGED obj
                                          /\ Flush(a) \/ (pass[a].pc = "check_shared" /\ pass[a].skip)
  OBVIOUS
<1>0. BaseInv'
  BY BaseStep
<1>1. Won(h)'
  BY DEF Won, Cleaned, Cleared
<1>2. ~Cleaned(h) /\ \E a \in Controller : Provisioning(a) /\ Me(a) = h /\ pass[a].pc \in {"check_shared", "flush"}
  <2>1. CASE Won(h) /\ obj'[h].key = obj[h].key
    BY <2>1 DEF Won, Cleaned, Cleared
  <2>2. CASE \E a \in Controller : Wins(a) /\ Me(a) = h
    BY <2>2 DEF Wins
  <2> QED
    BY <1>1, <2>1, <2>2, WonBefore
<1>3. PICK a \in Controller : Provisioning(a) /\ Me(a) = h /\ pass[a].pc \in {"check_shared", "flush"}
  BY <1>2
<1>4. a \in Actor /\ ControllerOf(a, h) /\ Of(a, h) /\ LateOf(h) = {} /\ ~Provisioned(h) /\ obj[h].fin
  BY <1>2, <1>3, Apart, Names DEF ControllerOf, Of, LateInv, LateOf, Cleaned, PinnedInv
<1>5. \/ Provisioned(h)'
      \/ LateOf(h)' # {}
      \/ Of(a, h)' /\ pass'[a].goal = "provision" /\ pass'[a].pc \in {"setuser", "terminal"}
  <2>1. \A d \in Controller : Fits(d, pass'[d]) /\ d \in {"claim", "shared"}
    BY <1>0, Names DEF BaseInv, PassOK, ShapeInv
  <2>2. \A d \in Controller : Busy(d)' /\ Me(d)' = h => d = a
    BY <1>4, <2>1, Names DEF ControllerOf, Fits, ShapeOf, Idle
  <2> QED
    BY <2>2 DEF Cleaned, LateOf, Of
<1>6. CASE Untouched(a, h)
  BY <1>3, <1>4, <1>5, <1>6 DEF Untouched, Provisioned
<1>7. CASE Progress(a, h)
  <2>1. /\ obj' = obj /\ LateOf(h)' = {} /\ InnerStep(a)
        /\ Of(a, h)' => Rereads(a) \/ Allocates(a) \/ Settles(a)
    BY <1>4, <1>7 DEF Progress
  <2>2. Of(a, h)' /\ pass'[a].pc \in {"setuser", "terminal"}
    BY <1>4, <1>5, <2>1 DEF Provisioned
  <2>3. Rereads(a)
    BY <1>3, <2>1, <2>2 DEF Allocates, Settles
  <2>4. CASE pass[a].pc = "check_shared"
    BY <1>3, <2>1, <2>2, <2>3, <2>4 DEF Rereads, AfterCheck
  <2>5. CASE pass[a].pc = "flush"
    <3>1. Flush(a) \/ FlushFails(a)
      BY <1>4, <2>1, <2>5, Names DEF InnerStep, SetUser, TakeLock, ListClaims, ListRetained, ListShared,
         FlusherStep, CheckClaims, CheckRetained, CheckShared, OwnSnapshot, CancelBeforeRelease, Cancel,
         FindSnapshot, TakeSnapshot, At
    <3> QED
      BY <1>3, <2>1, <3>1 DEF FlushFails
  <2> QED
    BY <1>3, <2>4, <2>5
<1>8. CASE Begin(a, h)
  BY <1>3, <1>8, BeginEffect
<1>9. CASE WriteStep(a) \/ Unfinalize(a)
  BY <1>3, <1>9, WriteFields DEF WritePC, Unfinalize, At
<1>10. CASE DropPass(a)
  BY <1>3, <1>4, <1>5, <1>10, DropEffect DEF WritePC, LateOf, Of, Idle, Provisioned
<1>11. ASSUME NEW w \in LateOf(h) PROVE FALSE
  BY <1>4, <1>11
<1>12. CASE Delete(h) \/ \E i \in Instance : Create(h, i)
  <2>1. /\ pass' = pass /\ late' = late /\ obj'[h].key = obj[h].key
        /\ obj'[h].ready = obj[h].ready /\ obj'[h].unfin = obj[h].unfin
    BY <1>4, <1>12, UserEffect
  <2> QED
    BY <1>3, <1>4, <1>5, <2>1 DEF LateOf, Provisioned
<1> QED
  BY <1>4, <1>6, <1>7, <1>8, <1>9, <1>10, <1>11, <1>12, HolderStep

\* Whoever writes to a number is provisioned on it.
LEMMA UserIs ==
  ASSUME BaseInv, ReadyInv, UnfinishedInv, NEW h \in Holder, NEW k \in Key, Use(h, k)
  PROVE  Provisioned(h) /\ obj[h].key = k
<1>1. CASE h \in Claim
  BY <1>1, Names DEF Use, ReadyInv, ReadyOf, Pins, Provisioned
<1>2. CASE h \in Shared
  BY <1>2, Names DEF Use, UnfinishedInv, UnfinishedOf, Provisioned
<1> QED
  BY <1>1, <1>2 DEF Holder

\* A number that was flushed for its holder gets nobody else's data.
LEMMA CleanStep ==
  ASSUME SettledWrites, FreshCache, TenureInv, RecordInv, ReadyInv, UnfinishedInv, CleanInv, Next
  PROVE  CleanInv'
<1> SUFFICES ASSUME NEW h \in Holder, NEW k \in Key, Cleaned(h)', obj'[h].key = k,
                    h \in Claim => k[1] # "persistent", NEW g \in data'[k], g # h
             PROVE  FALSE
  BY DEF CleanInv, CleanOf
<1> USE DEF TenureInv
<1>0. /\ data \in [Key -> SUBSET (Holder \cup {NoHolder})] /\ NoKey \notin Key
      /\ NoHolder \notin Holder
  BY Names DEF BaseInv, DataOK
<1>1. CASE Cleaned(h) /\ obj'[h].key = obj[h].key
  <2>1. data[k] \subseteq {h} /\ Won(h)
    BY <1>1 DEF CleanInv, CleanOf, Cleaned, Won, Cleared
  <2>2. ASSUME NEW f, data' = Disowned(f) PROVE FALSE
    <3>1. CASE data'[k] = data[k]
      BY <2>1, <3>1
    <3>2. CASE f # h /\ data'[k] = {IF e = f THEN NoHolder ELSE e : e \in data[k]}
      BY <2>1, <3>2
    <3> QED
      BY <2>2, <3>1, <3>2 DEF Disowned
  <2>3. ASSUME NEW a \in Actor, Flush(a) PROVE FALSE
    BY <1>0, <2>1, <2>3 DEF Flush
  <2>4. ASSUME NEW f \in Holder, NEW i \in Key, Use(f, i) PROVE FALSE
    <3>1. data' = [data EXCEPT ![i] = @ \cup {f}]
      BY <2>4 DEF Use
    <3>2. i = k /\ f = g
      BY <1>0, <2>1, <3>1
    <3>3. Won(f) /\ obj[f].key = k
      BY <2>4, <3>2, UserIs DEF Won
    <3> QED
      BY <1>1, <2>1, <3>2, <3>3 DEF WonInv
  <2> QED
    BY <2>1, <2>2, <2>3, <2>4, DataSteps
<1>2. ASSUME NEW a \in Controller, Provisioning(a), Me(a) = h, UNCHANGED obj, Flush(a) PROVE FALSE
  <2>1. pass[a].key = k
    BY <1>2 DEF HeldInv, Flush, At, Committed
  <2> QED
    BY <1>0, <1>2, <2>1 DEF Flush
<1>3. ASSUME NEW a \in Controller, Provisioning(a), Me(a) = h, UNCHANGED obj,
             pass[a].pc = "check_shared", pass[a].skip
      PROVE  FALSE
  <2>1. pass[a].key = k
    BY <1>3 DEF HeldInv, Committed, Checking
  <2>2. On(k, "persistent")
    BY <1>0, <1>3, <2>1 DEF RecordInv, PassRecord, ProvisionRecord
  <2>3. h \in Claim
    BY <1>3, Names, Apart DEF BaseInv, PassOK, ShapeInv, Fits, ShapeOf, Provisioning, Busy, Idle, Me
  <2> QED
    BY <2>2, <2>3 DEF On
<1> QED
  BY <1>1, <1>2, <1>3, CleanedBefore

\* What keeps a flushed number clean, whatever users do to a claim meanwhile.
TidyInv ==
  TenureInv /\ RecordInv /\ ReadyInv /\ UnfinishedInv /\ CleanInv /\ (QuietGC => CustodyInv)

LEMMA TidyInit == Init => TidyInv
<1> SUFFICES ASSUME Init PROVE TidyInv
  OBVIOUS
<1>1. CustodyInv /\ \A k \in Key : data[k] = {}
  BY CustodyInit DEF Init
<1> QED
  BY <1>1 DEF CustodyInv, TidyInv, CleanInv, CleanOf

LEMMA TidyStutter == TidyInv /\ UNCHANGED vars => TidyInv'
<1> SUFFICES ASSUME TidyInv, UNCHANGED vars PROVE TidyInv'
  OBVIOUS
<1>1. UNCHANGED <<obj, snap, data, acl, pass, late>>
  BY DEF vars
<1>2. TenureInv'
  BY TenureStutter DEF TidyInv
<1>3. \A a, h : /\ Of(a, h)' <=> Of(a, h)
                /\ Busy(a)' <=> Busy(a)
                /\ Provisioning(a)' <=> Provisioning(a)
                /\ Me(a)' = Me(a)
                /\ LateOf(h)' = LateOf(h)
                /\ Provisioned(h)' <=> Provisioned(h)
  BY <1>1 DEF Of, Busy, Provisioning, Me, LateOf, Provisioned
<1>4. RecordInv'
  BY <1>1, <1>3 DEF TidyInv, RecordInv, OwnRecord, LateRecord, PassRecord, ProvisionRecord, DropRecord
<1>5. ReadyInv' /\ UnfinishedInv'
  BY <1>1, <1>3 DEF TidyInv, ReadyInv, ReadyOf, UnfinishedInv, UnfinishedOf
<1>6. \A h : Cleaned(h)' <=> Cleaned(h)
  BY <1>1, <1>3 DEF Cleaned, Provisions
<1>7. CleanInv'
  BY <1>1, <1>6 DEF TidyInv, CleanInv, CleanOf
<1> QED
  BY <1>2, <1>4, <1>5, <1>7, CustodyStutter DEF TidyInv

LEMMA TidyStep ==
  ASSUME SettledWrites, FreshCache
  PROVE  TidyInv /\ [Next]_vars => TidyInv'
<1> SUFFICES ASSUME TidyInv, Next PROVE TidyInv'
  BY TidyStutter
<1> USE DEF TidyInv
<1>1. TenureInv'
  BY BaseStep, PinnedStep, LateStep, HeldStep, WonStep DEF TenureInv
<1>2. RecordInv' /\ ReadyInv' /\ UnfinishedInv' /\ CleanInv'
  BY RecordStep, ReadyStep, UnfinishedStep, CleanStep DEF TenureInv, CustodyInv
<1>3. QuietGC => CustodyInv'
  BY CustodyStep
<1> QED
  BY <1>1, <1>2, <1>3

\* A number that is flushed for its holder holds nobody else's data for as long as
\* its holder is provisioned (FlushedStartsEmpty), whatever passes are dropped and
\* whatever users do to a claim while its snapshot is collected: what is left of
\* "a reused dbnum must start empty" when a persistent claim's re-attach is set
\* aside.
THEOREM FlushedStartsEmptyEver ==
  ASSUME SettledWrites, FreshCache
  PROVE  Spec => []FlushedStartsEmpty
<1>1. TidyInv => FlushedStartsEmpty
  <2> SUFFICES ASSUME TidyInv, NEW h \in Holder, Provisioned(h), h \in Claim => obj[h].key[1] # "persistent"
               PROVE  data[obj[h].key] \subseteq {h}
    BY DEF FlushedStartsEmpty
  <2>1. obj[h].key \in KeyOrNone /\ obj[h].key # NoKey
    BY Names DEF TidyInv, TenureInv, BaseInv, ObjOK, ObjType, HeldInv, Provisioned, Holder
  <2>2. obj[h].key \in Key /\ Cleaned(h)
    BY <2>1 DEF KeyOrNone, Cleaned
  <2> QED
    BY <2>2 DEF TidyInv, CleanInv, CleanOf
<1> QED
  BY <1>1, TidyInit, TidyStep, PTL DEF Spec

\* What a persistent claim may find besides its own data is a departed tenant's and
\* never that of a holder in use or of a snapshot (OnlyLeftovers): the leftovers of
\* a number that was re-attached to, and not flushed, are the only way in which "a
\* reused dbnum must start empty" fails.
THEOREM OnlyLeftoversEver ==
  ASSUME SettledWrites, FreshCache, QuietGC
  PROVE  Spec => []OnlyLeftovers
<1>1. TidyInv => OnlyLeftovers
  <2> SUFFICES ASSUME TidyInv, NEW h \in Holder, Provisioned(h), NEW g \in data[obj[h].key], g # h, g # NoHolder
               PROVE  FALSE
    BY DEF OnlyLeftovers
  <2> DEFINE k == obj[h].key
  <2>1. k \in KeyOrNone /\ k # NoKey
    BY Names DEF TidyInv, TenureInv, BaseInv, ObjOK, ObjType, HeldInv, Provisioned, Holder
  <2>2. k \in Key /\ Cleaned(h) /\ g \in Holder
    BY <2>1 DEF KeyOrNone, Cleaned, TidyInv, TenureInv, BaseInv, DataOK
  <2>3. h \in Claim /\ k[1] = "persistent"
    BY <2>2 DEF TidyInv, CleanInv, CleanOf
  <2>4. Keeps(h, k)
    BY DEF Keeps, Won
  <2>5. Keeps(g, k)
    BY <2>2, <2>3, Names DEF TidyInv, CustodyInv, DataInv, DataOf, Keeps, Stored, Won, Provisioned, Holder
  <2> QED
    BY <2>2, <2>4, <2>5 DEF TidyInv, CustodyInv, KeepInv
<1> QED
  BY <1>1, TidyInit, TidyStep, PTL DEF Spec

\* The user of a ready claim reaches the claim's number and nobody else's
\* (UsersApart), for any number of dropped passes and of users that earlier lives
\* of the claims left: a claim is told it is ready only after the SETUSER on its
\* number, the collector revokes nobody who came back, and a number has one holder
\* in use (provision_dragonfly, gc::reconcile).
THEOREM UsersApartEver ==
  ASSUME SettledWrites, FreshCache, QuietGC
  PROVE  Spec => []UsersApart
<1>1. CustodyInv => UsersApart
  <2> SUFFICES ASSUME CustodyInv, NEW c \in Claim, NEW h \in Holder, obj[c].ready, Provisioned(h)
               PROVE  acl[c][obj[c].inst] = obj[h].key <=> h = c
    BY DEF UsersApart
  <2>1. acl[c][obj[c].inst] = obj[c].key
    BY DEF CustodyInv, ReadyInv, ReadyOf, Pins
  <2>2. Won(c) /\ Won(h) /\ c \in Holder
    BY Names DEF Won, Provisioned
  <2> QED
    BY <2>1, <2>2 DEF CustodyInv, TenureInv, WonInv
<1> QED
  BY <1>1, CustodyInit, CustodyStep, PTL DEF Spec

\* Whatever users do to a claim while its snapshot is collected, the user of a
\* ready claim reaches no number that somebody else is provisioned on
\* (NoForeignUser): the collector that a returning claim takes by surprise can cut
\* the claim off, and cannot let it in elsewhere.
THEOREM NoForeignUserEver ==
  ASSUME SettledWrites, FreshCache
  PROVE  Spec => []NoForeignUser
<1>1. TidyInv => NoForeignUser
  <2> SUFFICES ASSUME TidyInv, NEW c \in Claim, NEW h \in Holder, obj[c].ready, Provisioned(h), h # c
               PROVE  acl[c][obj[c].inst] # obj[h].key
    BY DEF NoForeignUser
  <2>1. acl[c][obj[c].inst] \in {obj[c].key, NoKey}
    BY DEF TidyInv, ReadyInv, ReadyOf, Pins
  <2>2. Won(c) /\ Won(h) /\ c \in Holder /\ obj[h].key # NoKey
    BY Names DEF Won, Provisioned, TidyInv, TenureInv, HeldInv
  <2> QED
    BY <2>1, <2>2 DEF TidyInv, TenureInv, WonInv
<1> QED
  BY <1>1, TidyInit, TidyStep, PTL DEF Spec

\* What follows needs neither fresh caches nor settled writes.  A step leaves the
\* life of c, what the watch says of it and the kind of its pass alone, or is one
\* of those that do not.
Calm(c) ==
  /\ obj'[c].st = obj[c].st /\ obj'[c].fin = obj[c].fin /\ cache'[c] = cache[c]
  /\ FreshCache => Seen(c)' = obj'[c]
  /\ Of("claim", c)' => Of("claim", c) /\ pass'["claim"].goal = pass["claim"].goal

LEMMA LifeStep ==
  ASSUME BaseInv, Next, NEW c \in Claim
  PROVE  \/ Calm(c) \/ BeginClaim(c) \/ BeginClaimDelete(c)
         \/ Unfinalize("claim") /\ Of("claim", c)
         \/ WatchDelivers(c) \/ Delete(c) \/ \E i \in Instance : Create(c, i)
<1> USE DEF Of, Busy, Me
<1>0. /\ pass \in [Actor -> PassType] /\ obj \in [Holder -> ObjType] /\ cache \in [Holder -> ObjType]
      /\ c \in Holder /\ c \notin Shared /\ "claim" \in Actor /\ "claim" \in Controller /\ Idle.pc = "idle"
      /\ \A a \in Controller : a \in Actor
  BY Names DEF BaseInv, PassOK, ObjOK, Idle
<1>a. ASSUME obj'[c].st = obj[c].st, obj'[c].fin = obj[c].fin, cache'[c] = cache[c],
             Of("claim", c)' => Of("claim", c) /\ pass'["claim"].goal = pass["claim"].goal
      PROVE  Calm(c)
  BY <1>a DEF Calm, Seen
<1>1. ASSUME NEW a \in Actor, InnerStep(a) PROVE Calm(c)
  <2>1. UNCHANGED <<obj, cache>> /\ (a # "claim" => pass'["claim"] = pass["claim"])
    BY <1>0, <1>1, InnerEffect
  <2>2. a = "claim" /\ pass'["claim"].pc # "idle" =>
          /\ pass["claim"].pc # "idle" /\ pass'["claim"].obj = pass["claim"].obj
          /\ pass'["claim"].goal = pass["claim"].goal
    BY <1>0, <1>1, InnerEffect
  <2> QED
    BY <1>a, <2>1, <2>2
<1>2. ASSUME NEW a \in Controller, NEW h \in Holder, Begin(a, h), ~BeginClaim(c), ~BeginClaimDelete(c)
      PROVE  Calm(c)
  <2>1. h # c
    BY <1>0, <1>2 DEF Begin
  <2>2. /\ cache' = cache
        /\ obj' = obj \/ \E v : obj' = [obj EXCEPT ![h].fin = v]
        /\ \E pc, goal, inst, key : Start(a, h, pc, goal, inst, key)
    BY <1>2 DEF Begin, BeginClaim, BeginClaimDelete, BeginShared, BeginSharedRefusal, BeginSharedDelete,
       Finalized
  <2>3. obj'[c] = obj[c]
    BY <1>0, <2>1, <2>2
  <2>4. PICK pc, goal, inst, key : Start(a, h, pc, goal, inst, key)
    BY <2>2
  <2>5. /\ a # "claim" => pass'["claim"] = pass["claim"]
        /\ a = "claim" => pass'["claim"].obj = h
    BY <1>0, <2>4 DEF Start, Idle
  <2> QED
    BY <1>a, <2>1, <2>2, <2>3, <2>5
<1>3. ASSUME NEW a \in Controller, WriteStep(a) PROVE Calm(c)
  <2>1. pass[a].pc \in WritePC /\ pass[a].pc # "idle"
    BY <1>3 DEF WriteStep, Checkpoint, Release, Refuse, KeepConflicting, Terminal, At, WritePC
  <2>2. Me(a) \in Holder /\ InFlight(pass[a]) \in StatusType
    BY <2>1, InFlightEffect
  <2>3. PICK next \in {"idle", "check_claims", "cancel"} : Write(a, InFlight(pass[a]), next)
    BY <1>3 DEF WriteStep, Checkpoint, Release, Refuse, KeepConflicting, Terminal
  <2>4. /\ cache' = cache
        /\ obj' = obj \/ obj' = [obj EXCEPT ![Me(a)] = Applied(obj[Me(a)], InFlight(pass[a]))]
        /\ End(a) \/ Go(a, next)
    BY <2>3 DEF Write
  <2>5. obj'[c].st = obj[c].st /\ obj'[c].fin = obj[c].fin
    <3>1. obj[c] \in ObjType
      BY <1>0
    <3>2. obj'[c] = obj[c] \/ obj'[c] = Applied(obj[c], InFlight(pass[a]))
      BY <1>0, <2>4
    <3> QED
      BY <2>2, <3>1, <3>2, AppliedEffect
  <2>6. Of("claim", c)' => Of("claim", c) /\ pass'["claim"].goal = pass["claim"].goal
    <3>1. CASE End(a)
      BY <1>0, <3>1 DEF End
    <3>2. CASE Go(a, next)
      <4>1. pass[a] \in PassType
        BY <1>0
      <4> QED
        BY <1>0, <2>1, <3>2, <4>1 DEF Go, PassType
    <3> QED
      BY <2>4, <3>1, <3>2
  <2> QED
    BY <1>a, <2>4, <2>5, <2>6
<1>4. ASSUME NEW a \in Controller, Unfinalize(a), ~(a = "claim" /\ Of("claim", c)) PROVE Calm(c)
  <2>1. Busy(a) /\ Me(a) # c
    <3>1. Busy(a)
      BY <1>4 DEF Unfinalize, At
    <3> QED
      BY <1>0, <1>4, <3>1, Apart
  <2>2. cache' = cache /\ obj'[c] = obj[c] /\ pass'[a] = Idle /\ \A b \in Actor \ {a} : pass'[b] = pass[b]
    BY <1>0, <1>4, <2>1 DEF Unfinalize, End
  <2> QED
    BY <1>0, <1>a, <2>2
<1>5. ASSUME NEW a \in Actor, DropPass(a) PROVE Calm(c)
  BY <1>0, <1>5, <1>a, DropEffect
<1>6. ASSUME NEW w \in late, LateCommit(w) PROVE Calm(c)
  <2>1. w.w \in StatusType /\ obj[c] \in ObjType
    BY <1>0 DEF BaseInv, LateOK
  <2>2. obj'[c] = obj[c] \/ obj'[c] = Applied(obj[c], w.w)
    BY <1>0, <1>6 DEF LateCommit
  <2>3. UNCHANGED <<cache, pass>>
    BY <1>6 DEF LateCommit
  <2> QED
    BY <1>a, <2>1, <2>2, <2>3, AppliedEffect
<1>7. ASSUME NEW h \in Holder, WatchDelivers(h), h # c PROVE Calm(c)
  BY <1>0, <1>7, <1>a DEF WatchDelivers
<1>8. ASSUME NEW h \in Holder, Delete(h) \/ (\E i \in Instance : Create(h, i)), h # c PROVE Calm(c)
  BY <1>8, <1>0, <1>a, UserEffect
<1>9. CASE UNCHANGED <<obj, cache, pass, late>>
  BY <1>9, <1>a
<1> QED
  BY <1>1, <1>2, <1>3, <1>4, <1>5, <1>6, <1>7, <1>8, <1>9, Steps

\* The finalizer guards the life of a claim, also for a controller that is told of it
\* late: no pass provisions a claim that is gone, and none drops a live one.
GuardOf(c) ==
  /\ Of("claim", c) /\ pass["claim"].goal = "provision" => obj[c].fin
  /\ Of("claim", c) /\ pass["claim"].goal = "drop" =>
       ~(obj[c].st = "live" /\ obj[c].fin) /\ ~(Seen(c).st = "live" /\ Seen(c).fin)
  /\ Seen(c).st = "live" /\ Seen(c).fin => obj[c].fin
  /\ Seen(c).st = "deleting" => ~(obj[c].st = "live" /\ obj[c].fin)

LEMMA GuardStep ==
  ASSUME BaseInv, Next, NEW c \in Claim, GuardOf(c)
  PROVE  GuardOf(c)'
<1> USE DEF Of, Busy, Me
<1>0. /\ pass \in [Actor -> PassType] /\ obj \in [Holder -> ObjType] /\ cache \in [Holder -> ObjType]
      /\ c \in Holder /\ "claim" \in Actor /\ "claim" \in Controller /\ Idle.pc = "idle"
      /\ obj[c] \in ObjType /\ pass["claim"] \in PassType /\ Fits("claim", pass["claim"])
      /\ NoObj.st = "absent" /\ ~NoObj.fin
      /\ Seen(c) = IF FreshCache THEN obj[c] ELSE cache[c]
      /\ Seen(c)' = IF FreshCache THEN obj'[c] ELSE cache'[c]
  BY Names DEF BaseInv, PassOK, ObjOK, Idle, ShapeInv, NoObj, Seen
<1>1. CASE Calm(c)
  BY <1>0, <1>1 DEF Calm, GuardOf
<1>2. CASE BeginClaim(c)
  <2>1. PICK v : obj' = [obj EXCEPT ![c].fin = v] /\ v = (obj[c].fin \/ ~Seen(c).fin)
    BY <1>2 DEF BeginClaim, Finalized
  <2>2. v /\ Seen(c).st = "live" /\ cache' = cache /\ pass'["claim"].goal = "provision"
    <3>1. Start("claim", c, "lock", "provision", Seen(c).inst, OwnKey(Seen(c)))
      BY <1>2 DEF BeginClaim
    <3>2. pass'["claim"].goal = "provision"
      BY <1>0, <3>1 DEF Start, Idle
    <3> QED
      BY <1>2, <2>1, <3>2 DEF BeginClaim, GuardOf
  <2>3. obj'[c].st = obj[c].st /\ obj'[c].fin
    BY <1>0, <2>1, <2>2 DEF ObjType
  <2> QED
    BY <1>0, <2>2, <2>3 DEF GuardOf
<1>3. CASE BeginClaimDelete(c)
  <2>1. UNCHANGED <<obj, cache>> /\ Seen(c).st = "deleting" /\ pass'["claim"].goal = "drop"
    <3>1. Start("claim", c, "find_snapshot", "drop", Seen(c).inst, Seen(c).key)
      BY <1>3 DEF BeginClaimDelete
    <3>2. pass'["claim"].goal = "drop"
      BY <1>0, <3>1 DEF Start, Idle
    <3> QED
      BY <1>3, <3>2 DEF BeginClaimDelete
  <2> QED
    BY <1>0, <2>1 DEF GuardOf
<1>4. CASE Unfinalize("claim") /\ Of("claim", c)
  <2>1. pass["claim"].goal = "drop"
    BY <1>0, <1>4 DEF Unfinalize, At, Fits, ShapeOf, ClaimProvision, Allocating, Checking
  <2>2. cache' = cache /\ pass'["claim"] = Idle /\ (obj'[c] = NoObj \/ obj'[c] = [obj[c] EXCEPT !.fin = FALSE])
    BY <1>0, <1>4 DEF Unfinalize, End
  <2>3. ~obj'[c].fin
    BY <1>0, <2>2 DEF ObjType
  <2> QED
    BY <1>0, <1>4, <2>1, <2>2, <2>3 DEF GuardOf
<1>5. CASE WatchDelivers(c)
  <2>1. UNCHANGED <<obj, pass>> /\ ~FreshCache /\ cache'[c] = obj[c]
    BY <1>0, <1>5 DEF WatchDelivers
  <2> QED
    BY <1>0, <2>1 DEF GuardOf
<1>6. CASE Delete(c) \/ \E i \in Instance : Create(c, i)
  <2>1. /\ UNCHANGED <<cache, pass>>
        /\ \/ obj[c].fin /\ obj'[c].fin /\ obj'[c].st = "deleting"
           \/ ~obj[c].fin /\ ~obj'[c].fin /\ obj'[c].st \in {"absent", "live"}
    BY <1>0, <1>6, UserEffect
  <2> QED
    BY <1>0, <2>1 DEF GuardOf
<1> QED
  BY <1>1, <1>2, <1>3, <1>4, <1>5, <1>6, LifeStep

\* A collector works on an absent claim, whose snapshot it does not lose, and has
\* revoked the user when it comes to the delete; or it is at the delete of a
\* snapshot whose claim is live or that names no number.
RevokedOf(c) ==
  pass[c].pc # "idle" =>
    IF pass[c].key # NoKey
    THEN /\ obj[c].st = "absent" /\ snap[c].there /\ snap[c].key = pass[c].key
         /\ pass[c].pc = "delete" => acl[c][pass[c].key[1]] = NoKey
    ELSE /\ pass[c].pc = "delete"
         /\ obj[c].st = "live" \/ (obj[c].st = "absent" /\ snap[c].there /\ snap[c].key = NoKey)

RevokedInv ==
  /\ BaseInv
  /\ \A c \in Claim : GuardOf(c) /\ RevokedOf(c) /\ (snap[c].there \/ snap[c].key = NoKey)

\* While it works its claim stays what it is.
LEMMA StaysSo ==
  ASSUME QuietGC, BaseInv, Next, NEW c \in Claim, pass[c].pc # "idle", obj[c].st # "deleting"
  PROVE  obj'[c].st = obj[c].st
<1>0. /\ obj \in [Holder -> ObjType] /\ c \in Holder /\ obj[c] \in ObjType /\ NoObj.st = "absent"
      /\ "claim" \in Controller
  BY Names DEF BaseInv, ObjOK, NoObj
<1>1. CASE BeginClaim(c)
  BY <1>0, <1>1 DEF BeginClaim, Finalized, ObjType
<1>2. CASE Unfinalize("claim") /\ Of("claim", c)
  <2>1. obj' = [obj EXCEPT ![c] = IF obj[c].st = "live" THEN [obj[c] EXCEPT !.fin = FALSE] ELSE NoObj]
    BY <1>2 DEF Unfinalize, Of
  <2> QED
    BY <1>0, <2>1 DEF ObjType
<1>3. ~Delete(c) /\ ~ \E i \in Instance : Create(c, i)
  BY DEF Delete, Create, Undisturbed, At
<1> QED
  BY <1>0, <1>1, <1>2, <1>3, LifeStep DEF Calm, BeginClaimDelete, WatchDelivers

\* A revoked user stays revoked until its snapshot is gone: its claim is absent, and
\* no pass provisions an absent claim.
LEMMA RevokedStep ==
  ASSUME QuietGC, SureRevokes, RevokedInv, Next
  PROVE  RevokedInv'
<1>b. BaseInv' /\ \A c \in Claim : GuardOf(c)' /\ (snap'[c].there \/ snap'[c].key = NoKey)
  <2>1. BaseInv' /\ \A c \in Claim : GuardOf(c)'
    BY BaseStep, GuardStep DEF RevokedInv
  <2>2. ASSUME NEW c \in Claim PROVE snap'[c].there \/ snap'[c].key = NoKey
    <3>1. /\ snap[c] \in [there : BOOLEAN, key : KeyOrNone, expired : BOOLEAN] /\ NoSnap.key = NoKey
          /\ snap[c].there \/ snap[c].key = NoKey
      BY DEF RevokedInv, BaseInv, SnapOK, NoSnap
    <3>2. \/ snap'[c] = snap[c] \/ snap'[c] = NoSnap
          \/ snap'[c] = [there |-> TRUE, key |-> pass["claim"].key, expired |-> FALSE]
          \/ snap'[c] = [snap[c] EXCEPT !.expired = TRUE]
      BY SnapEffect DEF RevokedInv
    <3> QED
      BY <3>1, <3>2
  <2> QED
    BY <2>1, <2>2
<1> SUFFICES ASSUME NEW c \in Claim PROVE RevokedOf(c)'
  BY <1>b DEF RevokedInv
<1>0. /\ BaseInv /\ GuardOf(c) /\ RevokedOf(c) /\ c \in Holder
      /\ "claim" \in Actor /\ "claim" \in Controller /\ c \in Actor /\ c \notin Controller /\ c # "claim"
      /\ snap[c] \in [there : BOOLEAN, key : KeyOrNone, expired : BOOLEAN]
      /\ acl \in [Claim -> [Instance -> KeyOrNone]]
      /\ obj[c] \in ObjType /\ (obj[c].st = "absent" => ~obj[c].fin)
      /\ pass \in [Actor -> PassType] /\ pass[c] \in PassType /\ Fits(c, pass[c]) /\ Idle.pc = "idle"
      /\ Fits("claim", pass["claim"])
  BY Names DEF RevokedInv, BaseInv, SnapOK, AclOK, PassOK, ObjOK, ObjectInv, ShapeInv, NoObj, Idle
<1>1. CASE pass'[c] = pass[c] /\ pass[c].pc # "idle"
  <2>1. ~DeleteSnapshot(c) /\ ~DelUser(c)
    <3>1. ~DeleteSnapshot(c)
      BY <1>0, <1>1 DEF DeleteSnapshot, End
    <3>2. DelUser(c) => pass[c].pc = "deluser" /\ pass'[c].pc = "delete"
      BY <1>0 DEF DelUser, At, Go, PassType
    <3> QED
      BY <1>1, <3>1, <3>2
  <2>2. obj'[c].st = obj[c].st
    BY <1>0, <1>1, StaysSo DEF RevokedOf
  <2>3. ASSUME obj[c].st = "absent"
        PROVE  /\ ~(SetUser("claim") /\ Me("claim") = c)
               /\ ~(Me("claim") = c /\ (Cancel("claim") \/ CancelBeforeRelease("claim")))
    <3>1. pass["claim"].pc \in {"setuser", "cancel", "cancel_before_release"} =>
            Busy("claim") /\ pass["claim"].goal = "provision"
      BY <1>0, Names DEF Busy, Fits, ShapeOf, ClaimDrop
    <3> QED
      BY <1>0, <2>3, <3>1 DEF SetUser, Cancel, CancelBeforeRelease, At, GuardOf, Of
  <2>4. ASSUME obj[c].st = "absent", snap[c].there PROVE snap'[c].there /\ snap'[c].key = snap[c].key
    BY <1>0, <2>1, <2>3, <2>4, SnapEffect
  <2>5. ASSUME obj[c].st = "absent", pass[c].key # NoKey
        PROVE  acl'[c][pass[c].key[1]] = acl[c][pass[c].key[1]]
    <3>1. pass[c].key[1] \in Instance
      BY <1>0, <2>5 DEF PassType, KeyOrNone, Key
    <3> QED
      BY <1>0, <2>1, <2>3, <2>5, <3>1, AclEffect
  <2>6. CASE pass[c].key # NoKey
    <3>1. /\ obj[c].st = "absent" /\ snap[c].there /\ snap[c].key = pass[c].key
          /\ pass[c].pc = "delete" => acl[c][pass[c].key[1]] = NoKey
      BY <1>0, <1>1, <2>6 DEF RevokedOf
    <3> QED
      BY <1>1, <2>2, <2>4, <2>5, <2>6, <3>1 DEF RevokedOf
  <2>7. CASE pass[c].key = NoKey
    <3>1. /\ pass[c].pc = "delete"
          /\ obj[c].st = "live" \/ (obj[c].st = "absent" /\ snap[c].there /\ snap[c].key = NoKey)
      BY <1>0, <1>1, <2>7 DEF RevokedOf
    <3> QED
      BY <1>1, <2>2, <2>4, <2>7, <3>1 DEF RevokedOf
  <2> QED
    BY <2>6, <2>7
<1>2. CASE pass'[c] = pass[c] /\ pass[c].pc = "idle"
  BY <1>2 DEF RevokedOf
<1>3. CASE FlusherStep(c)
  <2>1. Rereads(c) /\ UNCHANGED <<obj, snap, acl>>
    BY <1>0, <1>3, FlusherMoves
  <2>2. pass[c].goal = "drop" /\ pass[c].pc \notin {"idle", "delete"} /\ ~pass[c].skip
    BY <1>0, <2>1 DEF Rereads, Fits, ShapeOf, Controller
  <2>3. /\ pass'[c].pc # "delete" /\ pass'[c].key = pass[c].key /\ pass[c].key # NoKey
        /\ obj[c].st = "absent" /\ snap[c].there /\ snap[c].key = pass[c].key
    BY <1>0, <2>1, <2>2 DEF Rereads, Still, AfterCheck, AfterFlush, Controller, RevokedOf
  <2> QED
    BY <2>1, <2>3 DEF RevokedOf
<1>4. CASE BeginCollect(c)
  <2> DEFINE key == IF obj[c].st = "live" THEN NoKey ELSE snap[c].key
  <2> DEFINE pc == IF obj[c].st = "live" \/ snap[c].key = NoKey THEN "delete" ELSE "check_claims"
  <2>1. /\ obj' = obj /\ snap' = snap /\ Start(c, c, pc, "drop", "none", key)
        /\ snap[c].there /\ obj[c].st # "deleting"
    BY <1>4 DEF BeginCollect
  <2> HIDE DEF key, pc
  <2>2. pass'[c].key = key /\ pass'[c].pc = pc
    BY <1>0, <2>1 DEF Start, Idle
  <2>3. obj[c].st \in {"live", "absent"}
    BY <1>0, <2>1 DEF ObjType
  <2> QED
    BY <2>1, <2>2, <2>3 DEF RevokedOf, key, pc
<1>5. CASE DelUser(c)
  <2>1. /\ pass[c].pc = "deluser" /\ pass' = [pass EXCEPT ![c].pc = "delete"] /\ pass[c].obj = c
        /\ acl' = [acl EXCEPT ![c][pass[c].key[1]] = NoKey] /\ UNCHANGED <<obj, snap>>
    BY <1>0, <1>5 DEF DelUser, At, Go, Me, Fits, ShapeOf, Controller
  <2>2. pass[c].key \in Key /\ pass'[c].key = pass[c].key
    BY <1>0, <2>1 DEF RevokedOf, PassType, KeyOrNone
  <2>3. acl'[c][pass[c].key[1]] = NoKey
    BY <1>0, <2>1, <2>2 DEF Key
  <2> QED
    BY <1>0, <2>1, <2>2, <2>3, Names DEF RevokedOf
<1>6. CASE DeleteSnapshot(c) \/ DropPass(c)
  <2>1. pass'[c] = Idle
    BY <1>0, <1>6 DEF DeleteSnapshot, DropPass, End
  <2> QED
    BY <1>0, <2>1 DEF RevokedOf
<1> QED
  BY <1>0, <1>1, <1>2, <1>3, <1>4, <1>5, <1>6, CollectorStep DEF GCStep, DelUserFails

\* The collector gives a departed claim's number back only when the claim's user is
\* off its instance (ReclaimRevokes), if no DELUSER fails and users stay away from a
\* claim under collection: however often a reclaim is dropped and begun again,
\* however old the objects are that the claim controller is handed and whenever its
\* abandoned writes commit, the delete comes after the DELUSER, and nothing sets the
\* user of an absent claim in between (gc_drop_dragonfly).
THEOREM ReclaimRevokesEver ==
  ASSUME QuietGC, SureRevokes
  PROVE  Spec => ReclaimRevokes
<1> DEFINE Revokes == \A c \in Claim :
      snap[c].key # NoKey /\ snap'[c].key = NoKey /\ obj[c].st = "absent"
      => acl'[c][snap[c].key[1]] = NoKey
<1>1. RevokedInv /\ [Next]_vars => RevokedInv'
  <2>1. RevokedInv /\ UNCHANGED vars => RevokedInv'
    <3> SUFFICES ASSUME RevokedInv, UNCHANGED vars PROVE RevokedInv'
      OBVIOUS
    <3>1. BaseInv'
      BY BaseStep DEF RevokedInv
    <3> QED
      BY <3>1 DEF vars, RevokedInv, RevokedOf, GuardOf, Of, Busy, Me, Seen
  <2> QED
    BY <2>1, RevokedStep
<1>2. Init => RevokedInv
  <2> SUFFICES ASSUME Init PROVE RevokedInv
    OBVIOUS
  <2>1. /\ \A a \in Actor : pass[a].pc = "idle"
        /\ \A h \in Holder : obj[h].st = "absent" /\ Seen(h).st = "absent"
        /\ \A c \in Claim : snap[c].key = NoKey
    BY Names DEF Init, Idle, NoObj, NoSnap, Seen
  <2> QED
    BY <2>1, BaseInit, Names DEF RevokedInv, RevokedOf, GuardOf, Of, Busy
<1>3. RevokedInv /\ [Next]_vars => [Revokes]_vars
  <2> SUFFICES ASSUME RevokedInv, Next, NEW c \in Claim, snap[c].key # NoKey,
                      snap'[c].key = NoKey, obj[c].st = "absent"
               PROVE  acl'[c][snap[c].key[1]] = NoKey
    OBVIOUS
  <2>0. /\ BaseInv /\ GuardOf(c) /\ RevokedOf(c) /\ ~obj[c].fin /\ "claim" \in Controller
        /\ snap[c] \in [there : BOOLEAN, key : KeyOrNone, expired : BOOLEAN]
        /\ Fits("claim", pass["claim"])
        /\ snap[c].there
    BY Names DEF RevokedInv, BaseInv, SnapOK, ObjOK, ObjectInv, NoObj, PassOK, ShapeInv
  <2>1. pass["claim"].pc \in {"cancel", "cancel_before_release"} =>
          Busy("claim") /\ pass["claim"].goal = "provision"
    BY <2>0, Names DEF Busy, Fits, ShapeOf, ClaimDrop, Idle
  <2>2. ~(Me("claim") = c /\ (Cancel("claim") \/ CancelBeforeRelease("claim")))
    BY <2>0, <2>1 DEF Cancel, CancelBeforeRelease, At, GuardOf, Of
  <2>3. DeleteSnapshot(c)
    BY <2>0, <2>2, SnapEffect
  <2>4. pass[c].pc = "delete" /\ acl' = acl
    BY <2>3 DEF DeleteSnapshot, At
  <2> QED
    BY <2>0, <2>4 DEF RevokedOf
<1> QED
  BY <1>1, <1>2, <1>3, PTL DEF Spec, ReclaimRevokes

-----------------------------------------------------------------------------
(* What the allocation lock does. *)

\* A pass from the lock to its checkpoint, which holds the lock.
Locked == {"own_snapshot", "list_claims", "list_retained", "list_shared", "commit"}
LockInv == \A a \in Controller : pass[a].pc \in Locked => lock = a

\* How a pass gets there.
LEMMA LockedBefore ==
  ASSUME SettledWrites, FreshCache, BaseInv, PinnedInv, LateInv, Next, NEW b \in Controller,
         pass'[b].pc \in Locked
  PROVE  \/ pass'[b] = pass[b] \/ TakeLock(b)
         \/ ListClaims(b) \/ ListRetained(b) \/ ListShared(b) \/ OwnSnapshot(b)
<1>0. b \in Actor /\ b \in {"claim", "shared"} /\ b \notin Claim /\ Idle.pc = "idle"
  BY Names DEF Idle
<1>1. ASSUME NEW a \in Actor, InnerStep(a), pass'[b] # pass[b]
      PROVE  TakeLock(b) \/ ListClaims(b) \/ ListRetained(b) \/ ListShared(b) \/ OwnSnapshot(b)
  <2>1. a = b
    BY <1>0, <1>1, InnerEffect
  <2>2. pass[b].pc \in Allocating
    BY <1>1, <2>1, InnerMoves DEF Rereads, Allocates, Settles, AfterCheck, AfterFlush, Locked, Allocating
  <2> QED
    BY <1>0, <1>1, <2>1, <2>2 DEF InnerStep, FlusherStep, CheckClaims, CheckRetained, CheckShared, Flush,
       FlushFails, CancelBeforeRelease, SetUser, Cancel, FindSnapshot, TakeSnapshot, At, Allocating
<1>2. ASSUME NEW a \in Controller, NEW h \in Holder, Begin(a, h) PROVE pass'[b] = pass[b]
  BY <1>0, <1>2, BeginEffect, FreshBegin DEF Locked
<1>3. ASSUME NEW a \in Controller, WriteStep(a) PROVE pass'[b] = pass[b]
  BY <1>0, <1>3, WriteFields DEF Locked
<1>4. ASSUME NEW a \in Controller, Unfinalize(a) PROVE pass'[b] = pass[b]
  BY <1>0, <1>4, UnfinalizeEffect DEF Locked
<1>5. ASSUME NEW a \in Actor, DropPass(a) PROVE pass'[b] = pass[b]
  BY <1>0, <1>5, DropEffect DEF Locked
<1>6. ASSUME NEW w \in late, LateCommit(w) PROVE pass'[b] = pass[b]
  BY <1>6, LateEffect
<1>7. ASSUME NEW h \in Holder, Delete(h) \/ \E i \in Instance : Create(h, i) PROVE pass'[b] = pass[b]
  BY <1>7, UserEffect
<1> QED
  BY <1>1, <1>2, <1>3, <1>4, <1>5, <1>6, <1>7, Steps DEF WatchDelivers

\* What happens to the lock.
LEMMA LockEffect ==
  Next => \/ lock' = lock
          \/ \E a \in Controller : TakeLock(a) \/ ListShared(a) \/ Checkpoint(a)
          \/ \E a \in Actor : lock' = Released(a) /\ (Refuse(a) \/ DropPass(a))
<1>1. CASE OperatorStep
  <2>1. CASE ClaimStep
    BY <2>1 DEF ClaimStep, BeginClaim, BeginClaimDelete, OwnSnapshot, CancelBeforeRelease,
       KeepConflicting, SetUser, Cancel, FindSnapshot, TakeSnapshot
  <2>2. CASE SharedStep
    BY <2>2, Names DEF SharedStep, BeginShared, BeginSharedRefusal, BeginSharedDelete, Refuse
  <2>3. CASE \E c \in Claim : GCStep(c)
    BY <2>3 DEF GCStep, BeginCollect, DelUser, DelUserFails, DeleteSnapshot
  <2>4. CASE \E a \in Controller : AllocatorStep(a)
    BY <2>4 DEF AllocatorStep, ListClaims, ListRetained, Release, Terminal, Unfinalize
  <2>5. CASE \E a \in Actor : FlusherStep(a)
    BY <2>5 DEF FlusherStep, CheckClaims, CheckRetained, CheckShared, Flush, FlushFails
  <2> QED
    BY <1>1, <2>1, <2>2, <2>3, <2>4, <2>5 DEF OperatorStep
<1>2. CASE EnvironmentStep
  BY <1>2 DEF EnvironmentStep, DropPass, LateCommit, WatchDelivers, Delete, Create, Use, GraceElapses
<1> QED
  BY <1>1, <1>2 DEF Next

LEMMA LockStep ==
  ASSUME SettledWrites, FreshCache, BaseInv, PinnedInv, LateInv, LockInv, Next
  PROVE  LockInv'
<1> SUFFICES ASSUME NEW b \in Controller, pass'[b].pc \in Locked PROVE lock' = b
  BY DEF LockInv
<1>0. b \in Actor /\ Free \notin Controller /\ pass \in [Actor -> PassType] /\ Idle.pc \notin Locked
  BY Names DEF Free, Controller, BaseInv, PassOK, Idle, Locked
<1>1. CASE TakeLock(b)
  BY <1>1 DEF TakeLock
<1>2. CASE ~TakeLock(b)
  <2>1. pass[b].pc \in Locked /\ lock = b
    BY <1>2, LockedBefore DEF LockInv, Locked, ListClaims, ListRetained, ListShared, OwnSnapshot, At
  <2>2. ASSUME NEW a \in Controller, TakeLock(a) PROVE FALSE
    BY <1>0, <2>1, <2>2 DEF TakeLock
  <2>3. ASSUME NEW a \in Controller, ListShared(a), lock' # lock PROVE FALSE
    <3>1. a = b
      BY <2>1, <2>3 DEF ListShared, At, Locked, LockInv
    <3>2. a = "claim" /\ pass' = [pass EXCEPT ![a] = Idle]
      BY <2>3 DEF ListShared
    <3> QED
      BY <1>0, <2>3, <3>1, <3>2
  <2>4. ASSUME NEW a \in Controller, Checkpoint(a) PROVE FALSE
    <3>1. a = b
      BY <2>1, <2>4 DEF Checkpoint, At, Locked, LockInv
    <3>2. pass'[a].pc \in {"idle", "check_claims", "cancel"}
      BY <2>4, WriteFields DEF WriteStep
    <3> QED
      BY <3>1, <3>2 DEF Locked
  <2>5. ASSUME NEW a \in Actor, lock' = Released(a), Refuse(a) \/ DropPass(a) PROVE lock' = b
    <3>1. CASE a = b
      <4>1. pass'[a].pc \notin Locked
        BY <1>0, <2>1, <2>5, <3>1, DropEffect DEF Refuse, At, Locked
      <4> QED
        BY <3>1, <4>1
    <3> QED
      BY <2>1, <2>5, <3>1 DEF Released
  <2> QED
    BY <2>1, <2>2, <2>3, <2>4, <2>5, LockEffect
<1> QED
  BY <1>1, <1>2

\* What a pass that holds the lock knows: the numbers of the claims, then those of
\* the snapshots too, and in the end that the number it takes is nobody else's.
SeesClaims(a) ==
  pass[a].pc \in {"list_retained", "list_shared"} =>
    \A c \in Claim, n \in Dbnum : obj[c].key = <<pass[a].inst, n>> => n \in pass[a].acc
SeesRetained(a) ==
  pass[a].pc = "list_shared" =>
    \A c \in Claim, n \in Dbnum : snap[c].key = <<pass[a].inst, n>> => n \in pass[a].acc
Picks(a) ==
  pass[a].pc = "commit" \/ (pass[a].pc = "list_shared" /\ pass[a].reatt) =>
    \A h \in Holder \ {Me(a)}, k \in Key : k = pass[a].key => ~Holds(h, k)
ListInv == \A a \in Controller : SeesClaims(a) /\ SeesRetained(a) /\ Picks(a)

DistinctInv == TenureInv /\ RecordInv /\ late = {} /\ LockInv /\ OneHolder /\ ListInv

\* Nothing but a checkpoint puts a number into a status that neither the status nor
\* the snapshot has named, and a snapshot takes its status's.
LEMMA HoldsBefore ==
  ASSUME SettledWrites, FreshCache, DistinctInv, Next, NEW h \in Holder, NEW k \in Key
  PROVE  /\ obj'[h].key = k =>
              obj[h].key = k \/ \E a \in Controller : Checkpoint(a) /\ Me(a) = h /\ pass[a].key = k
         /\ h \in Claim /\ snap'[h].key = k => snap[h].key = k \/ obj[h].key = k
<1>0. /\ BaseInv /\ PinnedInv /\ LateInv /\ HeldInv /\ RecordInv /\ NoKey \notin Key /\ LateOf(h) = {}
      /\ NoObj.key = NoKey /\ NoSnap.key = NoKey
  BY Names DEF DistinctInv, TenureInv, LateOf, NoObj, NoSnap
<1>1. PICK b \in Controller : ControllerOf(b, h)
  BY Names DEF ControllerOf, Holder
<1>2. ASSUME obj'[h].key = k, obj[h].key # k
      PROVE  \E a \in Controller : Checkpoint(a) /\ Me(a) = h /\ pass[a].key = k
  <2>1. CASE Begin(b, h)
    BY <1>0, <1>2, <2>1, BeginEffect
  <2>2. CASE WriteStep(b) /\ Of(b, h)
    <3>1. /\ Provisioning(b) /\ pass[b].pc \in WritePC
          /\ obj'[h].key = IF pass[b].pc = "release" THEN NoKey ELSE pass[b].key
      BY <1>0, <2>2, WriteFields DEF Of
    <3>2. pass[b].key = k
      BY <1>0, <1>2, <3>1
    <3>3. pass[b].pc = "commit"
      BY <1>0, <1>2, <2>2, <3>1, <3>2 DEF HeldInv, Of, WritePC, Committed
    <3> QED
      BY <2>2, <3>2, <3>3 DEF Of, WriteStep, Release, Refuse, KeepConflicting, Terminal, At
  <2>3. CASE Unfinalize(b) /\ Of(b, h)
    BY <1>0, <1>2, <2>3, UnfinalizeEffect DEF Of
  <2>4. CASE DropPass(b)
    BY <1>0, <1>2, <2>4, DropEffect, Names
  <2>5. CASE Delete(h) \/ \E i \in Instance : Create(h, i)
    BY <1>0, <1>2, <2>5, UserEffect
  <2> QED
    BY <1>0, <1>1, <1>2, <2>1, <2>2, <2>3, <2>4, <2>5, HolderStep DEF Untouched, Progress
<1>3. ASSUME h \in Claim, snap'[h].key = k, snap[h].key # k PROVE obj[h].key = k
  <2>0. /\ snap[h] \in [there : BOOLEAN, key : KeyOrNone, expired : BOOLEAN]
        /\ [snap[h] EXCEPT !.expired = TRUE].key = snap[h].key
        /\ snap'[h] # NoSnap
    BY <1>0, <1>3 DEF BaseInv, SnapOK
  <2>1. TakeSnapshot("claim") /\ Me("claim") = h /\ pass["claim"].key = k
    <3>1. ASSUME snap'[h] = [there |-> TRUE, key |-> pass["claim"].key, expired |-> FALSE]
          PROVE  pass["claim"].key = k
      BY <1>3, <3>1
    <3> QED
      BY <1>0, <1>3, <2>0, <3>1, SnapEffect
  <2>2. pass["claim"].pc = "snapshot" /\ Busy("claim") /\ pass["claim"].goal = "drop"
    BY <1>0, <2>1, Names DEF TakeSnapshot, At, Busy, BaseInv, PassOK, ShapeInv, Fits, ShapeOf, Idle,
       ClaimProvision, Allocating, Checking
  <2> QED
    BY <1>0, <2>1, <2>2, Names DEF RecordInv, PassRecord, DropRecord
<1> QED
  BY <1>2, <1>3

\* Under the lock nobody else gets a number.
LEMMA UnderLock ==
  ASSUME SettledWrites, FreshCache, DistinctInv, Next, NEW a \in Controller, pass[a].pc \in Locked,
         ~Checkpoint(a)
  PROVE  \A h \in Holder, k \in Key :
           /\ obj'[h].key = k => obj[h].key = k
           /\ Holds(h, k)' => Holds(h, k)
<1>1. \A b \in Controller : ~Checkpoint(b)
  BY DEF DistinctInv, LockInv, Checkpoint, At, Locked
<1> QED
  BY <1>1, HoldsBefore DEF Holds

LEMMA OneHolderStep ==
  ASSUME SettledWrites, FreshCache, DistinctInv, Next
  PROVE  OneHolder'
<1> SUFFICES ASSUME NEW g \in Holder, NEW h \in Holder, NEW k \in Key, g # h, Holds(g, k)', Holds(h, k)'
             PROVE  FALSE
  BY DEF OneHolder
<1>1. ASSUME NEW f \in Holder, NEW e \in Holder, f # e, Holds(f, k)', Holds(e, k)', ~Holds(f, k) PROVE FALSE
  <2>1. PICK a \in Controller : Checkpoint(a) /\ Me(a) = f /\ pass[a].key = k
    BY <1>1, HoldsBefore DEF Holds
  <2>2. pass[a].pc = "commit" /\ ~Holds(e, k)
    BY <1>1, <2>1 DEF Checkpoint, At, DistinctInv, ListInv, Picks
  <2>3. PICK b \in Controller : Checkpoint(b) /\ Me(b) = e
    BY <1>1, <2>2, HoldsBefore DEF Holds
  <2> QED
    BY <1>1, <2>1, <2>2, <2>3 DEF Checkpoint, At, DistinctInv, LockInv, Locked
<1> QED
  BY <1>1 DEF DistinctInv, OneHolder

\* A pass under the lock goes on knowing what it knows.
LEMMA ListStep ==
  ASSUME SettledWrites, FreshCache, DistinctInv, Next
  PROVE  ListInv'
<1> SUFFICES ASSUME NEW a \in Controller, pass'[a].pc \in {"list_retained", "list_shared", "commit"}
             PROVE  SeesClaims(a)' /\ SeesRetained(a)' /\ Picks(a)'
  BY DEF ListInv, SeesClaims, SeesRetained, Picks
<1>0. /\ BaseInv /\ PinnedInv /\ LateInv /\ RecordInv /\ OneHolder
      /\ SeesClaims(a) /\ SeesRetained(a) /\ Picks(a)
      /\ a \in Actor /\ pass \in [Actor -> PassType] /\ pass[a] \in PassType /\ Fits(a, pass[a])
      /\ pass'[a].pc \in Locked /\ NoKey \notin Key /\ NoHolder \notin Holder
      /\ \A n \in Dbnum : pass[a].inst \in Instance => <<pass[a].inst, n>> \in Key
      /\ "check_claims" \notin Locked
  BY Names DEF DistinctInv, TenureInv, ListInv, BaseInv, PassOK, ShapeInv, Locked, Key
<1>1. CASE pass'[a] = pass[a]
  <2>1. ~Checkpoint(a)
    BY <1>0, <1>1, WriteFields DEF WriteStep, Checkpoint, At
  <2>2. /\ pass[a].inst \in Instance
        /\ \A h \in Holder, k \in Key : /\ obj'[h].key = k => obj[h].key = k
                                        /\ Holds(h, k)' => Holds(h, k)
    BY <1>0, <1>1, <2>1, UnderLock DEF Fits, Allocating, Locked
  <2>3. SeesClaims(a)' /\ Picks(a)'
    BY <1>0, <1>1, <2>2, Names DEF SeesClaims, Picks, Me
  <2>4. SeesRetained(a)'
    <3> SUFFICES ASSUME pass[a].pc = "list_shared", NEW c \in Claim, NEW n \in Dbnum,
                        snap'[c].key = <<pass[a].inst, n>>
                 PROVE  n \in pass[a].acc
      BY <1>1 DEF SeesRetained
    <3>1. snap[c].key = <<pass[a].inst, n>> \/ obj[c].key = <<pass[a].inst, n>>
      BY <1>0, <2>2, HoldsBefore, Names
    <3> QED
      BY <1>0, <3>1 DEF SeesRetained, SeesClaims
  <2> QED
    BY <2>3, <2>4
<1>2. CASE ListClaims(a)
  <2> DEFINE used == Used(a, [k \in Key |-> ClaimHolders(k, NoHolder)])
  <2>1. /\ obj' = obj /\ pass[a].pc = "list_claims" /\ pass[a].inst \in Instance
        /\ pass' = [pass EXCEPT ![a].pc = "list_retained", ![a].acc = used]
    BY <1>0, <1>2 DEF ListClaims, At, Fits, Allocating
  <2>2. \A c \in Claim, n \in Dbnum : obj[c].key = <<pass[a].inst, n>> => n \in used
    BY <1>0, <2>1, Names DEF Used, ClaimHolders
  <2> HIDE DEF used
  <2>3. pass'[a].pc = "list_retained" /\ pass'[a].acc = used /\ pass'[a].inst = pass[a].inst
    BY <1>0, <2>1 DEF PassType
  <2> QED
    BY <2>1, <2>2, <2>3 DEF SeesClaims, SeesRetained, Picks
<1>3. CASE ListRetained(a)
  <2> DEFINE used == Used(a, [k \in Key |-> RetainedHolders(k, NoHolder)])
             mine == a = "claim" /\ snap[Me(a)].key \in {pass[a].inst} \X Dbnum
             key == IF mine THEN snap[Me(a)].key ELSE NoKey
  <2>1. /\ UNCHANGED <<obj, snap>> /\ pass[a].pc = "list_retained" /\ pass[a].inst \in Instance
        /\ pass' = [pass EXCEPT ![a].pc = "list_shared", ![a].acc = pass[a].acc \cup used,
                                ![a].reatt = mine, ![a].key = key]
    BY <1>0, <1>3 DEF ListRetained, At, Fits, Allocating
  <2>2. \A c \in Claim, n \in Dbnum : snap[c].key = <<pass[a].inst, n>> => n \in used
    BY <1>0, <2>1, Names DEF Used, RetainedHolders
  <2>3. mine => Me(a) \in Claim /\ key = snap[Me(a)].key
    <3>1. a = "claim" => Me(a) \in Claim
      BY <1>0, <2>1, Apart DEF Busy
    <3> QED
      BY <3>1
  <2> HIDE DEF used, mine, key
  <2>4. /\ pass'[a].pc = "list_shared" /\ pass'[a].acc = pass[a].acc \cup used
        /\ pass'[a].inst = pass[a].inst /\ pass'[a].reatt = mine /\ pass'[a].key = key
        /\ pass'[a].obj = pass[a].obj
    BY <1>0, <2>1 DEF PassType
  <2>5. SeesClaims(a)' /\ SeesRetained(a)'
    BY <1>0, <2>1, <2>2, <2>4 DEF SeesClaims, SeesRetained
  <2>6. Picks(a)'
    BY <1>0, <2>1, <2>3, <2>4, Names DEF Picks, Me, OneHolder, Holds
  <2> QED
    BY <2>5, <2>6
<1>4. CASE ListShared(a)
  <2> DEFINE used == pass[a].acc \cup Used(a, [k \in Key |-> SharedHolders(k, NoHolder)])
             p == [pass[a] EXCEPT !.acc = {}]
             kept == [p EXCEPT !.pc = "commit", !.skip = p.inst = "persistent"]
             fresh == [p EXCEPT !.pc = "commit", !.key = <<p.inst, AllocateDbnum(used)>>]
  <2>1. /\ UNCHANGED <<obj, snap>> /\ pass[a].pc = "list_shared" /\ pass[a].inst \in Instance
    BY <1>0, <1>4 DEF ListShared, At, Fits, Allocating
  <2>2. p.inst = pass[a].inst /\ p.key = pass[a].key /\ p.obj = pass[a].obj /\ p.reatt = pass[a].reatt
    BY <1>0 DEF PassType
  <2>3. CASE pass[a].reatt
    <3>1. pass' = [pass EXCEPT ![a] = kept]
      BY <1>4, <2>2, <2>3 DEF ListShared
    <3>2. pass'[a].pc = "commit" /\ pass'[a].key = pass[a].key /\ pass'[a].obj = pass[a].obj
      BY <1>0, <3>1 DEF PassType
    <3> QED
      BY <1>0, <2>1, <2>3, <3>2 DEF SeesClaims, SeesRetained, Picks, Me, Holds
  <2>4. CASE ~pass[a].reatt
    <3>1. ~(Dbnum \subseteq used) /\ pass' = [pass EXCEPT ![a] = fresh]
      <4>1. CASE Dbnum \subseteq used
        <5>1. pass' = [pass EXCEPT ![a] = IF a = "claim" THEN Idle ELSE [p EXCEPT !.pc = "refuse"]]
          BY <1>4, <2>2, <2>4, <4>1 DEF ListShared
        <5>2. pass'[a].pc \in {"idle", "refuse"}
          BY <1>0, <5>1 DEF Idle, PassType
        <5> QED
          BY <1>0, <5>2 DEF Locked
      <4>2. CASE ~(Dbnum \subseteq used)
        BY <1>4, <2>2, <2>4, <4>2 DEF ListShared
      <4> QED
        BY <4>1, <4>2
    <3> DEFINE n == AllocateDbnum(used)
    <3>2. n \in Dbnum /\ n \notin used
      BY <3>1, LowestFree
    <3>3. used = pass[a].acc \cup {m \in Dbnum : SharedHolders(<<pass[a].inst, m>>, NoHolder) # {}}
      BY <1>0, <2>1 DEF Used
    <3> HIDE DEF n, used
    <3>4. pass'[a].pc = "commit" /\ pass'[a].key = <<pass[a].inst, n>> /\ pass'[a].obj = pass[a].obj
      BY <1>0, <2>2, <3>1 DEF PassType, n
    <3>5. ASSUME NEW h \in Holder, Holds(h, <<pass[a].inst, n>>) PROVE FALSE
      <4>1. CASE h \in Claim
        BY <1>0, <2>1, <3>2, <3>3, <3>5, <4>1 DEF Holds, SeesClaims, SeesRetained
      <4>2. CASE h \in Shared
        BY <1>0, <3>2, <3>3, <3>5, <4>2, Names DEF Holds, SharedHolders
      <4> QED
        BY <4>1, <4>2 DEF Holder
    <3> QED
      BY <2>1, <3>4, <3>5 DEF SeesClaims, SeesRetained, Picks, Holds
  <2> QED
    BY <2>3, <2>4
<1>5. CASE OwnSnapshot(a)
  <2> DEFINE own == snap[Me(a)].key = pass[a].key
  <2>1. /\ UNCHANGED <<obj, snap>> /\ pass[a].pc = "own_snapshot"
        /\ pass' = [pass EXCEPT ![a].pc = "commit", ![a].reatt = own,
                                ![a].skip = own /\ pass[a].inst = "persistent"]
    BY <1>5 DEF OwnSnapshot, At
  <2>2. pass'[a].pc = "commit" /\ pass'[a].key = pass[a].key /\ pass'[a].obj = pass[a].obj
    BY <1>0, <2>1 DEF PassType
  <2>3. Provisioning(a) /\ Me(a) \in Holder
    BY <1>0, <2>1, Names DEF Fits, ShapeOf, Idle, Provisioning, Busy, Me, ClaimDrop, SharedProvision,
       SharedDrop, Allocating, Checking, Collecting
  <2>4. obj[Me(a)].key = pass[a].key
    BY <1>0, <2>1, <2>3 DEF RecordInv, PassRecord, ProvisionRecord
  <2> QED
    BY <1>0, <2>1, <2>2, <2>3, <2>4 DEF SeesClaims, SeesRetained, Picks, Me, OneHolder, Holds
<1>6. CASE TakeLock(a)
  BY <1>0, <1>6 DEF TakeLock, Go, PassType
<1> QED
  BY <1>0, <1>1, <1>2, <1>3, <1>4, <1>5, <1>6, LockedBefore

LEMMA DistinctStep ==
  ASSUME SettledWrites, FreshCache, MaxLate = 0
  PROVE  DistinctInv /\ [Next]_vars => DistinctInv'
<1> SUFFICES ASSUME DistinctInv, [Next]_vars PROVE DistinctInv'
  OBVIOUS
<1>1. CASE UNCHANGED vars
  <2>1. UNCHANGED <<obj, snap, pass, lock, late>>
    BY <1>1 DEF vars
  <2>2. TenureInv'
    BY <1>1, TenureStutter DEF DistinctInv
  <2>3. \A a, h : /\ Busy(a)' <=> Busy(a)
                  /\ Provisioning(a)' <=> Provisioning(a)
                  /\ Me(a)' = Me(a)
    BY <2>1 DEF Busy, Provisioning, Me
  <2>4. RecordInv'
    BY <2>1, <2>3 DEF DistinctInv, RecordInv, OwnRecord, LateRecord, PassRecord, ProvisionRecord, DropRecord
  <2>5. LockInv' /\ OneHolder' /\ ListInv' /\ late' = {}
    BY <2>1, <2>3 DEF DistinctInv, LockInv, OneHolder, Holds, ListInv, SeesClaims, SeesRetained, Picks
  <2> QED
    BY <2>2, <2>4, <2>5 DEF DistinctInv
<1>2. CASE Next
  <2>1. TenureInv' /\ RecordInv' /\ LockInv'
    BY <1>2, BaseStep, PinnedStep, LateStep, HeldStep, WonStep, RecordStep, LockStep
       DEF TenureInv, DistinctInv
  <2>2. late' = {}
    <3>0. BaseInv /\ PinnedInv /\ LateInv /\ late = {}
      BY DEF DistinctInv, TenureInv
    <3>1. ASSUME NEW a \in Actor, InnerStep(a) PROVE late' = late
      BY <3>0, <3>1, InnerEffect
    <3>2. ASSUME NEW a \in Controller, NEW h \in Holder, Begin(a, h) PROVE late' \subseteq late
      BY <3>0, <3>2, BeginEffect
    <3>3. ASSUME NEW a \in Controller, WriteStep(a) \/ Unfinalize(a) PROVE late' = late
      BY <3>0, <3>3, WriteFields, UnfinalizeEffect
    <3>4. ASSUME NEW a \in Actor, DropPass(a) PROVE late' = late
      <4>1. ~(Cardinality(late) < MaxLate)
        BY <3>0, FS_EmptySet
      <4> QED
        BY <3>4, <4>1 DEF DropPass
    <3>5. ASSUME NEW h \in Holder, Delete(h) \/ \E i \in Instance : Create(h, i) PROVE late' = late
      BY <3>0, <3>5, UserEffect
    <3> QED
      BY <1>2, <3>0, <3>1, <3>2, <3>3, <3>4, <3>5, Steps DEF WatchDelivers
  <2> QED
    BY <1>2, <2>1, <2>2, OneHolderStep, ListStep DEF DistinctInv
<1> QED
  BY <1>1, <1>2

\* As long as no abandoned write commits, no number is ever held twice, by a status
\* or by a snapshot (OneHolder), whatever passes are dropped, whoever is deleted and
\* created again and whatever the collector does meanwhile: this much the lock does
\* on its own, and what it does not do, "Dropping a reconcile future ... releases
\* the guard at once while the dropped checkpoint may still commit", is why the
\* holders are read again (Context::dbnum_alloc).
THEOREM OneHolderEver ==
  ASSUME SettledWrites, FreshCache, MaxLate = 0
  PROVE  Spec => []OneHolder
<1>1. Init => DistinctInv
  <2> SUFFICES ASSUME Init PROVE DistinctInv
    OBVIOUS
  <2>1. TenureInv /\ RecordInv
    BY CustodyInit DEF CustodyInv
  <2>2. /\ \A a \in Controller : pass[a].pc = "idle"
        /\ \A h \in Holder, k \in Key : ~Holds(h, k)
        /\ late = {}
    BY Names DEF Init, Idle, NoObj, NoSnap, Holds
  <2> QED
    BY <2>1, <2>2 DEF DistinctInv, LockInv, Locked, OneHolder, ListInv, SeesClaims, SeesRetained, Picks
<1>2. DistinctInv => OneHolder
  BY DEF DistinctInv
<1> QED
  BY <1>1, <1>2, DistinctStep, PTL DEF Spec

=============================================================================
