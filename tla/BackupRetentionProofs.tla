------------------------ MODULE BackupRetentionProofs ------------------------
(***************************************************************************)
(* Proofs about BackupRetention, for any runs, clusters, prunes, policies  *)
(* and times within the assumptions.                                       *)
(***************************************************************************)
EXTENDS BackupRetention, FiniteSetTheorems, TLAPS

Going == {"dump", "upload"}

\* A run has its snapshots in order, and commits with the last one.
OrderInv ==
  /\ \A s \in snaps : run[s.run].st # "new" /\ (s.item = Commit => run[s.run].st = "done")
  /\ \A r \in Run : run[r].st \in Going =>
       /\ run[r].item \in Items(r)
       /\ \A i \in Items(r) : i < run[r].item <=> i \in Stored(r)

\* How long a run that is going on may have been silent: its newest snapshot is
\* from the end of the last upload.
TimeInv ==
  \A r \in Run : run[r].st \in Going =>
    /\ run[r].start <= now /\ run[r].since <= now
    /\ run[r].st = "dump" => now <= run[r].since + HelperKeepAlive
    /\ run[r].st = "upload" /\ r \notin Scheduled => now <= run[r].since + UploadTime
    /\ r \in Scheduled => now <= run[r].start + RunDeadline + Grace
    /\ Stored(r) # {} =>
         \E s \in Group(snaps, r) :
           run[r].since <= s.ended + (IF run[r].st = "upload" THEN HelperKeepAlive ELSE 0)

\* A prune forgets only what has ended and the policy has no use for, however
\* long ago it planned.
PlanInv ==
  \A p \in Pruner : \A id \in prune[p].ids :
    run[id[1]].st \in {"done", "dead"} /\ ~Due(id[1])

RunType == [st : {"new", "dump", "upload", "done", "dead"},
            start : 0..MaxTime, item : Item, since : 0..MaxTime]

-----------------------------------------------------------------------------
\* The times and counts are naturals, and the window is longer than any silence
\* of a run that is going on.
LEMMA NumberFacts ==
  /\ Commit \in Nat /\ Commit >= 1 /\ Item = 1..Commit /\ Commit \in Item
  /\ MaxTime \in Nat /\ MaxFails \in Nat
  /\ RunDeadline \in Nat /\ Grace \in Nat /\ UploadTime \in Nat
  /\ HelperKeepAlive \in Nat /\ RunDeadline <= HelperKeepAlive
  /\ UnfinishedRunWindow \in Nat
  /\ HelperKeepAlive + UploadTime < UnfinishedRunWindow
  /\ RunDeadline + Grace < UnfinishedRunWindow
BY TimeAssumption, MarginAssumption
   DEF Commit, Item, HelperKeepAlive, MaxOf, UnfinishedRunWindow

\* What a run writes.
LEMMA ItemsFacts ==
  ASSUME NEW r \in Run
  PROVE  /\ Items(r) \subseteq Item /\ Commit \in Items(r)
         /\ \A i \in Items(r) : i \in Nat /\ i <= Commit
         /\ \A i \in Items(r) : i # Commit => r \notin Monolithic /\ i + 1 \in Items(r)
BY NumberFacts DEF Items

\* The effect of each step of a run on its record; the others keep theirs.
LEMMA StartRunEffect ==
  ASSUME TypeOK, NEW r \in Run, StartRun(r)
  PROVE  /\ run' \in [Run -> RunType] /\ \A q \in Run \ {r} : run'[q] = run[q]
         /\ run[r].st = "new" /\ run'[r].st = "dump" /\ run'[r].start = now /\ run'[r].since = now
         /\ run'[r].item = IF r \in Monolithic THEN Commit ELSE 1
         /\ UNCHANGED <<now, snaps, prune, fails>>
<1>1. (IF r \in Monolithic THEN Commit ELSE 1) \in Item
  BY NumberFacts
<1>2. [st |-> "dump", start |-> now, since |-> now,
       item |-> IF r \in Monolithic THEN Commit ELSE 1] \in RunType
  BY <1>1 DEF TypeOK, RunType
<1>3. run \in [Run -> RunType]
  BY DEF TypeOK, RunType
<1> QED
  BY <1>2, <1>3 DEF StartRun

\* BeginUpload notes when the upload began.
LEMMA BeginUploadEffect ==
  ASSUME TypeOK, NEW r \in Run, BeginUpload(r)
  PROVE  /\ run' \in [Run -> RunType] /\ \A q \in Run \ {r} : run'[q] = run[q]
         /\ run[r].st = "dump" /\ run'[r].st = "upload" /\ run'[r].start = run[r].start
         /\ run'[r].since = now /\ run'[r].item = run[r].item
         /\ UNCHANGED <<now, snaps, prune, fails>>
<1>1. run \in [Run -> RunType] /\ now \in 0..MaxTime
  BY DEF TypeOK, RunType
<1> QED
  BY <1>1 DEF BeginUpload, RunType

\* EndUpload lists the snapshot and goes on to the next item, or commits.
LEMMA EndUploadEffect ==
  ASSUME TypeOK, OrderInv, NEW r \in Run, EndUpload(r)
  PROVE  /\ run' \in [Run -> RunType] /\ \A q \in Run \ {r} : run'[q] = run[q]
         /\ run[r].st = "upload" /\ run'[r].start = run[r].start
         /\ run[r].item = Commit => run'[r].st = "done"
         /\ run[r].item # Commit => /\ run'[r].st = "dump" /\ run'[r].since = now
                                    /\ run'[r].item = run[r].item + 1
         /\ snaps' = snaps \cup {[run |-> r, item |-> run[r].item, ended |-> now]}
         /\ UNCHANGED <<now, prune, fails>>
<1>1. run \in [Run -> RunType] /\ now \in 0..MaxTime /\ 0 \in 0..MaxTime
  BY NumberFacts DEF TypeOK, RunType
<1>2. run[r].item \in Items(r) /\ (run[r].item # Commit => run[r].item + 1 \in Item)
  BY ItemsFacts DEF EndUpload, OrderInv, Going
<1>3. CASE run[r].item = Commit
  <2>1. run' = [run EXCEPT ![r] = [run[r] EXCEPT !.st = "done", !.since = 0]]
    BY <1>1, <1>3 DEF EndUpload
  <2>2. [run[r] EXCEPT !.st = "done", !.since = 0] \in RunType
    BY <1>1 DEF RunType
  <2> QED
    BY <1>1, <1>3, <2>1, <2>2 DEF EndUpload, RunType
<1>4. CASE run[r].item # Commit
  <2>1. run' = [run EXCEPT ![r] = [run[r] EXCEPT !.st = "dump", !.item = run[r].item + 1, !.since = now]]
    BY <1>1, <1>4 DEF EndUpload
  <2>2. [run[r] EXCEPT !.st = "dump", !.item = run[r].item + 1, !.since = now] \in RunType
    BY <1>1, <1>2, <1>4 DEF RunType
  <2> QED
    BY <1>1, <1>4, <2>1, <2>2 DEF EndUpload, RunType
<1> QED
  BY <1>3, <1>4

\* A run that dies leaves its snapshots.
LEMMA RunDiesEffect ==
  ASSUME TypeOK, NEW r \in Run, RunDies(r)
  PROVE  /\ run' \in [Run -> RunType] /\ \A q \in Run \ {r} : run'[q] = run[q]
         /\ run[r].st \in Going /\ run'[r].st = "dead" /\ run'[r].start = 0
         /\ UNCHANGED <<now, snaps, prune, fails>>
<1>1. run \in [Run -> RunType] /\ 0 \in 0..MaxTime /\ Commit \in Item
  BY NumberFacts DEF TypeOK, RunType
<1> QED
  BY <1>1 DEF RunDies, RunType, Going

\* What a prune does to the repository and to its own plan: it forgets some of
\* what it planned, and plans anew only from an idle start.
LEMMA PruneEffect ==
  ASSUME TypeOK, NEW p \in Pruner, PruneStep(p) \/ PruneStops(p)
  PROVE  /\ UNCHANGED <<now, run>> /\ fails' \in 0..MaxFails
         /\ prune' \in [Pruner -> [pc : {"idle", "probe", "rest"}, ids : SUBSET (Run \X Item)]]
         /\ \A q \in Pruner : prune'[q].ids = {} <=> prune'[q].pc = "idle"
         /\ \A q \in Pruner \ {p} : prune'[q] = prune[q]
         /\ snaps' \subseteq snaps /\ \A s \in snaps \ snaps' : Id(s) \in prune[p].ids
         /\ \/ prune'[p].ids \subseteq prune[p].ids
            \/ \E c \in Cluster : prune'[p].ids = PlanPrune(c) /\ snaps' = snaps
<1>0. /\ prune \in [Pruner -> [pc : {"idle", "probe", "rest"}, ids : SUBSET (Run \X Item)]]
      /\ \A q \in Pruner : prune[q].ids = {} <=> prune[q].pc = "idle"
      /\ fails \in 0..MaxFails
  BY DEF TypeOK
<1>1. NoPrune \in [pc : {"idle", "probe", "rest"}, ids : SUBSET (Run \X Item)]
  BY DEF NoPrune
<1>2. CASE ListAndPlan(p)
  <2>1. PICK c \in Cluster : PlanPrune(c) # {}
                             /\ prune' = [prune EXCEPT ![p] = [pc |-> "probe", ids |-> PlanPrune(c)]]
    BY <1>2 DEF ListAndPlan
  <2>2. PlanPrune(c) \in SUBSET (Run \X Item)
    <3>1. \A s \in snaps : Id(s) \in Run \X Item
      BY ItemsFacts DEF TypeOK, Id
    <3> QED
      BY <3>1 DEF PlanPrune, OwnedBy
  <2>3. UNCHANGED <<now, run, snaps, fails>>
    BY <1>2 DEF ListAndPlan
  <2> QED
    BY <1>0, <2>1, <2>2, <2>3
<1>3. CASE ForgetProbe(p)
  <2>1. PICK probe \in prune[p].ids :
          /\ snaps' = Without({probe})
          /\ prune' = [prune EXCEPT ![p] = IF prune[p].ids = {probe} THEN NoPrune
                                           ELSE [pc |-> "rest", ids |-> prune[p].ids \ {probe}]]
    BY <1>0, <1>3 DEF ForgetProbe
  <2>2. CASE prune[p].ids = {probe}
    BY <1>0, <1>1, <1>3, <2>1, <2>2 DEF ForgetProbe, Without, NoPrune
  <2>3. CASE prune[p].ids # {probe}
    <3>1. prune[p].ids \ {probe} # {} /\ prune[p].ids \ {probe} \in SUBSET (Run \X Item)
      BY <1>0, <2>1, <2>3
    <3> QED
      BY <1>0, <1>3, <2>1, <2>3, <3>1 DEF ForgetProbe, Without
  <2> QED
    BY <2>2, <2>3
<1>4. CASE ForgetRest(p)
  BY <1>0, <1>1, <1>4 DEF ForgetRest, Without, NoPrune
<1>5. CASE ForgetLocked(p)
  BY <1>0, <1>1, <1>5 DEF ForgetLocked, NoPrune
<1>6. CASE PruneStops(p)
  BY <1>0, <1>1, <1>6, NumberFacts DEF PruneStops, Without, NoPrune
<1> QED
  BY <1>2, <1>3, <1>4, <1>5, <1>6 DEF PruneStep

-----------------------------------------------------------------------------
(* Types and order. *)

\* Every step keeps the types.
LEMMA TypeStep == TypeOK /\ OrderInv /\ TimeInv /\ [Next]_vars => TypeOK'
<1> SUFFICES ASSUME TypeOK, OrderInv, TimeInv, [Next]_vars PROVE TypeOK'
  OBVIOUS
<1>0. /\ now \in 0..MaxTime /\ run \in [Run -> RunType] /\ MaxTime \in Nat
      /\ \A s \in snaps : /\ s.run \in Run /\ s.item \in Items(s.run)
                          /\ s.ended \in run[s.run].start .. now
      /\ \A r \in Run : run[r].start \in Nat
  BY NumberFacts DEF TypeOK, RunType
<1>1. CASE Tick
  <2>1. now' \in 0..MaxTime /\ now' = now + 1 /\ UNCHANGED <<run, snaps, prune, fails>>
    BY <1>0, <1>1 DEF Tick
  <2>2. \A s \in snaps : s.ended \in run[s.run].start .. now'
    BY <1>0, <2>1
  <2> QED
    BY <2>1, <2>2 DEF TypeOK
<1>2. ASSUME NEW r \in Run, StartRun(r) PROVE TypeOK'
  <2>1. \A s \in snaps : s.run # r
    BY <1>2, StartRunEffect DEF OrderInv
  <2>2. \A s \in snaps : s.ended \in run'[s.run].start .. now
    BY <1>0, <1>2, <2>1, StartRunEffect
  <2> QED
    BY <1>2, <2>2, StartRunEffect DEF TypeOK, RunType
<1>3. ASSUME NEW r \in Run, BeginUpload(r) PROVE TypeOK'
  <2>1. \A q \in Run : run'[q].start = run[q].start
    BY <1>3, BeginUploadEffect
  <2> QED
    BY <1>3, <2>1, BeginUploadEffect DEF TypeOK, RunType
<1>4. ASSUME NEW r \in Run, EndUpload(r) PROVE TypeOK'
  <2>1. \A q \in Run : run'[q].start = run[q].start
    BY <1>4, EndUploadEffect
  <2>2. run[r].start <= now /\ run[r].item \in Items(r)
    BY <1>4, EndUploadEffect DEF TimeInv, OrderInv, Going
  <2>3. \A s \in snaps' : /\ s.run \in Run /\ s.item \in Items(s.run)
                          /\ s.ended \in run'[s.run].start .. now
    BY <1>0, <1>4, <2>1, <2>2, EndUploadEffect
  <2> QED
    BY <1>4, <2>3, EndUploadEffect DEF TypeOK, RunType
<1>5. ASSUME NEW r \in Run, RunDies(r) PROVE TypeOK'
  <2>1. \A s \in snaps : s.ended \in run'[s.run].start .. now
    BY <1>0, <1>5, RunDiesEffect
  <2> QED
    BY <1>5, <2>1, RunDiesEffect DEF TypeOK, RunType
<1>6. ASSUME NEW p \in Pruner, PruneStep(p) \/ PruneStops(p) PROVE TypeOK'
  BY <1>6, PruneEffect DEF TypeOK
<1>7. CASE UNCHANGED vars
  BY <1>7 DEF vars, TypeOK
<1> QED
  BY <1>1, <1>2, <1>3, <1>4, <1>5, <1>6, <1>7 DEF Next, RunStep

\* Nothing forgets a snapshot of a run that is going on, so a run commits with
\* all of its snapshots stored.
LEMMA OrderStep ==
  ASSUME TypeOK, OrderInv, PlanInv, [Next]_vars
  PROVE  OrderInv'
<1>0. /\ run \in [Run -> RunType]
      /\ \A s \in snaps : s.run \in Run /\ s.item \in Items(s.run)
  BY DEF TypeOK, RunType
<1>1. CASE UNCHANGED <<run, snaps>>
  BY <1>1 DEF OrderInv, Stored, Group
<1>2. ASSUME NEW r \in Run, StartRun(r) PROVE OrderInv'
  <2>1. \A s \in snaps : s.run # r
    BY <1>2, StartRunEffect DEF OrderInv
  <2>2. run'[r].item \in Items(r) /\ \A i \in Items(r) : ~(i < run'[r].item)
    BY <1>2, StartRunEffect, ItemsFacts, NumberFacts DEF Items
  <2>3. \A q \in Run : Stored(q)' = Stored(q)
    BY <1>2, StartRunEffect DEF Stored, Group
  <2>4. Stored(r) = {}
    BY <2>1 DEF Stored, Group
  <2>5. \A s \in snaps : run'[s.run].st # "new" /\ (s.item = Commit => run'[s.run].st = "done")
    BY <1>0, <1>2, <2>1, StartRunEffect DEF OrderInv
  <2>6. ASSUME NEW q \in Run, run'[q].st \in Going
        PROVE  /\ run'[q].item \in Items(q)
               /\ \A i \in Items(q) : i < run'[q].item <=> i \in Stored(q)'
    <3>1. CASE q = r
      BY <2>2, <2>3, <2>4, <3>1
    <3>2. CASE q # r
      BY <1>2, <2>3, <2>6, <3>2, StartRunEffect DEF OrderInv
    <3> QED
      BY <3>1, <3>2
  <2> QED
    BY <1>2, <2>5, <2>6, StartRunEffect DEF OrderInv
<1>3. ASSUME NEW r \in Run, BeginUpload(r) \/ RunDies(r) PROVE OrderInv'
  <2>1. /\ snaps' = snaps /\ \A q \in Run \ {r} : run'[q] = run[q]
        /\ run[r].st \in Going /\ run'[r].st \in {"upload", "dead"}
        /\ run'[r].st = "upload" => run'[r].item = run[r].item
    BY <1>3, BeginUploadEffect, RunDiesEffect DEF Going
  <2>2. \A q \in Run : Stored(q)' = Stored(q)
    BY <2>1 DEF Stored, Group
  <2>3. run[r].st # "done" /\ run[r].st # "new"
    BY <2>1 DEF Going
  <2> QED
    BY <1>0, <2>1, <2>2, <2>3 DEF OrderInv, Going
<1>4. ASSUME NEW r \in Run, EndUpload(r) PROVE OrderInv'
  <2> DEFINE new == [run |-> r, item |-> run[r].item, ended |-> now]
  <2>1. snaps' = snaps \cup {new} /\ new.run = r /\ new.item = run[r].item
    BY <1>4, EndUploadEffect
  <2>2. \A q \in Run \ {r} : Stored(q)' = Stored(q)
    BY <2>1 DEF Stored, Group
  <2>3. Stored(r)' = Stored(r) \cup {run[r].item}
    BY <2>1 DEF Stored, Group
  <2>4. run[r].item \in Items(r) /\ run[r].st \in Going
        /\ \A i \in Items(r) : i < run[r].item <=> i \in Stored(r)
    BY <1>4, EndUploadEffect DEF OrderInv, Going
  <2>5. \A s \in snaps' : run'[s.run].st # "new" /\ (s.item = Commit => run'[s.run].st = "done")
    <3>1. \A s \in snaps : s.run = r => s.item # Commit
      BY <1>4, EndUploadEffect DEF OrderInv
    <3>2. run'[r].st # "new" /\ (run[r].item = Commit => run'[r].st = "done")
      BY <1>4, EndUploadEffect
    <3> QED
      BY <1>0, <1>4, <2>1, <3>1, <3>2, EndUploadEffect DEF OrderInv
  <2>6. ASSUME NEW q \in Run, run'[q].st \in Going
        PROVE  /\ run'[q].item \in Items(q)
               /\ \A i \in Items(q) : i < run'[q].item <=> i \in Stored(q)'
    <3>1. CASE q = r
      <4>1. run[r].item # Commit /\ run'[r].item = run[r].item + 1
        BY <1>4, <2>6, <3>1, EndUploadEffect DEF Going
      <4>2. run'[r].item \in Items(r)
        BY <2>4, <4>1, ItemsFacts
      <4>3. \A i \in Items(r) : i < run[r].item + 1 <=> i < run[r].item \/ i = run[r].item
        BY <2>4, ItemsFacts
      <4> QED
        BY <2>3, <2>4, <3>1, <4>1, <4>2, <4>3
    <3>2. CASE q # r
      BY <1>4, <2>2, <2>6, <3>2, EndUploadEffect DEF OrderInv
    <3> QED
      BY <3>1, <3>2
  <2> QED
    BY <2>5, <2>6 DEF OrderInv
<1>5. ASSUME NEW p \in Pruner, PruneStep(p) \/ PruneStops(p) PROVE OrderInv'
  <2>1. run' = run /\ snaps' \subseteq snaps /\ \A s \in snaps \ snaps' : Id(s) \in prune[p].ids
    BY <1>5, PruneEffect
  <2>2. \A s \in snaps : run[s.run].st \in Going => s \in snaps'
    <3>1. \A s \in snaps : Id(s)[1] = s.run
      BY DEF Id
    <3>2. \A id \in prune[p].ids : run[id[1]].st \notin Going
      BY DEF PlanInv, Going
    <3> QED
      BY <2>1, <3>1, <3>2
  <2>3. \A q \in Run : run[q].st \in Going => Stored(q)' = Stored(q)
    BY <2>1, <2>2 DEF Stored, Group
  <2> QED
    BY <2>1, <2>3 DEF OrderInv
<1> QED
  BY <1>1, <1>2, <1>3, <1>4, <1>5 DEF Next, RunStep, Tick, vars

\* A run that is going on is never silent for longer than its keep-alive and one
\* upload.
LEMMA TimeStep ==
  ASSUME TypeOK, OrderInv, TimeInv, PlanInv, [Next]_vars
  PROVE  TimeInv'
<1>0. /\ run \in [Run -> RunType] /\ now \in Nat
      /\ \A s \in snaps : s.run \in Run /\ s.ended \in Int
      /\ \A q \in Run : run[q].start \in Nat /\ run[q].since \in Nat
  BY NumberFacts DEF TypeOK, RunType
<1>1. CASE Tick
  <2>1. now' = now + 1 /\ UNCHANGED <<run, snaps>>
    BY <1>1 DEF Tick
  <2>2. \A q \in Run : Stored(q)' = Stored(q) /\ Group(snaps, q)' = Group(snaps, q)
    BY <2>1 DEF Stored, Group
  <2>3. ASSUME NEW q \in Run, run[q].st \in Going
        PROVE  /\ run[q].start <= now' /\ run[q].since <= now'
               /\ run[q].st = "dump" => now' <= run[q].since + HelperKeepAlive
               /\ run[q].st = "upload" /\ q \notin Scheduled => now' <= run[q].since + UploadTime
               /\ q \in Scheduled => now' <= run[q].start + RunDeadline + Grace
    <3>1. InTime(q) /\ run[q].start <= now /\ run[q].since <= now
      BY <1>1, <2>3 DEF Tick, TimeInv
    <3> QED
      BY <1>0, <2>1, <2>3, <3>1, NumberFacts DEF InTime, Going
  <2> QED
    BY <2>1, <2>2, <2>3 DEF TimeInv
<1>2. ASSUME NEW r \in Run, StartRun(r) PROVE TimeInv'
  <2>1. \A s \in snaps : s.run # r
    BY <1>2, StartRunEffect DEF OrderInv
  <2>2. \A q \in Run : Stored(q)' = Stored(q) /\ Group(snaps, q)' = Group(snaps, q)
    BY <1>2, StartRunEffect DEF Stored, Group
  <2>3. Stored(r) = {}
    BY <2>1 DEF Stored, Group
  <2>4. now <= now + HelperKeepAlive /\ now <= now + RunDeadline + Grace /\ now <= now
    BY <1>0, NumberFacts
  <2>5. ASSUME NEW q \in Run, run'[q].st \in Going PROVE TimeInv!(q)!2'
    <3>1. CASE q = r
      BY <1>2, <2>2, <2>3, <2>4, <3>1, StartRunEffect
    <3>2. CASE q # r
      BY <1>2, <2>2, <2>5, <3>2, StartRunEffect DEF TimeInv
    <3> QED
      BY <3>1, <3>2
  <2> QED
    BY <2>5 DEF TimeInv
<1>3. ASSUME NEW r \in Run, BeginUpload(r) PROVE TimeInv'
  <2>1. \A q \in Run : Stored(q)' = Stored(q) /\ Group(snaps, q)' = Group(snaps, q)
    BY <1>3, BeginUploadEffect DEF Stored, Group
  <2>2. /\ run[r].start <= now /\ now <= run[r].since + HelperKeepAlive
        /\ r \in Scheduled => now <= run[r].start + RunDeadline + Grace
        /\ Stored(r) # {} => \E s \in Group(snaps, r) : run[r].since <= s.ended + 0
    BY <1>3, BeginUploadEffect DEF TimeInv, Going
  <2>3. now <= now + UploadTime /\ now <= now
    BY <1>0, NumberFacts
  <2>4. Stored(r) # {} => \E s \in Group(snaps, r) : now <= s.ended + HelperKeepAlive
    <3>1. \A s \in Group(snaps, r) : s.ended \in Int
      BY <1>0 DEF Group
    <3> QED
      BY <1>0, <2>2, <3>1, NumberFacts
  <2>5. ASSUME NEW q \in Run, run'[q].st \in Going PROVE TimeInv!(q)!2'
    <3>1. CASE q = r
      BY <1>3, <2>1, <2>2, <2>3, <2>4, <3>1, BeginUploadEffect
    <3>2. CASE q # r
      BY <1>3, <2>1, <2>5, <3>2, BeginUploadEffect DEF TimeInv
    <3> QED
      BY <3>1, <3>2
  <2> QED
    BY <2>5 DEF TimeInv
<1>4. ASSUME NEW r \in Run, EndUpload(r) PROVE TimeInv'
  <2> DEFINE new == [run |-> r, item |-> run[r].item, ended |-> now]
  <2>1. snaps' = snaps \cup {new} /\ new.run = r /\ new.ended = now
    BY <1>4, EndUploadEffect
  <2>2. \A q \in Run \ {r} : Stored(q)' = Stored(q) /\ Group(snaps, q)' = Group(snaps, q)
    BY <2>1 DEF Stored, Group
  <2>3. new \in Group(snaps, r)'
    BY <2>1 DEF Group
  <2>4. /\ run[r].start <= now /\ now <= now + HelperKeepAlive /\ now <= now
        /\ r \in Scheduled => now <= run[r].start + RunDeadline + Grace
        /\ now <= new.ended + 0
    BY <1>0, <1>4, <2>1, EndUploadEffect, NumberFacts DEF TimeInv, Going
  <2> HIDE DEF new
  <2>5. ASSUME NEW q \in Run, run'[q].st \in Going PROVE TimeInv!(q)!2'
    <3>1. CASE q = r
      <4>1. run'[r].st = "dump" /\ run'[r].since = now /\ run'[r].start = run[r].start /\ now' = now
        BY <1>4, <2>5, <3>1, EndUploadEffect DEF Going
      <4> QED
        BY <2>3, <2>4, <3>1, <4>1
    <3>2. CASE q # r
      BY <1>4, <2>2, <2>5, <3>2, EndUploadEffect DEF TimeInv
    <3> QED
      BY <3>1, <3>2
  <2> QED
    BY <2>5 DEF TimeInv
<1>5. ASSUME NEW r \in Run, RunDies(r) PROVE TimeInv'
  <2>1. \A q \in Run : Stored(q)' = Stored(q) /\ Group(snaps, q)' = Group(snaps, q)
    BY <1>5, RunDiesEffect DEF Stored, Group
  <2> QED
    BY <1>5, <2>1, RunDiesEffect DEF TimeInv, Going
<1>6. ASSUME NEW p \in Pruner, PruneStep(p) \/ PruneStops(p) PROVE TimeInv'
  <2>1. UNCHANGED <<now, run>> /\ snaps' \subseteq snaps
        /\ \A s \in snaps \ snaps' : Id(s) \in prune[p].ids
    BY <1>6, PruneEffect
  <2>2. \A s \in snaps : run[s.run].st \in Going => s \in snaps'
    <3>1. \A s \in snaps : Id(s)[1] = s.run
      BY DEF Id
    <3>2. \A id \in prune[p].ids : run[id[1]].st \notin Going
      BY DEF PlanInv, Going
    <3> QED
      BY <2>1, <3>1, <3>2
  <2>3. \A q \in Run : run[q].st \in Going =>
          Stored(q)' = Stored(q) /\ Group(snaps, q)' = Group(snaps, q)
    BY <2>1, <2>2 DEF Stored, Group
  <2> QED
    BY <2>1, <2>3 DEF TimeInv
<1>7. CASE UNCHANGED vars
  BY <1>7 DEF vars, TimeInv, Stored, Group
<1> QED
  BY <1>1, <1>2, <1>3, <1>4, <1>5, <1>6, <1>7 DEF Next, RunStep

-----------------------------------------------------------------------------
(* The keep policy. *)

\* A smaller set of runs falls into no more periods.
LEMMA FewerPeriods ==
  ASSUME NEW f, NEW T \in SUBSET Run, NEW S \in SUBSET T
  PROVE  /\ Cardinality({f[q] : q \in S}) \in Nat /\ Cardinality({f[q] : q \in T}) \in Nat
         /\ Cardinality({f[q] : q \in S}) <= Cardinality({f[q] : q \in T})
<1>1. IsFiniteSet(T)
  BY RunAssumption, FS_Subset
<1> DEFINE g == [q \in T |-> f[q]]
           image == {f[q] : q \in T}
<1>2. g \in Surjection(T, image)
  BY DEF Surjection
<1>3. IsFiniteSet(image)
  BY <1>1, <1>2, FS_Surjection
<1>4. {f[q] : q \in S} \in SUBSET image
  OBVIOUS
<1> HIDE DEF image
<1>5. Cardinality({f[q] : q \in S}) <= Cardinality(image) /\ IsFiniteSet({f[q] : q \in S})
  BY <1>3, <1>4, FS_Subset
<1> QED
  BY <1>3, <1>5, FS_CardinalityType DEF image

\* A committed run stays committed, with its start.
LEMMA CommittedStays ==
  ASSUME TypeOK, OrderInv, [Next]_vars, NEW q \in Run, run[q].st = "done"
  PROVE  run'[q].st = "done" /\ run'[q].start = run[q].start
<1>1. CASE UNCHANGED run
  BY <1>1
<1>2. ASSUME NEW r \in Run, StartRun(r) \/ RunStep(r)
      PROVE  run'[q].st = "done" /\ run'[q].start = run[q].start
  <2>1. run[r].st # "done" /\ \A p \in Run \ {r} : run'[p] = run[p]
    BY <1>2, StartRunEffect, BeginUploadEffect, EndUploadEffect, RunDiesEffect DEF RunStep, Going
  <2> QED
    BY <2>1
<1>3. ASSUME NEW p \in Pruner, PruneStep(p) \/ PruneStops(p) PROVE UNCHANGED run
  BY <1>3, PruneEffect
<1> QED
  BY <1>1, <1>2, <1>3 DEF Next, Tick, vars

\* A run the policy has no use for is of no use for good: later runs only push it
\* out further.
LEMMA DueOnlyEnds ==
  ASSUME TypeOK, OrderInv, [Next]_vars, NEW r \in Run, run[r].st = "done", Due(r)'
  PROVE  Due(r)
<1> DEFINE later == {q \in Committed(Owner[r]) : run[q].start > run[r].start}
<1>1. later \in SUBSET later' /\ later' \in SUBSET Run
  BY CommittedStays DEF Committed
<1>2. PICK len \in DOMAIN Keep :
        /\ \A q \in later' : Period(len, q)' # Period(len, r)'
        /\ Cardinality({Period(len, q)' : q \in later'}) < Keep[len]
  BY DEF Due
<1>3. Period(len, r)' = Period(len, r) /\ \A q \in later : Period(len, q)' = Period(len, q)
  BY CommittedStays DEF Committed, Period
<1> DEFINE f == [q \in Run |-> Period(len, q)']
<1>4. {f[q] : q \in later'} = {Period(len, q)' : q \in later'}
  BY <1>1
<1>5. {f[q] : q \in later} = {Period(len, q) : q \in later}
  BY <1>1, <1>3
<1> HIDE DEF f
<1>6. /\ Cardinality({f[q] : q \in later}) <= Cardinality({f[q] : q \in later'})
      /\ Cardinality({f[q] : q \in later}) \in Nat /\ Cardinality({f[q] : q \in later'}) \in Nat
  BY <1>1, FewerPeriods
<1>7. Keep[len] \in Nat
  BY TimeAssumption
<1>8. Cardinality({Period(len, q) : q \in later}) < Keep[len]
  <2>1. Cardinality({f[q] : q \in later'}) < Keep[len]
    BY <1>2, <1>4, Zenon
  <2>2. Cardinality({Period(len, q) : q \in later}) = Cardinality({f[q] : q \in later})
    BY <1>5, Zenon
  <2> HIDE DEF later
  <2> QED
    BY <1>6, <1>7, <2>1, <2>2
<1>9. \A q \in later : Period(len, q) # Period(len, r)
  BY <1>1, <1>2, <1>3
<1> QED
  BY <1>8, <1>9 DEF Due

\* The walk over the stored runs keeps every run that is due over all of them:
\* the runs it does not see are missing from its periods, and never fill one.
LEMMA DueIsKept ==
  ASSUME TypeOK, OrderInv, NEW r \in Run, Due(r), r \in Complete(OwnedBy(Owner[r]))
  PROVE  r \in SelectKept(Complete(OwnedBy(Owner[r])))
<1> DEFINE reps == Complete(OwnedBy(Owner[r]))
           later == {q \in Committed(Owner[r]) : run[q].start > run[r].start}
           newer == {q \in reps : NewestRunFirst(q, r)}
<1>1. newer \in SUBSET later /\ later \in SUBSET Run
  BY DEF Complete, OwnedBy, DeriveManifest, NewestRunFirst, Committed, OrderInv, TypeOK
<1>2. PICK len \in DOMAIN Keep :
        /\ \A q \in later : Period(len, q) # Period(len, r)
        /\ Cardinality({Period(len, q) : q \in later}) < Keep[len]
  BY DEF Due
<1> DEFINE f == [q \in Run |-> Period(len, q)]
<1>3. {f[q] : q \in later} = {Period(len, q) : q \in later}
      /\ {f[q] : q \in newer} = {Period(len, q) : q \in newer}
  BY <1>1
<1> HIDE DEF f
<1>4. /\ Cardinality({f[q] : q \in newer}) <= Cardinality({f[q] : q \in later})
      /\ Cardinality({f[q] : q \in newer}) \in Nat /\ Cardinality({f[q] : q \in later}) \in Nat
  BY <1>1, FewerPeriods
<1>5. Keep[len] \in Nat
  BY TimeAssumption
<1>6. Cardinality({Period(len, q) : q \in newer}) < Keep[len]
  <2>1. Cardinality({f[q] : q \in later}) < Keep[len]
    BY <1>2, <1>3, Zenon
  <2>2. Cardinality({Period(len, q) : q \in newer}) = Cardinality({f[q] : q \in newer})
    BY <1>3, Zenon
  <2> HIDE DEF later, newer
  <2> QED
    BY <1>4, <1>5, <2>1, <2>2
<1>7. \A q \in newer : Period(len, q) # Period(len, r)
  BY <1>1, <1>2
<1>8. r \in KeepByPeriod(reps, len)
  BY <1>6, <1>7 DEF KeepByPeriod
<1> QED
  BY <1>8 DEF SelectKept

\* The window spares a run that is going on: its newest snapshot is young enough.
LEMMA GoingIsSpared ==
  ASSUME TypeOK, OrderInv, TimeInv, NEW s \in snaps, run[s.run].st \in Going
  PROVE  /\ MayStillBeWritten(OwnedBy(Owner[s.run]), s.run)
         /\ s.run \notin Complete(OwnedBy(Owner[s.run]))
<1> DEFINE r == s.run
<1>0. /\ r \in Run /\ run \in [Run -> RunType] /\ now \in Nat
      /\ run[r].start \in Nat /\ run[r].since \in Nat
      /\ \A t \in snaps : t.ended \in run[t.run].start .. now
  BY NumberFacts DEF TypeOK, RunType
<1>1. Stored(r) # {}
  BY DEF Stored, Group
<1>2. PICK t \in Group(snaps, r) :
        run[r].since <= t.ended + (IF run[r].st = "upload" THEN HelperKeepAlive ELSE 0)
  BY <1>0, <1>1 DEF TimeInv
<1>3. t \in snaps /\ t.run = r /\ t.ended \in Int /\ run[r].start <= t.ended
  BY <1>0, <1>2 DEF Group
<1>4. now - t.ended < UnfinishedRunWindow
  <2>1. CASE run[r].st = "dump"
    <3>1. now <= run[r].since + HelperKeepAlive /\ run[r].since <= t.ended + 0
      BY <1>0, <1>2, <2>1 DEF TimeInv, Going
    <3> QED
      BY <1>0, <1>3, <3>1, NumberFacts
  <2>2. CASE run[r].st = "upload" /\ r \notin Scheduled
    <3>1. now <= run[r].since + UploadTime /\ run[r].since <= t.ended + HelperKeepAlive
      BY <1>0, <1>2, <2>2 DEF TimeInv, Going
    <3> QED
      BY <1>0, <1>3, <3>1, NumberFacts
  <2>3. CASE r \in Scheduled
    <3>1. now <= run[r].start + RunDeadline + Grace
      BY <1>0, <2>3 DEF TimeInv
    <3> QED
      BY <1>0, <1>3, <3>1, NumberFacts
  <2> QED
    BY <2>1, <2>2, <2>3 DEF Going
<1>5. t \in Group(OwnedBy(Owner[r]), r)
  BY <1>3 DEF Group, OwnedBy
<1>6. r \notin Complete(OwnedBy(Owner[r]))
  BY DEF Complete, OwnedBy, DeriveManifest, OrderInv, Going
<1> QED
  BY <1>4, <1>5, <1>6 DEF MayStillBeWritten

\* A plan holds no snapshot of a run that is going on or due, when it is made and
\* for as long as it lives.
LEMMA PlanStep ==
  ASSUME TypeOK, OrderInv, TimeInv, PlanInv, KeptIsWhole, [Next]_vars
  PROVE  PlanInv'
<1> SUFFICES ASSUME NEW p \in Pruner, NEW id \in prune'[p].ids
             PROVE  run'[id[1]].st \in {"done", "dead"} /\ ~Due(id[1])'
  BY DEF PlanInv
<1>1. CASE id \in prune[p].ids
  <2>1. id[1] \in Run /\ run[id[1]].st \in {"done", "dead"} /\ ~Due(id[1])
    BY <1>1 DEF PlanInv, TypeOK
  <2>2. CASE run[id[1]].st = "done"
    BY <2>1, <2>2, CommittedStays, DueOnlyEnds
  <2>3. CASE run[id[1]].st = "dead"
    <3>1. run'[id[1]].st = "dead"
      <4>1. ASSUME NEW r \in Run, StartRun(r) \/ RunStep(r) PROVE run'[id[1]] = run[id[1]]
        BY <2>1, <2>3, <4>1, StartRunEffect, BeginUploadEffect, EndUploadEffect, RunDiesEffect
           DEF RunStep, Going
      <4>2. ASSUME NEW q \in Pruner, PruneStep(q) \/ PruneStops(q) PROVE run'[id[1]] = run[id[1]]
        BY <4>2, PruneEffect
      <4> QED
        BY <2>3, <4>1, <4>2 DEF Next, Tick, vars
    <3> QED
      BY <3>1 DEF Due
  <2> QED
    BY <2>1, <2>2, <2>3
<1>2. CASE id \notin prune[p].ids
  <2>1. PICK q \in Pruner : PruneStep(q) \/ PruneStops(q)
    BY <1>2, StartRunEffect, BeginUploadEffect, EndUploadEffect, RunDiesEffect
       DEF Next, RunStep, Tick, vars
  <2>2. q = p
    BY <1>2, <2>1, PruneEffect
  <2>3. run' = run
    BY <2>1, PruneEffect
  <2>4. PICK c \in Cluster : prune'[p].ids = PlanPrune(c)
    BY <1>2, <2>1, <2>2, PruneEffect
  <2>5. PICK s \in OwnedBy(c) :
          /\ id = Id(s)
          /\ s.run \notin SelectKept(Complete(OwnedBy(c)))
          /\ s.run \in Complete(OwnedBy(c)) \/ ~MayStillBeWritten(OwnedBy(c), s.run)
    BY <2>4 DEF PlanPrune
  <2>6. s \in snaps /\ s.run \in Run /\ Owner[s.run] = c /\ id[1] = s.run
    BY <2>5 DEF OwnedBy, TypeOK, Id
  <2>7. run[s.run].st \notin Going
    BY <2>5, <2>6, GoingIsSpared
  <2>8. run[s.run].st \in {"done", "dead"}
    <3>1. run[s.run].st \in {"new", "dump", "upload", "done", "dead"}
      BY <2>6 DEF TypeOK
    <3> QED
      BY <2>6, <2>7, <3>1 DEF OrderInv, Going
  <2>9. ~Due(s.run)
    <3> SUFFICES ASSUME Due(s.run) PROVE FALSE
      OBVIOUS
    <3>1. Commit \in Stored(s.run)
      BY <2>6, ItemsFacts DEF KeptIsWhole
    <3>2. s.run \in Complete(OwnedBy(c))
      BY <2>6, <3>1 DEF Stored, Group, Complete, OwnedBy, DeriveManifest
    <3> QED
      BY <2>5, <2>6, <3>2, DueIsKept
  <2>10. Due(s.run)' = Due(s.run)
    BY <2>3 DEF Due, Committed, Period
  <2> QED
    BY <2>3, <2>6, <2>8, <2>9, <2>10
<1> QED
  BY <1>1, <1>2

\* What is due is whole: it was when it was committed, and no plan holds any of
\* it since.
LEMMA WholeStep ==
  ASSUME TypeOK, OrderInv, PlanInv, KeptIsWhole, [Next]_vars
  PROVE  KeptIsWhole'
<1> SUFFICES ASSUME NEW r \in Run, Due(r)' PROVE Stored(r)' = Items(r)
  BY DEF KeptIsWhole
<1>1. run'[r].st = "done"
  BY DEF Due
<1>2. CASE run[r].st = "done"
  <2>1. Due(r) /\ Stored(r) = Items(r)
    BY <1>2, DueOnlyEnds DEF KeptIsWhole
  <2>2. ASSUME NEW q \in Run, StartRun(q) \/ RunStep(q) PROVE Stored(r)' = Stored(r)
    <3>1. q # r
      BY <1>2, <2>2, StartRunEffect, BeginUploadEffect, EndUploadEffect, RunDiesEffect
         DEF RunStep, Going
    <3>2. snaps' = snaps \/ snaps' = snaps \cup {[run |-> q, item |-> run[q].item, ended |-> now]}
      BY <2>2, StartRunEffect, BeginUploadEffect, EndUploadEffect, RunDiesEffect DEF RunStep
    <3> QED
      BY <3>1, <3>2 DEF Stored, Group
  <2>3. ASSUME NEW p \in Pruner, PruneStep(p) \/ PruneStops(p) PROVE Stored(r)' = Stored(r)
    <3>1. snaps' \subseteq snaps /\ \A s \in snaps \ snaps' : Id(s) \in prune[p].ids
      BY <2>3, PruneEffect
    <3>2. \A s \in snaps : s.run = r => s \in snaps'
      <4>1. \A s \in snaps : Id(s)[1] = s.run
        BY DEF Id
      <4>2. \A id \in prune[p].ids : id[1] # r
        BY <2>1 DEF PlanInv
      <4> QED
        BY <3>1, <4>1, <4>2
    <3> QED
      BY <3>1, <3>2 DEF Stored, Group
  <2>4. CASE snaps' = snaps
    BY <2>1, <2>4 DEF Stored, Group
  <2> QED
    BY <2>1, <2>2, <2>3, <2>4 DEF Next, Tick, vars
<1>3. CASE run[r].st # "done"
  <2>1. EndUpload(r) /\ run[r].item = Commit
    <3>1. PICK q \in Run : StartRun(q) \/ RunStep(q)
      BY <1>1, <1>3, PruneEffect DEF Next, Tick, vars
    <3>2. q = r
      BY <1>1, <1>3, <3>1, StartRunEffect, BeginUploadEffect, EndUploadEffect, RunDiesEffect
         DEF RunStep
    <3> QED
      BY <1>1, <3>1, <3>2, StartRunEffect, BeginUploadEffect, EndUploadEffect, RunDiesEffect
         DEF RunStep
  <2> DEFINE new == [run |-> r, item |-> Commit, ended |-> now]
  <2>2. snaps' = snaps \cup {new} /\ new.run = r /\ new.item = Commit
    BY <2>1, EndUploadEffect
  <2>3. Stored(r)' = Stored(r) \cup {Commit}
    BY <2>2 DEF Stored, Group
  <2>4. \A i \in Items(r) : i # Commit => i \in Stored(r)
    <3>1. \A i \in Items(r) : i < Commit => i \in Stored(r)
      BY <2>1, EndUploadEffect DEF OrderInv, Going
    <3>2. \A i \in Items(r) : i # Commit => i < Commit
      BY ItemsFacts, NumberFacts
    <3> QED
      BY <3>1, <3>2
  <2>5. Stored(r) \subseteq Items(r)
    BY DEF Stored, Group, TypeOK
  <2> QED
    BY <2>3, <2>4, <2>5, ItemsFacts
<1> QED
  BY <1>2, <1>3

\* What was committed before the model begins is whole.
LEMMA InvInit == Init => TypeOK /\ OrderInv /\ TimeInv /\ PlanInv /\ KeptIsWhole
<1> SUFFICES ASSUME Init PROVE TypeOK /\ OrderInv /\ TimeInv /\ PlanInv /\ KeptIsWhole
  OBVIOUS
<1>1. /\ now = 0 /\ fails = 0 /\ prune = [p \in Pruner |-> NoPrune]
      /\ \A r \in Run : run[r].st = (IF r \in Old THEN "done" ELSE "new") /\ run[r].start = 0
  BY DEF Init
<1>2. \A s \in snaps : \E r \in Old : \E i \in Items(r) : s = [run |-> r, item |-> i, ended |-> 0]
  BY DEF Init
<1>3. \A s \in snaps : s.run \in Old /\ s.item \in Items(s.run) /\ s.ended = 0
  BY <1>2
<1>4. \A r \in Old : \A i \in Items(r) : [run |-> r, item |-> i, ended |-> 0] \in snaps
  BY DEF Init
<1>5. Old \subseteq Run
  BY RunAssumption
<1>6. run \in [Run -> RunType]
  BY NumberFacts DEF Init, RunType
<1>7. TypeOK
  <2>1. now \in 0..MaxTime /\ fails \in 0..MaxFails
    BY <1>1, NumberFacts
  <2>2. \A s \in snaps : /\ s.run \in Run /\ s.item \in Items(s.run)
                         /\ s.ended \in run[s.run].start .. now
    BY <1>1, <1>3, <1>5
  <2>3. prune \in [Pruner -> [pc : {"idle", "probe", "rest"}, ids : SUBSET (Run \X Item)]]
        /\ \A p \in Pruner : prune[p].ids = {} <=> prune[p].pc = "idle"
    BY <1>1 DEF NoPrune
  <2> QED
    BY <1>6, <2>1, <2>2, <2>3 DEF TypeOK, RunType
<1>8. OrderInv /\ TimeInv
  BY <1>1, <1>3, <1>5 DEF OrderInv, TimeInv, Going
<1>9. PlanInv
  BY <1>1 DEF PlanInv, NoPrune
<1>10. KeptIsWhole
  <2> SUFFICES ASSUME NEW r \in Run, run[r].st = "done" PROVE Stored(r) = Items(r)
    BY DEF KeptIsWhole, Due
  <2>1. r \in Old
    BY <1>1
  <2>2. Stored(r) \subseteq Items(r)
    BY <1>3 DEF Stored, Group
  <2>3. Items(r) \subseteq Stored(r)
    <3> SUFFICES ASSUME NEW i \in Items(r) PROVE i \in Stored(r)
      OBVIOUS
    <3> DEFINE s == [run |-> r, item |-> i, ended |-> 0]
    <3>1. s \in snaps /\ s.run = r /\ s.item = i
      BY <1>4, <2>1
    <3> QED
      BY <3>1 DEF Stored, Group
  <2> QED
    BY <2>2, <2>3
<1> QED
  BY <1>7, <1>8, <1>9, <1>10

IInv == TypeOK /\ OrderInv /\ TimeInv /\ PlanInv /\ KeptIsWhole

\* The inductive invariant.
LEMMA Inductive == Spec => []IInv
<1>1. Init => IInv
  BY InvInit DEF IInv
<1>2. IInv /\ [Next]_vars => IInv'
  BY TypeStep, OrderStep, TimeStep, PlanStep, WholeStep DEF IInv
<1> QED
  BY <1>1, <1>2, PTL DEF Spec

\* The repository lists no snapshot from outside its run's time or items, and a
\* prune is under way exactly while it has snapshots left to forget (run_prune).
THEOREM TypeCorrect == Spec => []TypeOK
<1>1. IInv => TypeOK
  BY DEF IInv
<1> QED
  BY <1>1, Inductive, PTL

\* A committed run that the keep policy has a use for keeps every snapshot, for
\* any runs, clusters, policies and prunes that overlap and stop anywhere: the
\* window spares what is being written, later runs only shrink what is due, and
\* a plan made long ago still holds nothing that is (plan_prune,
\* unfinished_run_window, run_prune).
THEOREM KeptIsWholeEver == Spec => []KeptIsWhole
<1>1. IInv => KeptIsWhole
  BY DEF IInv
<1> QED
  BY <1>1, Inductive, PTL
=============================================================================
