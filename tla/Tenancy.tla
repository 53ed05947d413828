------------------------------ MODULE Tenancy ------------------------------
(***************************************************************************)
(* What the Dragonfly pool promises its tenants (ADR 0042): a numbered     *)
(* database has at most one owner, it changes hands only by way of nobody, *)
(* only its owner's data is put into it, and no owner's data is ever taken *)
(* away.  Flushing does not appear: it may only happen where nobody is.    *)
(***************************************************************************)
CONSTANTS Tenant, Room

VARIABLES
  owners,  \* who owns each room
  stuff    \* the owners' data in it

tvars == <<owners, stuff>>

Init ==
  /\ owners = [r \in Room |-> {}]
  /\ stuff = [r \in Room |-> {}]

\* A tenant moves into an empty room; one that returns may find its own data.
MoveIn(t, r) ==
  /\ owners[r] = {}
  /\ owners' = [owners EXCEPT ![r] = {t}]
  /\ stuff' \in {stuff, [stuff EXCEPT ![r] = {t}]}

Furnish(t, r) ==
  /\ owners[r] = {t}
  /\ stuff' = [stuff EXCEPT ![r] = {t}]
  /\ UNCHANGED owners

MoveOut(r) ==
  /\ owners' = [owners EXCEPT ![r] = {}]
  /\ stuff' = [stuff EXCEPT ![r] = {}]

Next ==
  \E r \in Room : MoveOut(r) \/ \E t \in Tenant : MoveIn(t, r) \/ Furnish(t, r)

Spec == Init /\ [][Next]_tvars
=============================================================================
