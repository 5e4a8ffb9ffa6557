------------------------ MODULE CatalogItemLifecycle ------------------------
(***************************************************************************)
(* What the operator promises of Catalog Items that each stand for a       *)
(* resource outside the cluster's own garbage collection: the external     *)
(* resource only ever exists while the item carries the finalizer, and the *)
(* item leaves only once the resource is gone.                             *)
(***************************************************************************)
CONSTANT Items

VARIABLES phase,      \* "absent", "unmanaged" (no finalizer), "managed", "deleting"
          external    \* whether the item's external resource exists

lifecycleVars == <<phase, external>>

(* The operator may be new to the cluster, or follow an older version.     *)
LifecycleInit ==
  /\ phase \in [Items -> {"absent", "managed"}]
  /\ external \in [Items -> BOOLEAN]
  /\ \A i \in Items : external[i] => phase[i] = "managed"

Move(i, from, to) ==
  /\ phase[i] = from
  /\ phase' = [phase EXCEPT ![i] = to]
  /\ UNCHANGED external

Create(i)  == Move(i, "absent", "unmanaged")
Vanish(i)  == Move(i, "unmanaged", "absent")
Adopt(i)   == Move(i, "unmanaged", "managed")
Retire(i)  == Move(i, "managed", "deleting")
Release(i) == ~external[i] /\ Move(i, "deleting", "absent")

(* A reconcile that began before the deletion may still provision.         *)
Provision(i) ==
  /\ phase[i] \in {"managed", "deleting"}
  /\ external' = [external EXCEPT ![i] = TRUE]
  /\ UNCHANGED phase

Deprovision(i) ==
  /\ phase[i] = "deleting"
  /\ external' = [external EXCEPT ![i] = FALSE]
  /\ UNCHANGED phase

LifecycleNext ==
  \E i \in Items :
    \/ Create(i) \/ Vanish(i) \/ Adopt(i) \/ Retire(i) \/ Release(i)
    \/ Provision(i) \/ Deprovision(i)

LifecycleSpec == LifecycleInit /\ [][LifecycleNext]_lifecycleVars
=============================================================================
