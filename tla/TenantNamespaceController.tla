---------------------- MODULE TenantNamespaceController ----------------------
(***************************************************************************)
(* The TenantNamespace controller: it makes a namespace and puts a         *)
(* RoleBinding, a NetworkPolicy that denies by default and, if wanted, a   *)
(* ResourceQuota into it, one after the other.  Deleting the resource      *)
(* deletes the namespace, but that only begins there: the namespace is     *)
(* terminating until Kubernetes has removed all that is in it, and by then *)
(* the resource may be gone, or back.                                      *)
(***************************************************************************)
EXTENDS ControllerRuntime, Sequences

CONSTANTS Tenants, Namespaces,
          Found,        \* namespaces the cluster has before the operator comes
          Admins,       \* whom the RoleBinding names: group and service account
          Quotas,       \* quotas that can be parsed
          BadQuotas,    \* and quotas that can not
          NoPart        \* what does not exist

(* The quota is optional: NoName when it is not set.                       *)
TenantSpecs ==
  [tenant : Tenants, namespace : Namespaces, admins : Admins,
   quota : Quotas \cup BadQuotas \cup {NoName}]

(* What Reconcile brings about, in its order.                              *)
Order == <<"namespace", "roleBinding", "networkPolicy", "quota">>
Kinds == {Order[i] : i \in 1..4}
Parts == Namespaces \X Kinds

Namespace(n) == <<n, "namespace">>

PartContents(kind) ==
  CASE kind = "namespace"     -> [tenant : Tenants \cup {NoName}, terminating : BOOLEAN]
    [] kind = "roleBinding"   -> [admins : Admins]
    [] kind = "networkPolicy" -> [denies : {"all"}]
    [] kind = "quota"         -> [hard : Quotas]

ASSUME TenantAssumption ==
  /\ Names = Namespaces /\ Found \subseteq Namespaces
  /\ Quotas \cap BadQuotas = {} /\ NoName \notin Quotas \cup BadQuotas \cup Tenants
  /\ \A k \in Keys : Specs[k] \subseteq TenantSpecs
  /\ \A kind \in Kinds : NoPart \notin PartContents(kind)

VARIABLES parts,      \* the API server: the namespaces and what is in them
          seen        \* the informer caches of the four kinds

tenantVars == <<runtimeVars, parts, seen>>

(* What is found has no tenant's label.                                    *)
TenantInit ==
  /\ RuntimeInit
  /\ parts = [p \in Parts |-> IF p[2] = "namespace" /\ p[1] \in Found
                               THEN [tenant |-> NoName, terminating |-> FALSE] ELSE NoPart]
  /\ seen = parts

Active(n)      == parts[Namespace(n)] # NoPart /\ ~parts[Namespace(n)].terminating
Terminating(n) == parts[Namespace(n)] # NoPart /\ parts[Namespace(n)].terminating

(* The local variable of a reconcile: which part is next.                  *)
First == [part |-> 1]

----------------------------------------------------------------------------
(* What Reconcile branches on before its first call.                       *)

StartTeardown(k) == Terminated(k) /\ Take(k, "deleteNamespace", NoLocal)

StartMaterialize(k) == Managed(k) /\ Take(k, "applyPart", First)

----------------------------------------------------------------------------
(* CreateOrUpdate, once for each part.  The client of the operator reads   *)
(* them from its caches; what it reads is the base of what it writes.      *)

Kind == Order[worker.local.part]
Part == <<Obj.spec.namespace, Kind>>
Read == seen[Part]

Desired ==
  CASE Kind = "namespace"     -> [tenant |-> Obj.spec.tenant,
                                  terminating |-> Read # NoPart /\ Read.terminating]
    [] Kind = "roleBinding"   -> [admins |-> Obj.spec.admins]
    [] Kind = "networkPolicy" -> [denies |-> "all"]
    [] Kind = "quota"         -> [hard |-> Obj.spec.quota]

Parsed   == Kind = "quota" => Obj.spec.quota \notin BadQuotas
Unwanted == Kind = "quota" /\ Obj.spec.quota = NoName

(* Nothing can be created in a namespace that is not there or terminating, *)
(* and what was read must not be out of date.                              *)
Accepted ==
  /\ Read = parts[Part]
  /\ Kind # "namespace" /\ Read = NoPart => Active(Obj.spec.namespace)

NextPart ==
  /\ worker' = IF worker.local.part < 4 THEN [worker EXCEPT !.local.part = @ + 1]
               ELSE [worker EXCEPT !.pc = "readyStatus"]
  /\ UNCHANGED queue

(* Bug: the error of one part does not keep the next from being written    *)
ApplyPart_ErrorDropped(o) ==
  /\ At("applyPart", o) /\ ~Unwanted
  /\ parts' = IF ~Parsed \/ Read = Desired \/ ~Accepted THEN parts
              ELSE Call(o, parts, [parts EXCEPT ![Part] = Desired])
  /\ NextPart
  /\ UNCHANGED <<objects, cache, edits, calm, seen>>

(* Bug: what an error leaves half made is removed                          *)
ApplyPart_RollBack(o) ==
  /\ At("applyPart", o) /\ ~Unwanted
  /\ parts' = IF ~Parsed THEN [parts EXCEPT ![Namespace(Obj.spec.namespace)] = NoPart]
              ELSE IF Read = Desired \/ ~Accepted THEN parts
              ELSE Call(o, parts, [parts EXCEPT ![Part] = Desired])
  /\ IF o = "ok" /\ Parsed /\ (Read = Desired \/ Accepted) THEN NextPart
     ELSE Goto("failStatus")
  /\ UNCHANGED <<objects, cache, edits, calm, seen>>

ApplyPart(o) ==
  /\ At("applyPart", o) /\ ~Unwanted
  /\ parts' = IF ~Parsed \/ Read = Desired \/ ~Accepted THEN parts
              ELSE Call(o, parts, [parts EXCEPT ![Part] = Desired])
  /\ IF o = "ok" /\ Parsed /\ (Read = Desired \/ Accepted) THEN NextPart
     ELSE Goto("failStatus")
  /\ UNCHANGED <<objects, cache, edits, calm, seen>>

(* reconcileQuota without a quota                                          *)
DeleteQuota(o) ==
  /\ At("applyPart", o) /\ Unwanted
  /\ parts' = Call(o, parts, [parts EXCEPT ![Part] = NoPart])
  /\ IF o = "ok" THEN NextPart ELSE Goto("failStatus")
  /\ UNCHANGED <<objects, cache, edits, calm, seen>>

WriteTenantReady(o) == WriteReady(o, Obj.spec.namespace)

(* Bug: the finalizer goes although the namespace could not be deleted     *)
DeleteNamespace_ErrorDropped(o) ==
  /\ At("deleteNamespace", o)
  /\ parts' = IF Active(Obj.spec.namespace)
              THEN Call(o, parts, [parts EXCEPT ![Namespace(Obj.spec.namespace)].terminating = TRUE])
              ELSE parts
  /\ Goto("removeFinalizer")
  /\ UNCHANGED <<objects, cache, edits, calm, seen>>

(* finalize: done once the deletion is accepted                            *)
DeleteNamespace(o) ==
  /\ At("deleteNamespace", o)
  /\ parts' = IF Active(Obj.spec.namespace)
              THEN Call(o, parts, [parts EXCEPT ![Namespace(Obj.spec.namespace)].terminating = TRUE])
              ELSE parts
  /\ IF o = "ok" THEN Goto("removeFinalizer") ELSE Retry
  /\ UNCHANGED <<objects, cache, edits, calm, seen>>

----------------------------------------------------------------------------
(* Kubernetes empties a terminating namespace, then removes it.            *)
Purge(n) ==
  LET inside == {n} \X (Kinds \ {"namespace"})
  IN  /\ Terminating(n)
      /\ IF \A p \in inside : parts[p] = NoPart
         THEN parts' = [parts EXCEPT ![Namespace(n)] = NoPart]
         ELSE parts' = [p \in Parts |-> IF p \in inside THEN NoPart ELSE parts[p]]
      /\ UNCHANGED <<runtimeVars, seen>>

(* The informer of a kind catches up, each on its own; nobody is told.     *)
See(kind) ==
  /\ seen' = [p \in Parts |-> IF p[2] = kind THEN parts[p] ELSE seen[p]]
  /\ UNCHANGED <<runtimeVars, parts>>

outside == <<parts, seen>>

TakeKey(k) == Skip(k) \/ StartAdoption(k) \/ StartTeardown(k) \/ StartMaterialize(k)

LocalStep == \E o \in Outcomes : FinalizerStep(o) \/ WriteTenantReady(o)
PartStep  == \E o \in Outcomes : ApplyPart(o) \/ DeleteQuota(o) \/ DeleteNamespace(o)
Step      == (LocalStep /\ UNCHANGED outside) \/ PartStep

TenantNext ==
  \/ UserNext /\ UNCHANGED outside
  \/ \E k \in Keys : (Sync(k) \/ TakeKey(k)) /\ UNCHANGED outside
  \/ Step
  \/ \E n \in Namespaces : Purge(n)
  \/ \E kind \in Kinds : See(kind)
  \/ Restart /\ seen' = parts /\ UNCHANGED parts
  \/ (Resync \/ BecomeCalm) /\ UNCHANGED outside

TenantSpec == TenantInit /\ [][TenantNext]_tenantVars

(* As for the realm controller; Kubernetes finishes what it terminates,    *)
(* and its watches deliver.                                                *)
TenantFairness ==
  /\ WF_tenantVars(Step)
  /\ \A k \in Keys : /\ WF_tenantVars(Sync(k) /\ UNCHANGED outside)
                     /\ SF_tenantVars(TakeKey(k) /\ UNCHANGED outside)
  /\ WF_tenantVars(\E n \in Namespaces : Purge(n))
  /\ WF_tenantVars(\E kind \in Kinds : See(kind))

TenantFairSpec == TenantSpec /\ TenantFairness

----------------------------------------------------------------------------
TenantSteps == {"addFinalizer", "applyPart", "deleteNamespace", "readyStatus", "failStatus",
                "removeFinalizer"}

(* The resources keep their shape (see RuntimeTypeOK), and nothing is in a *)
(* namespace that does not exist.                                          *)
TenantTypeOK ==
  /\ RuntimeTypeOK(TenantSteps, [part : 1..4] \cup {NoLocal})
  /\ DOMAIN parts = Parts /\ DOMAIN seen = Parts
  /\ \A p \in Parts :
       /\ parts[p] \in PartContents(p[2]) \cup {NoPart}
       /\ seen[p] \in PartContents(p[2]) \cup {NoPart}
       /\ parts[p] # NoPart => parts[Namespace(p[1])] # NoPart

(* A namespace that was given to a tenant is on its way out or has a       *)
(* resource that carries the finalizer and would delete it ("teardown is   *)
(* verified before deletion", common.go:23-24).  (Needs resources that     *)
(* keep their namespace.)                                                  *)
HolderOf(n) ==
  {k \in Keys : objects[k] # NoObj /\ objects[k].finalizer /\ objects[k].spec.namespace = n}

NoOrphanNamespace ==
  \A n \in Namespaces :
    Active(n) /\ parts[Namespace(n)].tenant # NoName => HolderOf(n) # {}

(* A namespace is terminated only while a resource that names it is being  *)
(* deleted: no teardown that is repeated or was begun on an old copy hits  *)
(* the namespace of a successor.  (Needs one namespace per resource.)      *)
NamespaceGoesOnlyWithItsResource ==
  [][\A n \in Namespaces :
       Active(n) /\ ~Active(n)' => \E k \in HolderOf(n) : objects[k].deleting]_tenantVars

(* In a namespace that was never terminated, Ready means that the tenant   *)
(* is confined: NetworkPolicy and RoleBinding are there, although either   *)
(* is written only after the namespace and not if the cache has it.  (No   *)
(* resource can have deleted the namespace of the first one users made;    *)
(* needs one namespace per resource that keeps it.)                        *)
FirstTenantIsConfined ==
  \A k \in Keys :
    objects[k] # NoObj /\ Ready(objects[k]) /\ objects[k].uid = 1 /\ ~objects[k].deleting =>
      /\ Active(objects[k].spec.namespace)
      /\ parts[<<objects[k].spec.namespace, "roleBinding">>] # NoPart
      /\ parts[<<objects[k].spec.namespace, "networkPolicy">>] # NoPart

(* Once the environment is calm no namespace is left terminating, and a    *)
(* resource is gone, or Ready if its quota can be parsed and Failed if     *)
(* not, although every conflict, stale cache and refusal of a terminating  *)
(* namespace on the way is an error.                                       *)
Settled(k) ==
  LET obj == objects[k]
  IN  obj # NoObj =>
        /\ ~obj.deleting
        /\ IF obj.spec.quota \in BadQuotas
           THEN obj.status.failed /\ obj.status.ready = "False"
           ELSE Ready(obj) /\ ~obj.status.failed

TenantsConverge ==
  <>calm => <>[]((\A k \in Keys : Settled(k)) /\ (\A n \in Namespaces : ~Terminating(n)))

----------------------------------------------------------------------------
(* A TenantNamespace reconciles to "Namespace + tenant-admin RoleBinding + *)
(* default-deny NetworkPolicy" (README.md:15): when nothing is left to do  *)
(* for one that is Ready, these are there.  But a resource that was        *)
(* deleted and created again may find the old namespace, and what is in    *)
(* it, just before they go, and nothing tells it that they did.            *)
PartsAtRest == seen = parts /\ \A n \in Namespaces : ~Terminating(n)

ReadyTenantIsConfined ==
  \A k \in Keys :
    AtRest /\ PartsAtRest /\ objects[k] # NoObj /\ Ready(objects[k]) =>
      \A kind \in {"namespace", "roleBinding", "networkPolicy"} :
        parts[<<objects[k].spec.namespace, kind>>] # NoPart
=============================================================================
