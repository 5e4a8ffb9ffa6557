-------------------- MODULE ClusterDexController_proofs --------------------
(***************************************************************************)
(* Theorems about the ClusterDex controller, for any number of resources,  *)
(* users' operations and faults, and Secrets that come and go.             *)
(***************************************************************************)
EXTENDS ClusterDexController, ControllerRuntime_proofs

EnsureSteps   == {"applyChild"}
TeardownSteps == {"deleteChild", "removeFinalizer"}
ManageSteps   == {"applyChild", "disableChild", "readyStatus"}
ChildSteps    == {"applyChild", "deleteChild", "disableChild"}
Locals        == [child : 1..3] \cup {NoLocal}

ChildrenOK ==
  /\ DOMAIN children = ChildNames /\ DOMAIN seen = ConfigMaps
  /\ \A c \in ChildNames : children[c] \in Contents
  /\ \A c \in ConfigMaps : seen[c] \in Contents
  /\ complete \subseteq SecretRefs

(* A reconcile renders only what it found all Secrets of.                  *)
WorkerOK ==
  /\ worker.pc \in ChildSteps => worker.local \in [child : 1..3]
  /\ worker.pc = "applyChild" =>
       Obj.spec.enabled /\ Obj.spec.configRef \in SecretRefs /\ Obj.spec.oidcRef \in SecretRefs
  /\ worker.pc = "disableChild" => ~Obj.spec.enabled

DexTypeInv == RuntimeInv(DexSteps, Locals) /\ WorkerOK /\ ChildrenOK

LEMMA DexStepSets ==
  /\ EnsureSteps \cup TeardownSteps \cup ManageSteps \cup ChildSteps \subseteq DexSteps
  /\ "idle" \notin DexSteps /\ "idle" \notin EnsureSteps \cup TeardownSteps
  /\ "idle" \notin ManageSteps /\ "readyStatus" \in ManageSteps
  /\ "removeFinalizer" \in TeardownSteps
BY DEF EnsureSteps, TeardownSteps, ManageSteps, ChildSteps, DexSteps

(* The three children of a spec have different names.                      *)
LEMMA ThreeChildren ==
  ASSUME NEW k \in Keys, NEW spec \in Specs[k]
  PROVE  /\ \A i \in 1..3 : ChildrenOf(spec)[i] \in ChildNames
         /\ \A i, j \in 1..3 : i # j => ChildrenOf(spec)[i] # ChildrenOf(spec)[j]
         /\ ChildrenOf(spec)[1] \notin ConfigMaps
         /\ \A i \in {2, 3} : ChildrenOf(spec)[i] \in ConfigMaps
<1> DEFINE ns == ArgoCDNamespace(spec)
<1>1. spec \in DexSpecs /\ spec.cluster \in Clusters /\ ns \in Namespaces
  BY DexAssumption DEF DexSpecs, ArgoCDNamespace
<1>2. spec.cluster # "argocd-cm" /\ spec.cluster # "argocd-rbac-cm"
  BY <1>1, DexAssumption
<1>3. /\ ChildrenOf(spec)[1] = <<ns, spec.cluster>>
      /\ ChildrenOf(spec)[2] = <<ns, "argocd-cm">>
      /\ ChildrenOf(spec)[3] = <<ns, "argocd-rbac-cm">>
  BY DEF ChildrenOf
<1> HIDE DEF ns
<1>4. 1..3 = {1, 2, 3}
  OBVIOUS
<1> QED
  BY <1>1, <1>2, <1>3, <1>4 DEF ChildNames, ConfigMaps

LEMMA WorkerNamesAChild ==
  ASSUME DexTypeInv, worker.pc \in ChildSteps
  PROVE  /\ Key \in Keys /\ Obj \in CatalogObjects(Key) /\ Obj.spec \in Specs[Key]
         /\ Nth \in 1..3 /\ worker \in Reconciles(Key, DexSteps, Locals)
         /\ Child \in ChildNames /\ Child = ChildrenOf(Obj.spec)[Nth]
<1>1. worker.pc # "idle"
  BY DexStepSets
<1>2. Key \in Keys /\ Obj \in CatalogObjects(Key) /\ worker \in Reconciles(Key, DexSteps, Locals)
  BY <1>1, WorkerAtAStep DEF DexTypeInv
<1>3. Obj.spec \in Specs[Key] /\ Nth \in 1..3
  BY <1>2 DEF CatalogObjects, DexTypeInv, WorkerOK, Nth
<1> QED
  BY <1>2, <1>3, ThreeChildren DEF Child

(* What is rendered is of the kinds that children are of.                  *)
LEMMA RenderedHasItsShape ==
  ASSUME NEW k \in Keys, NEW spec \in Specs[k],
         spec.configRef \in SecretRefs, spec.oidcRef \in SecretRefs
  PROVE  \A i \in 1..3 : Rendered(spec)[i] \in Contents
<1>1. spec \in DexSpecs
  BY DexAssumption
<1>2. /\ spec.cluster \in Clusters /\ spec.groups \in Groups
      /\ spec.image \in Images \cup {NoName} /\ spec.issuer \in Issuers \cup {NoName}
  BY <1>1 DEF DexSpecs
<1>3. DexIssuer(spec) \in Clusters \cup Issuers
  BY <1>2 DEF DexIssuer
<1>4. DexApplication(spec) \in Contents /\ ArgoCDConfig(spec) \in Contents
        /\ ArgoCDPolicy(spec) \in Contents
  BY <1>2, <1>3 DEF DexApplication, ArgoCDConfig, ArgoCDPolicy, Contents
<1>5. 1..3 = {1, 2, 3}
  OBVIOUS
<1> QED
  BY <1>4, <1>5 DEF Rendered

----------------------------------------------------------------------------
(* Which step of a reconcile comes next.                                   *)
LEMMA Next3GoesOnward ==
  ASSUME DexTypeInv, worker.pc \in ChildSteps, NEW after \in DexSteps, Next3(after)
  PROVE  /\ UNCHANGED queue
         /\ \/ /\ Nth < 3 /\ Onward(worker.pc) /\ Nth' = Nth + 1
               /\ worker'.local \in [child : 1..3]
            \/ Nth = 3 /\ Onward(after) /\ worker'.local = worker.local
         /\ worker' \in Reconciles(Key, DexSteps, Locals)
<1>1. /\ worker \in Reconciles(Key, DexSteps, Locals) /\ Nth \in 1..3
      /\ worker.local \in [child : 1..3]
  BY WorkerNamesAChild DEF DexTypeInv, WorkerOK
<1>2. CASE Nth < 3
  <2>1. Nth + 1 \in 1..3
    BY <1>1, <1>2
  <2>2. worker' = [worker EXCEPT !.local.child = @ + 1] /\ UNCHANGED queue
    BY <1>2 DEF Next3
  <2>3. /\ worker'.pc = worker.pc /\ worker'.key = worker.key /\ worker'.obj = worker.obj
        /\ worker' = [pc |-> worker.pc, key |-> worker.key, obj |-> worker.obj,
                      local |-> worker'.local]
        /\ worker'.local = [worker.local EXCEPT !.child = @ + 1]
    BY <1>1, <2>2 DEF Reconciles
  <2>4. worker'.local \in [child : 1..3] /\ worker'.local.child = Nth + 1
    BY <1>1, <2>1, <2>3 DEF Nth
  <2>5. worker' \in Reconciles(Key, DexSteps, Locals)
    BY <1>1, <2>3, <2>4 DEF Reconciles, Locals
  <2> QED
    BY <1>2, <2>2, <2>3, <2>4, <2>5 DEF Onward, Key, Obj, Nth
<1>3. CASE ~(Nth < 3)
  <2>1. worker' = [worker EXCEPT !.pc = after] /\ UNCHANGED queue
    BY <1>3 DEF Next3
  <2> QED
    BY <1>1, <1>3, <2>1 DEF Onward, Reconciles, Key, Obj
<1> QED
  BY <1>2, <1>3

(* A step at a child leaves it alone, renders it, or deletes it; and the   *)
(* reconcile goes on to the next child, or after the last one, if this one *)
(* is seen to.                                                             *)
Advances(after) ==
  /\ worker' \in Reconciles(Key, DexSteps, Locals) /\ UNCHANGED queue
  /\ \/ Nth < 3 /\ Onward(worker.pc) /\ Nth' = Nth + 1 /\ worker'.local \in [child : 1..3]
     \/ Nth = 3 /\ Onward(after)

Gives(value) == children' = [children EXCEPT ![Child] = value]

LEMMA ApplyEffect ==
  ASSUME DexTypeInv, NEW o, ApplyChild(o)
  PROVE  /\ worker.pc = "applyChild" /\ UNCHANGED <<objects, cache, edits, calm, seen, complete>>
         /\ UNCHANGED children \/ Gives(Desired)
         /\ \/ /\ Advances("readyStatus")
               /\ Nth = 1 \/ Obj.spec.impersonates => children'[Child] = Desired
            \/ Goto("failStatus")
<1>1. worker.pc = "applyChild" /\ UNCHANGED <<objects, cache, edits, calm, seen, complete>>
  BY DEF ApplyChild, At
<1>2. UNCHANGED children \/ Gives(Desired)
  BY DEF ApplyChild, Call, Gives
<1>3. CASE Next3("readyStatus") /\ o = "ok" /\ Read \in {Desired, children[Child]}
  <2>1. Advances("readyStatus")
    BY <1>1, <1>3, Next3GoesOnward DEF Advances, ChildSteps, DexSteps
  <2>2. Nth = 1 \/ Obj.spec.impersonates => Read = children[Child]
    <3>1. Nth = 1 => Child \notin ConfigMaps
      BY <1>1, WorkerNamesAChild, ThreeChildren DEF ChildSteps
    <3> QED
      BY <3>1 DEF Read
  <2>3. Child \in DOMAIN children
    BY <1>1, WorkerNamesAChild DEF ChildSteps, DexTypeInv, ChildrenOK
  <2>4. Read = children[Child] => children'[Child] = Desired
    BY <1>3, <2>3 DEF ApplyChild, Call
  <2> QED
    BY <1>1, <1>2, <2>1, <2>2, <2>4
<1>4. CASE Goto("failStatus")
  BY <1>1, <1>2, <1>4
<1> QED
  BY <1>3, <1>4 DEF ApplyChild

LEMMA DeleteEffect ==
  ASSUME DexTypeInv, NEW o, DeleteChild(o)
  PROVE  /\ worker.pc \in {"deleteChild", "disableChild"}
         /\ UNCHANGED <<objects, cache, edits, calm, seen, complete>>
         /\ UNCHANGED children \/ Gives(NoChild)
         /\ \/ /\ Advances(IF worker.pc = "deleteChild" THEN "removeFinalizer"
                           ELSE "readyStatus")
               /\ children'[Child] = NoChild
            \/ Retry
<1>1. /\ worker.pc \in {"deleteChild", "disableChild"}
      /\ UNCHANGED <<objects, cache, edits, calm, seen, complete>>
  BY DEF DeleteChild, At
<1>2. UNCHANGED children \/ Gives(NoChild)
  BY DEF DeleteChild, Call, Gives
<1>3. Child \in DOMAIN children
  BY <1>1, WorkerNamesAChild DEF ChildSteps, DexTypeInv, ChildrenOK
<1>4. CASE o = "ok"
  <2> DEFINE after == IF worker.pc = "deleteChild" THEN "removeFinalizer" ELSE "readyStatus"
  <2>1. Next3(after) /\ after \in DexSteps /\ worker.pc \in ChildSteps
    BY <1>1, <1>4 DEF DeleteChild, DexSteps, ChildSteps
  <2> HIDE DEF after
  <2>2. Advances(after)
    BY <2>1, Next3GoesOnward DEF Advances
  <2>3. children'[Child] = NoChild
    BY <1>3, <1>4 DEF DeleteChild, Call
  <2> QED
    BY <1>1, <1>2, <2>2, <2>3 DEF after
<1>5. CASE o # "ok"
  BY <1>1, <1>2, <1>5 DEF DeleteChild
<1> QED
  BY <1>4, <1>5

LEMMA DexChildStep ==
  ASSUME DexTypeInv, ChildStep
  PROVE  /\ worker.pc \in ChildSteps /\ UNCHANGED <<objects, cache, edits, calm, seen, complete>>
         /\ \/ \E step \in DexSteps :
                 /\ Onward(step) /\ worker' \in Reconciles(Key, DexSteps, Locals)
                 /\ step \in ChildSteps => worker'.local \in [child : 1..3] /\ step = worker.pc
                 /\ step \in EnsureSteps => worker.pc \in EnsureSteps
                 /\ step \in TeardownSteps => worker.pc \in TeardownSteps
                 /\ step \in ManageSteps => worker.pc \in ManageSteps
                 /\ step # "addFinalizer" /\ UNCHANGED queue
            \/ Retry
<1>1. PICK o \in Outcomes : ApplyChild(o) \/ DeleteChild(o)
  BY DEF ChildStep
<1>2. CASE ApplyChild(o)
  <2>1. worker.pc = "applyChild" /\ UNCHANGED <<objects, cache, edits, calm, seen, complete>>
    BY <1>2, ApplyEffect
  <2>2. CASE Advances("readyStatus")
    BY <2>1, <2>2 DEF Advances, ChildSteps, EnsureSteps, TeardownSteps, ManageSteps, DexSteps
  <2>3. CASE Goto("failStatus")
    <3>1. Onward("failStatus") /\ worker' \in Reconciles(Key, DexSteps, Locals) /\ UNCHANGED queue
      BY <2>1, <2>3, GotoGoesOnward DEF DexTypeInv, DexSteps
    <3> QED
      BY <2>1, <3>1 DEF ChildSteps, EnsureSteps, TeardownSteps, ManageSteps, DexSteps
  <2> QED
    BY <1>2, <2>2, <2>3, ApplyEffect
<1>3. CASE DeleteChild(o)
  <2>1. /\ worker.pc \in {"deleteChild", "disableChild"}
        /\ UNCHANGED <<objects, cache, edits, calm, seen, complete>>
    BY <1>3, DeleteEffect
  <2>2. CASE worker.pc = "deleteChild" /\ Advances("removeFinalizer")
    BY <2>1, <2>2 DEF Advances, ChildSteps, EnsureSteps, TeardownSteps, ManageSteps, DexSteps
  <2>3. CASE worker.pc = "disableChild" /\ Advances("readyStatus")
    BY <2>1, <2>3 DEF Advances, ChildSteps, EnsureSteps, TeardownSteps, ManageSteps, DexSteps
  <2>4. CASE Retry
    BY <2>1, <2>4 DEF ChildSteps
  <2> QED
    BY <1>3, <2>1, <2>2, <2>3, <2>4, DeleteEffect
<1> QED
  BY <1>1, <1>2, <1>3

LEMMA DexLocalStep ==
  ASSUME DexTypeInv, LocalStep
  PROVE  /\ worker' = Idle /\ worker.pc # "idle" /\ worker.pc \notin ChildSteps
         /\ UNCHANGED cache
         /\ \/ /\ worker.pc = "readyStatus" /\ Ready(Obj)
               /\ UNCHANGED <<objects, edits, calm>> /\ Done
            \/ \E o \in Outcomes :
                 FinalizerStep(o) \/ \E name \in Names \cup {NoName} : WriteReady(o, name)
<1>1. PICK o \in Outcomes : FinalizerStep(o) \/ WriteDexReady(o)
  BY DEF LocalStep
<1>2. CASE FinalizerStep(o)
  BY <1>2 DEF FinalizerStep, AddFinalizer, RemoveFinalizer, WriteFailed, At, Retry, Done, ChildSteps
<1>3. CASE WriteDexReady(o)
  <2>1. worker.pc = "readyStatus"
    BY <1>3 DEF WriteDexReady, At
  <2>2. Key \in Keys /\ Obj \in CatalogObjects(Key)
    BY <2>1, WorkerAtAStep DEF DexTypeInv
  <2>3. Obj.spec.cluster \in Clusters
    BY <2>2, DexAssumption DEF CatalogObjects, DexSpecs
  <2>4. Application \in Names \cup {NoName}
    BY <2>3, DexAssumption DEF Application
  <2> QED
    BY <1>3, <2>1, <2>4 DEF WriteDexReady, WriteReady, Recorded, Retry, Done, ChildSteps
<1> QED
  BY <1>1, <1>2, <1>3

LEMMA DexTakes ==
  ASSUME DexTypeInv, NEW k \in Keys, TakeKey(k)
  PROVE  \/ Skip(k)
         \/ \E step \in DexSteps, local \in Locals :
              /\ Take(k, step, local) /\ cache[k] # NoObj
              /\ step \in ChildSteps => local = First
              /\ step \notin {"readyStatus", "removeFinalizer"}
              /\ step \in EnsureSteps => Managed(k)
              /\ step \in TeardownSteps => Terminated(k)
              /\ step \in ManageSteps => cache[k].finalizer /\ ~cache[k].deleting
              /\ step = "addFinalizer" => ~cache[k].finalizer
              /\ step = "applyChild" => /\ cache[k].spec.enabled
                                        /\ cache[k].spec.configRef \in SecretRefs
                                        /\ cache[k].spec.oidcRef \in SecretRefs
              /\ step = "disableChild" => ~cache[k].spec.enabled
<1> USE DEF DexSteps, EnsureSteps, TeardownSteps, ManageSteps, ChildSteps, Locals
<1>1. First \in Locals
  BY DEF First
<1>2. CASE StartAdoption(k)
  BY <1>2 DEF StartAdoption, Unmanaged, Cached
<1>3. CASE StartTeardown(k)
  BY <1>1, <1>3 DEF StartTeardown, Terminated, Cached
<1>4. CASE StartDisable(k)
  BY <1>1, <1>4 DEF StartDisable, Managed, Cached
<1>5. CASE StartWaiting(k) \/ StartUnrenderable(k)
  BY <1>1, <1>5 DEF StartWaiting, StartUnrenderable, Managed, Cached
<1>6. CASE StartApply(k)
  <2>1. /\ Take(k, "applyChild", First) /\ Managed(k) /\ cache[k].spec.enabled
        /\ Awaited(cache[k].spec) = {}
    BY <1>6 DEF StartApply
  <2>2. cache[k] \in CatalogObjects(k) /\ cache[k].spec \in Specs[k]
    BY <2>1 DEF DexTypeInv, RuntimeInv, RuntimeTypeOK, CatalogObjects, Managed, Cached
  <2>3. /\ cache[k].spec.configRef \in SecretRefs \cup {NoName}
        /\ cache[k].spec.oidcRef \in SecretRefs \cup {NoName}
    BY <2>2, DexAssumption DEF DexSpecs
  <2>4. cache[k].spec.configRef \in complete /\ cache[k].spec.oidcRef # NoName
    BY <2>1 DEF Awaited
  <2> QED
    BY <1>1, <2>1, <2>3, <2>4 DEF Managed, Cached, DexTypeInv, ChildrenOK
<1> QED
  BY <1>2, <1>3, <1>4, <1>5, <1>6 DEF TakeKey

(* Only a step at a child changes the children.                            *)
LEMMA ChildrenEffect ==
  ASSUME DexTypeInv, [DexNext]_dexVars
  PROVE  \/ UNCHANGED children
         \/ worker.pc = "applyChild" /\ Gives(Desired) /\ UNCHANGED objects
         \/ /\ worker.pc \in {"deleteChild", "disableChild"} /\ Gives(NoChild)
            /\ UNCHANGED objects
<1>1. CASE ChildStep
  BY <1>1, ApplyEffect, DeleteEffect DEF ChildStep
<1>2. CASE ~ChildStep
  BY <1>2 DEF DexNext, Step, SyncSecret, LoseSecret, SeeChildren, outside, dexVars
<1> QED
  BY <1>1, <1>2

LEMMA ChildrenStayOK ==
  ASSUME DexTypeInv, [DexNext]_dexVars
  PROVE  ChildrenOK'
<1>0. ChildrenOK
  BY DEF DexTypeInv
<1>1. CASE \E ref \in SecretRefs : SyncSecret(ref) \/ LoseSecret(ref)
  BY <1>0, <1>1 DEF SyncSecret, LoseSecret, ChildrenOK
<1>2. CASE SeeChildren \/ (Restart /\ seen' = [c \in ConfigMaps |-> children[c]]
                                    /\ UNCHANGED <<children, complete>>)
  <2>1. seen' = [c \in ConfigMaps |-> children[c]] /\ UNCHANGED <<children, complete>>
    BY <1>2 DEF SeeChildren
  <2>2. ConfigMaps \subseteq ChildNames
    BY DEF ChildNames
  <2> QED
    BY <1>0, <2>1, <2>2 DEF ChildrenOK
<1>3. CASE ChildStep
  <2>1. UNCHANGED <<seen, complete>> /\ worker.pc \in ChildSteps
    BY <1>3, DexChildStep
  <2>2. CASE UNCHANGED children
    BY <1>0, <2>1, <2>2 DEF ChildrenOK
  <2>3. CASE \E value \in Contents : Gives(value)
    BY <1>0, <2>1, <2>3 DEF ChildrenOK, Gives
  <2>4. worker.pc = "applyChild" => Desired \in Contents
    BY <2>1, WorkerNamesAChild, RenderedHasItsShape
      DEF DexTypeInv, WorkerOK, ChildSteps, Desired
  <2> QED
    BY <2>2, <2>3, <2>4, ChildrenEffect DEF Contents
<1>4. CASE UNCHANGED outside
  BY <1>0, <1>4 DEF outside, ChildrenOK
<1> QED
  BY <1>1, <1>2, <1>3, <1>4 DEF DexNext, Step, dexVars, outside

LEMMA DexTypeInvStep ==
  ASSUME DexTypeInv, [DexNext]_dexVars
  PROVE  DexTypeInv'
<1>0. RuntimeInv(DexSteps, Locals) /\ WorkerOK
  BY DEF DexTypeInv
<1>1. ChildrenOK'
  BY ChildrenStayOK
<1>2. UNCHANGED worker => WorkerOK'
  BY <1>0 DEF WorkerOK, Obj
<1>3. worker'.pc = "idle" => WorkerOK'
  BY DexStepSets DEF WorkerOK
<1> USE <1>1 DEF DexTypeInv
<1>4. CASE UserNext /\ UNCHANGED outside
  BY <1>0, <1>2, <1>4, UserEffect, UsersKeepRuntimeInv
<1>5. CASE \E k \in Keys : Sync(k) \/ TakeKey(k)
  <2>1. PICK k \in Keys : Sync(k) \/ TakeKey(k)
    BY <1>5
  <2>2. CASE Sync(k)
    BY <1>0, <1>2, <2>2, SyncKeepsRuntimeInv DEF Sync
  <2>3. CASE Skip(k)
    BY <1>0, <1>2, <2>3, IdleKeepsRuntimeInv DEF Skip
  <2>4. CASE TakeKey(k) /\ ~Skip(k)
    <3>1. PICK step \in DexSteps, local \in Locals :
            /\ Take(k, step, local) /\ cache[k] # NoObj
            /\ step \in ChildSteps => local = First
            /\ step = "applyChild" => /\ cache[k].spec.enabled
                                      /\ cache[k].spec.configRef \in SecretRefs
                                      /\ cache[k].spec.oidcRef \in SecretRefs
            /\ step = "disableChild" => ~cache[k].spec.enabled
      BY <2>4, DexTakes
    <3>2. worker'.pc = step /\ worker'.local = local /\ Obj' = cache[k]
      BY <3>1 DEF Take, Obj
    <3>3. First \in [child : 1..3]
      BY DEF First
    <3>4. WorkerOK'
      BY <3>1, <3>2, <3>3 DEF WorkerOK
    <3> QED
      BY <1>0, <3>1, <3>4, TakeKeepsRuntimeInv
  <2> QED
    BY <2>1, <2>2, <2>3, <2>4
<1>6. CASE LocalStep /\ UNCHANGED outside
  <2>1. worker'.pc = "idle" /\ worker.pc # "idle" /\ UNCHANGED cache
    BY <1>6, DexLocalStep DEF Idle
  <2>2. CASE UNCHANGED <<objects, edits, calm>> /\ Done
    BY <1>0, <1>3, <2>1, <2>2, GotoKeepsRuntimeInv
  <2> QED
    BY <1>0, <1>3, <1>6, <2>1, <2>2, DexLocalStep, FinalizerStepKeepsRuntimeInv
<1>7. CASE ChildStep
  <2>1. worker.pc # "idle" /\ worker.pc \in ChildSteps /\ UNCHANGED <<objects, cache, edits, calm>>
    BY <1>7, DexChildStep, DexStepSets
  <2>2. CASE Retry
    <3>1. worker'.pc = "idle"
      BY <2>2 DEF Retry, Idle
    <3> QED
      BY <1>0, <1>3, <2>1, <2>2, <3>1, GotoKeepsRuntimeInv
  <2>3. CASE ~Retry
    <3>1. PICK step \in DexSteps :
            /\ Onward(step) /\ worker' \in Reconciles(Key, DexSteps, Locals)
            /\ step \in ChildSteps => worker'.local \in [child : 1..3] /\ step = worker.pc
            /\ UNCHANGED queue
      BY <1>7, <2>3, DexChildStep
    <3>2. RuntimeInv(DexSteps, Locals)'
      BY <1>0, <2>1, <3>1, OnwardKeepsRuntimeInv
    <3>3. WorkerOK'
      BY <1>0, <3>1 DEF Onward, WorkerOK, ChildSteps
    <3> QED
      BY <3>2, <3>3
  <2> QED
    BY <2>2, <2>3
<1>8. CASE Restart \/ Resync \/ BecomeCalm
  <2>1. UNCHANGED worker \/ worker'.pc = "idle"
    BY <1>8 DEF Restart, Resync, BecomeCalm, Idle
  <2> QED
    BY <1>0, <1>2, <1>3, <1>8, <2>1, IdleKeepsRuntimeInv
<1>9. CASE UNCHANGED runtimeVars
  BY <1>0, <1>2, <1>9 DEF runtimeVars, RuntimeInv, RuntimeTypeOK, Idle
<1> QED
  BY <1>4, <1>5, <1>6, <1>7, <1>8, <1>9 DEF DexNext, Step, SyncSecret, LoseSecret,
    SeeChildren, dexVars

LEMMA DexTypeInvInit ==
  ASSUME DexInit
  PROVE  DexTypeInv
<1>1. RuntimeInv(DexSteps, Locals) /\ worker.pc = "idle"
  BY RuntimeInvInit DEF DexInit, RuntimeInit, Idle
<1>2. ConfigMaps \subseteq ChildNames
  BY DEF ChildNames
<1> QED
  BY <1>1, <1>2, DexStepSets DEF DexInit, DexTypeInv, WorkerOK, ChildrenOK, Contents

(* Resources, Secrets and children keep their shape: nothing is ever       *)
(* rendered from a reference that is missing.                              *)
THEOREM DexTypeCorrect == DexSpec => []DexTypeOK
<1>1. DexInit => DexTypeInv
  BY DexTypeInvInit
<1>2. DexTypeInv /\ [DexNext]_dexVars => DexTypeInv'
  BY DexTypeInvStep
<1>3. DexTypeInv => DexTypeOK
  BY DEF DexTypeInv, DexTypeOK, RuntimeInv, ChildrenOK, Locals
<1> QED
  BY <1>1, <1>2, <1>3, PTL DEF DexSpec

----------------------------------------------------------------------------
(* No child is orphaned.  A teardown deletes the children one by one, and  *)
(* nobody renders any in between: there is one worker.                     *)
GoneBelow(n) == \A i \in 1..3 : i < n => children[ChildrenOf(Obj.spec)[i]] = NoChild

DexInv ==
  /\ DexTypeInv
  /\ FinalizerInv(EnsureSteps, TeardownSteps)
  /\ worker.pc = "deleteChild" => GoneBelow(Nth)
  /\ worker.pc = "removeFinalizer" => GoneBelow(4)
  /\ NoOrphanChild

(* What users must not do: move a ClusterDex to another cluster, or its    *)
(* ArgoCD to another namespace.                                            *)
StableChildren ==
  \A k \in Keys : \A spec, other \in Specs[k] : ChildrenOf(spec) = ChildrenOf(other)

LEMMA DexFinalizerInvStep ==
  ASSUME DexTypeInv, FinalizerInv(EnsureSteps, TeardownSteps), [DexNext]_dexVars
  PROVE  FinalizerInv(EnsureSteps, TeardownSteps)'
<1>0. /\ RuntimeInv(DexSteps, Locals)
      /\ "idle" \notin EnsureSteps \cup TeardownSteps /\ "removeFinalizer" \in TeardownSteps
  BY DexStepSets DEF DexTypeInv
<1>1. CASE UserNext
  BY <1>0, <1>1, UsersKeepFinalizerInv
<1>2. CASE \E k \in Keys : Sync(k) \/ TakeKey(k)
  <2>1. PICK k \in Keys : Sync(k) \/ TakeKey(k)
    BY <1>2
  <2>2. CASE Sync(k)
    BY <1>0, <2>2, SyncKeepsFinalizerInv
  <2>3. CASE Skip(k)
    BY <1>0, <2>3, IdleKeepsFinalizerInv
  <2>4. CASE TakeKey(k) /\ ~Skip(k)
    <3>1. PICK step \in DexSteps, local \in Locals :
            /\ Take(k, step, local)
            /\ step \in EnsureSteps => Managed(k)
            /\ step \in TeardownSteps => Terminated(k)
      BY <2>4, DexTakes
    <3> QED
      BY <1>0, <3>1, TakeKeepsFinalizerInv
  <2> QED
    BY <2>1, <2>2, <2>3, <2>4
<1>3. CASE LocalStep
  <2>1. worker.pc # "idle" /\ UNCHANGED cache
    BY <1>3, DexLocalStep
  <2>2. CASE UNCHANGED <<objects, edits, calm>> /\ Done
    BY <1>0, <2>1, <2>2, GotoKeepsFinalizerInv
  <2> QED
    BY <1>0, <1>3, <2>2, DexLocalStep, FinalizerStepKeepsFinalizerInv
<1>4. CASE ChildStep
  <2>1. worker.pc # "idle" /\ UNCHANGED <<objects, cache>>
    BY <1>4, DexChildStep, DexStepSets
  <2>2. CASE Retry
    BY <1>0, <2>1, <2>2, GotoKeepsFinalizerInv
  <2>3. CASE ~Retry
    <3>1. PICK step \in DexSteps :
            /\ Onward(step)
            /\ step \in EnsureSteps => worker.pc \in EnsureSteps
            /\ step \in TeardownSteps => worker.pc \in TeardownSteps
      BY <1>4, <2>3, DexChildStep
    <3> QED
      BY <2>1, <3>1, OnwardKeepsFinalizerInv
  <2> QED
    BY <2>2, <2>3
<1>5. CASE Restart \/ Resync \/ BecomeCalm
  BY <1>0, <1>5, IdleKeepsFinalizerInv
<1>6. CASE UNCHANGED runtimeVars
  BY <1>6 DEF runtimeVars, FinalizerInv, CacheInv, ReadInv, TeardownInv, Held, SameLife, Key, Obj
<1> QED
  BY <1>1, <1>2, <1>3, <1>4, <1>5, <1>6 DEF DexNext, Step, SyncSecret, LoseSecret, SeeChildren,
    dexVars

(* How the worker goes on.                                                 *)
LEMMA WorkersWay ==
  ASSUME DexTypeInv, [DexNext]_dexVars
  PROVE  \/ UNCHANGED <<worker, children>>
         \/ worker' = Idle
         \/ (\E k \in Keys : TakeKey(k) /\ ~Skip(k)) /\ UNCHANGED children
         \/ ChildStep
<1>1. UserNext => UNCHANGED worker
  BY UserEffect DEF DexTypeInv
<1>2. LocalStep => worker' = Idle
  BY DexLocalStep
<1> QED
  BY <1>1, <1>2 DEF DexNext, Step, Sync, Skip, SyncSecret, LoseSecret, SeeChildren, Restart,
    Resync, BecomeCalm, outside, dexVars, runtimeVars

(* One more child is gone, and nothing else changed.                       *)
LEMMA OneMoreIsGone ==
  ASSUME DexTypeInv, worker.pc = "deleteChild", GoneBelow(Nth), Obj' = Obj,
         UNCHANGED children \/ Gives(NoChild), children'[Child] = NoChild
  PROVE  \A i \in 1..3 : i <= Nth => children'[ChildrenOf(Obj.spec)[i]] = NoChild
<1>1. /\ Nth \in 1..3 /\ Child = ChildrenOf(Obj.spec)[Nth]
      /\ Key \in Keys /\ Obj.spec \in Specs[Key] /\ DOMAIN children = ChildNames
  BY WorkerNamesAChild DEF ChildSteps, DexTypeInv, ChildrenOK
<1>2. \A i \in 1..3 : ChildrenOf(Obj.spec)[i] \in ChildNames
  BY <1>1, ThreeChildren
<1>3. \A c \in ChildNames : children[c] = NoChild => children'[c] = NoChild
  BY <1>1 DEF Gives
<1> TAKE i \in 1..3
<1> HAVE i <= Nth
<1>4. i = Nth \/ i < Nth
  BY <1>1
<1> QED
  BY <1>1, <1>2, <1>3, <1>4 DEF GoneBelow

LEMMA TeardownProgress ==
  ASSUME DexInv, [DexNext]_dexVars
  PROVE  /\ worker'.pc = "deleteChild" => GoneBelow(Nth)'
         /\ worker'.pc = "removeFinalizer" => GoneBelow(4)'
<1>0. DexTypeInv /\ RuntimeInv(DexSteps, Locals)
  BY DEF DexInv, DexTypeInv
<1>1. CASE UNCHANGED <<worker, children>>
  BY <1>1 DEF DexInv, GoneBelow, Obj, Nth
<1>2. CASE worker' = Idle
  BY <1>2 DEF Idle
<1>3. CASE \E k \in Keys : TakeKey(k) /\ ~Skip(k)
  <2>1. PICK k \in Keys, step \in DexSteps, local \in Locals :
          /\ Take(k, step, local) /\ step # "removeFinalizer"
          /\ step \in ChildSteps => local = First
    BY <1>0, <1>3, DexTakes
  <2>2. worker'.pc = step /\ worker'.local = local
    BY <2>1 DEF Take
  <2>3. worker'.pc = "deleteChild" => Nth' = 1
    BY <2>1, <2>2 DEF Nth, First, ChildSteps
  <2> QED
    BY <2>1, <2>2, <2>3 DEF GoneBelow
<1>4. CASE ChildStep
  <2>1. PICK o \in Outcomes : ApplyChild(o) \/ DeleteChild(o)
    BY <1>4 DEF ChildStep
  <2>2. CASE ApplyChild(o)
    <3>1. worker.pc = "applyChild"
      BY <1>0, <2>2, ApplyEffect
    <3>2. CASE Goto("failStatus")
      <4>1. Onward("failStatus")
        BY <1>0, <3>1, <3>2, GotoGoesOnward DEF DexSteps
      <4> QED
        BY <4>1 DEF Onward
    <3>3. CASE Advances("readyStatus")
      BY <3>1, <3>3 DEF Advances, Onward
    <3> QED
      BY <1>0, <2>2, <3>2, <3>3, ApplyEffect
  <2>3. CASE DeleteChild(o) /\ worker.pc = "disableChild"
    <3>1. Advances("readyStatus") \/ Retry
      BY <1>0, <2>3, DeleteEffect
    <3> QED
      BY <2>3, <3>1 DEF Advances, Onward, Retry, Idle
  <2>4. CASE DeleteChild(o) /\ worker.pc = "deleteChild"
    <3>1. CASE Retry
      BY <3>1 DEF Retry, Idle
    <3>2. CASE ~Retry
      <4>1. /\ Advances("removeFinalizer") /\ children'[Child] = NoChild
            /\ UNCHANGED children \/ Gives(NoChild)
        BY <1>0, <2>4, <3>2, DeleteEffect
      <4>2. Obj' = Obj /\ Nth \in 1..3
        BY <1>0, <2>4, <4>1, WorkerNamesAChild DEF Advances, Onward, ChildSteps
      <4>3. \A i \in 1..3 : i <= Nth => children'[ChildrenOf(Obj.spec)[i]] = NoChild
        BY <1>0, <2>4, <4>1, <4>2, OneMoreIsGone DEF DexInv
      <4>4. CASE Nth < 3 /\ Onward(worker.pc) /\ Nth' = Nth + 1
        BY <2>4, <4>2, <4>3, <4>4 DEF GoneBelow, Onward
      <4>5. CASE Nth = 3 /\ Onward("removeFinalizer")
        BY <4>2, <4>3, <4>5 DEF GoneBelow, Onward
      <4> QED
        BY <4>1, <4>4, <4>5 DEF Advances
    <3> QED
      BY <3>1, <3>2
  <2> QED
    BY <1>0, <2>1, <2>2, <2>3, <2>4, DeleteEffect
<1> QED
  BY <1>0, <1>1, <1>2, <1>3, <1>4, WorkersWay

(* A resource is released only by the removal of the finalizer.            *)
LEMMA HeldUnlessReleased ==
  ASSUME DexInv, [DexNext]_dexVars, NEW k \in Keys, Held(k), ~Held(k)'
  PROVE  /\ worker.pc = "removeFinalizer" /\ k = Key /\ objects[k] = Obj
         /\ UNCHANGED children
<1>0. RuntimeInv(DexSteps, Locals) /\ TeardownInv(TeardownSteps) /\ DexTypeInv
  BY DEF DexInv, DexTypeInv, FinalizerInv
<1>1. objects'[k] # objects[k]
  BY DEF Held
<1>2. ~UserNext
  BY <1>0, UserEffect DEF Held
<1>3. LocalStep /\ UNCHANGED children
  BY <1>0, <1>1, <1>2, DexChildStep DEF DexNext, Step, outside, dexVars, runtimeVars, Sync,
    TakeKey, Skip, StartAdoption, StartTeardown, StartDisable, StartWaiting, StartUnrenderable,
    StartApply, Take, Restart, Resync, BecomeCalm, SyncSecret, LoseSecret, SeeChildren
<1>4. PICK o \in Outcomes : FinalizerStep(o) \/ WriteRejected(o)
                              \/ \E name \in Names \cup {NoName} : WriteReady(o, name)
  BY <1>0, <1>1, <1>3, DexLocalStep
<1>5. CASE RemoveFinalizer(o)
  BY <1>0, <1>1, <1>3, <1>5, DexStepSets, RemoveFinalizerEffect DEF RemoveFinalizer, At
<1>6. CASE ~RemoveFinalizer(o)
  BY <1>0, <1>1, <1>4, <1>6, OtherWritesEffect DEF Keeps, Held, SameLife
<1> QED
  BY <1>5, <1>6

LEMMA SpecsOfResources ==
  ASSUME DexTypeInv, NEW k \in Keys, objects[k] # NoObj
  PROVE  objects[k].spec \in Specs[k]
BY DEF DexTypeInv, RuntimeInv, RuntimeTypeOK, CatalogObjects

LEMMA DexInvStep ==
  ASSUME StableChildren, DexInv, [DexNext]_dexVars
  PROVE  DexInv'
<1>1. DexTypeInv /\ DexTypeInv' /\ DOMAIN children = ChildNames
  BY DexTypeInvStep DEF DexInv, DexTypeInv, ChildrenOK
<1>2. FinalizerInv(EnsureSteps, TeardownSteps)'
  BY DexFinalizerInvStep DEF DexInv
<1>3. NoOrphanChild'
  <2> SUFFICES ASSUME NEW c \in ChildNames, children'[c] \notin {NoChild, Foreign}
               PROVE  \E k \in Keys : RenderedFor(k, c)'
    BY DEF NoOrphanChild
  <2>1. PICK k \in Keys : RenderedFor(k, c)
    <3>1. CASE children[c] \notin {NoChild, Foreign}
      BY <3>1 DEF DexInv, NoOrphanChild
    <3>2. CASE children[c] \in {NoChild, Foreign}
      <4>1. worker.pc = "applyChild" /\ c = Child
        BY <1>1, <3>2, ChildrenEffect DEF Gives
      <4>2. Held(Key)
        BY <4>1 DEF DexInv, FinalizerInv, EnsureSteps
      <4>3. /\ Key \in Keys /\ Obj.spec \in Specs[Key] /\ Nth \in 1..3
            /\ c = ChildrenOf(Obj.spec)[Nth]
        BY <1>1, <4>1, WorkerNamesAChild DEF ChildSteps
      <4>4. objects[Key].spec \in Specs[Key]
        BY <1>1, <4>2, <4>3, SpecsOfResources DEF Held
      <4>5. ChildrenOf(objects[Key].spec)[Nth] = c
        BY <4>3, <4>4 DEF StableChildren
      <4> QED
        BY <4>2, <4>3, <4>5 DEF RenderedFor, Held
    <3> QED
      BY <3>1, <3>2
  <2>2. Held(k)
    BY <2>1 DEF RenderedFor, Held
  <2>3. Held(k)'
    <3> SUFFICES ASSUME ~Held(k)' PROVE FALSE
      OBVIOUS
    <3>1. worker.pc = "removeFinalizer" /\ objects[k] = Obj /\ UNCHANGED children
      BY <2>2, HeldUnlessReleased
    <3>2. GoneBelow(4)
      BY <3>1 DEF DexInv
    <3> QED
      BY <2>1, <3>1, <3>2 DEF RenderedFor, GoneBelow
  <2>4. objects[k].spec \in Specs[k] /\ objects'[k].spec \in Specs[k]
    BY <1>1, <2>2, <2>3, SpecsOfResources DEF Held, DexTypeInv, RuntimeInv, RuntimeTypeOK,
      CatalogObjects
  <2> QED
    BY <2>1, <2>3, <2>4 DEF StableChildren, RenderedFor, Held
<1> QED
  BY <1>1, <1>2, <1>3, TeardownProgress DEF DexInv

LEMMA DexInvInit ==
  ASSUME DexInit
  PROVE  DexInv
<1>1. DexTypeInv /\ worker = Idle /\ \A k \in Keys : cache[k] = NoObj
  BY DexTypeInvInit DEF DexInit, RuntimeInit
<1>2. FinalizerInv(EnsureSteps, TeardownSteps)
  BY <1>1, DexStepSets, FinalizerInvInit
<1>3. NoOrphanChild
  BY DEF DexInit, NoOrphanChild
<1> QED
  BY <1>1, <1>2, <1>3 DEF DexInv, Idle

(* What was rendered for a ClusterDex never outlives it, although a        *)
(* teardown deletes the three children one by one, may fail at any of them *)
(* and starts over; provided that resources keep cluster and namespace.    *)
THEOREM NoChildIsOrphaned ==
  ASSUME StableChildren
  PROVE  DexSpec => []NoOrphanChild
<1>1. DexInit => DexInv
  BY DexInvInit
<1>2. DexInv /\ [DexNext]_dexVars => DexInv'
  BY DexInvStep
<1>3. DexInv => NoOrphanChild
  BY DEF DexInv
<1> QED
  BY <1>1, <1>2, <1>3, PTL DEF DexSpec

----------------------------------------------------------------------------
(* Ready can be believed (see VersionInv).  Promised(i) says of which      *)
(* children: a ConfigMap that was written through the cache may be         *)
(* anything.                                                               *)
Promised(spec, i) == i = 1 \/ ~spec.enabled \/ spec.impersonates

AsReadyBelow(n) ==
  \A i \in 1..3 : i < n /\ Promised(Obj.spec, i) => ChildAsReady(Obj.spec, i)

RenderedInv ==
  /\ DexTypeInv
  /\ FinalizerInv(EnsureSteps, TeardownSteps)
  /\ VersionInv(ManageSteps)
  /\ worker.pc \in {"applyChild", "disableChild"} => AsReadyBelow(Nth)
  /\ worker.pc = "readyStatus" => AsReadyBelow(4)
  /\ ReadyDexIsRendered

(* What users must not do: give two resources the same children.           *)
DistinctChildren ==
  \A k, j \in Keys : k # j =>
    \A spec \in Specs[k], other \in Specs[j] : \A i, l \in 1..3 :
      ChildrenOf(spec)[i] # ChildrenOf(other)[l]

LEMMA DexVersionInvStep ==
  ASSUME DexTypeInv, VersionInv(ManageSteps), [DexNext]_dexVars
  PROVE  VersionInv(ManageSteps)'
<1>0. /\ RuntimeInv(DexSteps, Locals)
      /\ "idle" \notin ManageSteps /\ "readyStatus" \in ManageSteps
  BY DexStepSets DEF DexTypeInv
<1>1. CASE UserNext
  BY <1>0, <1>1, UsersKeepVersionInv
<1>2. CASE \E k \in Keys : Sync(k) \/ TakeKey(k)
  <2>1. PICK k \in Keys : Sync(k) \/ TakeKey(k)
    BY <1>2
  <2>2. CASE Sync(k)
    BY <1>0, <2>2, SyncKeepsVersionInv
  <2>3. CASE Skip(k)
    BY <1>0, <2>3, IdleKeepsVersionInv
  <2>4. CASE TakeKey(k) /\ ~Skip(k)
    <3>1. PICK step \in DexSteps, local \in Locals :
            /\ Take(k, step, local) /\ cache[k] # NoObj
            /\ step \in ManageSteps => ~cache[k].deleting
      BY <2>4, DexTakes
    <3> QED
      BY <1>0, <3>1, TakeKeepsVersionInv
  <2> QED
    BY <2>1, <2>2, <2>3, <2>4
<1>3. CASE LocalStep
  <2>1. worker.pc # "idle" /\ UNCHANGED cache
    BY <1>3, DexLocalStep
  <2>2. CASE UNCHANGED <<objects, edits, calm>> /\ Done
    BY <1>0, <2>1, <2>2, GotoKeepsVersionInv
  <2> QED
    BY <1>0, <1>3, <2>2, DexLocalStep, FinalizerStepKeepsVersionInv
<1>4. CASE ChildStep
  <2>1. worker.pc # "idle" /\ UNCHANGED <<objects, cache>>
    BY <1>4, DexChildStep, DexStepSets
  <2>2. CASE Retry
    BY <1>0, <2>1, <2>2, GotoKeepsVersionInv
  <2>3. CASE ~Retry
    <3>1. PICK step \in DexSteps :
            Onward(step) /\ (step \in ManageSteps => worker.pc \in ManageSteps)
      BY <1>4, <2>3, DexChildStep
    <3> QED
      BY <2>1, <3>1, OnwardKeepsVersionInv
  <2> QED
    BY <2>2, <2>3
<1>5. CASE Restart \/ Resync \/ BecomeCalm
  BY <1>0, <1>5, IdleKeepsVersionInv
<1>6. CASE UNCHANGED runtimeVars
  BY <1>6 DEF runtimeVars, VersionInv, CopiesInv, ReadyInv, Precedes, SameVersion, SameLife,
    Ready, Key, Obj
<1> QED
  BY <1>1, <1>2, <1>3, <1>4, <1>5, <1>6 DEF DexNext, Step, SyncSecret, LoseSecret, SeeChildren,
    dexVars

(* One more child is as Ready says, and nothing else changed.              *)
LEMMA OneMoreIsRendered ==
  ASSUME DexTypeInv, worker.pc \in ChildSteps, AsReadyBelow(Nth), Obj' = Obj,
         UNCHANGED children \/ \E value : Gives(value),
         Promised(Obj.spec, Nth) =>
           children'[Child] = IF Obj.spec.enabled THEN Rendered(Obj.spec)[Nth] ELSE NoChild
  PROVE  \A i \in 1..3 : i <= Nth /\ Promised(Obj.spec, i) => ChildAsReady(Obj.spec, i)'
<1>1. /\ Nth \in 1..3 /\ Child = ChildrenOf(Obj.spec)[Nth]
      /\ Key \in Keys /\ Obj.spec \in Specs[Key] /\ DOMAIN children = ChildNames
  BY WorkerNamesAChild DEF DexTypeInv, ChildrenOK
<1> TAKE i \in 1..3
<1> HAVE i <= Nth /\ Promised(Obj.spec, i)
<1>2. CASE i = Nth
  BY <1>1, <1>2 DEF ChildAsReady
<1>3. CASE i < Nth
  <2>1. ChildAsReady(Obj.spec, i)
    BY <1>3 DEF AsReadyBelow
  <2>2. ChildrenOf(Obj.spec)[i] \in ChildNames /\ ChildrenOf(Obj.spec)[i] # Child
    BY <1>1, <1>3, ThreeChildren
  <2>3. children'[ChildrenOf(Obj.spec)[i]] = children[ChildrenOf(Obj.spec)[i]]
    BY <1>1, <2>2 DEF Gives
  <2> QED
    BY <2>1, <2>3 DEF ChildAsReady
<1> QED
  BY <1>1, <1>2, <1>3

LEMMA RenderProgress ==
  ASSUME RenderedInv, [DexNext]_dexVars
  PROVE  /\ worker'.pc \in {"applyChild", "disableChild"} => AsReadyBelow(Nth)'
         /\ worker'.pc = "readyStatus" => AsReadyBelow(4)'
<1>0. DexTypeInv /\ RuntimeInv(DexSteps, Locals) /\ WorkerOK
  BY DEF RenderedInv, DexTypeInv
<1>1. CASE UNCHANGED <<worker, children>>
  BY <1>1 DEF RenderedInv, AsReadyBelow, ChildAsReady, Obj, Nth
<1>2. CASE worker' = Idle
  BY <1>2 DEF Idle
<1>3. CASE \E k \in Keys : TakeKey(k) /\ ~Skip(k)
  <2>1. PICK k \in Keys, step \in DexSteps, local \in Locals :
          /\ Take(k, step, local) /\ step # "readyStatus"
          /\ step \in ChildSteps => local = First
    BY <1>0, <1>3, DexTakes
  <2>2. worker'.pc = step /\ worker'.local = local
    BY <2>1 DEF Take
  <2>3. worker'.pc \in ChildSteps => Nth' = 1
    BY <2>1, <2>2 DEF Nth, First
  <2> QED
    BY <2>1, <2>2, <2>3 DEF AsReadyBelow, ChildSteps
<1>4. CASE ChildStep
  <2>0. PICK o \in Outcomes : ApplyChild(o) \/ DeleteChild(o)
    BY <1>4 DEF ChildStep
  <2>1. ASSUME worker.pc \in {"applyChild", "disableChild"}, Advances("readyStatus"),
               UNCHANGED children \/ \E value : Gives(value),
               Promised(Obj.spec, Nth) =>
                 children'[Child] = IF Obj.spec.enabled THEN Rendered(Obj.spec)[Nth] ELSE NoChild
        PROVE  /\ worker'.pc \in {"applyChild", "disableChild"} => AsReadyBelow(Nth)'
               /\ worker'.pc = "readyStatus" => AsReadyBelow(4)'
    <3>1. worker.pc \in ChildSteps /\ Obj' = Obj /\ Nth \in 1..3
      BY <1>0, <2>1, WorkerNamesAChild DEF ChildSteps, Advances, Onward
    <3>2. \A i \in 1..3 : i <= Nth /\ Promised(Obj.spec, i) => ChildAsReady(Obj.spec, i)'
      BY <1>0, <2>1, <3>1, OneMoreIsRendered DEF RenderedInv
    <3>3. CASE Nth < 3 /\ Onward(worker.pc) /\ Nth' = Nth + 1
      BY <2>1, <3>1, <3>2, <3>3 DEF AsReadyBelow, Onward, ChildAsReady
    <3>4. CASE Nth = 3 /\ Onward("readyStatus")
      BY <3>1, <3>2, <3>4 DEF AsReadyBelow, Onward, ChildAsReady
    <3> QED
      BY <2>1, <3>3, <3>4 DEF Advances
  <2>2. CASE ApplyChild(o)
    <3>1. worker.pc = "applyChild" /\ Obj.spec.enabled
      BY <1>0, <2>2, ApplyEffect DEF WorkerOK
    <3>2. CASE Goto("failStatus")
      <4>1. Onward("failStatus")
        BY <1>0, <3>1, <3>2, GotoGoesOnward DEF DexSteps
      <4> QED
        BY <4>1 DEF Onward
    <3>3. CASE ~Goto("failStatus")
      <4>1. /\ Advances("readyStatus")
            /\ UNCHANGED children \/ Gives(Desired)
            /\ Nth = 1 \/ Obj.spec.impersonates => children'[Child] = Rendered(Obj.spec)[Nth]
        BY <1>0, <2>2, <3>3, ApplyEffect DEF Desired
      <4>2. Promised(Obj.spec, Nth) => Nth = 1 \/ Obj.spec.impersonates
        BY <3>1 DEF Promised
      <4>3. Promised(Obj.spec, Nth) =>
              children'[Child] = IF Obj.spec.enabled THEN Rendered(Obj.spec)[Nth] ELSE NoChild
        BY <3>1, <4>1, <4>2
      <4>4. UNCHANGED children \/ \E value : Gives(value)
        BY <4>1
      <4>5. worker.pc \in {"applyChild", "disableChild"} /\ Advances("readyStatus")
        BY <3>1, <4>1
      <4> QED
        BY <2>1, <4>3, <4>4, <4>5
    <3> QED
      BY <3>2, <3>3
  <2>3. CASE DeleteChild(o) /\ worker.pc = "disableChild"
    <3>1. CASE Retry
      BY <3>1 DEF Retry, Idle
    <3>2. CASE ~Retry
      <4>1. /\ Advances("readyStatus") /\ children'[Child] = NoChild
            /\ UNCHANGED children \/ Gives(NoChild)
        BY <1>0, <2>3, <3>2, DeleteEffect
      <4>2. ~Obj.spec.enabled
        BY <1>0, <2>3 DEF WorkerOK
      <4> QED
        BY <2>1, <2>3, <4>1, <4>2
    <3> QED
      BY <3>1, <3>2
  <2>4. CASE DeleteChild(o) /\ worker.pc = "deleteChild"
    <3>1. Advances("removeFinalizer") \/ Retry
      BY <1>0, <2>4, DeleteEffect
    <3> QED
      BY <2>4, <3>1 DEF Advances, Onward, Retry, Idle
  <2> QED
    BY <1>0, <2>0, <2>2, <2>3, <2>4, DeleteEffect
<1> QED
  BY <1>0, <1>1, <1>2, <1>3, <1>4, WorkersWay

LEMMA DexBecomesReady ==
  ASSUME DexTypeInv, [DexNext]_dexVars, NEW k \in Keys,
         objects'[k] # NoObj, Ready(objects'[k])
  PROVE  \/ objects[k] # NoObj /\ Ready(objects[k]) /\ Rewrites(objects[k], objects'[k])
         \/ /\ worker.pc = "readyStatus" /\ k = Key /\ objects'[k].spec = Obj.spec
            /\ UNCHANGED children
<1>0. RuntimeInv(DexSteps, Locals)
  BY DEF DexTypeInv
<1>1. CASE objects'[k] = objects[k]
  BY <1>1 DEF Rewrites
<1>2. CASE UserNext
  BY <1>0, <1>1, <1>2, UserVersionEffect
<1>3. CASE LocalStep /\ UNCHANGED outside /\ objects' # objects
  <2>1. PICK o \in Outcomes :
          FinalizerStep(o) \/ WriteRejected(o)
            \/ \E name \in Names \cup {NoName} : WriteReady(o, name)
    BY <1>3, DexLocalStep
  <2>2. Obj # NoObj
    BY <1>0, <1>3, DexLocalStep, WorkerAtAStep, NoObjIsNoObject
  <2> QED
    BY <1>0, <1>1, <1>3, <2>1, <2>2, WriteVersionEffect DEF Rewrites, outside
<1>4. CASE UNCHANGED objects
  BY <1>1, <1>4
<1> QED
  BY <1>2, <1>3, <1>4, DexChildStep DEF DexNext, Step, dexVars, runtimeVars, Sync, TakeKey, Skip,
    StartAdoption, StartTeardown, StartDisable, StartWaiting, StartUnrenderable, StartApply, Take,
    Restart, Resync, BecomeCalm, SyncSecret, LoseSecret, SeeChildren

(* Under a resource that is Ready, a step changes none of its children but *)
(* to what that very spec asks for.                                        *)
LEMMA ReadyChildStays ==
  ASSUME DistinctChildren, RenderedInv, [DexNext]_dexVars,
         NEW k \in Keys, objects[k] # NoObj, Ready(objects[k]),
         NEW i \in 1..3, ChildAsReady(objects[k].spec, i)
  PROVE  ChildAsReady(objects[k].spec, i)'
         \/ objects'[k] # objects[k]
<1> DEFINE c == ChildrenOf(objects[k].spec)[i]
<1>0. /\ DexTypeInv /\ WorkerOK /\ RuntimeInv(DexSteps, Locals) /\ DOMAIN children = ChildNames
      /\ objects[k].spec \in Specs[k] /\ c \in ChildNames
  BY SpecsOfResources, ThreeChildren DEF RenderedInv, DexTypeInv, ChildrenOK
<1>1. CASE children'[c] = children[c]
  BY <1>1 DEF ChildAsReady
<1>2. CASE children'[c] # children[c]
  <2>1. /\ worker.pc \in ChildSteps /\ c = Child
        /\ \/ worker.pc = "applyChild" /\ children'[c] = Desired
           \/ worker.pc # "applyChild" /\ children'[c] = NoChild
    BY <1>0, <1>2, ChildrenEffect DEF Gives, ChildSteps
  <2>2. /\ Key \in Keys /\ Obj.spec \in Specs[Key] /\ Nth \in 1..3
        /\ c = ChildrenOf(Obj.spec)[Nth]
    BY <1>0, <2>1, WorkerNamesAChild
  <2>3. k = Key
    BY <1>0, <2>2 DEF DistinctChildren
  <2>4. SameVersion(Obj, objects[k]) /\ Precedes(Obj, objects[k]) /\ Obj # NoObj
        /\ ~objects[k].deleting
    BY <1>0, <2>1, <2>3, DexStepSets, WorkerAtAStep, NoObjIsNoObject
      DEF RenderedInv, VersionInv, ReadyInv, CopiesInv
  <2>5. Obj.spec = objects[k].spec /\ ~Obj.deleting
    BY <2>4 DEF SameVersion, Precedes
  <2>6. worker.pc # "deleteChild"
    BY <2>5 DEF RenderedInv, FinalizerInv, TeardownInv, TeardownSteps
  <2>7. Nth = i
    BY <1>0, <2>2, <2>5, ThreeChildren
  <2> QED
    BY <1>0, <2>1, <2>5, <2>6, <2>7 DEF ChildAsReady, Desired, WorkerOK, ChildSteps
<1> QED
  BY <1>1, <1>2

LEMMA RenderedInvStep ==
  ASSUME DistinctChildren, RenderedInv, [DexNext]_dexVars
  PROVE  RenderedInv'
<1>1. DexTypeInv' /\ FinalizerInv(EnsureSteps, TeardownSteps)' /\ VersionInv(ManageSteps)'
  BY DexTypeInvStep, DexFinalizerInvStep, DexVersionInvStep DEF RenderedInv
<1>2. ReadyDexIsRendered'
  <2> SUFFICES ASSUME NEW k \in Keys, objects'[k] # NoObj, Ready(objects'[k]),
                      NEW i \in 1..3, Promised(objects'[k].spec, i)
               PROVE  ChildAsReady(objects[k].spec, i)'
    BY DEF ReadyDexIsRendered, Promised
  <2>1. CASE /\ worker.pc = "readyStatus" /\ k = Key /\ objects'[k].spec = Obj.spec
             /\ UNCHANGED children
    BY <2>1 DEF RenderedInv, AsReadyBelow, ChildAsReady
  <2>2. CASE objects[k] # NoObj /\ Ready(objects[k]) /\ Rewrites(objects[k], objects'[k])
    <3>1. objects'[k].spec = objects[k].spec
      BY <2>2 DEF Rewrites
    <3>2. ChildAsReady(objects[k].spec, i)
      BY <2>2, <3>1 DEF RenderedInv, ReadyDexIsRendered, Promised
    <3>3. CASE UNCHANGED children
      BY <3>1, <3>2, <3>3 DEF ChildAsReady
    <3>4. CASE UNCHANGED objects
      BY <2>2, <3>2, <3>4, ReadyChildStays
    <3> QED
      BY <3>3, <3>4, ChildrenEffect DEF RenderedInv
  <2> QED
    BY <2>1, <2>2, DexBecomesReady DEF RenderedInv
<1> QED
  BY <1>1, <1>2, RenderProgress DEF RenderedInv

LEMMA RenderedInvInit ==
  ASSUME DexInit
  PROVE  RenderedInv
<1>1. /\ DexInv /\ worker = Idle
      /\ \A k \in Keys : cache[k] = NoObj /\ objects[k] = NoObj
  BY DexInvInit DEF DexInit, RuntimeInit
<1>2. VersionInv(ManageSteps)
  BY <1>1, DexStepSets, VersionInvInit
<1> QED
  BY <1>1, <1>2 DEF RenderedInv, DexInv, ReadyDexIsRendered, Idle

(* A ClusterDex that is Ready at its current generation has the children   *)
(* of that generation, or none when it is disabled, although they are      *)
(* written one by one from copies that may be old; its ConfigMaps too if   *)
(* the operator impersonates the tenant.  Provided that no two resources   *)
(* have a child in common.                                                 *)
THEOREM ReadyMeansRendered ==
  ASSUME DistinctChildren
  PROVE  DexSpec => []ReadyDexIsRendered
<1>1. DexInit => RenderedInv
  BY RenderedInvInit
<1>2. RenderedInv /\ [DexNext]_dexVars => RenderedInv'
  BY RenderedInvStep
<1>3. RenderedInv => ReadyDexIsRendered
  BY DEF RenderedInv
<1> QED
  BY <1>1, <1>2, <1>3, PTL DEF DexSpec

----------------------------------------------------------------------------
(* No wakeup is lost.                                                      *)
DexWakeInv ==
  /\ DexTypeInv
  /\ FinalizerInv(EnsureSteps, TeardownSteps)
  /\ VersionInv(ManageSteps)
  /\ WakeInv(ManageSteps, {})

LEMMA DexWakeInvStep ==
  ASSUME DexWakeInv, [DexNext]_dexVars
  PROVE  WakeInv(ManageSteps, {})'
<1>0. /\ DexTypeInv /\ RuntimeInv(DexSteps, Locals) /\ CopiesInv /\ CacheInv
      /\ TeardownInv(TeardownSteps) /\ WakeInv(ManageSteps, {}) /\ StatusInv /\ FreshInv
      /\ "idle" \notin ManageSteps /\ "readyStatus" \in ManageSteps
      /\ "removeFinalizer" \in TeardownSteps /\ "idle" \notin DexSteps
  BY DexStepSets DEF DexWakeInv, DexTypeInv, FinalizerInv, VersionInv, WakeInv
<1>1. CASE UserNext
  BY <1>0, <1>1, UsersKeepWakeInv
<1>2. CASE \E k \in Keys : Sync(k) \/ TakeKey(k)
  <2>1. PICK k \in Keys : Sync(k) \/ TakeKey(k)
    BY <1>2
  <2>2. CASE Sync(k)
    BY <1>0, <2>2, SyncKeepsWakeInv
  <2>3. CASE Skip(k)
    BY <1>0, <2>3, IdleKeepsWakeInv
  <2>4. CASE TakeKey(k) /\ ~Skip(k)
    <3>1. PICK step \in DexSteps, local \in Locals :
            /\ Take(k, step, local)
            /\ step \in ManageSteps => cache[k].finalizer /\ ~cache[k].deleting
            /\ step = "addFinalizer" => ~cache[k].finalizer
      BY <1>0, <2>4, DexTakes
    <3> QED
      BY <1>0, <3>1, TakeKeepsWakeInv
  <2> QED
    BY <2>1, <2>2, <2>3, <2>4
<1>3. CASE LocalStep
  <2>1. worker.pc # "idle" /\ UNCHANGED cache
    BY <1>0, <1>3, DexLocalStep
  <2>2. CASE worker.pc = "readyStatus" /\ Ready(Obj) /\ UNCHANGED <<objects, edits, calm>> /\ Done
    <3>1. Obj.finalizer /\ ~Obj.deleting
      BY <1>0, <2>2 DEF WakeInv
    <3>2. Key \in Keys
      BY <1>0, <2>1, WorkerAtAStep
    <3>3. ASSUME objects[Key] = Obj, objects[Key] # NoObj
          PROVE  Arrived(objects[Key])
      BY <1>0, <2>2, <3>2, <3>3 DEF StatusInv, Arrived, Ready
    <3>4. ASSUME objects'[Key] # NoObj, cache[Key] = objects'[Key], Key \notin queue
          PROVE  /\ objects'[Key].finalizer /\ ~objects'[Key].deleting
                 /\ Arrived(objects'[Key])
      <4>1. objects'[Key] = objects[Key] /\ objects[Key] = Obj
        BY <1>0, <2>1, <2>2, <3>4 DEF FreshInv
      <4> QED
        BY <3>1, <3>3, <3>4, <4>1
    <3>5. StatusInv'
      BY <1>0, <2>2 DEF StatusInv
    <3> QED
      BY <1>0, <2>1, <2>2, <3>4, <3>5, DoneKeepsWakeInv
  <2> QED
    BY <1>0, <1>3, <2>2, DexLocalStep, FinalizerStepKeepsWakeInv
<1>4. CASE ChildStep
  <2>1. worker.pc # "idle" /\ UNCHANGED <<objects, cache>>
    BY <1>0, <1>4, DexChildStep, DexStepSets
  <2>2. CASE Retry
    BY <1>0, <2>1, <2>2, GotoKeepsWakeInv
  <2>3. CASE ~Retry
    <3>1. PICK step \in DexSteps :
            /\ Onward(step) /\ (step \in ManageSteps => worker.pc \in ManageSteps)
            /\ step # "addFinalizer" /\ UNCHANGED queue
      BY <1>0, <1>4, <2>3, DexChildStep
    <3> QED
      BY <1>0, <2>1, <3>1, OnwardKeepsWakeInv
  <2> QED
    BY <2>2, <2>3
<1>5. CASE Restart \/ Resync \/ BecomeCalm
  BY <1>0, <1>5, IdleKeepsWakeInv
<1>6. CASE UNCHANGED runtimeVars
  BY <1>0, <1>6 DEF runtimeVars, WakeInv, StatusInv, FreshInv, ResultInv, Quiet, Arrived, Ready,
    Key, Obj
<1> QED
  BY <1>1, <1>2, <1>3, <1>4, <1>5, <1>6 DEF DexNext, Step, SyncSecret, LoseSecret, SeeChildren,
    dexVars

(* A ClusterDex that the operator will not look at again by itself is Ready*)
(* at its generation and not waiting to be deleted: a Secret that is still *)
(* missing, a rendering that fails, a conflict on a child and whatever is  *)
(* lost, stale or crashed on the way keeps its key in the queue or an      *)
(* event of it to come, and the Ready that is not written again was there. *)
THEOREM NoDexWakeupIsLost == DexSpec => []QuietIsReady
<1>1. DexInit => DexWakeInv
  <2> SUFFICES ASSUME DexInit PROVE DexWakeInv
    OBVIOUS
  <2>1. worker = Idle /\ \A k \in Keys : objects[k] = NoObj /\ cache[k] = NoObj
    BY DEF DexInit, RuntimeInit
  <2>2. StatusInv
    BY <2>1 DEF StatusInv
  <2> QED
    BY <2>1, <2>2, DexStepSets, RenderedInvInit, WakeInvInit DEF RenderedInv, DexWakeInv
<1>2. DexWakeInv /\ [DexNext]_dexVars => DexWakeInv'
  BY DexTypeInvStep, DexFinalizerInvStep, DexVersionInvStep, DexWakeInvStep DEF DexWakeInv
<1>3. DexWakeInv => QuietIsReady
  BY WakeInvMeansReady DEF DexWakeInv
<1> QED
  BY <1>1, <1>2, <1>3, PTL DEF DexSpec
=============================================================================
