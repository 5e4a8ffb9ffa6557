------------------ MODULE TenantNamespaceController_proofs ------------------
(***************************************************************************)
(* Theorems about the TenantNamespace controller, for any number of        *)
(* resources, namespaces, users' operations and faults.                    *)
(***************************************************************************)
EXTENDS TenantNamespaceController, ControllerRuntime_proofs

EnsureSteps   == {"applyPart"}
TeardownSteps == {"deleteNamespace", "removeFinalizer"}
ManageSteps   == {"applyPart", "readyStatus"}
Locals        == [part : 1..4] \cup {NoLocal}

(* What the API server holds, and what the caches have seen of it.         *)
PartsOK ==
  /\ DOMAIN parts = Parts /\ DOMAIN seen = Parts
  /\ \A p \in Parts :
       /\ parts[p] \in PartContents(p[2]) \cup {NoPart}
       /\ seen[p] \in PartContents(p[2]) \cup {NoPart}
       /\ parts[p] # NoPart => parts[Namespace(p[1])] # NoPart

TenantTypeInv ==
  /\ RuntimeInv(TenantSteps, Locals)
  /\ worker.pc = "applyPart" => worker.local \in [part : 1..4]
  /\ PartsOK

LEMMA TenantStepSets ==
  /\ EnsureSteps \cup TeardownSteps \subseteq TenantSteps
  /\ "idle" \notin TenantSteps /\ "idle" \notin EnsureSteps \cup TeardownSteps
  /\ "removeFinalizer" \in TeardownSteps
  /\ "idle" \notin ManageSteps /\ "readyStatus" \in ManageSteps
BY DEF EnsureSteps, TeardownSteps, ManageSteps, TenantSteps

LEMMA KindsOfParts ==
  /\ Kinds = {"namespace", "roleBinding", "networkPolicy", "quota"}
  /\ \A i \in 1..4 : Order[i] \in Kinds
  /\ \A n \in Namespaces, kind \in Kinds : <<n, kind>> \in Parts
  /\ \A p \in Parts :
       /\ p[1] \in Namespaces /\ p[2] \in Kinds /\ p = <<p[1], p[2]>>
       /\ Namespace(p[1]) \in Parts /\ (p[2] = "namespace" => p = Namespace(p[1]))
  /\ \A n \in Namespaces :
       Namespace(n) \in Parts /\ Namespace(n)[1] = n /\ Namespace(n)[2] = "namespace"
<1>1. Order[1] = "namespace" /\ Order[2] = "roleBinding" /\ Order[3] = "networkPolicy"
      /\ Order[4] = "quota"
  BY DEF Order
<1>2. 1..4 = {1, 2, 3, 4}
  OBVIOUS
<1>3. Kinds = {"namespace", "roleBinding", "networkPolicy", "quota"}
  BY <1>1, <1>2 DEF Kinds
<1>4. \A i \in 1..4 : Order[i] \in Kinds
  BY DEF Kinds
<1> QED
  BY <1>3, <1>4 DEF Parts, Namespace

LEMMA WorkerNamesANamespace ==
  ASSUME TenantTypeInv, worker.pc # "idle"
  PROVE  /\ Key \in Keys /\ Obj \in CatalogObjects(Key) /\ Obj.spec \in Specs[Key]
         /\ Obj.spec \in TenantSpecs /\ Obj.spec.namespace \in Namespaces
         /\ Obj.spec.namespace \in Names
<1>1. Key \in Keys /\ Obj \in CatalogObjects(Key)
  BY WorkerAtAStep DEF TenantTypeInv
<1>2. Obj.spec \in Specs[Key]
  BY <1>1 DEF CatalogObjects
<1>3. Obj.spec \in TenantSpecs
  BY <1>1, <1>2, TenantAssumption
<1> QED
  BY <1>1, <1>2, <1>3, TenantAssumption DEF TenantSpecs

----------------------------------------------------------------------------
(* Which step of a reconcile comes next.                                   *)
LEMMA NextPartGoesOnward ==
  ASSUME TenantTypeInv, worker.pc = "applyPart", NextPart
  PROVE  \E step \in {"applyPart", "readyStatus"} :
           /\ Onward(step) /\ worker' \in Reconciles(Key, TenantSteps, Locals)
           /\ step = "applyPart" => worker'.local \in [part : 1..4]
           /\ UNCHANGED queue
<1>1. worker \in Reconciles(Key, TenantSteps, Locals) /\ worker.local \in [part : 1..4]
  BY WorkerAtAStep DEF TenantTypeInv
<1>2. CASE worker.local.part < 4
  <2>1. worker.local.part + 1 \in 1..4
    BY <1>1, <1>2
  <2>2. worker' = [worker EXCEPT !.local.part = @ + 1] /\ UNCHANGED queue
    BY <1>2 DEF NextPart
  <2>3. /\ worker'.pc = worker.pc /\ worker'.key = worker.key /\ worker'.obj = worker.obj
        /\ worker' = [pc |-> worker.pc, key |-> worker.key, obj |-> worker.obj,
                      local |-> worker'.local]
        /\ worker'.local = [worker.local EXCEPT !.part = @ + 1]
    BY <1>1, <2>2 DEF Reconciles
  <2>4. worker'.local \in [part : 1..4]
    BY <1>1, <2>1, <2>3
  <2>5. worker' \in Reconciles(Key, TenantSteps, Locals)
    BY <1>1, <2>3, <2>4 DEF Reconciles, Locals
  <2> QED
    BY <2>2, <2>3, <2>4, <2>5 DEF Onward, Key, Obj
<1>3. CASE ~(worker.local.part < 4)
  BY <1>1, <1>3 DEF NextPart, Onward, Reconciles, Key, Obj, TenantSteps
<1> QED
  BY <1>2, <1>3

LEMMA TenantPartStep ==
  ASSUME TenantTypeInv, PartStep
  PROVE  /\ worker.pc \in {"applyPart", "deleteNamespace"}
         /\ UNCHANGED <<objects, cache, edits, calm, seen>>
         /\ \/ \E step \in TenantSteps :
                 /\ Onward(step) /\ worker' \in Reconciles(Key, TenantSteps, Locals)
                 /\ step = "applyPart" => worker'.local \in [part : 1..4]
                 /\ step \in EnsureSteps => worker.pc \in EnsureSteps
                 /\ step \in TeardownSteps => worker.pc \in TeardownSteps
                 /\ step \in ManageSteps => worker.pc \in ManageSteps
                 /\ step # "addFinalizer" /\ UNCHANGED queue
            \/ Retry
<1>0. RuntimeInv(TenantSteps, Locals)
  BY DEF TenantTypeInv
<1>1. PICK o \in Outcomes : ApplyPart(o) \/ DeleteQuota(o) \/ DeleteNamespace(o)
  BY DEF PartStep
<1>2. CASE ApplyPart(o) \/ DeleteQuota(o)
  <2>1. worker.pc = "applyPart" /\ UNCHANGED <<objects, cache, edits, calm, seen>>
    BY <1>2 DEF ApplyPart, DeleteQuota, At
  <2>2. NextPart \/ Goto("failStatus")
    BY <1>2 DEF ApplyPart, DeleteQuota
  <2>3. CASE NextPart
    BY <2>1, <2>3, NextPartGoesOnward DEF EnsureSteps, TeardownSteps, ManageSteps, TenantSteps
  <2>4. CASE Goto("failStatus")
    BY <1>0, <2>1, <2>4, GotoGoesOnward DEF EnsureSteps, TeardownSteps, ManageSteps, TenantSteps
  <2> QED
    BY <2>1, <2>2, <2>3, <2>4
<1>3. CASE DeleteNamespace(o)
  <2>1. worker.pc = "deleteNamespace" /\ UNCHANGED <<objects, cache, edits, calm, seen>>
    BY <1>3 DEF DeleteNamespace, At
  <2>2. Goto("removeFinalizer") \/ Retry
    BY <1>3 DEF DeleteNamespace
  <2>3. CASE Goto("removeFinalizer")
    BY <1>0, <2>1, <2>3, GotoGoesOnward DEF EnsureSteps, TeardownSteps, ManageSteps, TenantSteps
  <2> QED
    BY <2>1, <2>2, <2>3
<1> QED
  BY <1>1, <1>2, <1>3

LEMMA TenantLocalStep ==
  ASSUME TenantTypeInv, LocalStep
  PROVE  \E o \in Outcomes :
           FinalizerStep(o) \/ \E name \in Names \cup {NoName} : WriteReady(o, name)
<1>1. PICK o \in Outcomes : FinalizerStep(o) \/ WriteTenantReady(o)
  BY DEF LocalStep
<1>2. WriteTenantReady(o) => Obj.spec.namespace \in Names
  BY WorkerNamesANamespace DEF WriteTenantReady, WriteReady, At
<1> QED
  BY <1>1, <1>2 DEF WriteTenantReady

LEMMA LocalStepsEnd ==
  ASSUME LocalStep
  PROVE  worker' = Idle
BY DEF LocalStep, FinalizerStep, AddFinalizer, RemoveFinalizer, WriteFailed,
       WriteTenantReady, WriteReady, Retry, Done

LEMMA TenantTakes ==
  ASSUME NEW k \in Keys, TakeKey(k)
  PROVE  \/ Skip(k)
         \/ \E step \in TenantSteps, local \in Locals :
              /\ Take(k, step, local) /\ cache[k] # NoObj
              /\ step = "applyPart" => local \in [part : 1..4]
              /\ step # "removeFinalizer"
              /\ step \in EnsureSteps => Managed(k)
              /\ step \in TeardownSteps => Terminated(k)
              /\ step \in ManageSteps => Managed(k)
              /\ step = "addFinalizer" => ~cache[k].finalizer
<1>1. CASE StartAdoption(k)
  BY <1>1 DEF StartAdoption, Unmanaged, Cached, TenantSteps, EnsureSteps, TeardownSteps,
                      ManageSteps, Locals
<1>2. CASE StartTeardown(k)
  BY <1>2 DEF StartTeardown, Terminated, Cached, TenantSteps, EnsureSteps, TeardownSteps,
                      ManageSteps, Locals
<1>3. CASE StartMaterialize(k)
  <2>1. First \in [part : 1..4]
    BY DEF First
  <2> QED
    BY <1>3, <2>1 DEF StartMaterialize, Managed, Cached, TenantSteps, EnsureSteps,
                      TeardownSteps, ManageSteps, Locals
<1> QED
  BY <1>1, <1>2, <1>3 DEF TakeKey

----------------------------------------------------------------------------
(* What a step does to the parts: nothing; the worker writes or removes a  *)
(* part of the namespace it works for; or it, or Kubernetes, takes a       *)
(* namespace down.                                                         *)
WritesPart(value) ==
  /\ worker.pc = "applyPart" /\ parts' = [parts EXCEPT ![Part] = value]
  /\ \/ value = NoPart /\ Kind = "quota"
     \/ /\ value = Desired /\ Read = parts[Part] /\ Parsed /\ ~Unwanted
        /\ Kind # "namespace" /\ Read = NoPart => Active(Obj.spec.namespace)

Terminates(n) ==
  /\ worker.pc = "deleteNamespace" /\ n = Obj.spec.namespace /\ Active(n)
  /\ parts' = [parts EXCEPT ![Namespace(n)].terminating = TRUE]

LEMMA PartsEffect ==
  ASSUME [TenantNext]_tenantVars
  PROVE  \/ UNCHANGED parts
         \/ UNCHANGED seen /\ \E value : WritesPart(value)
         \/ UNCHANGED seen /\ \E n \in {Obj.spec.namespace} : Terminates(n)
         \/ \E n \in Namespaces : Purge(n)
<1>1. CASE PartStep
  <2>1. PICK o \in Outcomes : ApplyPart(o) \/ DeleteQuota(o) \/ DeleteNamespace(o)
    BY <1>1 DEF PartStep
  <2>2. CASE ApplyPart(o)
    BY <2>2 DEF ApplyPart, At, Call, Accepted, WritesPart
  <2>3. CASE DeleteQuota(o)
    BY <2>3 DEF DeleteQuota, At, Call, Unwanted, WritesPart
  <2>4. CASE DeleteNamespace(o)
    BY <2>4 DEF DeleteNamespace, At, Call, Terminates
  <2> QED
    BY <2>1, <2>2, <2>3, <2>4
<1>2. CASE ~PartStep
  BY <1>2 DEF TenantNext, Step, outside, tenantVars, See
<1> QED
  BY <1>1, <1>2

LEMMA DesiredIsAPart ==
  ASSUME TenantTypeInv, worker.pc = "applyPart", Parsed, ~Unwanted
  PROVE  Desired \in PartContents(Kind) /\ Desired # NoPart
<1>1. Kind \in Kinds /\ Obj.spec \in TenantSpecs
  BY KindsOfParts, WorkerNamesANamespace DEF Kind, TenantTypeInv
<1>2. /\ Obj.spec.tenant \in Tenants /\ Obj.spec.admins \in Admins
      /\ Obj.spec.quota \in Quotas \cup BadQuotas \cup {NoName}
  BY <1>1 DEF TenantSpecs
<1>3. CASE Kind = "namespace"
  <2>1. (Read # NoPart /\ Read.terminating) \in BOOLEAN
    OBVIOUS
  <2>2. Desired = [tenant |-> Obj.spec.tenant, terminating |-> Read # NoPart /\ Read.terminating]
    BY <1>3 DEF Desired
  <2>3. Desired \in PartContents("namespace")
    BY <1>2, <2>1, <2>2 DEF PartContents
  <2> QED
    BY <1>1, <1>3, <2>3, TenantAssumption
<1>4. CASE Kind = "roleBinding"
  BY <1>1, <1>2, <1>4, TenantAssumption DEF Desired, PartContents
<1>5. CASE Kind = "networkPolicy"
  BY <1>1, <1>2, <1>5, TenantAssumption DEF Desired, PartContents
<1>6. CASE Kind = "quota"
  BY <1>1, <1>2, <1>6, TenantAssumption DEF Desired, PartContents, Parsed, Unwanted
<1> QED
  BY <1>1, <1>3, <1>4, <1>5, <1>6, KindsOfParts

LEMMA WrittenPartIsGood ==
  ASSUME TenantTypeInv, NEW value, WritesPart(value)
  PROVE  /\ Kind \in Kinds /\ Part \in Parts /\ Part = <<Obj.spec.namespace, Kind>>
         /\ value \in PartContents(Kind) \cup {NoPart}
         /\ Kind # "quota" => value # NoPart
         /\ Kind = "namespace" =>
              /\ value = Desired /\ value.tenant \in Tenants
              /\ value.terminating =>
                   parts[Part] # NoPart /\ parts[Part].terminating
              /\ Obj.spec.namespace \in Namespaces
<1>1. worker.pc = "applyPart" /\ worker.local \in [part : 1..4]
  BY DEF WritesPart, TenantTypeInv
<1>2. Kind \in Kinds /\ Obj.spec \in TenantSpecs /\ Obj.spec.namespace \in Namespaces
  BY <1>1, KindsOfParts, WorkerNamesANamespace DEF Kind
<1>3. Part \in Parts /\ Part = <<Obj.spec.namespace, Kind>>
  BY <1>2, KindsOfParts DEF Part
<1>4. CASE value = NoPart /\ Kind = "quota"
  BY <1>2, <1>3, <1>4
<1>5. CASE ~(value = NoPart /\ Kind = "quota")
  <2>1. value = Desired /\ Read = parts[Part] /\ Parsed /\ ~Unwanted
    BY <1>5 DEF WritesPart
  <2>2. Desired \in PartContents(Kind) /\ Desired # NoPart
    BY <1>1, <2>1, DesiredIsAPart
  <2>3. CASE Kind = "namespace"
    <3>1. Desired = [tenant |-> Obj.spec.tenant, terminating |-> Read # NoPart /\ Read.terminating]
      BY <2>3 DEF Desired
    <3>2. Desired.tenant \in Tenants /\ (Desired.terminating => Read # NoPart /\ Read.terminating)
      BY <1>2, <3>1 DEF TenantSpecs
    <3> QED
      BY <1>2, <1>3, <2>1, <2>2, <3>2
  <2> QED
    BY <1>2, <1>3, <2>1, <2>2, <2>3
<1> QED
  BY <1>4, <1>5

LEMMA SeenEffect ==
  ASSUME TenantTypeInv, [TenantNext]_tenantVars
  PROVE  DOMAIN seen' = Parts /\ \A p \in Parts : seen'[p] \in {seen[p], parts[p]}
<1>1. \/ UNCHANGED seen
      \/ seen' = parts
      \/ \E kind \in Kinds :
           seen' = [p \in Parts |-> IF p[2] = kind THEN parts[p] ELSE seen[p]]
  BY DEF TenantNext, outside, tenantVars, Step, PartStep, ApplyPart, DeleteQuota,
         DeleteNamespace, Purge, See
<1> QED
  BY <1>1 DEF TenantTypeInv, PartsOK

LEMMA PartsStayGood ==
  ASSUME TenantTypeInv, [TenantNext]_tenantVars
  PROVE  PartsOK'
<1>0. PartsOK /\ DOMAIN parts = Parts /\ DOMAIN seen = Parts
  BY DEF TenantTypeInv, PartsOK
<1>1. /\ DOMAIN seen' = Parts
      /\ \A p \in Parts : seen'[p] \in {seen[p], parts[p]}
  BY SeenEffect
<1>2. /\ DOMAIN parts' = Parts
      /\ \A p \in Parts :
           /\ parts'[p] \in PartContents(p[2]) \cup {NoPart}
           /\ parts'[p] # NoPart => parts'[Namespace(p[1])] # NoPart
  <2>1. CASE UNCHANGED parts
    BY <1>0, <2>1 DEF PartsOK
  <2>2. CASE \E value : WritesPart(value)
    <3>1. PICK value : WritesPart(value)
      BY <2>2
    <3>2. /\ Kind \in Kinds /\ Part \in Parts /\ Part = <<Obj.spec.namespace, Kind>>
          /\ value \in PartContents(Kind) \cup {NoPart}
          /\ parts' = [parts EXCEPT ![Part] = value]
      BY <3>1, WrittenPartIsGood DEF WritesPart
    <3>3. Part[1] = Obj.spec.namespace /\ Part[2] = Kind
      BY <3>2
    <3>4. \A p \in Parts : parts'[p] \in PartContents(p[2]) \cup {NoPart}
      BY <1>0, <3>2, <3>3 DEF PartsOK
    <3>5. ASSUME NEW p \in Parts, parts'[p] # NoPart
          PROVE  parts'[Namespace(p[1])] # NoPart
      <4> DEFINE home == Namespace(p[1])
      <4>1. home \in Parts /\ p[1] \in Namespaces
        BY KindsOfParts
      <4>2. CASE home = Part
        <5>1. Kind = "namespace"
          BY <3>3, <4>2, KindsOfParts
        <5> QED
          BY <1>0, <3>1, <3>2, <4>1, <4>2, <5>1, WrittenPartIsGood
      <4>3. CASE home # Part
        <5>1. parts'[home] = parts[home]
          BY <1>0, <3>2, <4>1, <4>3
        <5>2. CASE p # Part
          BY <1>0, <3>2, <3>5, <5>1, <5>2 DEF PartsOK
        <5>3. CASE p = Part
          <6>1. Kind # "namespace" /\ p[1] = Obj.spec.namespace /\ parts'[p] = value
            BY <1>0, <3>2, <3>3, <4>1, <4>3, <5>3, KindsOfParts
          <6>2. parts[Part] # NoPart \/ Active(Obj.spec.namespace)
            BY <3>1, <3>5, <6>1 DEF WritesPart
          <6> QED
            BY <1>0, <3>2, <5>1, <5>3, <6>1, <6>2 DEF PartsOK, Active
        <5> QED
          BY <5>2, <5>3
      <4> QED
        BY <4>2, <4>3
    <3> QED
      BY <1>0, <3>2, <3>4, <3>5
  <2>3. CASE \E n \in {Obj.spec.namespace} : Terminates(n)
    <3>1. PICK n : Terminates(n) /\ n = Obj.spec.namespace
      BY <2>3
    <3>2. n \in Namespaces /\ Namespace(n) \in Parts
      BY <3>1, WorkerNamesANamespace, KindsOfParts DEF Terminates
    <3>3. parts[Namespace(n)] \in PartContents("namespace")
      BY <1>0, <3>1, <3>2, KindsOfParts DEF PartsOK, Terminates, Active
    <3> DEFINE new == [parts[Namespace(n)] EXCEPT !.terminating = TRUE]
    <3>4. new \in PartContents("namespace") /\ new # NoPart
      <4>1. new \in PartContents("namespace")
        BY <3>3 DEF PartContents
      <4> QED
        BY <4>1, KindsOfParts, TenantAssumption
    <3>5. parts' = [parts EXCEPT ![Namespace(n)] = new]
      BY <3>1 DEF Terminates
    <3> HIDE DEF new
    <3>6. \A p \in Parts : parts'[p] = NoPart <=> parts[p] = NoPart
      BY <1>0, <3>1, <3>4, <3>5 DEF Terminates, Active
    <3>7. \A p \in Parts : Namespace(p[1]) \in Parts
      BY KindsOfParts
    <3>8. \A p \in Parts : parts'[p] \in PartContents(p[2]) \cup {NoPart}
      <4> SUFFICES ASSUME NEW p \in Parts
                   PROVE  parts'[p] \in PartContents(p[2]) \cup {NoPart}
        OBVIOUS
      <4>1. CASE p = Namespace(n)
        BY <1>0, <3>2, <3>4, <3>5, <4>1, KindsOfParts
      <4>2. CASE p # Namespace(n)
        BY <1>0, <3>5, <4>2 DEF PartsOK
      <4> QED
        BY <4>1, <4>2
    <3> QED
      BY <1>0, <3>5, <3>6, <3>7, <3>8 DEF PartsOK
  <2>4. CASE \E n \in Namespaces : Purge(n)
    <3>1. PICK n \in Namespaces : Purge(n)
      BY <2>4
    <3> DEFINE inside == {n} \X (Kinds \ {"namespace"})
    <3>2. CASE \A p \in inside : parts[p] = NoPart
      <4>1. parts' = [parts EXCEPT ![Namespace(n)] = NoPart]
        BY <3>1, <3>2 DEF Purge
      <4>2. \A p \in Parts : p[1] = n /\ p # Namespace(n) => p \in inside
        <5> SUFFICES ASSUME NEW p \in Parts, p[1] = n, p # Namespace(n) PROVE p \in inside
          OBVIOUS
        <5>1. p[2] \in Kinds \ {"namespace"} /\ p = <<n, p[2]>>
          BY KindsOfParts
        <5> QED
          BY <5>1
      <4>3. Namespace(n) \in Parts /\ \A p \in Parts : Namespace(p[1]) \in Parts
        BY KindsOfParts
      <4>4. \A p \in Parts : p[1] # n => Namespace(p[1]) # Namespace(n)
        BY DEF Namespace
      <4>5. \A p \in Parts : parts'[p] # NoPart => parts'[p] = parts[p] /\ p[1] # n
        BY <1>0, <3>2, <4>1, <4>2, <4>3
      <4>6. \A p \in Parts : p[1] # n => parts'[Namespace(p[1])] = parts[Namespace(p[1])]
        BY <1>0, <4>1, <4>3, <4>4
      <4>7. \A p \in Parts : parts'[p] = NoPart \/ parts'[p] = parts[p]
        BY <4>5
      <4> QED
        BY <1>0, <4>1, <4>5, <4>6, <4>7 DEF PartsOK
    <3>3. CASE ~\A p \in inside : parts[p] = NoPart
      <4>1. parts' = [p \in Parts |-> IF p \in inside THEN NoPart ELSE parts[p]]
        BY <3>1, <3>3 DEF Purge
      <4>2. \A p \in Parts : Namespace(p[1]) \in Parts \ inside
        BY KindsOfParts DEF Namespace
      <4> QED
        BY <1>0, <4>1, <4>2 DEF PartsOK
    <3> QED
      BY <3>2, <3>3
  <2> QED
    BY <2>1, <2>2, <2>3, <2>4, PartsEffect
<1> QED
  BY <1>0, <1>1, <1>2 DEF PartsOK

LEMMA TenantTypeInvStep ==
  ASSUME TenantTypeInv, [TenantNext]_tenantVars
  PROVE  TenantTypeInv'
<1>0. RuntimeInv(TenantSteps, Locals)
  BY DEF TenantTypeInv
<1>1. PartsOK'
  BY PartsStayGood
<1>2. /\ RuntimeInv(TenantSteps, Locals)'
      /\ worker'.pc = "applyPart" => worker'.local \in [part : 1..4]
  <2>1. CASE UserNext /\ UNCHANGED outside
    <3>1. UNCHANGED worker
      BY <1>0, <2>1, UserEffect
    <3> QED
      BY <1>0, <2>1, <3>1, UsersKeepRuntimeInv DEF TenantTypeInv
  <2>2. CASE \E k \in Keys : (Sync(k) \/ TakeKey(k)) /\ UNCHANGED outside
    <3>1. PICK k \in Keys : Sync(k) \/ TakeKey(k)
      BY <2>2
    <3>2. CASE Sync(k)
      <4>1. UNCHANGED worker
        BY <3>2 DEF Sync
      <4> QED
        BY <1>0, <3>2, <4>1, SyncKeepsRuntimeInv DEF TenantTypeInv
    <3>3. CASE Skip(k)
      <4>1. UNCHANGED worker
        BY <3>3 DEF Skip
      <4> QED
        BY <1>0, <3>3, <4>1, IdleKeepsRuntimeInv DEF TenantTypeInv
    <3>4. CASE TakeKey(k) /\ ~Skip(k)
      <4>1. PICK step \in TenantSteps, local \in Locals :
              /\ Take(k, step, local) /\ cache[k] # NoObj
              /\ step = "applyPart" => local \in [part : 1..4]
        BY <3>4, TenantTakes
      <4>2. worker'.pc = step /\ worker'.local = local
        BY <4>1 DEF Take
      <4> QED
        BY <1>0, <4>1, <4>2, TakeKeepsRuntimeInv
    <3> QED
      BY <3>1, <3>2, <3>3, <3>4
  <2>3. CASE LocalStep /\ UNCHANGED outside
    <3>1. worker'.pc = "idle"
      BY <2>3, LocalStepsEnd DEF Idle
    <3> QED
      BY <1>0, <2>3, <3>1, TenantLocalStep, FinalizerStepKeepsRuntimeInv
  <2>4. CASE PartStep
    <3>1. worker.pc # "idle" /\ UNCHANGED <<objects, cache, edits, calm>>
      BY <2>4, TenantPartStep
    <3>2. CASE Retry
      <4>1. worker'.pc = "idle"
        BY <3>2 DEF Retry, Idle
      <4> QED
        BY <1>0, <3>1, <3>2, <4>1, GotoKeepsRuntimeInv
    <3>3. CASE ~Retry
      <4>1. PICK step \in TenantSteps :
              /\ Onward(step) /\ worker' \in Reconciles(Key, TenantSteps, Locals)
              /\ step = "applyPart" => worker'.local \in [part : 1..4]
              /\ UNCHANGED queue
        BY <2>4, <3>3, TenantPartStep
      <4>2. RuntimeInv(TenantSteps, Locals)'
        BY <1>0, <3>1, <4>1, OnwardKeepsRuntimeInv
      <4> QED
        BY <4>1, <4>2 DEF Onward
    <3> QED
      BY <3>2, <3>3
  <2>5. CASE Restart \/ Resync \/ BecomeCalm
    <3>1. UNCHANGED worker \/ worker'.pc = "idle"
      BY <2>5 DEF Restart, Resync, BecomeCalm, Idle
    <3> QED
      BY <1>0, <2>5, <3>1, IdleKeepsRuntimeInv DEF TenantTypeInv
  <2>6. CASE UNCHANGED runtimeVars
    BY <1>0, <2>6 DEF runtimeVars, TenantTypeInv, RuntimeInv, RuntimeTypeOK, Idle
  <2> QED
    BY <2>1, <2>2, <2>3, <2>4, <2>5, <2>6 DEF TenantNext, Step, Purge, See, tenantVars
<1> QED
  BY <1>1, <1>2 DEF TenantTypeInv

LEMMA TenantTypeInvInit ==
  ASSUME TenantInit
  PROVE  TenantTypeInv
<1>1. RuntimeInv(TenantSteps, Locals) /\ worker.pc = "idle"
  BY RuntimeInvInit DEF TenantInit, RuntimeInit, Idle
<1>2. parts = [p \in Parts |-> IF p[2] = "namespace" /\ p[1] \in Found
                               THEN [tenant |-> NoName, terminating |-> FALSE] ELSE NoPart]
      /\ seen = parts
  BY DEF TenantInit
<1>3. [tenant |-> NoName, terminating |-> FALSE] \in PartContents("namespace")
  BY DEF PartContents
<1>4. [tenant |-> NoName, terminating |-> FALSE] # NoPart
  BY <1>3, KindsOfParts, TenantAssumption
<1>5. PartsOK
  <2>1. \A p \in Parts : parts[p] # NoPart => p[2] = "namespace"
    BY <1>2
  <2>2. \A p \in Parts : parts[p] # NoPart => parts[Namespace(p[1])] # NoPart
    BY <2>1, KindsOfParts
  <2> QED
    BY <1>2, <1>3, <2>2 DEF PartsOK
<1> QED
  BY <1>1, <1>5 DEF TenantTypeInv

(* The stored and the cached resources, the reconcile and the namespaces   *)
(* keep their types, and nothing is in a namespace that does not exist.    *)
THEOREM TenantTypeCorrect == TenantSpec => []TenantTypeOK
<1>1. TenantInit => TenantTypeInv
  BY TenantTypeInvInit
<1>2. TenantTypeInv /\ [TenantNext]_tenantVars => TenantTypeInv'
  BY TenantTypeInvStep
<1>3. TenantTypeInv => TenantTypeOK
  BY DEF TenantTypeInv, TenantTypeOK, RuntimeInv, PartsOK, Locals
<1> QED
  BY <1>1, <1>2, <1>3, PTL DEF TenantSpec
----------------------------------------------------------------------------
(* A namespace is not orphaned.  The finalizer is on its way out only once *)
(* the deletion of the namespace was accepted, and a namespace is made only*)
(* by a reconcile that read its resource with the finalizer.               *)
TenantInv ==
  /\ TenantTypeInv
  /\ FinalizerInv(EnsureSteps, TeardownSteps)
  /\ worker.pc = "removeFinalizer" => ~Active(Obj.spec.namespace)
  /\ NoOrphanNamespace

(* What users must not do: rename the namespace of a resource.             *)
StableNamespaces ==
  \A k \in Keys : \A spec, other \in Specs[k] : spec.namespace = other.namespace

LEMMA TenantFinalizerInvStep ==
  ASSUME TenantTypeInv, FinalizerInv(EnsureSteps, TeardownSteps), [TenantNext]_tenantVars
  PROVE  FinalizerInv(EnsureSteps, TeardownSteps)'
<1>0. /\ RuntimeInv(TenantSteps, Locals)
      /\ "idle" \notin EnsureSteps \cup TeardownSteps /\ "removeFinalizer" \in TeardownSteps
  BY TenantStepSets DEF TenantTypeInv
<1>1. CASE UserNext
  BY <1>0, <1>1, UsersKeepFinalizerInv
<1>2. CASE \E k \in Keys : Sync(k) \/ TakeKey(k)
  <2>1. PICK k \in Keys : Sync(k) \/ TakeKey(k)
    BY <1>2
  <2>2. CASE Sync(k)
    BY <1>0, <2>2, SyncKeepsFinalizerInv
  <2>3. CASE Skip(k)
    BY <1>0, <2>3, IdleKeepsFinalizerInv
  <2>4. CASE TakeKey(k) /\ ~Skip(k)
    <3>1. PICK step \in TenantSteps, local \in Locals :
            /\ Take(k, step, local)
            /\ step \in EnsureSteps => Managed(k)
            /\ step \in TeardownSteps => Terminated(k)
      BY <2>4, TenantTakes
    <3> QED
      BY <1>0, <3>1, TakeKeepsFinalizerInv
  <2> QED
    BY <2>1, <2>2, <2>3, <2>4
<1>3. CASE LocalStep
  BY <1>0, <1>3, TenantLocalStep, FinalizerStepKeepsFinalizerInv
<1>4. CASE PartStep
  <2>1. worker.pc # "idle" /\ UNCHANGED <<objects, cache>>
    BY <1>4, TenantPartStep
  <2>2. CASE Retry
    BY <1>0, <2>1, <2>2, GotoKeepsFinalizerInv
  <2>3. CASE ~Retry
    <3>1. PICK step \in TenantSteps :
            /\ Onward(step)
            /\ step \in EnsureSteps => worker.pc \in EnsureSteps
            /\ step \in TeardownSteps => worker.pc \in TeardownSteps
      BY <1>4, <2>3, TenantPartStep
    <3> QED
      BY <2>1, <3>1, OnwardKeepsFinalizerInv
  <2> QED
    BY <2>2, <2>3
<1>5. CASE Restart \/ Resync \/ BecomeCalm
  BY <1>0, <1>5, IdleKeepsFinalizerInv
<1>6. CASE UNCHANGED runtimeVars
  BY <1>6 DEF runtimeVars, FinalizerInv, CacheInv, ReadInv, TeardownInv, Held, SameLife, Key, Obj
<1> QED
  BY <1>1, <1>2, <1>3, <1>4, <1>5, <1>6 DEF TenantNext, Step, Purge, See, tenantVars

(* What becomes of a namespace: only the worker makes one, or gives it to  *)
(* a tenant; and only it takes an active one down.                         *)
Unclaimed(n) == Active(n) /\ parts[Namespace(n)].tenant = NoName

LEMMA NamespaceEffect ==
  ASSUME TenantTypeInv, [TenantNext]_tenantVars, NEW n \in Namespaces
  PROVE  /\ Active(n)' => \/ Active(n) /\ UNCHANGED parts[Namespace(n)]
                          \/ worker.pc = "applyPart" /\ n = Obj.spec.namespace /\ ~Unclaimed(n)'
         /\ Active(n) /\ ~Active(n)' => worker.pc = "deleteNamespace" /\ n = Obj.spec.namespace
<1>0. DOMAIN parts = Parts /\ Namespace(n) \in Parts
  BY KindsOfParts DEF TenantTypeInv, PartsOK
<1>1. CASE UNCHANGED parts
  BY <1>1 DEF Active
<1>2. CASE \E value : WritesPart(value)
  <2>1. PICK value : WritesPart(value)
    BY <1>2
  <2>2. /\ Part \in Parts /\ Part = <<Obj.spec.namespace, Kind>> /\ worker.pc = "applyPart"
        /\ parts' = [parts EXCEPT ![Part] = value]
    BY <2>1, WrittenPartIsGood DEF WritesPart
  <2>3. CASE Part = Namespace(n)
    <3>1. Kind = "namespace" /\ n = Obj.spec.namespace
      BY <2>2, <2>3, KindsOfParts DEF Namespace
    <3>2. /\ value # NoPart /\ value.tenant \in Tenants
          /\ value.terminating => parts[Namespace(n)] # NoPart /\ parts[Namespace(n)].terminating
      BY <2>1, <2>3, <3>1, WrittenPartIsGood
    <3>3. parts'[Namespace(n)] = value /\ value.tenant # NoName
      BY <1>0, <2>2, <2>3, <3>2, TenantAssumption
    <3> QED
      BY <2>2, <3>1, <3>2, <3>3 DEF Active, Unclaimed
  <2>4. CASE Part # Namespace(n)
    <3>1. parts'[Namespace(n)] = parts[Namespace(n)]
      BY <1>0, <2>2, <2>4
    <3> QED
      BY <3>1 DEF Active
  <2> QED
    BY <2>3, <2>4
<1>3. CASE \E m \in {Obj.spec.namespace} : Terminates(m)
  <2>1. PICK m : Terminates(m) /\ m = Obj.spec.namespace
    BY <1>3
  <2>2. m \in Namespaces /\ Namespace(m) \in Parts /\ worker.pc = "deleteNamespace"
    BY <2>1, WorkerNamesANamespace, KindsOfParts DEF Terminates
  <2>3. CASE n = m
    <3>1. parts[Namespace(n)] \in PartContents("namespace")
      BY <1>0, <2>1, <2>3, KindsOfParts DEF TenantTypeInv, PartsOK, Terminates, Active
    <3>2. parts'[Namespace(n)] = [parts[Namespace(n)] EXCEPT !.terminating = TRUE]
      BY <1>0, <2>1, <2>3 DEF Terminates
    <3>3. parts'[Namespace(n)].terminating = TRUE
      BY <3>1, <3>2 DEF PartContents
    <3> QED
      BY <2>1, <2>2, <2>3, <3>3 DEF Active
  <2>4. CASE n # m
    <3>1. Namespace(n) # Namespace(m)
      BY <2>4 DEF Namespace
    <3>2. parts'[Namespace(n)] = parts[Namespace(n)]
      BY <1>0, <2>1, <3>1 DEF Terminates
    <3> QED
      BY <3>2 DEF Active
  <2> QED
    BY <2>3, <2>4
<1>4. CASE \E m \in Namespaces : Purge(m)
  <2>1. PICK m \in Namespaces : Purge(m)
    BY <1>4
  <2>2. parts'[Namespace(n)] \in {parts[Namespace(n)], NoPart}
    BY <1>0, <2>1 DEF Purge
  <2>3. m # n => parts'[Namespace(n)] = parts[Namespace(n)]
    <3>1. m # n => Namespace(n) # Namespace(m)
      BY DEF Namespace
    <3>2. m # n => Namespace(n) \notin {m} \X (Kinds \ {"namespace"})
      BY KindsOfParts DEF Namespace
    <3> QED
      BY <1>0, <2>1, <3>1, <3>2 DEF Purge
  <2> QED
    BY <2>1, <2>2, <2>3 DEF Purge, Active, Terminating
<1> QED
  BY <1>1, <1>2, <1>3, <1>4, PartsEffect

LEMMA TenantInvInit ==
  ASSUME TenantInit
  PROVE  TenantInv
<1>1. TenantTypeInv
  BY TenantTypeInvInit
<1>2. worker.pc = "idle" /\ FinalizerInv(EnsureSteps, TeardownSteps)
  BY TenantStepSets, FinalizerInvInit DEF TenantInit, RuntimeInit, Idle
<1>3. ASSUME NEW n \in Namespaces, Active(n)
      PROVE  parts[Namespace(n)].tenant = NoName
  <2>1. Namespace(n) \in Parts
    BY KindsOfParts
  <2> QED
    BY <1>3, <2>1 DEF TenantInit, Active
<1> QED
  BY <1>1, <1>2, <1>3 DEF TenantInv, NoOrphanNamespace

(* The deletion was accepted before the finalizer is taken off.            *)
LEMMA NamespaceGoesFirst ==
  ASSUME TenantInv, [TenantNext]_tenantVars, worker'.pc = "removeFinalizer"
  PROVE  ~Active(Obj.spec.namespace)'
<1>0. RuntimeInv(TenantSteps, Locals) /\ TenantTypeInv
  BY DEF TenantInv, TenantTypeInv
<1>1. CASE UNCHANGED worker /\ ~PartStep
  <2>1. worker.pc = "removeFinalizer" /\ Obj' = Obj /\ ~Active(Obj.spec.namespace)
    BY <1>1 DEF TenantInv, Obj
  <2>2. Obj.spec.namespace \in Namespaces
    BY <1>0, <2>1, WorkerNamesANamespace
  <2>3. ~Active(Obj.spec.namespace)' \/ Active(Obj.spec.namespace) \/ worker.pc = "applyPart"
    <3> DEFINE n == Obj.spec.namespace
    <3>1. /\ n \in Namespaces /\ n' = n
      BY <2>1, <2>2
    <3> HIDE DEF n
    <3>2. Active(n)' => Active(n) \/ worker.pc = "applyPart"
      BY <1>0, <3>1, NamespaceEffect
    <3> QED
      BY <3>2 DEF n
  <2> QED
    BY <2>1, <2>3
<1>2. CASE LocalStep \/ Restart
  BY <1>2, LocalStepsEnd DEF Restart, Idle
<1>3. CASE \E k \in Keys : TakeKey(k) /\ ~Skip(k)
  <2>1. PICK k \in Keys : TakeKey(k) /\ ~Skip(k)
    BY <1>3
  <2> QED
    BY <2>1, TenantTakes DEF Take
<1>4. CASE PartStep
  <2>1. PICK o \in Outcomes : ApplyPart(o) \/ DeleteQuota(o) \/ DeleteNamespace(o)
    BY <1>4 DEF PartStep
  <2>2. worker.pc # "idle" /\ worker \in Reconciles(Key, TenantSteps, Locals)
    BY <1>0, <1>4, TenantPartStep, WorkerAtAStep
  <2>3. ~ApplyPart(o) /\ ~DeleteQuota(o)
    <3>1. CASE ApplyPart(o) \/ DeleteQuota(o)
      <4>1. worker.pc = "applyPart" /\ (NextPart \/ Goto("failStatus"))
        BY <3>1 DEF ApplyPart, DeleteQuota, At
      <4>2. ~Goto("failStatus")
        BY <2>2 DEF Goto, Reconciles
      <4> QED
        BY <1>0, <4>1, <4>2, NextPartGoesOnward DEF Onward
    <3> QED
      BY <3>1
  <2>4. Goto("removeFinalizer") /\ DeleteNamespace(o) /\ o = "ok"
    BY <2>1, <2>3 DEF DeleteNamespace, Retry, Idle
  <2>5. Obj' = Obj
    BY <2>2, <2>4 DEF Goto, Reconciles, Obj
  <2> DEFINE n == Obj.spec.namespace
  <2>6. n \in Namespaces /\ Namespace(n) \in Parts /\ n' = n
    BY <1>0, <2>2, <2>5, WorkerNamesANamespace, KindsOfParts
  <2>7. CASE ~Active(n)
    BY <2>4, <2>5, <2>7 DEF DeleteNamespace, Active
  <2>8. CASE Active(n)
    <3>1. parts' = [parts EXCEPT ![Namespace(n)].terminating = TRUE]
      BY <2>4, <2>8 DEF DeleteNamespace, Call
    <3>2. DOMAIN parts = Parts /\ parts[Namespace(n)] \in PartContents("namespace")
      BY <1>0, <2>6, <2>8, KindsOfParts DEF TenantTypeInv, PartsOK, Active
    <3>3. parts'[Namespace(n)].terminating = TRUE
      BY <2>6, <3>1, <3>2 DEF PartContents
    <3> QED
      BY <2>6, <3>3 DEF Active
  <2> QED
    BY <2>7, <2>8
<1>5. CASE UNCHANGED worker /\ PartStep
  BY <1>4, <1>5
<1>6. UNCHANGED worker \/ PartStep \/ LocalStep \/ Restart \/ \E k \in Keys : TakeKey(k) /\ ~Skip(k)
  BY <1>0, UserEffect DEF TenantNext, Step, Sync, Skip, Resync, BecomeCalm, Purge, See,
    tenantVars, runtimeVars
<1> QED
  BY <1>1, <1>2, <1>3, <1>4, <1>6

(* A resource that holds a namespace is released only by the removal of    *)
(* the finalizer.                                                          *)
LEMMA HeldUnlessReleased ==
  ASSUME TenantInv, [TenantNext]_tenantVars, NEW k \in Keys, Held(k), ~Held(k)'
  PROVE  /\ worker.pc = "removeFinalizer" /\ k = Key /\ objects[k] = Obj
         /\ UNCHANGED parts
<1>0. RuntimeInv(TenantSteps, Locals) /\ TeardownInv(TeardownSteps) /\ TenantTypeInv
  BY DEF TenantInv, TenantTypeInv, FinalizerInv
<1>1. objects'[k] # objects[k]
  BY DEF Held
<1>2. ~UserNext
  BY <1>0, UserEffect DEF Held
<1>3. LocalStep /\ UNCHANGED parts
  BY <1>0, <1>1, <1>2, TenantPartStep DEF TenantNext, Step, outside, tenantVars, runtimeVars,
    Sync, TakeKey, Skip, StartAdoption, StartTeardown, StartMaterialize, Take, Restart, Resync,
    BecomeCalm, Purge, See
<1>4. PICK o \in Outcomes : FinalizerStep(o) \/ \E name \in Names \cup {NoName} : WriteReady(o, name)
  BY <1>0, <1>3, TenantLocalStep
<1>5. CASE RemoveFinalizer(o)
  BY <1>0, <1>1, <1>3, <1>5, TenantStepSets, RemoveFinalizerEffect DEF RemoveFinalizer, At
<1>6. CASE ~RemoveFinalizer(o)
  BY <1>0, <1>1, <1>4, <1>6, OtherWritesEffect DEF Keeps, Held, SameLife
<1> QED
  BY <1>5, <1>6

LEMMA SpecsOfResources ==
  ASSUME TenantTypeInv, NEW k \in Keys
  PROVE  objects[k] # NoObj => objects[k].spec \in Specs[k]
BY DEF TenantTypeInv, RuntimeInv, RuntimeTypeOK, CatalogObjects

LEMMA TenantInvStep ==
  ASSUME StableNamespaces, TenantInv, [TenantNext]_tenantVars
  PROVE  TenantInv'
<1>1. TenantTypeInv /\ TenantTypeInv'
  BY TenantTypeInvStep DEF TenantInv
<1>2. FinalizerInv(EnsureSteps, TeardownSteps)'
  BY TenantFinalizerInvStep DEF TenantInv
<1>3. worker'.pc = "removeFinalizer" => ~Active(Obj.spec.namespace)'
  BY NamespaceGoesFirst
<1>4. NoOrphanNamespace'
  <2> SUFFICES ASSUME NEW n \in Namespaces, Active(n)', parts'[Namespace(n)].tenant # NoName
               PROVE  \E k \in Keys : Held(k)' /\ objects'[k].spec.namespace = n
    BY DEF NoOrphanNamespace, HolderOf, Held
  <2>1. PICK k \in Keys : Held(k) /\ objects[k].spec.namespace = n
    <3>1. CASE Active(n) /\ UNCHANGED parts[Namespace(n)]
      BY <3>1 DEF TenantInv, NoOrphanNamespace, HolderOf, Held
    <3>2. CASE worker.pc = "applyPart" /\ n = Obj.spec.namespace
      <4>1. Key \in Keys /\ Held(Key) /\ Obj.spec \in Specs[Key]
        BY <1>1, <3>2, WorkerNamesANamespace DEF TenantInv, FinalizerInv, EnsureSteps
      <4>2. objects[Key].spec \in Specs[Key]
        BY <1>1, <4>1, SpecsOfResources DEF Held
      <4> QED
        BY <3>2, <4>1, <4>2 DEF StableNamespaces
    <3> QED
      BY <1>1, <3>1, <3>2, NamespaceEffect
  <2>2. Held(k)'
    <3> SUFFICES ASSUME ~Held(k)' PROVE FALSE
      OBVIOUS
    <3>1. worker.pc = "removeFinalizer" /\ k = Key /\ objects[k] = Obj /\ UNCHANGED parts
      BY <2>1, HeldUnlessReleased
    <3>2. Active(n)
      BY <3>1 DEF Active
    <3> QED
      BY <2>1, <3>1, <3>2 DEF TenantInv
  <2>3. objects[k].spec \in Specs[k] /\ objects'[k].spec \in Specs[k]
    BY <1>1, <2>1, <2>2 DEF TenantTypeInv, RuntimeInv, RuntimeTypeOK, CatalogObjects, Held
  <2> QED
    BY <2>1, <2>2, <2>3 DEF StableNamespaces
<1> QED
  BY <1>1, <1>2, <1>3, <1>4 DEF TenantInv

(* No namespace that was given to a tenant outlives its resource, also if  *)
(* the call that made it was reported as failed, or came from a reconcile  *)
(* that had read the resource long ago; provided that resources keep their *)
(* namespace.                                                              *)
THEOREM NoNamespaceIsOrphaned ==
  ASSUME StableNamespaces
  PROVE  TenantSpec => []NoOrphanNamespace
<1>1. TenantInit => TenantInv
  BY TenantInvInit
<1>2. TenantInv /\ [TenantNext]_tenantVars => TenantInv'
  BY TenantInvStep
<1>3. TenantInv => NoOrphanNamespace
  BY DEF TenantInv
<1> QED
  BY <1>1, <1>2, <1>3, PTL DEF TenantSpec
----------------------------------------------------------------------------
(* A teardown hits no successor.  A copy that says "deleting" of a resource*)
(* that is gone can only be of one whose namespace was taken down; so if   *)
(* that namespace is active again it was given to a tenant since, and has  *)
(* a holder, which is not the resource of the old copy.                    *)
DistinctNamespaces ==
  \A k, j \in Keys : \A spec \in Specs[k], other \in Specs[j] :
    k # j => spec.namespace # other.namespace

Outlived(copy, k) ==
  copy # NoObj /\ copy.deleting /\ ~SameLife(copy, objects[k])

OldCopiesInv ==
  /\ \A k \in Keys : Outlived(cache[k], k) => ~Unclaimed(cache[k].spec.namespace)
  /\ worker.pc \in TeardownSteps /\ Outlived(Obj, Key) => ~Unclaimed(Obj.spec.namespace)

LEMMA NeverUnclaimedAgain ==
  ASSUME TenantTypeInv, [TenantNext]_tenantVars, NEW n \in Namespaces, ~Unclaimed(n)
  PROVE  ~Unclaimed(n)'
BY NamespaceEffect DEF Unclaimed

(* The incarnation of a deleting copy ends only when its namespace was     *)
(* taken down.                                                             *)
LEMMA OutlivedUnlessReleased ==
  ASSUME StableNamespaces, TenantInv, [TenantNext]_tenantVars,
         NEW k \in Keys, NEW copy \in CatalogObjects(k),
         copy.deleting, SameLife(copy, objects[k]) => objects[k].deleting,
         Outlived(copy, k) => ~Unclaimed(copy.spec.namespace),
         copy # NoObj /\ ~SameLife(copy, objects'[k])
  PROVE  \A n \in Namespaces : n = copy.spec.namespace => ~Unclaimed(n)'
<1>0. TenantTypeInv /\ RuntimeInv(TenantSteps, Locals)
  BY DEF TenantInv, TenantTypeInv
<1>1. copy.spec \in Specs[k] /\ copy.spec.namespace \in Namespaces
  BY TenantAssumption DEF CatalogObjects, TenantSpecs
<1>2. ~Unclaimed(copy.spec.namespace)
  <2>1. CASE ~SameLife(copy, objects[k])
    BY <2>1 DEF Outlived
  <2>2. CASE SameLife(copy, objects[k])
    <3>1. objects[k] # NoObj /\ objects[k].deleting /\ objects[k].finalizer
      BY <1>0, <2>2 DEF SameLife, RuntimeInv, RuntimeTypeOK
    <3>2. ~Held(k)'
      <4>1. CASE UserNext
        BY <1>0, <2>2, <3>1, <4>1, UserEffect DEF SameLife
      <4>2. CASE ~UserNext
        <5>1. \/ objects'[k] = objects[k]
              \/ LocalStep
          BY <1>0, <4>2, TenantPartStep DEF TenantNext, Step, tenantVars, runtimeVars,
            Sync, TakeKey, Skip, StartAdoption, StartTeardown, StartMaterialize, Take, Restart,
            Resync, BecomeCalm, Purge, See
        <5>2. CASE objects'[k] = objects[k]
          BY <2>2, <5>2
        <5>3. CASE LocalStep
          <6>1. PICK o \in Outcomes : FinalizerStep(o) \/ \E name \in Names \cup {NoName} : WriteReady(o, name)
            BY <1>0, <5>3, TenantLocalStep
          <6>2. CASE RemoveFinalizer(o)
            <7>1. objects'[k] = objects[k] \/ objects'[k] = NoObj
              BY <1>0, <6>2, TenantStepSets, RemoveFinalizerEffect DEF TenantInv, FinalizerInv
            <7> QED
              BY <2>2, <7>1 DEF Held
          <6>3. CASE ~RemoveFinalizer(o)
            BY <1>0, <2>2, <6>1, <6>3, OtherWritesEffect DEF Keeps, SameLife
          <6> QED
            BY <6>2, <6>3
        <5> QED
          BY <5>1, <5>2, <5>3
      <4> QED
        BY <4>1, <4>2
    <3>3. /\ worker.pc = "removeFinalizer" /\ k = Key /\ objects[k] = Obj
      BY <3>1, <3>2, HeldUnlessReleased DEF Held
    <3>4. Obj.spec.namespace = copy.spec.namespace
      BY <1>0, <1>1, <3>1, <3>3, SpecsOfResources DEF StableNamespaces
    <3> QED
      BY <3>3, <3>4 DEF TenantInv, Unclaimed
  <2> QED
    BY <2>1, <2>2
<1> QED
  BY <1>0, <1>2, NeverUnclaimedAgain

(* Which copy a reconcile works with.                                      *)
LEMMA CopyInUse ==
  ASSUME TenantTypeInv, [TenantNext]_tenantVars, worker'.pc # "idle"
  PROVE  \/ /\ worker.pc # "idle" /\ Key' = Key /\ Obj' = Obj
            /\ worker'.pc \in TeardownSteps => worker.pc \in TeardownSteps
         \/ /\ Key' \in Keys /\ Obj' = cache[Key'] /\ cache[Key'] # NoObj
            /\ UNCHANGED <<objects, cache>>
<1>0. RuntimeInv(TenantSteps, Locals)
  BY DEF TenantTypeInv
<1>1. CASE UNCHANGED worker
  BY <1>1 DEF Key, Obj
<1>2. CASE LocalStep \/ Restart
  BY <1>2, LocalStepsEnd, TenantStepSets DEF Restart, Idle
<1>3. CASE \E k \in Keys : TakeKey(k) /\ ~Skip(k)
  <2>1. PICK k \in Keys : TakeKey(k) /\ ~Skip(k)
    BY <1>3
  <2>2. PICK step \in TenantSteps, local \in Locals : Take(k, step, local) /\ cache[k] # NoObj
    BY <2>1, TenantTakes
  <2> QED
    BY <2>2 DEF Take, Key, Obj
<1>4. CASE PartStep
  <2>1. CASE Retry
    BY <2>1, TenantStepSets DEF Retry, Idle
  <2>2. CASE ~Retry
    BY <1>0, <1>4, <2>2, TenantPartStep DEF Onward
  <2> QED
    BY <2>1, <2>2
<1> QED
  BY <1>0, <1>1, <1>2, <1>3, <1>4, UserEffect DEF TenantNext, Step, Sync, TakeKey, Skip, Resync,
    BecomeCalm, Purge, See, tenantVars, runtimeVars

LEMMA CopyEffect ==
  ASSUME TenantTypeInv, [TenantNext]_tenantVars, NEW k \in Keys
  PROVE  cache'[k] = cache[k] \/ cache'[k] = objects'[k]
<1>1. CASE UserNext
  BY <1>1, UserEffect DEF TenantTypeInv
<1>2. CASE PartStep
  BY <1>2, TenantPartStep
<1>3. CASE \E j \in Keys : Sync(j)
  BY <1>3 DEF Sync, TenantTypeInv, RuntimeInv, RuntimeTypeOK
<1>4. CASE LocalStep
  BY <1>4 DEF LocalStep, FinalizerStep, AddFinalizer, RemoveFinalizer, WriteFailed,
              WriteTenantReady, WriteReady
<1>5. CASE Restart
  BY <1>5 DEF Restart
<1> QED
  BY <1>1, <1>2, <1>3, <1>4, <1>5 DEF TenantNext, Step, TakeKey, Skip, StartAdoption,
    StartTeardown, StartMaterialize, Take, Resync, BecomeCalm, Purge, See, tenantVars, runtimeVars

LEMMA OldCopiesInvStep ==
  ASSUME StableNamespaces, TenantInv, OldCopiesInv, [TenantNext]_tenantVars
  PROVE  OldCopiesInv'
<1>0. /\ TenantTypeInv /\ RuntimeInv(TenantSteps, Locals)
      /\ CacheInv /\ TeardownInv(TeardownSteps)
  BY DEF TenantInv, TenantTypeInv, FinalizerInv
<1>1. ASSUME NEW k \in Keys, cache[k] # NoObj, cache[k].deleting,
             ~SameLife(cache[k], objects'[k])
      PROVE  \A n \in Namespaces : n = cache[k].spec.namespace => ~Unclaimed(n)'
  <2>1. cache[k] \in CatalogObjects(k)
    BY <1>0, <1>1 DEF RuntimeInv, RuntimeTypeOK
  <2>2. SameLife(cache[k], objects[k]) => objects[k].deleting
    BY <1>0, <1>1 DEF CacheInv
  <2>3. Outlived(cache[k], k) => ~Unclaimed(cache[k].spec.namespace)
    BY DEF OldCopiesInv
  <2> QED
    BY <1>1, <2>1, <2>2, <2>3, OutlivedUnlessReleased
<1>2. ASSUME NEW k \in Keys, Outlived(cache[k], k)'
      PROVE  ~Unclaimed(cache[k].spec.namespace)'
  <2>1. cache'[k] = cache[k]
    BY <1>0, <1>2, CopyEffect DEF Outlived, SameLife
  <2>2. cache[k] # NoObj /\ cache[k].deleting /\ ~SameLife(cache[k], objects'[k])
    BY <1>2, <2>1 DEF Outlived, SameLife
  <2>3. PICK n \in Namespaces : n = cache[k].spec.namespace
    BY <1>0, <2>2, TenantAssumption DEF RuntimeInv, RuntimeTypeOK, CatalogObjects, TenantSpecs
  <2>4. ~Unclaimed(n)' /\ n = cache'[k].spec.namespace
    BY <1>1, <2>1, <2>2, <2>3
  <2> QED
    BY <2>4
<1>3. ASSUME worker'.pc \in TeardownSteps, Outlived(Obj, Key)'
      PROVE  ~Unclaimed(Obj.spec.namespace)'
  <2>1. CASE worker.pc \in TeardownSteps /\ Key' = Key /\ Obj' = Obj
    <3>1. Key \in Keys /\ Obj \in CatalogObjects(Key)
      BY <1>0, <2>1, TenantStepSets, WorkerNamesANamespace
    <3>2. Obj.deleting /\ (SameLife(Obj, objects[Key]) => objects[Key].deleting)
      BY <1>0, <2>1 DEF TeardownInv
    <3>3. Outlived(Obj, Key) => ~Unclaimed(Obj.spec.namespace)
      BY <2>1 DEF OldCopiesInv
    <3>4. Obj # NoObj /\ ~SameLife(Obj, objects'[Key])
      BY <1>3, <2>1 DEF Outlived, SameLife
    <3>5. PICK n \in Namespaces : n = Obj.spec.namespace
      BY <1>0, <2>1, TenantStepSets, WorkerNamesANamespace
    <3>6. ~Unclaimed(n)'
      BY <3>1, <3>2, <3>3, <3>4, <3>5, OutlivedUnlessReleased
    <3>7. n = Obj'.spec.namespace
      BY <2>1, <3>5
    <3> QED
      BY <3>6, <3>7
  <2>2. CASE /\ Key' \in Keys /\ Obj' = cache[Key'] /\ cache[Key'] # NoObj
             /\ UNCHANGED <<objects, cache>>
    <3>1. PICK k \in Keys : k = Key'
      BY <2>2
    <3>2. cache[k] # NoObj /\ cache[k].deleting /\ ~SameLife(cache[k], objects'[k])
      BY <1>3, <2>2, <3>1 DEF Outlived, SameLife
    <3>3. PICK n \in Namespaces : n = cache[k].spec.namespace
      BY <1>0, <3>2, TenantAssumption DEF RuntimeInv, RuntimeTypeOK, CatalogObjects, TenantSpecs
    <3>4. ~Unclaimed(n)' /\ n = Obj'.spec.namespace
      BY <1>1, <2>2, <3>1, <3>2, <3>3
    <3> QED
      BY <3>4
  <2> QED
    BY <1>0, <1>3, <2>1, <2>2, CopyInUse, TenantStepSets
<1> QED
  BY <1>2, <1>3 DEF OldCopiesInv

(* A namespace is terminated only while the resource that holds it is being*)
(* deleted, however old the copy is that the teardown works with; provided *)
(* that resources keep their namespaces and do not share them.             *)
THEOREM NoNamespaceIsTornDownAlive ==
  ASSUME StableNamespaces, DistinctNamespaces
  PROVE  TenantSpec => NamespaceGoesOnlyWithItsResource
<1> DEFINE Inv == TenantInv /\ OldCopiesInv
<1>1. TenantInit => Inv
  <2>1. TenantInit => worker.pc = "idle" /\ \A k \in Keys : cache[k] = NoObj
    BY DEF TenantInit, RuntimeInit, Idle
  <2> QED
    BY <2>1, TenantInvInit, TenantStepSets DEF OldCopiesInv, Outlived
<1>2. Inv /\ [TenantNext]_tenantVars => Inv'
  BY TenantInvStep, OldCopiesInvStep
<1>3. Inv /\ [TenantNext]_tenantVars =>
        [\A n \in Namespaces :
           Active(n) /\ ~Active(n)' => \E k \in HolderOf(n) : objects[k].deleting]_tenantVars
  <2> SUFFICES ASSUME Inv, [TenantNext]_tenantVars, NEW n \in Namespaces, Active(n), ~Active(n)'
               PROVE  \E k \in HolderOf(n) : objects[k].deleting
    OBVIOUS
  <2>1. TenantTypeInv /\ worker.pc = "deleteNamespace" /\ n = Obj.spec.namespace
    BY NamespaceEffect DEF TenantInv
  <2>2. Key \in Keys /\ Obj \in CatalogObjects(Key) /\ Obj # NoObj /\ Obj.spec \in Specs[Key]
    BY <2>1, WorkerNamesANamespace, NoObjIsNoObject
  <2>3. /\ Obj.deleting /\ (Held(Key) => SameLife(Obj, objects[Key]))
        /\ SameLife(Obj, objects[Key]) => objects[Key].deleting
    BY <2>1 DEF TenantInv, FinalizerInv, TeardownInv, TeardownSteps
  <2>4. SameLife(Obj, objects[Key])
    <3> SUFFICES ASSUME ~SameLife(Obj, objects[Key]) PROVE FALSE
      OBVIOUS
    <3>1. Outlived(Obj, Key)
      BY <2>2, <2>3 DEF Outlived
    <3>2. ~Unclaimed(n)
      BY <2>1, <3>1 DEF OldCopiesInv, TeardownSteps
    <3>3. PICK k \in Keys : objects[k] # NoObj /\ Held(k) /\ objects[k].spec.namespace = n
      BY <3>2 DEF Unclaimed, TenantInv, NoOrphanNamespace, HolderOf, Held
    <3>4. k = Key
      BY <2>1, <2>2, <3>3, SpecsOfResources DEF DistinctNamespaces
    <3> QED
      BY <2>3, <3>3, <3>4
  <2>5. objects[Key] # NoObj /\ objects[Key].deleting /\ objects[Key].finalizer
    BY <2>1, <2>2, <2>3, <2>4 DEF SameLife, TenantTypeInv, RuntimeInv, RuntimeTypeOK
  <2>6. objects[Key].spec.namespace = n
    BY <2>1, <2>2, <2>5, SpecsOfResources DEF StableNamespaces
  <2> QED
    BY <2>2, <2>5, <2>6 DEF HolderOf
<1> QED
  BY <1>1, <1>2, <1>3, PTL DEF TenantSpec, NamespaceGoesOnlyWithItsResource

----------------------------------------------------------------------------
(* No wakeup is lost.                                                      *)
LEMMA TenantVersionInvStep ==
  ASSUME TenantTypeInv, VersionInv(ManageSteps), [TenantNext]_tenantVars
  PROVE  VersionInv(ManageSteps)'
<1>0. /\ RuntimeInv(TenantSteps, Locals)
      /\ "idle" \notin ManageSteps /\ "readyStatus" \in ManageSteps
  BY TenantStepSets DEF TenantTypeInv
<1>1. CASE UserNext
  BY <1>0, <1>1, UsersKeepVersionInv
<1>2. CASE \E k \in Keys : Sync(k) \/ TakeKey(k)
  <2>1. PICK k \in Keys : Sync(k) \/ TakeKey(k)
    BY <1>2
  <2>2. CASE Sync(k)
    BY <1>0, <2>2, SyncKeepsVersionInv
  <2>3. CASE Skip(k)
    BY <1>0, <2>3, IdleKeepsVersionInv
  <2>4. CASE TakeKey(k) /\ ~Skip(k)
    <3>1. PICK step \in TenantSteps, local \in Locals :
            /\ Take(k, step, local) /\ cache[k] # NoObj
            /\ step \in ManageSteps => ~cache[k].deleting
      BY <2>4, TenantTakes DEF Managed
    <3> QED
      BY <1>0, <3>1, TakeKeepsVersionInv
  <2> QED
    BY <2>1, <2>2, <2>3, <2>4
<1>3. CASE LocalStep
  BY <1>0, <1>3, TenantLocalStep, FinalizerStepKeepsVersionInv
<1>4. CASE PartStep
  <2>1. worker.pc # "idle" /\ UNCHANGED <<objects, cache>>
    BY <1>4, TenantPartStep
  <2>2. CASE Retry
    BY <1>0, <2>1, <2>2, GotoKeepsVersionInv
  <2>3. CASE ~Retry
    <3>1. PICK step \in TenantSteps :
            Onward(step) /\ (step \in ManageSteps => worker.pc \in ManageSteps)
      BY <1>4, <2>3, TenantPartStep
    <3> QED
      BY <2>1, <3>1, OnwardKeepsVersionInv
  <2> QED
    BY <2>2, <2>3
<1>5. CASE Restart \/ Resync \/ BecomeCalm
  BY <1>0, <1>5, IdleKeepsVersionInv
<1>6. CASE UNCHANGED runtimeVars
  BY <1>6 DEF runtimeVars, VersionInv, CopiesInv, ReadyInv, Precedes, SameVersion, SameLife,
    Ready, Key, Obj
<1> QED
  BY <1>1, <1>2, <1>3, <1>4, <1>5, <1>6 DEF TenantNext, Step, Purge, See, tenantVars

TenantWakeInv ==
  /\ TenantTypeInv
  /\ FinalizerInv(EnsureSteps, TeardownSteps)
  /\ VersionInv(ManageSteps)
  /\ WakeInv(ManageSteps, {})

LEMMA TenantWakeInvStep ==
  ASSUME TenantWakeInv, [TenantNext]_tenantVars
  PROVE  WakeInv(ManageSteps, {})'
<1>0. /\ TenantTypeInv /\ RuntimeInv(TenantSteps, Locals) /\ CopiesInv /\ CacheInv
      /\ TeardownInv(TeardownSteps) /\ WakeInv(ManageSteps, {})
      /\ "idle" \notin ManageSteps /\ "readyStatus" \in ManageSteps
      /\ "removeFinalizer" \in TeardownSteps /\ "idle" \notin TenantSteps
  BY TenantStepSets DEF TenantWakeInv, TenantTypeInv, FinalizerInv, VersionInv
<1>1. CASE UserNext
  BY <1>0, <1>1, UsersKeepWakeInv
<1>2. CASE \E k \in Keys : Sync(k) \/ TakeKey(k)
  <2>1. PICK k \in Keys : Sync(k) \/ TakeKey(k)
    BY <1>2
  <2>2. CASE Sync(k)
    BY <1>0, <2>2, SyncKeepsWakeInv
  <2>3. CASE Skip(k)
    BY <1>0, <2>3, IdleKeepsWakeInv
  <2>4. CASE TakeKey(k) /\ ~Skip(k)
    <3>1. PICK step \in TenantSteps, local \in Locals :
            /\ Take(k, step, local)
            /\ step \in ManageSteps => cache[k].finalizer /\ ~cache[k].deleting
            /\ step = "addFinalizer" => ~cache[k].finalizer
      BY <2>4, TenantTakes DEF Managed
    <3> QED
      BY <1>0, <3>1, TakeKeepsWakeInv
  <2> QED
    BY <2>1, <2>2, <2>3, <2>4
<1>3. CASE LocalStep
  BY <1>0, <1>3, TenantLocalStep, FinalizerStepKeepsWakeInv
<1>4. CASE PartStep
  <2>1. worker.pc # "idle" /\ UNCHANGED <<objects, cache>>
    BY <1>0, <1>4, TenantPartStep
  <2>2. CASE Retry
    BY <1>0, <2>1, <2>2, GotoKeepsWakeInv
  <2>3. CASE ~Retry
    <3>1. PICK step \in TenantSteps :
            /\ Onward(step) /\ (step \in ManageSteps => worker.pc \in ManageSteps)
            /\ step # "addFinalizer" /\ UNCHANGED queue
      BY <1>0, <1>4, <2>3, TenantPartStep
    <3> QED
      BY <1>0, <2>1, <3>1, OnwardKeepsWakeInv
  <2> QED
    BY <2>2, <2>3
<1>5. CASE Restart \/ Resync \/ BecomeCalm
  BY <1>0, <1>5, IdleKeepsWakeInv
<1>6. CASE UNCHANGED runtimeVars
  BY <1>0, <1>6 DEF runtimeVars, WakeInv, StatusInv, FreshInv, ResultInv, Quiet, Arrived, Ready,
    Key, Obj
<1> QED
  BY <1>1, <1>2, <1>3, <1>4, <1>5, <1>6 DEF TenantNext, Step, Purge, See, tenantVars

LEMMA TenantWakeInvInit ==
  ASSUME TenantInit
  PROVE  TenantWakeInv
<1>1. worker = Idle /\ \A k \in Keys : objects[k] = NoObj /\ cache[k] = NoObj
  BY DEF TenantInit, RuntimeInit
<1>2. StatusInv
  BY <1>1 DEF StatusInv
<1> QED
  BY <1>1, <1>2, TenantStepSets, TenantInvInit, VersionInvInit, WakeInvInit
    DEF TenantInv, TenantWakeInv

(* A tenant that the operator will not look at again by itself is Ready at *)
(* its generation and not waiting to be deleted: a namespace that is still *)
(* terminating, a quota that cannot be parsed, a conflict on a part and    *)
(* whatever is lost, stale or crashed on the way keeps its key in the queue*)
(* or an event of it to come.                                              *)
THEOREM NoTenantWakeupIsLost == TenantSpec => []QuietIsReady
<1>1. TenantInit => TenantWakeInv
  BY TenantWakeInvInit
<1>2. TenantWakeInv /\ [TenantNext]_tenantVars => TenantWakeInv'
  BY TenantTypeInvStep, TenantFinalizerInvStep, TenantVersionInvStep, TenantWakeInvStep
    DEF TenantWakeInv
<1>3. TenantWakeInv => QuietIsReady
  BY WakeInvMeansReady DEF TenantWakeInv
<1> QED
  BY <1>1, <1>2, <1>3, PTL DEF TenantSpec
----------------------------------------------------------------------------
(* Who comes first is confined.  Until users do something nothing happens; *)
(* so all copies of the first resource are of the first resource, and no   *)
(* teardown can have its namespace: it is not terminating, nothing that    *)
(* confines the tenant is taken out of it, and a cache that has such a part*)
(* is right about that.                                                    *)
Confining == {"namespace", "roleBinding", "networkPolicy"}

Untouched ==
  /\ worker.pc = "idle" /\ \A k \in Keys : objects[k] = NoObj /\ cache[k] = NoObj
  /\ \A n \in Namespaces : ~Terminating(n)
  /\ \A p \in Parts : seen[p] = parts[p]

IsFirst(k) == objects[k] # NoObj /\ objects[k].uid = 1 /\ ~objects[k].deleting

FirstIsRead(k) ==
  /\ cache[k] # NoObj => cache[k].uid = 1
  /\ worker.pc # "idle" /\ Key = k => Obj.uid = 1

(* The part is behind the reconcile.                                       *)
Passed(kind) ==
  \/ worker.pc = "readyStatus"
  \/ worker.pc = "applyPart" /\ \E i \in 1..4 : i < worker.local.part /\ Order[i] = kind

Confines(n) ==
  /\ ~Terminating(n)
  /\ \A kind \in Confining :
       seen[<<n, kind>>] # NoPart \/ (Passed(kind) /\ Obj.spec.namespace = n) =>
         parts[<<n, kind>>] # NoPart

ConfinedInv ==
  /\ TenantTypeInv
  /\ FinalizerInv(EnsureSteps, TeardownSteps)
  /\ edits = 0 => Untouched
  /\ \A k \in Keys : IsFirst(k) => FirstIsRead(k) /\ Confines(objects[k].spec.namespace)
  /\ FirstTenantIsConfined

(* What becomes of a namespace that is not terminating.                    *)
LEMMA TerminatingEffect ==
  ASSUME TenantTypeInv, [TenantNext]_tenantVars, NEW n \in Namespaces, Terminating(n)'
  PROVE  Terminating(n) \/ (worker.pc = "deleteNamespace" /\ n = Obj.spec.namespace)
<1>0. DOMAIN parts = Parts /\ Namespace(n) \in Parts
  BY KindsOfParts DEF TenantTypeInv, PartsOK
<1>1. CASE UNCHANGED parts
  BY <1>1 DEF Terminating
<1>2. CASE \E value : WritesPart(value)
  <2>1. PICK value : WritesPart(value)
    BY <1>2
  <2>2. parts' = [parts EXCEPT ![Part] = value] /\ Part = <<Obj.spec.namespace, Kind>>
    BY <2>1, WrittenPartIsGood DEF WritesPart
  <2>3. CASE Part = Namespace(n)
    <3>1. Kind = "namespace"
      BY <2>2, <2>3 DEF Namespace
    <3>2. value.terminating => Terminating(n)
      BY <2>1, <2>3, <3>1, WrittenPartIsGood DEF Terminating
    <3> QED
      BY <1>0, <2>2, <2>3, <3>2 DEF Terminating
  <2>4. CASE Part # Namespace(n)
    BY <1>0, <2>2, <2>4 DEF Terminating
  <2> QED
    BY <2>3, <2>4
<1>3. CASE \E m \in {Obj.spec.namespace} : Terminates(m)
  <2>1. PICK m : Terminates(m) /\ m = Obj.spec.namespace
    BY <1>3
  <2>2. CASE n # m
    <3>1. Namespace(n) # Namespace(m)
      BY <2>2 DEF Namespace
    <3> QED
      BY <1>0, <2>1, <3>1 DEF Terminates, Terminating
  <2> QED
    BY <2>1, <2>2 DEF Terminates
<1>4. CASE \E m \in Namespaces : Purge(m)
  BY <1>0, <1>4 DEF Purge, Terminating
<1> QED
  BY <1>1, <1>2, <1>3, <1>4, PartsEffect

LEMMA ConfiningParts ==
  ASSUME NEW n \in Namespaces, NEW kind \in Confining
  PROVE  <<n, kind>> \in Parts /\ kind \in Kinds /\ kind # "quota"
BY KindsOfParts DEF Confining

LEMMA PartStays ==
  ASSUME TenantTypeInv, [TenantNext]_tenantVars, NEW n \in Namespaces, ~Terminating(n),
         NEW kind \in Confining, parts[<<n, kind>>] # NoPart
  PROVE  parts'[<<n, kind>>] # NoPart
<1> DEFINE part == <<n, kind>>
<1>0. DOMAIN parts = Parts /\ part \in Parts /\ kind # "quota"
  BY ConfiningParts DEF TenantTypeInv, PartsOK
<1>1. CASE UNCHANGED parts
  BY <1>1
<1>2. CASE \E value : WritesPart(value)
  <2>1. PICK value : WritesPart(value)
    BY <1>2
  <2>2. parts' = [parts EXCEPT ![Part] = value] /\ Part = <<Obj.spec.namespace, Kind>>
    BY <2>1, WrittenPartIsGood DEF WritesPart
  <2>3. part = Part => value # NoPart
    BY <1>0, <2>1, <2>2, WrittenPartIsGood
  <2> QED
    BY <1>0, <2>2, <2>3
<1>3. CASE \E m \in {Obj.spec.namespace} : Terminates(m)
  <2>1. PICK m : Terminates(m)
    BY <1>3
  <2>2. m \in Namespaces
    BY <2>1, WorkerNamesANamespace DEF Terminates
  <2> DEFINE new == [parts[Namespace(m)] EXCEPT !.terminating = TRUE]
  <2>3. Namespace(m) \in Parts /\ parts[Namespace(m)] \in PartContents("namespace")
    BY <1>0, <2>1, <2>2, KindsOfParts DEF TenantTypeInv, PartsOK, Terminates, Active
  <2>4. new \in PartContents("namespace")
    BY <2>3 DEF PartContents
  <2>5. new # NoPart
    BY <2>4, KindsOfParts, TenantAssumption
  <2> QED
    BY <1>0, <2>1, <2>5 DEF Terminates
<1>4. CASE \E m \in Namespaces : Purge(m)
  <2>1. PICK m \in Namespaces : Purge(m)
    BY <1>4
  <2>2. m # n
    BY <2>1 DEF Purge
  <2>3. part \notin {m} \X (Kinds \ {"namespace"}) /\ part # Namespace(m)
    BY <2>2 DEF Namespace
  <2>4. parts'[part] = parts[part]
    BY <1>0, <2>1, <2>3 DEF Purge
  <2> QED
    BY <2>4
<1> QED
  BY <1>1, <1>2, <1>3, <1>4, PartsEffect

(* A reconcile passes a part that is there, unless the cache is wrong.     *)
LEMMA PassedEffect ==
  ASSUME TenantTypeInv, [TenantNext]_tenantVars, NEW kind \in Confining, Passed(kind)'
  PROVE  /\ worker.pc # "idle" /\ Obj' = Obj
         /\ \/ Passed(kind)
            \/ /\ worker.pc = "applyPart" /\ Kind = kind
               /\ seen[Part] # NoPart \/ parts'[Part] # NoPart
<1>0. worker'.pc \in {"applyPart", "readyStatus"} /\ worker'.pc # "idle"
  BY DEF Passed
<1>1. CASE UNCHANGED worker
  BY <1>0, <1>1 DEF Passed, Obj
<1>2. CASE LocalStep \/ Restart
  BY <1>0, <1>2, LocalStepsEnd DEF Restart, Idle
<1>3. CASE \E k \in Keys : TakeKey(k) /\ ~Skip(k)
  BY <1>0, <1>3 DEF TakeKey, StartAdoption, StartTeardown, StartMaterialize, Take, Passed, First
<1>4. CASE PartStep
  <2>1. PICK o \in Outcomes : ApplyPart(o) \/ DeleteQuota(o) \/ DeleteNamespace(o)
    BY <1>4 DEF PartStep
  <2>2. worker.pc \in {"applyPart", "deleteNamespace"} /\ worker.pc # "idle"
    BY <1>4, TenantPartStep
  <2>3. worker \in Reconciles(Key, TenantSteps, Locals)
    BY <2>2, WorkerAtAStep DEF TenantTypeInv
  <2>4. ~Retry /\ ~Goto("failStatus") /\ ~Goto("removeFinalizer")
    BY <1>0, <2>3 DEF Retry, Idle, Goto, Reconciles
  <2>5. /\ worker.pc = "applyPart" /\ NextPart /\ worker.local \in [part : 1..4]
        /\ Unwanted \/ (ApplyPart(o) /\ Parsed /\ ~Unwanted /\ (Read = Desired \/ Accepted)
                         /\ o = "ok")
    BY <2>1, <2>4 DEF ApplyPart, DeleteQuota, DeleteNamespace, At, TenantTypeInv
  <2>6. Obj' = Obj
    BY <2>5, NextPartGoesOnward DEF Onward
  <2>7. Passed(kind) \/ Kind = kind
    <3>1. CASE worker.local.part < 4
      <4>1. worker' = [worker EXCEPT !.local.part = @ + 1]
        BY <2>5, <3>1 DEF NextPart
      <4>2. worker'.pc = "applyPart" /\ worker'.local.part = worker.local.part + 1
        BY <2>3, <2>5, <4>1 DEF Reconciles
      <4>3. PICK i \in 1..4 : i < worker.local.part + 1 /\ Order[i] = kind
        BY <4>2 DEF Passed
      <4>4. i < worker.local.part \/ i = worker.local.part
        BY <2>5, <4>3
      <4> QED
        BY <2>5, <4>3, <4>4 DEF Passed, Kind
    <3>2. CASE ~(worker.local.part < 4)
      <4>1. worker.local.part = 4
        BY <2>5, <3>2
      <4>2. \E i \in 1..4 : i < 4 /\ Order[i] = kind
        BY DEF Confining, Order
      <4> QED
        BY <2>5, <4>1, <4>2 DEF Passed
    <3> QED
      BY <3>1, <3>2
  <2>8. CASE Kind = kind
    <3>1. ApplyPart(o) /\ Parsed /\ ~Unwanted /\ (Read = Desired \/ Accepted) /\ o = "ok"
      BY <2>5, <2>8 DEF Unwanted, Confining
    <3>2. Desired # NoPart
      BY <2>5, <3>1, DesiredIsAPart
    <3>3. Part \in DOMAIN parts
      BY <2>2, <2>8, ConfiningParts, WorkerNamesANamespace DEF Part, TenantTypeInv, PartsOK
    <3>4. Read = Desired \/ parts' = [parts EXCEPT ![Part] = Desired]
      BY <3>1 DEF ApplyPart, Call
    <3> QED
      BY <2>5, <2>6, <2>8, <3>2, <3>3, <3>4 DEF Read
  <2> QED
    BY <2>2, <2>6, <2>7, <2>8
<1>5. UNCHANGED worker \/ PartStep \/ LocalStep \/ Restart \/ \E k \in Keys : TakeKey(k) /\ ~Skip(k)
  BY UserEffect DEF TenantNext, Step, Sync, Skip, Resync, BecomeCalm, Purge, See,
    tenantVars, runtimeVars, TenantTypeInv
<1> QED
  BY <1>1, <1>2, <1>3, <1>4, <1>5

(* What becomes of a resource.                                             *)
LEMMA ResourceEffect ==
  ASSUME TenantTypeInv, FinalizerInv(EnsureSteps, TeardownSteps), [TenantNext]_tenantVars,
         NEW k \in Keys, objects'[k] # NoObj
  PROVE  \/ objects'[k] = objects[k]
         \/ /\ UserNext /\ objects[k] = NoObj
            /\ objects'[k].uid = edits + 1 /\ ~Ready(objects'[k])
         \/ /\ objects[k] # NoObj /\ objects'[k].uid = objects[k].uid
            /\ objects[k].deleting => objects'[k].deleting
            /\ Ready(objects'[k]) => \/ Ready(objects[k])
                                     \/ worker.pc = "readyStatus" /\ k = Key
<1>0. RuntimeInv(TenantSteps, Locals)
  BY DEF TenantTypeInv
<1>1. CASE UserNext
  BY <1>0, <1>1, UserEffect, UserVersionEffect
<1>2. CASE LocalStep
  <2>1. PICK o \in Outcomes : FinalizerStep(o) \/ \E name \in Names \cup {NoName} : WriteReady(o, name)
    BY <1>2, TenantLocalStep
  <2>2. worker.pc # "idle" /\ worker.pc \in TenantSteps
    BY <1>0, <2>1, WorkerAtAStep, TenantStepSets DEF FinalizerStep, AddFinalizer, RemoveFinalizer,
      WriteFailed, WriteReady, At, Reconciles
  <2>3. Key \in Keys /\ Obj # NoObj
    BY <1>0, <2>2, WorkerAtAStep, NoObjIsNoObject
  <2>4. \/ objects'[k] = objects[k]
        \/ /\ k = Key /\ objects[k] = Obj /\ Rewrites(objects[k], objects'[k])
           /\ Ready(objects'[k]) => Ready(objects[k]) \/ worker.pc = "readyStatus"
    BY <1>0, <2>1, WriteVersionEffect
  <2> QED
    BY <2>3, <2>4 DEF Rewrites
<1>3. CASE ~UserNext /\ ~LocalStep
  BY <1>3, TenantPartStep DEF TenantNext, Step, tenantVars, runtimeVars, Sync, TakeKey, Skip,
    StartAdoption, StartTeardown, StartMaterialize, Take, Restart, Resync, BecomeCalm, Purge, See
<1> QED
  BY <1>1, <1>2, <1>3

LEMMA NothingBeforeUsers ==
  ASSUME TenantTypeInv, edits = 0 => Untouched, [TenantNext]_tenantVars, edits' = 0
  PROVE  Untouched' /\ ~UserNext
<1>0. RuntimeInv(TenantSteps, Locals) /\ edits \in Nat /\ DOMAIN seen = Parts
  BY RuntimeAssumption DEF TenantTypeInv, PartsOK, RuntimeInv, RuntimeTypeOK
<1>1. ~UserNext
  BY <1>0 DEF UserNext, CreateObject, EditObject, DeleteObject, Edit
<1>2. (~LocalStep /\ ~PartStep) \/ worker.pc # "idle"
  BY TenantPartStep DEF LocalStep, FinalizerStep, AddFinalizer, RemoveFinalizer, WriteFailed,
    WriteTenantReady, WriteReady, At
<1>3. edits = 0
  <2>1. CASE PartStep
    BY <2>1, TenantPartStep
  <2>2. CASE LocalStep
    BY <2>2 DEF LocalStep, FinalizerStep, AddFinalizer, RemoveFinalizer, WriteFailed,
      WriteTenantReady, WriteReady
  <2> QED
    BY <1>1, <2>1, <2>2 DEF TenantNext, Step, tenantVars, runtimeVars, Sync, TakeKey, Skip,
      StartAdoption, StartTeardown, StartMaterialize, Take, Restart, Resync, BecomeCalm, Purge, See
<1>4. Untouched
  BY <1>3
<1>5. /\ UNCHANGED <<objects, parts>> /\ worker'.pc = "idle"
      /\ \A k \in Keys : cache'[k] \in {cache[k], objects[k]}
  BY <1>1, <1>2, <1>4 DEF Untouched, TenantNext, Step, tenantVars, runtimeVars, Sync, TakeKey, Skip,
      StartAdoption, StartTeardown, StartMaterialize, Take, Terminated, Managed, Unmanaged,
      Cached, Restart, Resync, BecomeCalm, Purge, See, Idle, outside
<1>6. \A p \in Parts : seen'[p] = parts'[p]
  BY <1>4, <1>5, SeenEffect DEF Untouched
<1> QED
  BY <1>1, <1>4, <1>5, <1>6 DEF Untouched, Terminating

LEMMA SameNamespace ==
  ASSUME StableNamespaces, DistinctNamespaces,
         NEW k \in Keys, NEW spec \in Specs[k], NEW j \in Keys, NEW other \in Specs[j]
  PROVE  spec.namespace = other.namespace <=> k = j
BY DEF StableNamespaces, DistinctNamespaces

(* Nothing takes the first resource's namespace down.                      *)
LEMMA FirstIsNotTerminated ==
  ASSUME StableNamespaces, DistinctNamespaces, ConfinedInv, [TenantNext]_tenantVars,
         NEW k \in Keys, IsFirst(k)
  PROVE  /\ objects[k].spec.namespace \in Namespaces
         /\ ~Terminating(objects[k].spec.namespace)
         /\ \A n \in Namespaces : n = objects[k].spec.namespace => ~Terminating(n)'
<1>0. TenantTypeInv /\ TeardownInv(TeardownSteps)
  BY DEF ConfinedInv, FinalizerInv
<1>1. objects[k].spec \in Specs[k] /\ objects[k].spec \in TenantSpecs
  BY <1>0, SpecsOfResources, TenantAssumption DEF IsFirst
<1>2. FirstIsRead(k) /\ Confines(objects[k].spec.namespace)
  BY DEF ConfinedInv
<1>3. ASSUME worker.pc = "deleteNamespace", objects[k].spec.namespace = Obj.spec.namespace
      PROVE  FALSE
  <2>1. Key \in Keys /\ Obj.spec \in Specs[Key]
    BY <1>0, <1>3, WorkerNamesANamespace
  <2>2. Key = k
    BY <1>1, <1>3, <2>1, SameNamespace
  <2>3. SameLife(Obj, objects[k])
    BY <1>2, <1>3, <2>2 DEF FirstIsRead, IsFirst, SameLife
  <2> QED
    BY <1>0, <1>3, <2>2, <2>3 DEF TeardownInv, TeardownSteps, IsFirst
<1> QED
  BY <1>0, <1>1, <1>2, <1>3, TerminatingEffect DEF Confines, TenantSpecs

LEMMA FirstStaysConfined ==
  ASSUME StableNamespaces, DistinctNamespaces, ConfinedInv, [TenantNext]_tenantVars,
         NEW k \in Keys, IsFirst(k), IsFirst(k)'
  PROVE  FirstIsRead(k)' /\ Confines(objects[k].spec.namespace)'
<1>0. TenantTypeInv /\ DOMAIN seen = Parts /\ DOMAIN parts = Parts
  BY DEF ConfinedInv, TenantTypeInv, PartsOK
<1>1. FirstIsRead(k) /\ Confines(objects[k].spec.namespace)
  BY DEF ConfinedInv
<1>2. FirstIsRead(k)'
  <2>1. cache'[k] # NoObj => cache'[k].uid = 1
    BY <1>0, <1>1, CopyEffect DEF FirstIsRead, IsFirst
  <2>2. worker'.pc # "idle" /\ Key' = k => Obj'.uid = 1
    BY <1>0, <1>1, CopyInUse DEF FirstIsRead
  <2> QED
    BY <2>1, <2>2 DEF FirstIsRead
<1>3. PICK n \in Namespaces : n = objects[k].spec.namespace
  BY FirstIsNotTerminated
<1>4. ~Terminating(n) /\ ~Terminating(n)'
  BY <1>3, FirstIsNotTerminated
<1>5. objects'[k].spec.namespace = n
  <2>1. TenantTypeInv'
    BY <1>0, TenantTypeInvStep
  <2>2. objects[k].spec \in Specs[k] /\ objects'[k].spec \in Specs[k]
    BY <1>0, <2>1, SpecsOfResources DEF IsFirst, TenantTypeInv, RuntimeInv, RuntimeTypeOK,
      CatalogObjects
  <2> QED
    BY <1>3, <2>2 DEF StableNamespaces
<1>6. ASSUME NEW kind \in Confining,
             seen'[<<n, kind>>] # NoPart \/ (Passed(kind)' /\ Obj'.spec.namespace = n)
      PROVE  parts'[<<n, kind>>] # NoPart
  <2>1. /\ <<n, kind>> \in Parts
        /\ seen[<<n, kind>>] # NoPart \/ (Passed(kind) /\ Obj.spec.namespace = n) =>
             parts[<<n, kind>>] # NoPart
    BY <1>1, <1>3, ConfiningParts DEF Confines
  <2>2. parts[<<n, kind>>] # NoPart => parts'[<<n, kind>>] # NoPart
    BY <1>0, <1>4, PartStays
  <2>3. CASE seen'[<<n, kind>>] # NoPart
    BY <1>0, <2>1, <2>2, <2>3, SeenEffect
  <2>4. CASE Passed(kind)' /\ Obj'.spec.namespace = n
    <3>1. /\ Obj' = Obj
          /\ \/ Passed(kind)
             \/ Kind = kind /\ (seen[Part] # NoPart \/ parts'[Part] # NoPart)
      BY <1>0, <2>4, PassedEffect
    <3>2. Kind = kind => Part = <<n, kind>>
      BY <2>4, <3>1 DEF Part
    <3> QED
      BY <2>1, <2>2, <2>4, <3>1, <3>2
  <2> QED
    BY <1>6, <2>3, <2>4
<1>7. Confines(n)'
  BY <1>4, <1>6 DEF Confines
<1> QED
  BY <1>2, <1>5, <1>7 DEF Confines, Terminating

LEMMA FirstComesConfined ==
  ASSUME ConfinedInv, [TenantNext]_tenantVars, NEW k \in Keys, ~IsFirst(k), IsFirst(k)'
  PROVE  FirstIsRead(k)' /\ Confines(objects[k].spec.namespace)'
<1>0. TenantTypeInv /\ RuntimeInv(TenantSteps, Locals) /\ edits \in Nat
      /\ FinalizerInv(EnsureSteps, TeardownSteps)
  BY RuntimeAssumption DEF ConfinedInv, TenantTypeInv, RuntimeInv, RuntimeTypeOK
<1>1. UserNext /\ edits = 0
  BY <1>0, ResourceEffect DEF IsFirst
<1>2. Untouched /\ UNCHANGED <<cache, worker, parts>> /\ \A p \in Parts : seen'[p] = parts[p]
  <2>1. Untouched
    BY <1>1 DEF ConfinedInv
  <2>2. UNCHANGED parts
    BY <2>1, PartsEffect DEF Untouched, WritesPart, Terminates, Purge
  <2> QED
    BY <1>0, <1>1, <2>1, <2>2, UserEffect, SeenEffect DEF Untouched
<1>3. FirstIsRead(k)'
  BY <1>2 DEF Untouched, FirstIsRead
<1>4. objects'[k].spec.namespace \in Namespaces
  <2>1. TenantTypeInv'
    BY <1>0, TenantTypeInvStep
  <2>2. objects'[k].spec \in Specs[k]
    BY <2>1 DEF IsFirst, TenantTypeInv, RuntimeInv, RuntimeTypeOK, CatalogObjects
  <2> QED
    BY <2>2, TenantAssumption DEF TenantSpecs
<1>5. ASSUME NEW n \in Namespaces
      PROVE  Confines(n)'
  BY <1>2, ConfiningParts DEF Confines, Untouched, Passed, Terminating
<1> QED
  BY <1>3, <1>4, <1>5 DEF Confines, Terminating

LEMMA ConfinedInvStep ==
  ASSUME StableNamespaces, DistinctNamespaces, ConfinedInv, [TenantNext]_tenantVars
  PROVE  ConfinedInv'
<1>0. TenantTypeInv /\ FinalizerInv(EnsureSteps, TeardownSteps)
  BY DEF ConfinedInv
<1>1. TenantTypeInv' /\ FinalizerInv(EnsureSteps, TeardownSteps)'
  BY <1>0, TenantTypeInvStep, TenantFinalizerInvStep
<1>2. edits' = 0 => Untouched'
  BY <1>0, NothingBeforeUsers DEF ConfinedInv
<1>3. \A k \in Keys : IsFirst(k)' => FirstIsRead(k)' /\ Confines(objects[k].spec.namespace)'
  BY FirstStaysConfined, FirstComesConfined
<1>4. FirstTenantIsConfined'
  <2> SUFFICES ASSUME NEW k \in Keys, IsFirst(k)', Ready(objects'[k])
               PROVE  /\ Active(objects[k].spec.namespace)'
                      /\ parts'[<<objects'[k].spec.namespace, "roleBinding">>] # NoPart
                      /\ parts'[<<objects'[k].spec.namespace, "networkPolicy">>] # NoPart
    BY DEF FirstTenantIsConfined, IsFirst
  <2>1. /\ IsFirst(k)
        /\ Ready(objects[k]) \/ (worker.pc = "readyStatus" /\ k = Key)
    BY <1>0, ResourceEffect DEF IsFirst
  <2>2. PICK n \in Namespaces : n = objects[k].spec.namespace
    BY FirstIsNotTerminated, <2>1
  <2>3. objects[k].spec \in Specs[k] /\ objects'[k].spec \in Specs[k]
    BY <1>0, <1>1, <2>1, SpecsOfResources DEF IsFirst, TenantTypeInv, RuntimeInv, RuntimeTypeOK,
      CatalogObjects
  <2>4. objects'[k].spec.namespace = n
    BY <2>2, <2>3 DEF StableNamespaces
  <2>5. ~Terminating(n) /\ ~Terminating(n)'
    BY <2>1, <2>2, FirstIsNotTerminated
  <2>6. \A kind \in Confining : parts[<<n, kind>>] # NoPart
    <3>1. CASE Ready(objects[k])
      BY <2>1, <2>2, <3>1
        DEF ConfinedInv, FirstTenantIsConfined, Confining, Active, Namespace, IsFirst
    <3>2. CASE worker.pc = "readyStatus" /\ k = Key
      <4>1. Obj.spec \in Specs[k]
        BY <1>0, <3>2, WorkerNamesANamespace
      <4>2. Obj.spec.namespace = n /\ Confines(n)
        BY <2>1, <2>2, <2>3, <4>1 DEF StableNamespaces, ConfinedInv
      <4> QED
        BY <3>2, <4>2 DEF Confines, Passed
    <3> QED
      BY <2>1, <3>1, <3>2
  <2>7. \A kind \in Confining : parts'[<<n, kind>>] # NoPart
    BY <1>0, <2>5, <2>6, PartStays
  <2>8. Active(n)'
    BY <2>5, <2>7 DEF Confining, Active, Terminating, Namespace
  <2> QED
    BY <2>4, <2>7, <2>8 DEF Confining, Active
<1> QED
  BY <1>1, <1>2, <1>3, <1>4 DEF ConfinedInv

(* The first resource that users make has its tenant confined when it is   *)
(* Ready: its namespace is active, and NetworkPolicy and RoleBinding are in*)
(* it, although each was written only if a cache did not show it already;  *)
(* provided that resources keep their namespaces and do not share them.    *)
THEOREM TheFirstTenantIsConfined ==
  ASSUME StableNamespaces, DistinctNamespaces
  PROVE  TenantSpec => []FirstTenantIsConfined
<1>1. TenantInit => ConfinedInv
  <2> SUFFICES ASSUME TenantInit PROVE ConfinedInv
    OBVIOUS
  <2>1. /\ worker.pc = "idle" /\ \A k \in Keys : objects[k] = NoObj /\ cache[k] = NoObj
        /\ seen = parts
    BY DEF TenantInit, RuntimeInit, Idle
  <2>2. ASSUME NEW n \in Namespaces
        PROVE  ~Terminating(n)
    BY KindsOfParts DEF TenantInit, Terminating
  <2> QED
    BY <2>1, <2>2, TenantInvInit
      DEF ConfinedInv, TenantInv, Untouched, IsFirst, FirstTenantIsConfined
<1>2. ConfinedInv /\ [TenantNext]_tenantVars => ConfinedInv'
  BY ConfinedInvStep
<1>3. ConfinedInv => FirstTenantIsConfined
  BY DEF ConfinedInv
<1> QED
  BY <1>1, <1>2, <1>3, PTL DEF TenantSpec
=============================================================================
