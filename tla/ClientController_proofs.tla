---------------------- MODULE ClientController_proofs ----------------------
(***************************************************************************)
(* Theorems about the KeycloakClient controller, for any number of clients *)
(* and realms, on top of any behaviour of the realms that RealmService     *)
(* allows.                                                                 *)
(***************************************************************************)
EXTENDS ClientController, ControllerRuntime_proofs

EnsureSteps   == {"findClient", "postClient", "findCreated", "putClient", "getCredential",
                  "writeSecret"}
TeardownSteps == {"findToDelete", "deleteClient", "deleteSecret", "removeFinalizer"}
RemoteSteps   == EnsureSteps \cup (TeardownSteps \ {"removeFinalizer"})
AllLocals     == Locals \cup {NoLocal}
AllClients    == RealmNames \X ClientIDs

StoreOK ==
  /\ kcClients \in [AllClients -> KcClients \cup {NoClient}]
  /\ secrets \in [SecretNames -> SecretContents \cup {NoSecret}]

ServiceOK ==
  /\ DOMAIN realmView = Realms /\ DOMAIN realmUp = RealmNames
  /\ \A r \in Realms : realmView[r] # NoObj =>
       realmView[r].name \in RealmNames /\ realmView[r].name \in PossibleNames[r]

WorkerOK ==
  worker.pc \in ClientSteps \ {"addFinalizer"} =>
    /\ worker.local \in Locals
    /\ worker.local.realm = NoName => worker.pc \in RealmlessSteps

RecordedOK ==
  \A k \in Keys : objects[k] # NoObj =>
    (objects[k].status.ready = "True" => objects[k].status.recorded # NoName)

ClientTypeInv ==
  RuntimeInv(ClientSteps, AllLocals) /\ WorkerOK /\ RecordedOK /\ StoreOK /\ ServiceOK

LEMMA ClientStepSets ==
  /\ RemoteSteps \subseteq ClientSteps \ {"addFinalizer"}
  /\ EnsureSteps \cup TeardownSteps \subseteq ClientSteps \ {"addFinalizer"}
  /\ "idle" \notin ClientSteps /\ "idle" \notin EnsureSteps \cup TeardownSteps
  /\ "idle" \notin RemoteSteps /\ "removeFinalizer" \in TeardownSteps
  /\ EnsureSteps \cap RealmlessSteps = {}
BY DEF EnsureSteps, TeardownSteps, RemoteSteps, ClientSteps, RealmlessSteps

LEMMA NoNameIsNoRealm == NoName \notin RealmNames
BY RuntimeAssumption, ClientAssumption

LEMMA SpecsNameThings ==
  ASSUME NEW k \in Keys, NEW spec \in Specs[k]
  PROVE  /\ spec.realmRef \in Realms /\ spec.public \in BOOLEAN
         /\ Representation(spec) \in Representations
         /\ ClientIDOf(k, spec) \in ClientIDs /\ SecretNameOf(k, spec) \in SecretNames
<1>1. spec \in ClientSpecs /\ k \in ClientIDs /\ DefaultSecret[k] \in SecretNames
  BY ClientAssumption
<1> QED
  BY <1>1 DEF ClientSpecs, ClientIDOf, SecretNameOf, Representation, Representations

(* What a worker works on when it calls Keycloak or writes the Secret.     *)
LEMMA WorkerNamesAClient ==
  ASSUME ClientTypeInv, worker.pc \in ClientSteps \ {"addFinalizer"}
  PROVE  /\ worker.pc # "idle" /\ Key \in Keys /\ Obj \in CatalogObjects(Key)
         /\ Spec \in Specs[Key] /\ worker \in Reconciles(Key, ClientSteps, AllLocals)
         /\ worker.local \in Locals
         /\ ClientIDOf(Key, Spec) \in ClientIDs /\ Secret \in SecretNames
         /\ worker.pc \notin RealmlessSteps => Realm \in RealmNames /\ Client \in AllClients
<1>1. worker.pc # "idle"
  BY ClientStepSets
<1>2. Key \in Keys /\ Obj \in CatalogObjects(Key) /\ worker \in Reconciles(Key, ClientSteps, AllLocals)
  BY <1>1, WorkerAtAStep DEF ClientTypeInv
<1>3. Spec \in Specs[Key]
  BY <1>2 DEF CatalogObjects, Spec
<1>4. worker.local \in Locals /\ (worker.pc \notin RealmlessSteps => Realm # NoName)
  BY DEF ClientTypeInv, WorkerOK, Realm
<1>5. worker.pc \notin RealmlessSteps => Realm \in RealmNames
  BY <1>4 DEF Locals, Realm
<1> QED
  BY <1>1, <1>2, <1>3, <1>4, <1>5, SpecsNameThings DEF Secret, Client, AllClients

----------------------------------------------------------------------------
(* How a reconcile goes on after a call.                                   *)
StaysIn(step) ==
  /\ Onward(step) /\ worker' \in Reconciles(Key, ClientSteps, AllLocals) /\ UNCHANGED queue
  /\ worker'.local \in Locals /\ worker'.local.realm = worker.local.realm

LEMMA GotoStaysIn ==
  ASSUME ClientTypeInv, worker.pc \in ClientSteps \ {"addFinalizer"},
         NEW step \in ClientSteps, Goto(step)
  PROVE  StaysIn(step)
<1>1. worker.pc # "idle" /\ worker.local \in Locals /\ worker \in Reconciles(Key, ClientSteps, AllLocals)
  BY WorkerNamesAClient
<1>2. Onward(step) /\ worker' \in Reconciles(Key, ClientSteps, AllLocals) /\ UNCHANGED queue
  BY <1>1, GotoGoesOnward DEF ClientTypeInv
<1>3. worker'.local = worker.local
  BY <1>1 DEF Goto, Reconciles
<1> QED
  BY <1>1, <1>2, <1>3 DEF StaysIn

LEMMA EnsureGoesOn ==
  ASSUME ClientTypeInv, EnsureStep
  PROVE  /\ worker.pc \in EnsureSteps
         /\ UNCHANGED <<objects, cache, edits, calm, serviceVars>>
         /\ \E step \in EnsureSteps \cup {"failStatus", "readyStatus"} : StaysIn(step)
<1>1. PICK o \in Outcomes :
        \/ FindClient(o) \/ PostClient(o) \/ FindCreated(o) \/ PutClient(o)
        \/ GetCredential(o) \/ WriteSecret(o)
  BY DEF EnsureStep
<1>2. worker.pc \in EnsureSteps /\ UNCHANGED <<objects, cache, edits, calm, serviceVars>>
  BY <1>1 DEF FindClient, PostClient, FindCreated, PutClient, GetCredential, WriteSecret, NoStep,
    At, EnsureSteps
<1> DEFINE onward == EnsureSteps \cup {"failStatus", "readyStatus"}
<1>3. onward \subseteq ClientSteps /\ EnsureSteps \subseteq ClientSteps \ {"addFinalizer"}
  BY DEF EnsureSteps, ClientSteps
<1>4. CASE \E step \in onward : Goto(step)
  BY <1>2, <1>3, <1>4, GotoStaysIn
<1>5. CASE GetCredential(o)
  <2>1. /\ worker.local \in Locals /\ worker \in Reconciles(Key, ClientSteps, AllLocals)
        /\ Client \in AllClients
    BY <1>2, <1>3, WorkerNamesAClient, ClientStepSets
  <2>2. CASE o = "ok" /\ Found # NoClient
    <3>1. /\ worker' = [worker EXCEPT !.pc = "writeSecret", !.local.credential = Found.credential]
          /\ UNCHANGED queue
      BY <1>5, <2>2 DEF GetCredential
    <3>2. Found.credential \in Credentials
      BY <2>1, <2>2 DEF ClientTypeInv, StoreOK, Found, KcClients
    <3>3. /\ worker'.pc = "writeSecret" /\ Key' = Key /\ Obj' = Obj
          /\ worker'.local = [worker.local EXCEPT !.credential = Found.credential]
          /\ worker' = [pc |-> "writeSecret", key |-> worker.key, obj |-> worker.obj,
                        local |-> [worker.local EXCEPT !.credential = Found.credential]]
      BY <2>1, <3>1 DEF Reconciles, Key, Obj
    <3>4. worker'.local \in Locals /\ worker'.local.realm = worker.local.realm
      BY <2>1, <3>2, <3>3 DEF Locals
    <3>5. worker' \in Reconciles(Key, ClientSteps, AllLocals)
      BY <2>1, <3>3, <3>4 DEF Reconciles, AllLocals, ClientSteps
    <3>6. StaysIn("writeSecret")
      BY <3>1, <3>3, <3>4, <3>5 DEF StaysIn, Onward
    <3> QED
      BY <1>2, <3>6 DEF EnsureSteps
  <2>3. CASE ~(o = "ok" /\ Found # NoClient)
    <3>1. Goto("failStatus")
      BY <1>5, <2>3 DEF GetCredential, Goto
    <3> QED
      BY <1>4, <3>1
  <2> QED
    BY <2>2, <2>3
<1>6. CASE ~GetCredential(o)
  <2>1. AfterEnsure \in EnsureSteps
    BY DEF AfterEnsure, EnsureSteps
  <2>2. FindClient(o) =>
          \E step \in {"failStatus", "postClient", "putClient", AfterEnsure} : Goto(step)
    BY DEF FindClient
  <2>3. PostClient(o) \/ FindCreated(o) \/ PutClient(o) \/ WriteSecret(o) =>
          \E step \in {"failStatus", "findCreated", "readyStatus", AfterEnsure} : Goto(step)
    BY DEF PostClient, FindCreated, PutClient, WriteSecret
  <2>4. {"failStatus", "postClient", "putClient", "findCreated", "readyStatus", AfterEnsure}
          \subseteq onward
    BY <2>1 DEF EnsureSteps
  <2>5. \E step \in onward : Goto(step)
    BY <1>1, <1>6, <2>2, <2>3, <2>4
  <2> QED
    BY <1>4, <2>5
<1> QED
  BY <1>2, <1>5, <1>6

LEMMA TeardownGoesOn ==
  ASSUME ClientTypeInv, TeardownStep
  PROVE  /\ worker.pc \in TeardownSteps \ {"removeFinalizer"}
         /\ UNCHANGED <<objects, cache, edits, calm, serviceVars>>
         /\ \/ Retry
            \/ \E step \in {"deleteClient", "deleteSecret", "removeFinalizer"} :
                 /\ StaysIn(step)
                 /\ worker.pc = "deleteSecret" => step = "removeFinalizer"
<1>1. PICK o \in Outcomes : FindToDelete(o) \/ DeleteKcClient(o) \/ DeleteSecret(o)
  BY DEF TeardownStep
<1>2. /\ worker.pc \in TeardownSteps \ {"removeFinalizer"}
      /\ UNCHANGED <<objects, cache, edits, calm, serviceVars>>
  BY <1>1 DEF FindToDelete, DeleteKcClient, DeleteSecret, NoStep, At, TeardownSteps
<1>3. \/ Retry
      \/ \E step \in {"deleteClient", "deleteSecret", "removeFinalizer"} :
           /\ Goto(step)
           /\ worker.pc = "deleteSecret" => step = "removeFinalizer"
  BY <1>1 DEF FindToDelete, DeleteKcClient, DeleteSecret, At
<1>4. worker.pc \in ClientSteps \ {"addFinalizer"}
  BY <1>2 DEF TeardownSteps, ClientSteps
<1>5. {"deleteClient", "deleteSecret", "removeFinalizer"} \subseteq ClientSteps
  BY DEF ClientSteps
<1> QED
  BY <1>2, <1>3, <1>4, <1>5, GotoStaysIn

LEMMA ClientLocalStep ==
  ASSUME ClientTypeInv, LocalStep
  PROVE  /\ worker' = Idle /\ worker.pc # "idle" /\ worker.pc \notin RemoteSteps
         /\ UNCHANGED cache
         /\ \E o \in Outcomes :
              \/ FinalizerStep(o) \/ WriteRejected(o) \/ WriteWaiting(o)
              \/ \E name \in Names \cup {NoName} : WriteReady(o, name)
         /\ \/ \E o \in Outcomes : FinalizerStep(o) \/ WriteWaiting(o)
            \/ /\ worker.pc = "readyStatus" /\ Realm \in RealmNames
               /\ \E o \in Outcomes : WriteReady(o, Realm)
<1>1. PICK o \in Outcomes : FinalizerStep(o) \/ WriteClientReady(o) \/ WriteWaiting(o)
  BY DEF LocalStep
<1>2. CASE FinalizerStep(o) \/ WriteWaiting(o)
  BY <1>2 DEF FinalizerStep, AddFinalizer, RemoveFinalizer, WriteFailed, WriteWaiting, At, Retry,
    Done, RemoteSteps, EnsureSteps, TeardownSteps
<1>3. CASE WriteClientReady(o)
  <2>1. worker.pc = "readyStatus" /\ WriteReady(o, Realm)
    BY <1>3 DEF WriteClientReady, WriteReady, At
  <2>2. Realm \in RealmNames /\ Names = RealmNames
    BY <2>1, WorkerNamesAClient, ClientAssumption DEF ClientSteps, RealmlessSteps
  <2> QED
    BY <2>1, <2>2 DEF WriteReady, Retry, Done, RemoteSteps, EnsureSteps, TeardownSteps
<1> QED
  BY <1>1, <1>2, <1>3

LEMMA ResolvedIsARealm ==
  ASSUME ClientTypeInv, NEW k \in Keys, cache[k] # NoObj
  PROVE  /\ ResolvedRealm(cache[k]) \in RealmNames \cup {NoName}
         /\ cache[k].spec \in Specs[k] /\ cache[k].spec.realmRef \in Realms
         /\ InRealm(ResolvedRealm(cache[k])) \in Locals /\ InRealm(NoName) \in Locals
<1>1. cache[k] \in CatalogObjects(k)
  BY DEF ClientTypeInv, RuntimeInv, RuntimeTypeOK
<1>2. cache[k].spec \in Specs[k] /\ cache[k].status.recorded \in RealmNames \cup {NoName}
  BY <1>1, ClientAssumption DEF CatalogObjects, Statuses
<1>3. cache[k].spec.realmRef \in Realms
  BY <1>2, SpecsNameThings
<1>4. ResolvedRealm(cache[k]) \in RealmNames \cup {NoName}
  BY <1>2, <1>3 DEF ResolvedRealm, ClientTypeInv, ServiceOK
<1> QED
  BY <1>2, <1>3, <1>4 DEF InRealm, Locals

LEMMA ClientTakes ==
  ASSUME ClientTypeInv, NEW k \in Keys, TakeKey(k)
  PROVE  \/ Skip(k)
         \/ \E step \in ClientSteps, local \in AllLocals :
              /\ Take(k, step, local) /\ cache[k] # NoObj
              /\ step \in {"addFinalizer", "findClient", "failStatus", "waitStatus",
                           "findToDelete", "deleteSecret"}
              /\ step # "addFinalizer" =>
                   /\ local \in Locals
                   /\ local.realm \in {NoName, ResolvedRealm(cache[k])}
                   /\ local.realm = NoName => step \in RealmlessSteps
              /\ step = "addFinalizer" => Unmanaged(k)
              /\ step \in EnsureSteps => Managed(k)
              /\ step \in TeardownSteps => Terminated(k)
              /\ step = "findToDelete" => local.realm = ResolvedRealm(cache[k])
              /\ step = "deleteSecret" => ResolvedRealm(cache[k]) = NoName
<1> USE DEF ClientSteps, EnsureSteps, TeardownSteps, RealmlessSteps, AllLocals, InRealm
<1>1. CASE StartAdoption(k)
  BY <1>1 DEF StartAdoption, Unmanaged, Cached
<1>2. CASE StartTeardown(k)
  <2>1. Terminated(k) /\ cache[k] # NoObj
    BY <1>2 DEF StartTeardown, Terminated, Cached
  <2>2. CASE ResolvedRealm(cache[k]) = NoName
    BY <1>2, <2>1, <2>2, ResolvedIsARealm DEF StartTeardown
  <2>3. CASE ResolvedRealm(cache[k]) # NoName
    BY <1>2, <2>1, <2>3, ResolvedIsARealm DEF StartTeardown
  <2> QED
    BY <2>2, <2>3
<1>3. CASE StartWithoutRealm(k)
  BY <1>3, ResolvedIsARealm DEF StartWithoutRealm, Managed, Cached
<1>4. CASE StartWaiting(k)
  BY <1>4, ResolvedIsARealm DEF StartWaiting, Managed, Cached
<1>5. CASE StartEnsure(k)
  BY <1>5, ResolvedIsARealm DEF StartEnsure, Managed, Cached
<1> QED
  BY <1>1, <1>2, <1>3, <1>4, <1>5 DEF TakeKey

----------------------------------------------------------------------------
(* Type correctness.                                                       *)
LEMMA FreshIsACredential ==
  ASSUME StoreOK
  PROVE  Fresh \in Credentials
<1> DEFINE kc == [c \in AllClients |->
                    IF kcClients[c] = NoClient THEN NoCredential ELSE kcClients[c].credential]
           copies == [s \in SecretNames |->
                        IF secrets[s] = NoSecret THEN NoCredential ELSE secrets[s].credential]
<1>1. \A c \in AllClients : kcClients[c] # NoClient => kcClients[c].credential \in Credentials
  BY DEF StoreOK, KcClients
<1>2. \A s \in SecretNames : secrets[s] # NoSecret =>
        secrets[s].credential \in Credentials \cup {NoCredential}
  BY DEF StoreOK, SecretContents
<1>3. kc \in [AllClients -> Credentials \cup {NoCredential}]
  BY <1>1
<1>4. copies \in [SecretNames -> Credentials \cup {NoCredential}]
  BY <1>2
<1>5. PICK v \in Credentials : /\ \A c \in AllClients : kc[c] # v
                               /\ \A s \in SecretNames : copies[s] # v
  BY <1>3, <1>4, ClientAssumption DEF AllClients
<1>6. v \notin InUse
  <2>1. DOMAIN kcClients = AllClients
    BY DEF StoreOK
  <2>2. \A c \in AllClients : kcClients[c] # NoClient => kcClients[c].credential # v
    BY <1>5
  <2>3. \A s \in SecretNames : secrets[s] # NoSecret => secrets[s].credential # v
    BY <1>5
  <2> QED
    BY <2>1, <2>2, <2>3 DEF InUse
<1> QED
  BY <1>6 DEF Fresh

(* What a PUT makes of a client is what was asked for, as far as it can be *)
LEMMA UpdateServes ==
  ASSUME Representation(Spec) \in Representations, NEW rep \in Representations
  PROVE  /\ Updating(rep) \in Representations
         /\ Serves(Updating(rep), Representation(Spec))
BY DEF Updating, Representations, Serves

LEMMA EnsureKeepsStoreOK ==
  ASSUME ClientTypeInv, EnsureStep
  PROVE  StoreOK'
<1>1. worker.pc \in EnsureSteps
  BY EnsureGoesOn
<1>2. /\ Client \in AllClients /\ Client = <<Realm, ClientIDOf(Key, Spec)>>
      /\ Realm \in RealmNames /\ ClientIDOf(Key, Spec) \in ClientIDs
      /\ Secret \in SecretNames /\ worker.local \in Locals
      /\ Representation(Spec) \in Representations
  BY <1>1, WorkerNamesAClient, ClientStepSets, SpecsNameThings DEF Client
<1>3. PICK o \in Outcomes :
        \/ FindClient(o) \/ PostClient(o) \/ FindCreated(o) \/ PutClient(o)
        \/ GetCredential(o) \/ WriteSecret(o)
  BY DEF EnsureStep
<1>4. CASE FindClient(o) \/ FindCreated(o) \/ GetCredential(o)
  BY <1>4 DEF FindClient, FindCreated, GetCredential, ClientTypeInv, StoreOK
<1>5. CASE PostClient(o)
  <2>1. [rep |-> Representation(Spec), credential |-> Fresh] \in KcClients
    BY <1>2, FreshIsACredential DEF ClientTypeInv, KcClients
  <2>2. /\ UNCHANGED secrets
        /\ \/ UNCHANGED kcClients
           \/ kcClients' = [kcClients EXCEPT ![Client] =
                [rep |-> Representation(Spec), credential |-> Fresh]]
    BY <1>5 DEF PostClient, Call
  <2> QED
    BY <1>2, <2>1, <2>2 DEF ClientTypeInv, StoreOK
<1>6. CASE PutClient(o)
  <2>1. CASE UNCHANGED kcClients
    BY <1>6, <2>1 DEF PutClient, ClientTypeInv, StoreOK
  <2>2. CASE kcClients' # kcClients
    <3>1. Found # NoClient
      BY <1>6, <2>2 DEF PutClient
    <3>2. Found \in KcClients
      BY <1>2, <3>1 DEF ClientTypeInv, StoreOK, Found
    <3> DEFINE put == [Found EXCEPT !.rep = Updating(Found.rep)]
    <3>3. put \in KcClients
      BY <1>2, <3>2, UpdateServes DEF KcClients
    <3>4. kcClients' = [kcClients EXCEPT ![Client].rep = Updating(Found.rep)]
      BY <1>6, <2>2 DEF PutClient, Call
    <3>5. kcClients' = [kcClients EXCEPT ![Client] = put]
      BY <1>2, <3>4 DEF ClientTypeInv, StoreOK, Found
    <3> QED
      BY <1>2, <1>6, <3>3, <3>5 DEF PutClient, ClientTypeInv, StoreOK
  <2> QED
    BY <2>1, <2>2
<1>7. CASE WriteSecret(o)
  <2>1. worker.local.credential \in Credentials \cup {NoCredential}
    BY <1>2 DEF Locals
  <2>2. secrets[Secret] # NoSecret =>
          secrets[Secret].credential \in Credentials \cup {NoCredential}
    BY <1>2 DEF ClientTypeInv, StoreOK, SecretContents
  <2>3. SecretContent \in SecretContents
    BY <1>2, <2>1, <2>2 DEF SecretContent, SecretContents
  <2>4. UNCHANGED kcClients
        /\ (UNCHANGED secrets \/ secrets' = [secrets EXCEPT ![Secret] = SecretContent])
    BY <1>7 DEF WriteSecret, Call
  <2> QED
    BY <1>2, <2>3, <2>4 DEF ClientTypeInv, StoreOK
<1> QED
  BY <1>3, <1>4, <1>5, <1>6, <1>7

LEMMA TeardownKeepsStoreOK ==
  ASSUME ClientTypeInv, TeardownStep
  PROVE  StoreOK'
<1>1. PICK o \in Outcomes : FindToDelete(o) \/ DeleteKcClient(o) \/ DeleteSecret(o)
  BY DEF TeardownStep
<1>2. /\ UNCHANGED kcClients \/ kcClients' = [kcClients EXCEPT ![Client] = NoClient]
      /\ UNCHANGED secrets \/ secrets' = [secrets EXCEPT ![Secret] = NoSecret]
  BY <1>1 DEF FindToDelete, DeleteKcClient, DeleteSecret, Call
<1> QED
  BY <1>2 DEF ClientTypeInv, StoreOK

LEMMA ServiceKeepsOK ==
  ASSUME StoreOK, ServiceOK, ServiceStep
  PROVE  StoreOK' /\ ServiceOK'
<1>1. StoreOK'
  BY DEF ServiceStep, StoreOK
<1>2. Refresh => ServiceOK'
  BY DEF Refresh, RealmViews, ServiceOK
<1>3. ASSUME NEW n \in RealmNames, BringUp(n) \/ TakeDown(n)
      PROVE  ServiceOK'
  BY <1>3 DEF BringUp, TakeDown, ServiceOK
<1>4. ASSUME NEW r \in Realms, Strip(r)
      PROVE  ServiceOK'
  <2>1. realmView' = [realmView EXCEPT ![r] = NoObj] /\ UNCHANGED realmUp
    BY <1>4 DEF Strip
  <2> QED
    BY <2>1 DEF ServiceOK
<1> QED
  BY <1>1, <1>2, <1>3, <1>4 DEF ServiceStep, ServiceNext

(* What becomes of an object and its status.                               *)
LEMMA StatusEffect ==
  ASSUME ClientTypeInv, [ClientNext]_clientVars, NEW k \in Keys
  PROVE  \/ objects'[k] = objects[k]
         \/ objects'[k] = NoObj
         \/ objects[k] = NoObj /\ objects'[k].status = NoStatus
         \/ /\ objects[k] # NoObj
            /\ objects'[k].status.recorded = objects[k].status.recorded
            /\ objects'[k].status.ready \in {objects[k].status.ready, "False"}
         \/ /\ worker.pc = "readyStatus" /\ k = Key /\ objects[k] = Obj
            /\ Realm \in RealmNames /\ objects'[k].status.recorded = Realm
<1>0. RuntimeInv(ClientSteps, AllLocals)
  BY DEF ClientTypeInv
<1>1. CASE UserNext
  <2>1. PICK j \in Keys : \/ \E spec \in Specs[j] : CreateObject(j, spec) \/ EditObject(j, spec)
                          \/ DeleteObject(j)
    BY <1>1 DEF UserNext
  <2>2. objects[k] # NoObj => objects[k] \in CatalogObjects(k)
    BY <1>0 DEF RuntimeInv, RuntimeTypeOK
  <2>3. DOMAIN objects = Keys
    BY <1>0 DEF RuntimeInv, RuntimeTypeOK
  <2>4. CASE j # k
    BY <2>1, <2>3, <2>4 DEF CreateObject, EditObject, DeleteObject, Edit
  <2>5. CASE j = k /\ \E spec \in Specs[k] : CreateObject(k, spec)
    BY <2>3, <2>5 DEF CreateObject, Edit, NewObject
  <2>6. CASE j = k /\ \E spec \in Specs[k] : EditObject(k, spec)
    BY <2>2, <2>3, <2>6 DEF EditObject, Edit, Edited, CatalogObjects
  <2>7. CASE j = k /\ DeleteObject(k)
    BY <2>2, <2>3, <2>7 DEF DeleteObject, Edit, Deleted, CatalogObjects
  <2> QED
    BY <2>1, <2>4, <2>5, <2>6, <2>7
<1>2. CASE LocalStep
  <2>1. worker.pc # "idle"
    BY <1>2, ClientLocalStep
  <2>2. Key \in Keys /\ Obj \in CatalogObjects(Key)
    BY <1>0, <2>1, WorkerAtAStep
  <2>3. CASE \E o \in Outcomes : FinalizerStep(o) \/ WriteWaiting(o)
    <3>1. \E o \in Outcomes :
            \E new \in {WithFinalizer(Obj), WithoutFinalizer(Obj), AsFailed(Obj),
                        AsReconciling(Obj)} : Write(o, new)
      BY <2>3 DEF FinalizerStep, AddFinalizer, RemoveFinalizer, WriteFailed, WriteWaiting
    <3>2. PICK new \in {WithFinalizer(Obj), WithoutFinalizer(Obj), AsFailed(Obj),
                        AsReconciling(Obj)} :
            \/ objects'[k] = objects[k]
            \/ k = Key /\ objects[k] = Obj /\ objects'[k] = Stored(new)
      BY <1>0, <2>1, <3>1, WriteEffect
    <3>3. /\ new.status.recorded = Obj.status.recorded
          /\ new.status.ready \in {Obj.status.ready, "False"}
      <4>1. \A with \in {WithFinalizer(Obj), WithoutFinalizer(Obj)} : with.status = Obj.status
        BY <2>2 DEF WithFinalizer, WithoutFinalizer, CatalogObjects
      <4>2. /\ AsFailed(Obj).status = SetFailed(Obj.status, Obj.gen)
            /\ AsReconciling(Obj).status = SetReconciling(Obj.status, Obj.gen)
        BY <2>2 DEF AsFailed, AsReconciling, CatalogObjects
      <4>3. \A status \in {SetFailed(Obj.status, Obj.gen), SetReconciling(Obj.status, Obj.gen)} :
              status.recorded = Obj.status.recorded /\ status.ready = "False"
        BY <2>2 DEF SetFailed, SetReconciling, CatalogObjects, Statuses
      <4> QED
        BY <3>2, <4>1, <4>2, <4>3
    <3>4. Obj # NoObj
      BY <2>2, NoObjIsNoObject
    <3> QED
      BY <3>2, <3>3, <3>4 DEF Stored
  <2>4. CASE worker.pc = "readyStatus" /\ Realm \in RealmNames
             /\ \E o \in Outcomes : WriteReady(o, Realm)
    <3>1. \E o \in Outcomes : Write(o, AsReady(Obj, Realm))
      BY <2>4 DEF WriteReady
    <3>2. \/ objects'[k] = objects[k]
          \/ k = Key /\ objects[k] = Obj /\ objects'[k] = Stored(AsReady(Obj, Realm))
      BY <1>0, <2>1, <3>1, WriteEffect
    <3>3. AsReady(Obj, Realm).status.recorded = Realm
      BY <2>2 DEF AsReady, SetReady, CatalogObjects, Statuses
    <3> QED
      BY <2>4, <3>2, <3>3 DEF Stored
  <2> QED
    BY <1>2, <2>3, <2>4, ClientLocalStep
<1>3. CASE ~UserNext /\ ~LocalStep
  <2>1. UNCHANGED objects
    BY <1>3, EnsureGoesOn, TeardownGoesOn DEF ClientNext, Step, clientVars, runtimeVars, Sync,
      TakeKey, Skip, StartAdoption, StartTeardown, StartWithoutRealm, StartWaiting, StartEnsure,
      Take, ServiceStep, Restart, Resync, BecomeCalm
  <2> QED
    BY <2>1
<1> QED
  BY <1>1, <1>2, <1>3

LEMMA ClientTypeInvInit ==
  ASSUME ClientInit
  PROVE  ClientTypeInv
<1>1. RuntimeInv(ClientSteps, AllLocals)
  BY RuntimeInvInit DEF ClientInit
<1>2. WorkerOK /\ RecordedOK
  BY DEF ClientInit, RuntimeInit, WorkerOK, RecordedOK, Idle, ClientSteps
<1>3. StoreOK /\ ServiceOK
  BY DEF ClientInit, ServiceInit, StoreOK, ServiceOK, AllClients
<1> QED
  BY <1>1, <1>2, <1>3 DEF ClientTypeInv

(* The parts that a step of the worker, of the users or of the realms can  *)
(* disturb.                                                                *)
LEMMA ClientTypeInvStep ==
  ASSUME ClientTypeInv, [ClientNext]_clientVars
  PROVE  ClientTypeInv'
<1>0. RuntimeInv(ClientSteps, AllLocals) /\ WorkerOK /\ StoreOK /\ ServiceOK
  BY DEF ClientTypeInv
<1>1. RecordedOK'
  <2> SUFFICES ASSUME NEW k \in Keys, objects'[k] # NoObj, objects'[k].status.ready = "True"
               PROVE  objects'[k].status.recorded # NoName
    BY DEF RecordedOK
  <2>1. objects[k] # NoObj /\ objects[k].status.ready = "True" => objects[k].status.recorded # NoName
    BY DEF ClientTypeInv, RecordedOK
  <2>2. NoStatus.ready # "True"
    BY DEF NoStatus
  <2> QED
    BY <2>1, <2>2, StatusEffect, NoNameIsNoRealm
<1> DEFINE Rest == RuntimeInv(ClientSteps, AllLocals) /\ WorkerOK /\ StoreOK /\ ServiceOK
<1>2. ASSUME UNCHANGED external
      PROVE  StoreOK' /\ ServiceOK'
  BY <1>0, <1>2 DEF external, serviceVars, StoreOK, ServiceOK
<1>3. ASSUME worker' = Idle \/ UNCHANGED worker
      PROVE  WorkerOK'
  BY <1>0, <1>3 DEF WorkerOK, Idle, ClientSteps
<1>4. CASE UserNext /\ UNCHANGED external
  <2>1. UNCHANGED worker
    BY <1>0, <1>4, UserEffect
  <2> QED
    BY <1>0, <1>1, <1>2, <1>3, <1>4, <2>1, UsersKeepRuntimeInv DEF ClientTypeInv
<1>5. CASE \E k \in Keys : Sync(k) /\ UNCHANGED external
  <2>1. UNCHANGED worker
    BY <1>5 DEF Sync
  <2> QED
    BY <1>0, <1>1, <1>2, <1>3, <1>5, <2>1, SyncKeepsRuntimeInv DEF ClientTypeInv
<1>6. CASE \E k \in Keys : TakeKey(k) /\ UNCHANGED external
  <2>1. PICK k \in Keys : TakeKey(k) /\ UNCHANGED external
    BY <1>6
  <2>2. CASE Skip(k)
    <3>1. UNCHANGED worker
      BY <2>2 DEF Skip
    <3> QED
      BY <1>0, <1>1, <1>2, <1>3, <2>1, <2>2, <3>1, IdleKeepsRuntimeInv DEF ClientTypeInv
  <2>3. CASE ~Skip(k)
    <3>1. PICK step \in ClientSteps, local \in AllLocals :
            /\ Take(k, step, local) /\ cache[k] # NoObj
            /\ step # "addFinalizer" =>
                 local \in Locals /\ (local.realm = NoName => step \in RealmlessSteps)
      BY <2>1, <2>3, ClientTakes
    <3>2. RuntimeInv(ClientSteps, AllLocals)'
      BY <1>0, <3>1, TakeKeepsRuntimeInv
    <3>3. WorkerOK'
      BY <3>1 DEF Take, WorkerOK
    <3> QED
      BY <1>1, <1>2, <2>1, <3>2, <3>3 DEF ClientTypeInv
  <2> QED
    BY <2>2, <2>3
<1>7. CASE LocalStep /\ UNCHANGED external
  <2>1. RuntimeInv(ClientSteps, AllLocals)'
    BY <1>0, <1>7, ClientLocalStep, FinalizerStepKeepsRuntimeInv
  <2>2. WorkerOK'
    BY <1>3, <1>7, ClientLocalStep
  <2> QED
    BY <1>1, <1>2, <1>7, <2>1, <2>2 DEF ClientTypeInv
<1>8. CASE EnsureStep
  <2>1. UNCHANGED <<objects, cache, edits, calm, serviceVars>>
    BY <1>8, EnsureGoesOn
  <2>2. PICK step \in EnsureSteps \cup {"failStatus", "readyStatus"} : StaysIn(step)
    BY <1>8, EnsureGoesOn
  <2>3. worker.pc \in EnsureSteps /\ worker.pc \in ClientSteps \ {"addFinalizer"}
    BY <1>8, EnsureGoesOn, ClientStepSets
  <2>4. RuntimeInv(ClientSteps, AllLocals)'
    BY <1>0, <2>1, <2>2, <2>3, ClientStepSets, OnwardKeepsRuntimeInv DEF StaysIn
  <2>5. Realm \in RealmNames
    BY <2>3, WorkerNamesAClient, ClientStepSets
  <2>6. WorkerOK'
    BY <2>2, <2>5, NoNameIsNoRealm DEF StaysIn, WorkerOK, Realm
  <2>7. StoreOK'
    BY <1>8, EnsureKeepsStoreOK
  <2>8. ServiceOK'
    BY <1>0, <2>1 DEF ServiceOK, serviceVars
  <2> QED
    BY <1>1, <2>4, <2>6, <2>7, <2>8 DEF ClientTypeInv
<1>9. CASE TeardownStep
  <2>1. UNCHANGED <<objects, cache, edits, calm, serviceVars>>
    BY <1>9, TeardownGoesOn
  <2>2. worker.pc \in TeardownSteps \ {"removeFinalizer"}
        /\ worker.pc \in ClientSteps \ {"addFinalizer"}
    BY <1>9, TeardownGoesOn, ClientStepSets
  <2>3. RuntimeInv(ClientSteps, AllLocals)' /\ WorkerOK'
    <3>1. CASE Retry
      <4>1. RuntimeInv(ClientSteps, AllLocals)'
        BY <1>0, <2>1, <2>2, <3>1, ClientStepSets, GotoKeepsRuntimeInv
      <4> QED
        BY <1>3, <3>1, <4>1 DEF Retry
    <3>2. CASE \E step \in {"deleteClient", "deleteSecret", "removeFinalizer"} :
                 /\ StaysIn(step)
                 /\ worker.pc = "deleteSecret" => step = "removeFinalizer"
      <4>1. PICK step \in {"deleteClient", "deleteSecret", "removeFinalizer"} :
              /\ StaysIn(step)
              /\ worker.pc = "deleteSecret" => step = "removeFinalizer"
        BY <3>2
      <4>2. RuntimeInv(ClientSteps, AllLocals)'
        BY <1>0, <2>1, <2>2, <4>1, ClientStepSets, OnwardKeepsRuntimeInv DEF StaysIn
      <4>3. worker.local.realm = NoName => step # "deleteClient"
        BY <1>0, <2>2, <4>1 DEF WorkerOK, RealmlessSteps, TeardownSteps
      <4>4. WorkerOK'
        BY <4>1, <4>3 DEF StaysIn, Onward, WorkerOK, RealmlessSteps
      <4> QED
        BY <4>2, <4>4
    <3> QED
      BY <1>9, <3>1, <3>2, TeardownGoesOn
  <2>4. StoreOK'
    BY <1>9, TeardownKeepsStoreOK
  <2>5. ServiceOK'
    BY <1>0, <2>1 DEF ServiceOK, serviceVars
  <2> QED
    BY <1>1, <2>3, <2>4, <2>5 DEF ClientTypeInv
<1>10. CASE ServiceStep
  <2>1. UNCHANGED runtimeVars
    BY <1>10 DEF ServiceStep
  <2>2. RuntimeInv(ClientSteps, AllLocals)'
    BY <1>0, <2>1 DEF runtimeVars, RuntimeInv, RuntimeTypeOK, Idle
  <2> QED
    BY <1>0, <1>1, <1>3, <1>10, <2>1, <2>2, ServiceKeepsOK DEF ClientTypeInv, runtimeVars
<1>11. CASE (Restart \/ Resync \/ BecomeCalm) /\ UNCHANGED external
  <2>1. worker' = Idle \/ UNCHANGED worker
    BY <1>11 DEF Restart, Resync, BecomeCalm
  <2> QED
    BY <1>0, <1>1, <1>2, <1>3, <1>11, <2>1, IdleKeepsRuntimeInv DEF ClientTypeInv
<1>12. CASE UNCHANGED clientVars
  <2>1. RuntimeInv(ClientSteps, AllLocals)'
    BY <1>0, <1>12 DEF clientVars, runtimeVars, RuntimeInv, RuntimeTypeOK, Idle
  <2> QED
    BY <1>1, <1>2, <1>3, <1>12, <2>1 DEF ClientTypeInv, clientVars, runtimeVars, external
<1> QED
  BY <1>4, <1>5, <1>6, <1>7, <1>8, <1>9, <1>10, <1>11, <1>12 DEF ClientNext, Step

(* Resources, Keycloak and Secrets keep their shape, Ready never comes     *)
(* without a recorded realm, and Keycloak is never asked about a client    *)
(* whose realm was not resolved.                                           *)
THEOREM ClientTypeCorrect == ClientSpec => []ClientTypeOK
<1>1. ClientTypeInv => ClientTypeOK
  BY ClientAssumption DEF ClientTypeInv, RuntimeInv, WorkerOK, RecordedOK, StoreOK, ClientTypeOK,
    AllLocals, AllClients
<1>2. ClientInit => ClientTypeInv
  BY ClientTypeInvInit
<1>3. ClientTypeInv /\ [ClientNext]_clientVars => ClientTypeInv'
  BY ClientTypeInvStep
<1> QED
  BY <1>1, <1>2, <1>3, PTL DEF ClientSpec

----------------------------------------------------------------------------
(* What a step does to the worker, to the resources and to the stores.     *)

(* How a worker comes to a step after the adoption of the resource.        *)
Taken(k) ==
  /\ Key' = k /\ Obj' = cache[k] /\ cache[k] # NoObj /\ cache[k].finalizer
  /\ Realm' \in {NoName, ResolvedRealm(cache[k])}
  /\ worker'.pc \in EnsureSteps => Managed(k)
  /\ worker'.pc \in TeardownSteps => Terminated(k)
  /\ worker'.pc = "findToDelete" => Realm' = ResolvedRealm(cache[k])
  /\ worker'.pc = "deleteSecret" => ResolvedRealm(cache[k]) = NoName
  /\ worker'.pc \in {"findClient", "failStatus", "waitStatus", "findToDelete", "deleteSecret"}
  /\ UNCHANGED <<objects, cache, external>>

LEMMA WorkerEffect ==
  ASSUME ClientTypeInv, [ClientNext]_clientVars, worker' # worker,
         worker'.pc \in ClientSteps \ {"addFinalizer"}
  PROVE  \/ \E k \in Keys : Taken(k)
         \/ EnsureStep /\ StaysIn(worker'.pc)
            /\ worker'.pc \in EnsureSteps \cup {"failStatus", "readyStatus"}
         \/ TeardownStep /\ StaysIn(worker'.pc)
            /\ worker'.pc \in {"deleteClient", "deleteSecret", "removeFinalizer"}
<1>1. worker' # Idle
  BY DEF Idle, ClientSteps
<1>2. CASE EnsureStep
  BY <1>2, EnsureGoesOn DEF StaysIn, Onward
<1>3. CASE TeardownStep
  BY <1>1, <1>3, TeardownGoesOn DEF StaysIn, Onward, Retry
<1>4. CASE \E k \in Keys : TakeKey(k) /\ UNCHANGED external
  <2>1. PICK k \in Keys : TakeKey(k) /\ UNCHANGED external
    BY <1>4
  <2>2. ~Skip(k)
    BY DEF Skip
  <2>3. PICK step \in ClientSteps, local \in AllLocals :
          /\ Take(k, step, local) /\ cache[k] # NoObj
          /\ step \in {"addFinalizer", "findClient", "failStatus", "waitStatus",
                       "findToDelete", "deleteSecret"}
          /\ step # "addFinalizer" => local.realm \in {NoName, ResolvedRealm(cache[k])}
          /\ step \in EnsureSteps => Managed(k)
          /\ step \in TeardownSteps => Terminated(k)
          /\ step = "findToDelete" => local.realm = ResolvedRealm(cache[k])
          /\ step = "deleteSecret" => ResolvedRealm(cache[k]) = NoName
    BY <2>1, <2>2, ClientTakes
  <2>4. /\ worker'.pc = step /\ Key' = k /\ Obj' = cache[k] /\ Realm' = local.realm
        /\ UNCHANGED <<objects, cache>>
    BY <2>3 DEF Take, Key, Obj, Realm
  <2>5. cache[k].finalizer
    <3>1. step # "addFinalizer"
      BY <2>4
    <3> QED
      BY <2>1, <2>2, <2>3, <3>1 DEF TakeKey, StartAdoption, StartTeardown, StartWithoutRealm,
        StartWaiting, StartEnsure, Take, Terminated, Managed
  <2>6. Taken(k)
    BY <2>1, <2>3, <2>4, <2>5 DEF Taken
  <2> QED
    BY <2>6
<1>5. CASE LocalStep
  BY <1>1, <1>5, ClientLocalStep
<1>6. CASE UserNext
  BY <1>6, UserEffect DEF ClientTypeInv
<1> QED
  BY <1>1, <1>2, <1>3, <1>4, <1>5, <1>6 DEF ClientNext, Step, clientVars, runtimeVars, Sync,
    ServiceStep, Restart, Resync, BecomeCalm

(* The steps of a teardown, in their order.                                *)
LEMMA TeardownMoves ==
  ASSUME ClientTypeInv, TeardownStep, StaysIn(worker'.pc)
  PROVE  \/ /\ worker.pc = "findToDelete" /\ worker'.pc = "deleteClient"
            /\ UNCHANGED kcClients
         \/ /\ worker.pc \in {"findToDelete", "deleteClient"} /\ worker'.pc = "deleteSecret"
            /\ kcClients'[Client] = NoClient
         \/ /\ worker.pc = "deleteSecret" /\ worker'.pc = "removeFinalizer"
            /\ UNCHANGED kcClients /\ secrets' = [secrets EXCEPT ![Secret] = NoSecret]
<1>1. PICK o \in Outcomes : FindToDelete(o) \/ DeleteKcClient(o) \/ DeleteSecret(o)
  BY DEF TeardownStep
<1>2. worker.pc \in TeardownSteps \ {"removeFinalizer"}
  BY TeardownGoesOn
<1>3. worker.pc \in ClientSteps \ {"addFinalizer"}
  BY <1>2 DEF TeardownSteps, ClientSteps
<1>4. worker \in Reconciles(Key, ClientSteps, AllLocals)
  BY <1>3, WorkerNamesAClient
<1>5. ~Retry /\ \A step \in ClientSteps : Goto(step) => worker'.pc = step
  <2>1. worker'.pc \in ClientSteps
    BY DEF StaysIn, Reconciles
  <2> QED
    BY <1>4, <2>1 DEF Retry, Idle, ClientSteps, Goto, Reconciles
<1>6. {"deleteClient", "deleteSecret", "removeFinalizer"} \subseteq ClientSteps
  BY DEF ClientSteps
<1>7. CASE FindToDelete(o)
  BY <1>5, <1>6, <1>7 DEF FindToDelete, At, Found
<1>8. CASE DeleteKcClient(o)
  <2>1. Client \in AllClients
    BY <1>3, <1>8, WorkerNamesAClient DEF DeleteKcClient, At, RealmlessSteps
  <2>2. worker.pc = "deleteClient" /\ o = "ok" /\ Goto("deleteSecret")
    BY <1>5, <1>8 DEF DeleteKcClient, At
  <2>3. kcClients' = [kcClients EXCEPT ![Client] = NoClient]
    BY <1>8, <2>2 DEF DeleteKcClient, Call
  <2> QED
    BY <1>5, <1>6, <2>1, <2>2, <2>3 DEF ClientTypeInv, StoreOK
<1>9. CASE DeleteSecret(o)
  BY <1>5, <1>6, <1>9 DEF DeleteSecret, At, Call
<1> QED
  BY <1>1, <1>7, <1>8, <1>9

(* Only the finalizer step at the end of a teardown lets a resource go.    *)
LEMMA ClientFinalizerInvStep ==
  ASSUME ClientTypeInv, FinalizerInv(EnsureSteps, TeardownSteps), [ClientNext]_clientVars
  PROVE  FinalizerInv(EnsureSteps, TeardownSteps)'
<1>0. /\ RuntimeInv(ClientSteps, AllLocals)
      /\ "idle" \notin EnsureSteps \cup TeardownSteps /\ "removeFinalizer" \in TeardownSteps
  BY ClientStepSets DEF ClientTypeInv
<1>1. CASE UserNext
  BY <1>0, <1>1, UsersKeepFinalizerInv
<1>2. CASE \E k \in Keys : Sync(k)
  BY <1>0, <1>2, SyncKeepsFinalizerInv
<1>3. CASE \E k \in Keys : TakeKey(k)
  <2>1. PICK k \in Keys : TakeKey(k)
    BY <1>3
  <2>2. CASE Skip(k)
    BY <1>0, <2>2, IdleKeepsFinalizerInv
  <2>3. CASE ~Skip(k)
    <3>1. PICK step \in ClientSteps, local \in AllLocals :
            /\ Take(k, step, local)
            /\ step \in EnsureSteps => Managed(k)
            /\ step \in TeardownSteps => Terminated(k)
      BY <2>1, <2>3, ClientTakes
    <3> QED
      BY <1>0, <3>1, TakeKeepsFinalizerInv
  <2> QED
    BY <2>2, <2>3
<1>4. CASE LocalStep
  BY <1>0, <1>4, ClientLocalStep, FinalizerStepKeepsFinalizerInv
<1>5. CASE EnsureStep
  <2>1. PICK step \in EnsureSteps \cup {"failStatus", "readyStatus"} : StaysIn(step)
    BY <1>5, EnsureGoesOn
  <2>2. worker.pc \in EnsureSteps /\ worker.pc # "idle" /\ UNCHANGED <<objects, cache>>
    BY <1>0, <1>5, EnsureGoesOn
  <2>3. step \notin TeardownSteps
    BY DEF EnsureSteps, TeardownSteps
  <2> QED
    BY <2>1, <2>2, <2>3, OnwardKeepsFinalizerInv DEF StaysIn
<1>6. CASE TeardownStep
  <2>1. worker.pc \in TeardownSteps /\ worker.pc # "idle" /\ UNCHANGED <<objects, cache>>
    BY <1>0, <1>6, TeardownGoesOn
  <2>2. CASE Retry
    BY <1>0, <2>1, <2>2, GotoKeepsFinalizerInv
  <2>3. CASE ~Retry
    <3>1. PICK step \in {"deleteClient", "deleteSecret", "removeFinalizer"} : StaysIn(step)
      BY <1>6, <2>3, TeardownGoesOn
    <3>2. step \notin EnsureSteps
      BY DEF EnsureSteps
    <3> QED
      BY <2>1, <3>1, <3>2, OnwardKeepsFinalizerInv DEF StaysIn
  <2> QED
    BY <2>2, <2>3
<1>7. CASE UNCHANGED runtimeVars
  BY <1>7 DEF runtimeVars, FinalizerInv, CacheInv, ReadInv, TeardownInv, Held, SameLife, Key, Obj
<1>8. CASE Restart \/ Resync \/ BecomeCalm
  BY <1>0, <1>8, IdleKeepsFinalizerInv
<1> QED
  BY <1>1, <1>2, <1>3, <1>4, <1>5, <1>6, <1>7, <1>8 DEF ClientNext, Step, ServiceStep, clientVars,
    runtimeVars

HeldInv == ClientTypeInv /\ FinalizerInv(EnsureSteps, TeardownSteps)

LEMMA HeldInvInit ==
  ASSUME ClientInit
  PROVE  HeldInv /\ worker.pc = "idle"
<1>1. RuntimeInit
  BY DEF ClientInit
<1> QED
  BY <1>1, ClientTypeInvInit, FinalizerInvInit, ClientStepSets DEF HeldInv, RuntimeInit, Idle

LEMMA HeldInvStep ==
  ASSUME HeldInv, [ClientNext]_clientVars
  PROVE  HeldInv'
BY ClientTypeInvStep, ClientFinalizerInvStep DEF HeldInv

LEMMA HeldUnlessReleased ==
  ASSUME HeldInv, [ClientNext]_clientVars, NEW k \in Keys, Held(k), ~Held(k)'
  PROVE  /\ worker.pc = "removeFinalizer" /\ k = Key /\ objects[k] = Obj
         /\ objects'[k] = NoObj /\ UNCHANGED external
<1>0. RuntimeInv(ClientSteps, AllLocals) /\ TeardownInv(TeardownSteps)
  BY DEF HeldInv, ClientTypeInv, FinalizerInv
<1>1. objects'[k] # objects[k]
  BY DEF Held
<1>2. ~UserNext
  BY <1>0, UserEffect DEF Held
<1>3. LocalStep /\ UNCHANGED external
  BY <1>1, <1>2, EnsureGoesOn, TeardownGoesOn DEF HeldInv, ClientNext, Step, clientVars,
    runtimeVars, Sync, TakeKey, Skip, StartAdoption, StartTeardown, StartWithoutRealm,
    StartWaiting, StartEnsure, Take, ServiceStep, Restart, Resync, BecomeCalm
<1>4. PICK o \in Outcomes :
        \/ FinalizerStep(o) \/ WriteRejected(o) \/ WriteWaiting(o)
        \/ \E name \in Names \cup {NoName} : WriteReady(o, name)
  BY <1>3, ClientLocalStep DEF HeldInv
<1>5. CASE RemoveFinalizer(o)
  BY <1>0, <1>1, <1>3, <1>5, ClientStepSets, RemoveFinalizerEffect DEF RemoveFinalizer, At
<1>6. CASE ~RemoveFinalizer(o)
  BY <1>0, <1>1, <1>4, <1>6, OtherWritesEffect DEF Keeps, Held, SameLife
<1> QED
  BY <1>5, <1>6

(* Who changes Keycloak's clients and the Secrets.                         *)
LEMMA KcClientsEffect ==
  ASSUME HeldInv, [ClientNext]_clientVars
  PROVE  \/ UNCHANGED kcClients
         \/ /\ worker.pc \in {"postClient", "putClient"} /\ EnsureStep /\ Held(Key)
            /\ realmUp[Realm] \/ Found # NoClient
            /\ \A c \in AllClients : c # Client => kcClients'[c] = kcClients[c]
         \/ /\ worker.pc = "deleteClient" /\ TeardownStep
            /\ kcClients' = [kcClients EXCEPT ![Client] = NoClient]
         \/ /\ ServiceStep
            /\ \A c \in AllClients :
                 kcClients'[c] = IF realmUp'[c[1]] THEN kcClients[c] ELSE NoClient
<1>0. DOMAIN kcClients = AllClients
  BY DEF HeldInv, ClientTypeInv, StoreOK
<1>1. CASE EnsureStep
  <2>1. PICK o \in Outcomes :
          \/ FindClient(o) \/ PostClient(o) \/ FindCreated(o) \/ PutClient(o)
          \/ GetCredential(o) \/ WriteSecret(o)
    BY <1>1 DEF EnsureStep
  <2>2. Held(Key)
    BY <1>1, EnsureGoesOn DEF HeldInv, FinalizerInv
  <2>3. CASE PostClient(o)
    <3>1. worker.pc = "postClient"
      BY <2>3 DEF PostClient, At
    <3>2. \/ UNCHANGED kcClients
          \/ realmUp[Realm] /\ \A c \in AllClients : c # Client => kcClients'[c] = kcClients[c]
      BY <1>0, <2>3 DEF PostClient, Call
    <3> QED
      BY <1>1, <2>2, <3>1, <3>2
  <2>4. CASE PutClient(o)
    <3>1. worker.pc = "putClient"
      BY <2>4 DEF PutClient, At
    <3>2. \/ UNCHANGED kcClients
          \/ /\ Found # NoClient
             /\ kcClients' = [kcClients EXCEPT ![Client].rep = Updating(Found.rep)]
      BY <2>4 DEF PutClient, Call
    <3>3. \/ UNCHANGED kcClients
          \/ Found # NoClient /\ \A c \in AllClients : c # Client => kcClients'[c] = kcClients[c]
      BY <1>0, <3>2
    <3> QED
      BY <1>1, <2>2, <3>1, <3>3
  <2>5. CASE FindClient(o) \/ FindCreated(o) \/ GetCredential(o) \/ WriteSecret(o)
    BY <2>5 DEF FindClient, FindCreated, GetCredential, WriteSecret
  <2> QED
    BY <2>1, <2>3, <2>4, <2>5
<1>2. CASE TeardownStep
  BY <1>2 DEF TeardownStep, FindToDelete, DeleteKcClient, DeleteSecret, At, Call
<1>3. CASE ServiceStep
  BY <1>0, <1>3 DEF ServiceStep
<1>4. CASE ~EnsureStep /\ ~TeardownStep /\ ~ServiceStep
  BY <1>4 DEF ClientNext, Step, clientVars, external
<1> QED
  BY <1>1, <1>2, <1>3, <1>4

LEMMA SecretsEffect ==
  ASSUME HeldInv, [ClientNext]_clientVars
  PROVE  \/ UNCHANGED secrets
         \/ /\ worker.pc = "writeSecret" /\ EnsureStep /\ Held(Key)
            /\ \A s \in SecretNames : s # Secret => secrets'[s] = secrets[s]
         \/ /\ worker.pc = "deleteSecret" /\ TeardownStep
            /\ secrets' = [secrets EXCEPT ![Secret] = NoSecret]
<1>0. DOMAIN secrets = SecretNames
  BY DEF HeldInv, ClientTypeInv, StoreOK
<1>1. CASE EnsureStep
  <2>1. PICK o \in Outcomes :
          \/ FindClient(o) \/ PostClient(o) \/ FindCreated(o) \/ PutClient(o)
          \/ GetCredential(o) \/ WriteSecret(o)
    BY <1>1 DEF EnsureStep
  <2>2. Held(Key)
    BY <1>1, EnsureGoesOn DEF HeldInv, FinalizerInv
  <2>3. CASE WriteSecret(o)
    BY <1>0, <1>1, <2>2, <2>3 DEF WriteSecret, At, Call
  <2>4. CASE ~WriteSecret(o)
    BY <2>1, <2>4 DEF FindClient, PostClient, FindCreated, PutClient, GetCredential
  <2> QED
    BY <2>3, <2>4
<1>2. CASE TeardownStep
  BY <1>2 DEF TeardownStep, FindToDelete, DeleteKcClient, DeleteSecret, At, Call
<1>3. CASE ~EnsureStep /\ ~TeardownStep
  BY <1>3 DEF ClientNext, Step, ServiceStep, clientVars, external
<1> QED
  BY <1>1, <1>2, <1>3

----------------------------------------------------------------------------
(* The Secrets of the tenants.                                             *)

(* What users must not do: name another Secret in a spec.                  *)
StableSecretNames ==
  \A k \in Keys : \A spec, other \in Specs[k] : SecretNameOf(k, spec) = SecretNameOf(k, other)

SecretInv ==
  /\ HeldInv
  /\ worker.pc = "removeFinalizer" => secrets[Secret] = NoSecret
  /\ NoOrphanSecret

LEMMA SecretInvStep ==
  ASSUME StableSecretNames, SecretInv, [ClientNext]_clientVars
  PROVE  SecretInv'
<1>1. HeldInv /\ HeldInv' /\ ClientTypeInv /\ ClientTypeInv'
  BY HeldInvStep DEF SecretInv, HeldInv
<1>2. \A k \in Keys : (Held(k) => objects[k].spec \in Specs[k])
                      /\ (Held(k)' => objects'[k].spec \in Specs[k])
  BY <1>1 DEF ClientTypeInv, RuntimeInv, RuntimeTypeOK, CatalogObjects, Held
<1>3. worker'.pc = "removeFinalizer" => secrets'[Secret'] = NoSecret
  <2> SUFFICES ASSUME worker'.pc = "removeFinalizer"
               PROVE  secrets'[Secret'] = NoSecret
    OBVIOUS
  <2>1. CASE UNCHANGED worker
    BY <2>1, SecretsEffect, <1>1 DEF SecretInv, Secret, Spec, Key, Obj
  <2>2. CASE worker' # worker
    <3>1. TeardownStep /\ StaysIn("removeFinalizer")
      BY <1>1, <2>2, WorkerEffect DEF Taken, ClientSteps, EnsureSteps
    <3>2. Secret' = Secret
      BY <3>1 DEF StaysIn, Onward, Secret, Spec
    <3>3. worker.pc = "deleteSecret" /\ secrets' = [secrets EXCEPT ![Secret] = NoSecret]
      BY <1>1, <3>1, TeardownMoves DEF StaysIn, Onward
    <3>4. Secret \in SecretNames
      BY <1>1, <3>3, WorkerNamesAClient DEF ClientSteps
    <3> QED
      BY <1>1, <3>2, <3>3, <3>4 DEF ClientTypeInv, StoreOK
  <2> QED
    BY <2>1, <2>2
<1>4. NoOrphanSecret'
  <2> DEFINE Keeper(k, s) == Held(k) /\ SecretNameOf(k, objects[k].spec) = s
  <2> SUFFICES ASSUME NEW s \in SecretNames, secrets'[s] # NoSecret
               PROVE  \E k \in Keys : Keeper(k, s)'
    BY DEF NoOrphanSecret, Held, SecretNameOf
  <2>1. ASSUME NEW k \in Keys, Keeper(k, s), Held(k)'
        PROVE  Keeper(k, s)'
    BY <1>2, <2>1 DEF StableSecretNames, SecretNameOf
  <2>2. CASE secrets[s] # NoSecret
    <3>1. PICK k \in Keys : Keeper(k, s)
      BY <2>2 DEF SecretInv, NoOrphanSecret, Held
    <3>2. Held(k)'
      <4> SUFFICES ASSUME ~Held(k)' PROVE FALSE
        OBVIOUS
      <4>1. worker.pc = "removeFinalizer" /\ k = Key /\ objects[k] = Obj
        BY <1>1, <3>1, HeldUnlessReleased
      <4>2. Secret = s
        BY <3>1, <4>1 DEF Secret, Spec
      <4> QED
        BY <2>2, <4>1, <4>2 DEF SecretInv
    <3> QED
      BY <2>1, <3>1, <3>2
  <2>3. CASE secrets[s] = NoSecret
    <3>1. worker.pc = "writeSecret" /\ EnsureStep /\ Held(Key) /\ s = Secret
      BY <1>1, <2>3, SecretsEffect DEF ClientTypeInv, StoreOK
    <3>2. Key \in Keys /\ Spec \in Specs[Key] /\ UNCHANGED objects
      BY <1>1, <3>1, WorkerNamesAClient, EnsureGoesOn DEF ClientSteps
    <3>3. PICK k \in Keys : k = Key
      BY <3>2
    <3>4. Keeper(k, s)
      BY <1>2, <3>1, <3>2, <3>3 DEF StableSecretNames, Secret
    <3>5. Held(k)'
      BY <3>1, <3>2, <3>3 DEF Held
    <3> QED
      BY <2>1, <3>4, <3>5
  <2> QED
    BY <2>2, <2>3
<1> QED
  BY <1>1, <1>3, <1>4 DEF SecretInv

(* Whatever is lost, stale, repeated or crashed, and whatever becomes of   *)
(* the realms: a credentials Secret always has a resource that names it    *)
(* and still carries the finalizer.                                        *)
THEOREM NoSecretIsOrphaned ==
  ASSUME StableSecretNames
  PROVE  ClientSpec => []NoOrphanSecret
<1>1. ClientInit => SecretInv
  BY HeldInvInit DEF ClientInit, SecretInv, NoOrphanSecret
<1>2. SecretInv /\ [ClientNext]_clientVars => SecretInv'
  BY SecretInvStep
<1>3. SecretInv => NoOrphanSecret
  BY DEF SecretInv
<1> QED
  BY <1>1, <1>2, <1>3, PTL DEF ClientSpec

----------------------------------------------------------------------------
(* The recorded realm.                                                     *)
RecordedGone ==
  worker.pc \in {"deleteSecret", "removeFinalizer"} /\ Obj.status.recorded # NoName =>
    kcClients[<<Obj.status.recorded, ClientIDOf(Key, Spec)>>] = NoClient

RecordedInv ==
  /\ HeldInv
  /\ \A k \in Keys : objects[k] # NoObj /\ objects[k].status.recorded # NoName => Held(k)
  /\ worker.pc \in ClientSteps \ {"addFinalizer"} => Obj.finalizer
  /\ worker.pc \in {"findToDelete", "deleteClient"} /\ Obj.status.recorded # NoName =>
       Realm = Obj.status.recorded
  /\ RecordedGone

(* A client that is gone stays so while its teardown goes on.              *)
LEMMA GoneStaysGone ==
  ASSUME HeldInv, [ClientNext]_clientVars, worker.pc \in {"deleteSecret", "removeFinalizer"},
         NEW c \in AllClients, kcClients[c] = NoClient
  PROVE  kcClients'[c] = NoClient
BY KcClientsEffect

LEMMA RecordedInvStep ==
  ASSUME RecordedInv, [ClientNext]_clientVars
  PROVE  RecordedInv'
<1>0. HeldInv /\ HeldInv' /\ ClientTypeInv
  BY HeldInvStep DEF RecordedInv, HeldInv
<1>1. ASSUME NEW k \in Keys, objects'[k] # NoObj, objects'[k].status.recorded # NoName
      PROVE  Held(k)'
  <2>1. CASE objects[k] # NoObj /\ objects[k].status.recorded # NoName
    BY <1>0, <1>1, <2>1, HeldUnlessReleased DEF RecordedInv
  <2>2. CASE worker.pc = "readyStatus" /\ k = Key /\ objects[k] = Obj
    <3>1. Obj.finalizer /\ Obj # NoObj
      BY <1>0, <2>2, WorkerNamesAClient, NoObjIsNoObject DEF RecordedInv, ClientSteps
    <3> QED
      BY <1>0, <1>1, <2>2, <3>1, HeldUnlessReleased DEF Held
  <2> QED
    BY <1>0, <1>1, <2>1, <2>2, StatusEffect DEF NoStatus
<1>2. CASE UNCHANGED worker
  <2>1. /\ UNCHANGED <<Key, Obj, Realm, Spec, worker.pc>>
        /\ ClientIDOf(Key, Spec)' = ClientIDOf(Key, Spec)
    BY <1>2 DEF Key, Obj, Realm, Spec, ClientIDOf
  <2>2. ASSUME worker.pc \in {"deleteSecret", "removeFinalizer"}, Obj.status.recorded # NoName
        PROVE  <<Obj.status.recorded, ClientIDOf(Key, Spec)>> \in AllClients
    <3>1. Obj \in CatalogObjects(Key) /\ ClientIDOf(Key, Spec) \in ClientIDs
      BY <1>0, <2>2, WorkerNamesAClient DEF ClientSteps
    <3>2. Obj.status.recorded \in RealmNames
      BY <2>2, <3>1, ClientAssumption DEF CatalogObjects, Statuses
    <3> QED
      BY <3>1, <3>2 DEF AllClients
  <2>3. RecordedGone'
    BY <1>0, <2>1, <2>2, GoneStaysGone DEF RecordedInv, RecordedGone
  <2> QED
    BY <1>0, <1>1, <2>1, <2>3 DEF RecordedInv
<1>3. CASE worker' # worker /\ worker'.pc \in ClientSteps \ {"addFinalizer"}
  <2>1. CASE \E k \in Keys : Taken(k)
    <3>1. PICK k \in Keys : Taken(k)
      BY <2>1
    <3>2. Obj' = cache[k] /\ Obj'.finalizer
      BY <3>1 DEF Taken
    <3>3. worker'.pc \in {"findToDelete", "deleteClient"} /\ Obj'.status.recorded # NoName =>
            Realm' = Obj'.status.recorded
      BY <3>1 DEF Taken, ResolvedRealm
    <3>4. RecordedGone'
      BY <3>1 DEF Taken, ResolvedRealm, RecordedGone
    <3> QED
      BY <1>0, <1>1, <3>2, <3>3, <3>4 DEF RecordedInv
  <2>2. CASE EnsureStep /\ StaysIn(worker'.pc)
             /\ worker'.pc \in EnsureSteps \cup {"failStatus", "readyStatus"}
    <3>1. Obj' = Obj /\ worker.pc \in ClientSteps \ {"addFinalizer"}
      BY <2>2, <1>0, EnsureGoesOn, ClientStepSets DEF StaysIn, Onward
    <3> QED
      BY <1>0, <1>1, <2>2, <3>1 DEF RecordedInv, RecordedGone, EnsureSteps
  <2>3. CASE TeardownStep /\ StaysIn(worker'.pc)
             /\ worker'.pc \in {"deleteClient", "deleteSecret", "removeFinalizer"}
    <3>1. /\ Obj' = Obj /\ Key' = Key /\ Realm' = Realm /\ Spec' = Spec
          /\ ClientIDOf(Key, Spec)' = ClientIDOf(Key, Spec)
          /\ worker.pc \in ClientSteps \ {"addFinalizer"}
      BY <2>3, <1>0, TeardownGoesOn, ClientStepSets
        DEF StaysIn, Onward, Realm, Spec, ClientIDOf
    <3>2. /\ worker'.pc = "deleteClient" => worker.pc = "findToDelete"
          /\ worker'.pc = "deleteSecret" => /\ worker.pc \in {"findToDelete", "deleteClient"}
                                            /\ kcClients'[Client] = NoClient
          /\ worker'.pc = "removeFinalizer" => worker.pc = "deleteSecret" /\ UNCHANGED kcClients
      BY <1>0, <2>3, TeardownMoves
    <3>3. RecordedGone'
      BY <2>3, <3>1, <3>2 DEF RecordedInv, RecordedGone, Client
    <3> QED
      BY <1>0, <1>1, <2>3, <3>1, <3>2, <3>3 DEF RecordedInv
  <2> QED
    BY <1>0, <1>3, <2>1, <2>2, <2>3, WorkerEffect
<1>4. CASE worker'.pc \notin ClientSteps \ {"addFinalizer"}
  BY <1>0, <1>1, <1>4 DEF RecordedInv, RecordedGone, ClientSteps
<1> QED
  BY <1>2, <1>3, <1>4

(* A resource that recorded its realm is let go only once Keycloak has no  *)
(* such client in that realm, though the realm's own resource may be gone, *)
(* Keycloak may have been unreachable and the operator may have crashed.   *)
THEOREM RecordedClientGoes == ClientSpec => RecordedClientIsTornDown
<1> DEFINE Goes ==
      \A k \in Keys :
        objects[k] # NoObj /\ objects'[k] = NoObj /\ objects[k].status.recorded # NoName =>
          kcClients[<<objects[k].status.recorded, ClientIDOf(k, objects[k].spec)>>] = NoClient
<1>1. ClientInit => RecordedInv
  BY HeldInvInit DEF ClientInit, RuntimeInit, RecordedInv, RecordedGone, ClientSteps
<1>2. RecordedInv /\ [ClientNext]_clientVars => RecordedInv'
  BY RecordedInvStep
<1>3. RecordedInv /\ [ClientNext]_clientVars => [Goes]_clientVars
  <2> SUFFICES ASSUME RecordedInv, [ClientNext]_clientVars, NEW k \in Keys,
                      objects[k] # NoObj, objects'[k] = NoObj, objects[k].status.recorded # NoName
               PROVE  kcClients[<<objects[k].status.recorded,
                                  ClientIDOf(k, objects[k].spec)>>] = NoClient
    OBVIOUS
  <2>1. HeldInv /\ Held(k) /\ ~Held(k)'
    BY DEF RecordedInv, Held
  <2>2. worker.pc = "removeFinalizer" /\ k = Key /\ objects[k] = Obj
    BY <2>1, HeldUnlessReleased
  <2> QED
    BY <2>2 DEF RecordedInv, RecordedGone, Spec
<1> QED
  BY <1>1, <1>2, <1>3, PTL DEF ClientSpec, RecordedClientIsTornDown

----------------------------------------------------------------------------
(* The realms a client can be in.                                          *)
RefersTo(k, n) == \E spec \in Specs[k] : n \in PossibleNames[spec.realmRef]

(* What users must not do: change the ID of a client.                      *)
StableClientIDs ==
  \A k \in Keys : \A spec, other \in Specs[k] : ClientIDOf(k, spec) = ClientIDOf(k, other)

Recorded(obj, k) ==
  obj # NoObj /\ obj.status.recorded # NoName => RefersTo(k, obj.status.recorded)

ReferInv ==
  /\ HeldInv
  /\ \A k \in Keys : Recorded(objects[k], k) /\ Recorded(cache[k], k)
  /\ worker.pc \in ClientSteps \ {"addFinalizer"} /\ Realm # NoName => RefersTo(Key, Realm)

LEMMA CacheEffect ==
  ASSUME ClientTypeInv, [ClientNext]_clientVars, NEW k \in Keys
  PROVE  cache'[k] = cache[k] \/ (cache'[k] = objects[k] /\ objects'[k] = objects[k])
<1>1. DOMAIN cache = Keys
  BY DEF ClientTypeInv, RuntimeInv, RuntimeTypeOK
<1>2. CASE \E j \in Keys : Sync(j)
  BY <1>1, <1>2 DEF Sync
<1>3. CASE UserNext
  BY <1>3, UserEffect DEF ClientTypeInv
<1>4. CASE Restart
  BY <1>4 DEF Restart
<1>5. CASE ~UserNext /\ ~Restart /\ ~\E j \in Keys : Sync(j)
  BY <1>5, EnsureGoesOn, TeardownGoesOn, ClientLocalStep DEF ClientNext, Step, clientVars,
    runtimeVars, TakeKey, Skip, StartAdoption, StartTeardown, StartWithoutRealm, StartWaiting,
    StartEnsure, Take, ServiceStep, Resync, BecomeCalm
<1> QED
  BY <1>2, <1>3, <1>4, <1>5

LEMMA ResolvedIsReferred ==
  ASSUME ReferInv, NEW k \in Keys, cache[k] # NoObj, ResolvedRealm(cache[k]) # NoName
  PROVE  RefersTo(k, ResolvedRealm(cache[k]))
<1>1. cache[k].spec \in Specs[k] /\ cache[k].spec.realmRef \in Realms
  BY ResolvedIsARealm DEF ReferInv, HeldInv
<1>2. CASE cache[k].status.recorded # NoName
  BY <1>2 DEF ReferInv, Recorded, ResolvedRealm
<1>3. CASE cache[k].status.recorded = NoName
  <2>1. /\ realmView[cache[k].spec.realmRef] # NoObj
        /\ ResolvedRealm(cache[k]) = realmView[cache[k].spec.realmRef].name
    BY <1>3 DEF ResolvedRealm
  <2> QED
    BY <1>1, <2>1 DEF ReferInv, HeldInv, ClientTypeInv, ServiceOK, RefersTo
<1> QED
  BY <1>2, <1>3

LEMMA ReferInvStep ==
  ASSUME ReferInv, [ClientNext]_clientVars
  PROVE  ReferInv'
<1>0. HeldInv /\ HeldInv' /\ ClientTypeInv
  BY HeldInvStep DEF ReferInv, HeldInv
<1>1. ASSUME NEW k \in Keys
      PROVE  Recorded(objects[k], k)' /\ Recorded(cache[k], k)'
  <2>1. Recorded(objects[k], k)'
    <3>1. CASE worker.pc = "readyStatus" /\ k = Key /\ Realm \in RealmNames
               /\ objects'[k].status.recorded = Realm
      BY <3>1, NoNameIsNoRealm DEF ReferInv, Recorded, RefersTo, ClientSteps
    <3> QED
      BY <1>0, <3>1, StatusEffect DEF ReferInv, Recorded, RefersTo, NoStatus
  <2>2. Recorded(cache[k], k)'
    BY <1>0, <2>1, CacheEffect DEF ReferInv, Recorded, RefersTo
  <2> QED
    BY <2>1, <2>2
<1>2. ASSUME worker'.pc \in ClientSteps \ {"addFinalizer"}, Realm' # NoName
      PROVE  RefersTo(Key, Realm)'
  <2>1. CASE UNCHANGED worker
    BY <1>2, <2>1 DEF ReferInv, RefersTo, Realm, Key
  <2>2. CASE \E k \in Keys : Taken(k)
    <3>1. PICK k \in Keys : Taken(k)
      BY <2>2
    <3>2. Key' = k /\ cache[k] # NoObj /\ Realm' = ResolvedRealm(cache[k])
      BY <1>2, <3>1 DEF Taken
    <3>3. RefersTo(k, ResolvedRealm(cache[k]))
      BY <1>2, <3>2, ResolvedIsReferred
    <3> QED
      BY <3>2, <3>3 DEF RefersTo
  <2>3. CASE StaysIn(worker'.pc) /\ (EnsureStep \/ TeardownStep)
    <3>1. Key' = Key /\ Realm' = Realm
      BY <2>3 DEF StaysIn, Onward, Realm
    <3>2. worker.pc \in ClientSteps \ {"addFinalizer"}
      BY <1>0, <2>3, EnsureGoesOn, TeardownGoesOn, ClientStepSets
    <3> QED
      BY <1>2, <3>1, <3>2 DEF ReferInv, RefersTo
  <2> QED
    BY <1>0, <1>2, <2>1, <2>2, <2>3, WorkerEffect
<1> QED
  BY <1>0, <1>1, <1>2 DEF ReferInv

LEMMA ReferInvInit ==
  ASSUME ClientInit
  PROVE  ReferInv
BY HeldInvInit DEF ClientInit, RuntimeInit, ReferInv, Recorded, ClientSteps

(* A client that appears is the one the worker's resource stands for.      *)
LEMMA ClientAppears ==
  ASSUME HeldInv, [ClientNext]_clientVars, NEW c \in AllClients,
         kcClients[c] = NoClient, kcClients'[c] # NoClient
  PROVE  /\ worker.pc \in ClientSteps \ {"addFinalizer"} /\ EnsureStep
         /\ c = Client /\ Held(Key) /\ realmUp[Realm]
         /\ Key \in Keys /\ Spec \in Specs[Key] /\ Realm \in RealmNames
         /\ UNCHANGED <<objects, serviceVars>>
<1>1. /\ worker.pc \in {"postClient", "putClient"} /\ EnsureStep /\ Held(Key)
      /\ realmUp[Realm] \/ Found # NoClient
      /\ c = Client
  BY KcClientsEffect DEF HeldInv, ClientTypeInv, StoreOK
<1>2. worker.pc \in ClientSteps \ {"addFinalizer"} /\ worker.pc \notin RealmlessSteps
  BY <1>1 DEF ClientSteps, RealmlessSteps
<1>3. UNCHANGED <<objects, serviceVars>>
  BY <1>1, EnsureGoesOn DEF HeldInv
<1> QED
  BY <1>1, <1>2, <1>3, WorkerNamesAClient, NoNameIsNoRealm DEF HeldInv, Found

LEMMA ClientsStayStep ==
  ASSUME StableClientIDs, ReferInv, ClientsStayInReferencedRealms, [ClientNext]_clientVars
  PROVE  ClientsStayInReferencedRealms'
<1>0. HeldInv /\ DOMAIN kcClients = AllClients /\ DOMAIN kcClients' = AllClients
  BY HeldInvStep DEF ReferInv, HeldInv, ClientTypeInv, StoreOK
<1> SUFFICES ASSUME NEW c \in AllClients, kcClients'[c] # NoClient
             PROVE  \E k \in Keys : \E spec \in Specs[k] :
                      c[2] = ClientIDOf(k, spec) /\ c[1] \in PossibleNames[spec.realmRef]
  BY <1>0 DEF ClientsStayInReferencedRealms, ClientIDOf
<1>1. CASE kcClients[c] # NoClient
  BY <1>0, <1>1 DEF ClientsStayInReferencedRealms
<1>2. CASE kcClients[c] = NoClient
  <2>1. /\ worker.pc \in ClientSteps \ {"addFinalizer"} /\ c = Client
        /\ Key \in Keys /\ Spec \in Specs[Key] /\ Realm \in RealmNames
    BY <1>0, <1>2, ClientAppears
  <2>2. PICK spec \in Specs[Key] : Realm \in PossibleNames[spec.realmRef]
    BY <2>1, NoNameIsNoRealm DEF ReferInv, RefersTo
  <2>3. c[1] = Realm /\ c[2] = ClientIDOf(Key, spec)
    BY <2>1 DEF Client, StableClientIDs
  <2> QED
    BY <2>1, <2>2, <2>3
<1> QED
  BY <1>1, <1>2

(* A client is only ever in a realm that a resource it stands for may name,*)
(* however late its controller acts on what it read of the realms.         *)
THEOREM ClientsStay ==
  ASSUME StableClientIDs
  PROVE  ClientSpec => []ClientsStayInReferencedRealms
<1> DEFINE Inv == ReferInv /\ ClientsStayInReferencedRealms
<1>1. ClientInit => Inv
  BY ReferInvInit DEF ClientInit, ClientsStayInReferencedRealms
<1>2. Inv /\ [ClientNext]_clientVars => Inv'
  BY ReferInvStep, ClientsStayStep
<1>3. Inv => ClientsStayInReferencedRealms
  OBVIOUS
<1> QED
  BY <1>1, <1>2, <1>3, PTL DEF ClientSpec

----------------------------------------------------------------------------
(* No wakeup is lost.                                                      *)
ManageSteps == EnsureSteps \cup {"readyStatus"}

ClientWakeInv == HeldInv /\ VersionInv(ManageSteps) /\ WakeInv(ManageSteps, {})

LEMMA ManageStepSets ==
  /\ "idle" \notin ManageSteps /\ "readyStatus" \in ManageSteps
  /\ ManageSteps \cap TeardownSteps = {} /\ "addFinalizer" \notin ManageSteps
  /\ EnsureSteps \subseteq ManageSteps
BY DEF ManageSteps, EnsureSteps, TeardownSteps

LEMMA ClientVersionInvStep ==
  ASSUME ClientTypeInv, VersionInv(ManageSteps), [ClientNext]_clientVars
  PROVE  VersionInv(ManageSteps)'
<1>0. RuntimeInv(ClientSteps, AllLocals)
  BY DEF ClientTypeInv
<1>1. CASE UserNext
  BY <1>0, <1>1, UsersKeepVersionInv
<1>2. CASE \E k \in Keys : Sync(k)
  BY <1>0, <1>2, SyncKeepsVersionInv
<1>3. CASE \E k \in Keys : TakeKey(k)
  <2>1. PICK k \in Keys : TakeKey(k)
    BY <1>3
  <2>2. CASE Skip(k)
    BY <1>0, <2>2, ManageStepSets, IdleKeepsVersionInv
  <2>3. CASE ~Skip(k)
    <3>1. PICK step \in ClientSteps, local \in AllLocals :
            /\ Take(k, step, local) /\ cache[k] # NoObj
            /\ step \in EnsureSteps => Managed(k)
            /\ step # "readyStatus"
      BY <2>1, <2>3, ClientTakes
    <3> QED
      BY <1>0, <3>1, TakeKeepsVersionInv DEF ManageSteps, Managed
  <2> QED
    BY <2>2, <2>3
<1>4. CASE LocalStep
  BY <1>0, <1>4, ClientLocalStep, ManageStepSets, FinalizerStepKeepsVersionInv
<1>5. CASE EnsureStep
  <2>1. PICK step \in EnsureSteps \cup {"failStatus", "readyStatus"} : StaysIn(step)
    BY <1>5, EnsureGoesOn
  <2>2. /\ worker.pc \in ManageSteps /\ worker.pc # "idle"
        /\ UNCHANGED <<objects, cache>>
    BY <1>5, EnsureGoesOn, ManageStepSets
  <2> QED
    BY <2>1, <2>2, OnwardKeepsVersionInv DEF StaysIn
<1>6. CASE TeardownStep
  <2>1. worker.pc # "idle" /\ UNCHANGED <<objects, cache>>
    BY <1>6, TeardownGoesOn, ClientStepSets
  <2>2. CASE Retry
    BY <1>0, <2>1, <2>2, ManageStepSets, GotoKeepsVersionInv
  <2>3. CASE ~Retry
    <3>1. PICK step \in TeardownSteps : StaysIn(step)
      BY <1>6, <2>3, TeardownGoesOn DEF TeardownSteps
    <3> QED
      BY <2>1, <3>1, ManageStepSets, OnwardKeepsVersionInv DEF StaysIn
  <2> QED
    BY <2>2, <2>3
<1>7. CASE UNCHANGED runtimeVars
  BY <1>7 DEF runtimeVars, VersionInv, CopiesInv, ReadyInv, SameVersion, SameLife, Precedes,
    Ready, Key, Obj
<1>8. CASE Restart \/ Resync \/ BecomeCalm
  BY <1>0, <1>8, ManageStepSets, IdleKeepsVersionInv
<1> QED
  BY <1>1, <1>2, <1>3, <1>4, <1>5, <1>6, <1>7, <1>8 DEF ClientNext, Step, ServiceStep, clientVars,
    runtimeVars

LEMMA ClientWakeStep ==
  ASSUME ClientWakeInv, [ClientNext]_clientVars
  PROVE  WakeInv(ManageSteps, {})'
<1>0. /\ ClientTypeInv /\ RuntimeInv(ClientSteps, AllLocals) /\ CopiesInv /\ CacheInv
      /\ TeardownInv(TeardownSteps) /\ WakeInv(ManageSteps, {})
      /\ "idle" \notin ManageSteps /\ "readyStatus" \in ManageSteps
      /\ "removeFinalizer" \in TeardownSteps /\ "idle" \notin ClientSteps
  BY ClientStepSets, ManageStepSets
    DEF ClientWakeInv, HeldInv, ClientTypeInv, FinalizerInv, VersionInv
<1>1. CASE UserNext
  BY <1>0, <1>1, UsersKeepWakeInv
<1>2. CASE \E k \in Keys : Sync(k)
  BY <1>0, <1>2, SyncKeepsWakeInv
<1>3. CASE \E k \in Keys : TakeKey(k)
  <2>1. PICK k \in Keys : TakeKey(k)
    BY <1>3
  <2>2. CASE Skip(k)
    BY <1>0, <2>2, IdleKeepsWakeInv
  <2>3. CASE ~Skip(k)
    <3>1. PICK step \in ClientSteps, local \in AllLocals :
            /\ Take(k, step, local)
            /\ step = "addFinalizer" => Unmanaged(k)
            /\ step \in EnsureSteps => Managed(k)
            /\ step # "readyStatus"
      BY <1>0, <2>1, <2>3, ClientTakes
    <3> QED
      BY <1>0, <3>1, TakeKeepsWakeInv DEF ManageSteps, Managed, Unmanaged
  <2> QED
    BY <2>2, <2>3
<1>4. CASE LocalStep
  <2>1. PICK o \in Outcomes :
          \/ FinalizerStep(o) \/ WriteWaiting(o)
          \/ \E name \in Names \cup {NoName} : WriteReady(o, name)
    BY <1>0, <1>4, ClientLocalStep, ClientAssumption
  <2> QED
    BY <1>0, <2>1, FinalizerStepKeepsWakeInv
<1>5. CASE EnsureStep
  <2>1. PICK step \in EnsureSteps \cup {"failStatus", "readyStatus"} : StaysIn(step)
    BY <1>0, <1>5, EnsureGoesOn
  <2>2. /\ worker.pc \in ManageSteps /\ worker.pc # "idle" /\ step # "addFinalizer"
        /\ UNCHANGED <<objects, cache, queue>>
    BY <1>0, <1>5, <2>1, EnsureGoesOn, ManageStepSets DEF StaysIn, EnsureSteps
  <2> QED
    BY <1>0, <2>1, <2>2, OnwardKeepsWakeInv DEF StaysIn
<1>6. CASE TeardownStep
  <2>1. worker.pc # "idle" /\ UNCHANGED <<objects, cache>>
    BY <1>0, <1>6, TeardownGoesOn, ClientStepSets
  <2>2. CASE Retry
    BY <1>0, <2>1, <2>2, GotoKeepsWakeInv
  <2>3. CASE ~Retry
    <3>1. PICK step \in TeardownSteps : StaysIn(step) /\ step # "addFinalizer"
      BY <1>0, <1>6, <2>3, TeardownGoesOn DEF TeardownSteps
    <3> QED
      BY <1>0, <2>1, <3>1, ManageStepSets, OnwardKeepsWakeInv DEF StaysIn
  <2> QED
    BY <2>2, <2>3
<1>7. CASE UNCHANGED runtimeVars
  BY <1>0, <1>7 DEF runtimeVars, WakeInv, StatusInv, FreshInv, ResultInv, Quiet, Arrived, Ready,
    Key, Obj
<1>8. CASE Restart \/ Resync \/ BecomeCalm
  BY <1>0, <1>8, IdleKeepsWakeInv
<1> QED
  BY <1>1, <1>2, <1>3, <1>4, <1>5, <1>6, <1>7, <1>8 DEF ClientNext, Step, ServiceStep, clientVars,
    runtimeVars

LEMMA ClientWakeInvStep ==
  ASSUME ClientWakeInv, [ClientNext]_clientVars
  PROVE  ClientWakeInv'
BY ClientWakeStep, HeldInvStep, ClientVersionInvStep DEF ClientWakeInv, HeldInv

LEMMA ClientWakeInvInit ==
  ASSUME ClientInit
  PROVE  ClientWakeInv
<1>1. worker = Idle /\ \A k \in Keys : objects[k] = NoObj /\ cache[k] = NoObj
  BY DEF ClientInit, RuntimeInit
<1>2. StatusInv
  BY <1>1 DEF StatusInv
<1> QED
  BY <1>1, <1>2, ManageStepSets, HeldInvInit, VersionInvInit, WakeInvInit DEF ClientWakeInv

(* A resource that the operator will not look at again by itself is Ready  *)
(* at its generation and not waiting to be deleted: every error, the wait  *)
(* for a realm, and whatever is lost, stale or crashed on the way keeps    *)
(* its key in the queue or an event of it to come.                         *)
THEOREM NoClientWakeupIsLost == ClientSpec => []QuietIsReady
<1>1. ClientInit => ClientWakeInv
  BY ClientWakeInvInit
<1>2. ClientWakeInv /\ [ClientNext]_clientVars => ClientWakeInv'
  BY ClientWakeInvStep
<1>3. ClientWakeInv => QuietIsReady
  BY WakeInvMeansReady DEF ClientWakeInv
<1> QED
  BY <1>1, <1>2, <1>3, PTL DEF ClientSpec

----------------------------------------------------------------------------
(* The clients of Keycloak and their resources.                            *)

(* What users must not do: refer to another realm, or give two realms, or  *)
(* a realm and one nobody manages, the same name.                          *)
StableRealms ==
  /\ \A k \in Keys : \A spec, other \in Specs[k] : spec.realmRef = other.realmRef
  /\ \A r \in Realms : \A m, n \in PossibleNames[r] : m = n
  /\ \A r, q \in Realms : \A n \in PossibleNames[r] \cap PossibleNames[q] : r = q
  /\ \A r \in Realms : PossibleNames[r] \cap AmbientRealms = {}

(* A realm that is up is visible, and a client is in a realm that is up.   *)
VisibleInv ==
  /\ ~stripped => \A r \in Realms : \A n \in RealmNames \cap PossibleNames[r] :
                    realmUp[n] => realmView[r] # NoObj
  /\ \A c \in AllClients : kcClients[c] # NoClient => realmUp[c[1]]

TornDown ==
  ~stripped /\ worker.pc \in {"deleteSecret", "removeFinalizer"} =>
    \A n \in RealmNames : RefersTo(Key, n) => kcClients[<<n, ClientIDOf(Key, Spec)>>] = NoClient

ClientsAreHeld ==
  ~stripped => \A c \in AllClients : kcClients[c] # NoClient =>
    \E k \in Keys : HeldFor(k, c) /\ RefersTo(k, c[1])

OrphanInv == ReferInv /\ VisibleInv /\ TornDown /\ ClientsAreHeld

LEMMA ServiceEffect ==
  ASSUME HeldInv, [ClientNext]_clientVars
  PROVE  /\ UNCHANGED serviceVars \/ ServiceStep
         /\ ~stripped' => ~stripped
<1>1. UNCHANGED serviceVars \/ ServiceStep
  BY EnsureGoesOn, TeardownGoesOn DEF HeldInv, ClientNext, Step, clientVars, external
<1>2. ServiceStep /\ ~stripped' => ~stripped
  BY DEF ServiceStep, ServiceNext, Refresh, BringUp, TakeDown, Strip
<1> QED
  BY <1>1, <1>2 DEF serviceVars

LEMMA VisibleInvStep ==
  ASSUME StableRealms, HeldInv, VisibleInv, [ClientNext]_clientVars
  PROVE  VisibleInv'
<1>0. DOMAIN realmView = Realms /\ DOMAIN realmUp = RealmNames
  BY DEF HeldInv, ClientTypeInv, ServiceOK
<1>1. ASSUME ~stripped', NEW r \in Realms, NEW n \in RealmNames \cap PossibleNames[r], realmUp'[n]
      PROVE  realmView'[r] # NoObj
  <2>0. ~stripped
    BY <1>1, ServiceEffect
  <2>1. CASE UNCHANGED serviceVars
    BY <1>1, <2>0, <2>1 DEF VisibleInv, serviceVars
  <2>2. CASE Refresh
    BY <1>1, <2>0, <2>2 DEF VisibleInv, Refresh
  <2>3. ASSUME NEW m \in RealmNames, BringUp(m)
        PROVE  realmView'[r] # NoObj
    <3>1. CASE m = n
      <4>1. PICK q \in Realms : realmView[q] # NoObj /\ n \in PossibleNames[q]
        BY <2>3, <3>1 DEF BringUp, Managing
      <4>2. q = r
        BY <4>1 DEF StableRealms
      <4> QED
        BY <2>3, <4>1, <4>2 DEF BringUp
    <3>2. CASE m # n
      BY <1>1, <2>0, <2>3, <3>2 DEF VisibleInv, BringUp
    <3> QED
      BY <3>1, <3>2
  <2>4. ASSUME NEW m \in RealmNames, TakeDown(m)
        PROVE  realmView'[r] # NoObj
    <3>1. realmUp[n] /\ realmView' = realmView
      BY <1>0, <1>1, <2>4 DEF TakeDown
    <3> QED
      BY <2>0, <3>1 DEF VisibleInv
  <2>5. ~\E q \in Realms : Strip(q)
    BY <1>1 DEF Strip
  <2> QED
    BY <2>1, <2>2, <2>3, <2>4, <2>5, ServiceEffect DEF ServiceStep, ServiceNext
<1>2. ASSUME NEW c \in AllClients, kcClients'[c] # NoClient
      PROVE  realmUp'[c[1]]
  <2>1. CASE ServiceStep
    BY <1>2, <2>1 DEF ServiceStep, HeldInv, ClientTypeInv, StoreOK
  <2>2. CASE UNCHANGED serviceVars /\ kcClients[c] # NoClient
    BY <2>2 DEF serviceVars, VisibleInv
  <2>3. CASE UNCHANGED serviceVars /\ kcClients[c] = NoClient
    BY <1>2, <2>3, ClientAppears DEF serviceVars, Client
  <2> QED
    BY <2>1, <2>2, <2>3, ServiceEffect
<1> QED
  BY <1>1, <1>2 DEF VisibleInv

LEMMA OneHome ==
  ASSUME StableRealms, ClientTypeInv, NEW k \in Keys, NEW m, NEW n, RefersTo(k, m), RefersTo(k, n)
  PROVE  m = n
<1>1. \A spec \in Specs[k] : spec.realmRef \in Realms
  BY SpecsNameThings
<1> QED
  BY <1>1 DEF StableRealms, RefersTo

LEMMA TornDownStep ==
  ASSUME StableRealms, OrphanInv, [ClientNext]_clientVars
  PROVE  TornDown'
<1>0. HeldInv /\ ClientTypeInv
  BY DEF OrphanInv, ReferInv, HeldInv
<1> SUFFICES ASSUME ~stripped', worker'.pc \in {"deleteSecret", "removeFinalizer"},
                    NEW n \in RealmNames, RefersTo(Key, n)'
             PROVE  kcClients'[<<n, ClientIDOf(Key, Spec)'>>] = NoClient
  BY DEF TornDown
<1>1. ~stripped
  BY <1>0, ServiceEffect
<1>2. CASE UNCHANGED worker
  <2>1. /\ worker.pc \in {"deleteSecret", "removeFinalizer"} /\ RefersTo(Key, n)
        /\ ClientIDOf(Key, Spec)' = ClientIDOf(Key, Spec)
    BY <1>2 DEF RefersTo, ClientIDOf, Key, Spec, Obj
  <2>2. ClientIDOf(Key, Spec) \in ClientIDs
    BY <1>0, <2>1, WorkerNamesAClient DEF ClientSteps
  <2>3. kcClients[<<n, ClientIDOf(Key, Spec)>>] = NoClient
    BY <1>1, <2>1 DEF OrphanInv, TornDown
  <2> QED
    BY <1>0, <2>1, <2>2, <2>3, GoneStaysGone DEF AllClients
<1>3. CASE \E k \in Keys : Taken(k)
  <2>1. PICK k \in Keys : Taken(k)
    BY <1>3
  <2>2. /\ Key' = k /\ Obj' = cache[k] /\ cache[k] # NoObj /\ ResolvedRealm(cache[k]) = NoName
        /\ UNCHANGED kcClients
    BY <2>1 DEF Taken, external
  <2>3. cache[k].spec \in Specs[k] /\ cache[k].spec.realmRef \in Realms
    BY <1>0, <2>2, ResolvedIsARealm
  <2>4. realmView[cache[k].spec.realmRef] = NoObj
    BY <1>0, <2>2, <2>3, NoNameIsNoRealm DEF ResolvedRealm, ClientTypeInv, ServiceOK
  <2>5. n \in PossibleNames[cache[k].spec.realmRef]
    BY <2>2, <2>3 DEF RefersTo, StableRealms
  <2>6. ~realmUp[n]
    BY <1>1, <2>3, <2>4, <2>5 DEF OrphanInv, VisibleInv
  <2>7. ClientIDOf(Key, Spec)' \in ClientIDs
    <3>1. ClientIDOf(Key, Spec)' = ClientIDOf(k, cache[k].spec)
      BY <2>2 DEF ClientIDOf, Spec
    <3> QED
      BY <2>3, <3>1, SpecsNameThings
  <2> QED
    BY <2>2, <2>6, <2>7 DEF OrphanInv, VisibleInv, AllClients
<1>4. CASE TeardownStep /\ StaysIn(worker'.pc)
  <2>1. /\ Key' = Key /\ ClientIDOf(Key, Spec)' = ClientIDOf(Key, Spec) /\ RefersTo(Key, n)
    BY <1>4 DEF StaysIn, Onward, ClientIDOf, Spec, RefersTo
  <2>2. CASE worker.pc \in {"findToDelete", "deleteClient"} /\ kcClients'[Client] = NoClient
    <3>1. Realm \in RealmNames /\ Key \in Keys
      BY <1>0, <2>2, WorkerNamesAClient DEF ClientSteps, RealmlessSteps
    <3>2. RefersTo(Key, Realm)
      BY <2>2, <3>1, NoNameIsNoRealm DEF OrphanInv, ReferInv, ClientSteps
    <3>3. n = Realm
      BY <1>0, <2>1, <3>1, <3>2, OneHome
    <3> QED
      BY <2>1, <2>2, <3>3 DEF Client
  <2>3. CASE worker.pc = "deleteSecret" /\ UNCHANGED kcClients
    BY <1>1, <2>1, <2>3 DEF OrphanInv, TornDown
  <2> QED
    BY <1>0, <1>4, <2>2, <2>3, TeardownMoves
<1> QED
  BY <1>0, <1>2, <1>3, <1>4, WorkerEffect DEF ClientSteps, EnsureSteps

LEMMA ClientsAreHeldStep ==
  ASSUME StableClientIDs, OrphanInv, [ClientNext]_clientVars
  PROVE  ClientsAreHeld'
<1>0. HeldInv /\ HeldInv'
  BY HeldInvStep DEF OrphanInv, ReferInv
<1>1. \A k \in Keys : (Held(k) => objects[k].spec \in Specs[k])
                      /\ (Held(k)' => objects'[k].spec \in Specs[k])
  BY <1>0 DEF HeldInv, ClientTypeInv, RuntimeInv, RuntimeTypeOK, CatalogObjects, Held
<1> SUFFICES ASSUME ~stripped', NEW c \in AllClients, kcClients'[c] # NoClient
             PROVE  \E k \in Keys : HeldFor(k, c)' /\ RefersTo(k, c[1])
  BY DEF ClientsAreHeld, RefersTo
<1>2. ~stripped
  BY <1>0, ServiceEffect
<1>3. ASSUME NEW k \in Keys, HeldFor(k, c), Held(k)'
      PROVE  HeldFor(k, c)'
  BY <1>1, <1>3 DEF StableClientIDs, HeldFor, Held, ClientIDOf
<1>4. CASE kcClients[c] # NoClient
  <2>1. PICK k \in Keys : HeldFor(k, c) /\ RefersTo(k, c[1])
    BY <1>2, <1>4 DEF OrphanInv, ClientsAreHeld
  <2>2. Held(k)'
    <3> SUFFICES ASSUME ~Held(k)' PROVE FALSE
      OBVIOUS
    <3>1. worker.pc = "removeFinalizer" /\ k = Key /\ objects[k] = Obj
      BY <1>0, <2>1, HeldUnlessReleased DEF Held, HeldFor
    <3>2. c[2] = ClientIDOf(Key, Spec) /\ c[1] \in RealmNames /\ c = <<c[1], c[2]>>
      BY <2>1, <3>1 DEF HeldFor, Spec, AllClients
    <3> QED
      BY <1>2, <1>4, <2>1, <3>1, <3>2 DEF OrphanInv, TornDown
  <2> QED
    BY <1>3, <2>1, <2>2
<1>5. CASE kcClients[c] = NoClient
  <2>1. /\ worker.pc \in ClientSteps \ {"addFinalizer"} /\ c = Client /\ Held(Key)
        /\ Key \in Keys /\ Spec \in Specs[Key] /\ Realm \in RealmNames /\ UNCHANGED objects
    BY <1>0, <1>5, ClientAppears
  <2>2. PICK k \in Keys : k = Key
    BY <2>1
  <2>3. c[1] = Realm /\ c[2] = ClientIDOf(k, objects[k].spec)
    BY <1>1, <2>1, <2>2 DEF Client, StableClientIDs
  <2>4. HeldFor(k, c) /\ Held(k)'
    BY <2>1, <2>2, <2>3 DEF HeldFor, Held
  <2>5. RefersTo(k, c[1])
    BY <2>1, <2>2, <2>3, NoNameIsNoRealm DEF OrphanInv, ReferInv
  <2> QED
    BY <1>3, <2>4, <2>5
<1> QED
  BY <1>4, <1>5

(* A client in Keycloak has a resource that stands for it and still carries*)
(* the finalizer, as long as nobody strips the finalizer of a realm.       *)
THEOREM NoClientIsOrphaned ==
  ASSUME StableClientIDs, StableRealms
  PROVE  ClientSpec => []NoOrphanClient
<1>1. ClientInit => OrphanInv
  <2> SUFFICES ASSUME ClientInit PROVE OrphanInv
    OBVIOUS
  <2>1. ReferInv /\ worker.pc = "idle"
    BY ReferInvInit, HeldInvInit
  <2>2. \A c \in AllClients : kcClients[c] = NoClient
    BY DEF ClientInit, AllClients
  <2>3. \A r \in Realms : \A n \in RealmNames \cap PossibleNames[r] : ~realmUp[n]
    BY DEF ClientInit, ServiceInit, StableRealms
  <2> QED
    BY <2>1, <2>2, <2>3 DEF OrphanInv, VisibleInv, TornDown, ClientsAreHeld
<1>2. OrphanInv /\ [ClientNext]_clientVars => OrphanInv'
  BY ReferInvStep, VisibleInvStep, TornDownStep, ClientsAreHeldStep DEF OrphanInv, ReferInv
<1>3. OrphanInv => NoOrphanClient
  BY DEF OrphanInv, ReferInv, HeldInv, ClientTypeInv, StoreOK, ClientsAreHeld, NoOrphanClient
<1> QED
  BY <1>1, <1>2, <1>3, PTL DEF ClientSpec

----------------------------------------------------------------------------
(* What a Ready client is worth.                                           *)

(* What users must not do: let two resources stand for one client of a     *)
(* realm both may refer to, or name one Secret.                            *)
OwnClients ==
  \A j, k \in Keys : \A spec \in Specs[j], other \in Specs[k] :
    /\ /\ ClientIDOf(j, spec) = ClientIDOf(k, other)
       /\ \E n \in RealmNames : RefersTo(j, n) /\ RefersTo(k, n)
       => j = k
    /\ SecretNameOf(j, spec) = SecretNameOf(k, other) => j = k

(* What a reconcile has achieved at each step; a realm that goes down      *)
(* meanwhile takes the client with it.                                     *)
Matches(kc, spec) == Serves(kc.rep, Representation(spec))

EnsuredInv ==
  worker.pc \in {"findCreated", "getCredential", "writeSecret", "readyStatus"}
    /\ Found # NoClient => Matches(Found, Spec)

FetchedInv ==
  worker.pc = "writeSecret" /\ Found # NoClient /\ ~Spec.public =>
    worker.local.credential = Found.credential

WrittenInv ==
  worker.pc = "readyStatus" =>
    /\ secrets[Secret] # NoSecret
    /\ secrets[Secret].realm = Realm /\ secrets[Secret].clientID = ClientIDOf(Key, Spec)
    /\ Found # NoClient /\ ~Spec.public => secrets[Secret].credential = Found.credential

ProgressInv == EnsuredInv /\ FetchedInv /\ WrittenInv

WorkInv == ReferInv /\ ClientWakeInv /\ ProgressInv /\ QuietReadyClientWorks

ProgressSteps == {"findCreated", "getCredential", "writeSecret", "readyStatus"}

LEMMA GotoFrame ==
  ASSUME ClientTypeInv, worker.pc \in ClientSteps \ {"addFinalizer"}, NEW step, Goto(step)
  PROVE  /\ worker'.pc = step /\ worker'.local = worker.local
         /\ Key' = Key /\ Spec' = Spec /\ Realm' = Realm /\ Client' = Client /\ Secret' = Secret
         /\ ClientIDOf(Key, Spec)' = ClientIDOf(Key, Spec)
<1>1. worker \in Reconciles(Key, ClientSteps, AllLocals)
  BY WorkerNamesAClient
<1>2. /\ worker'.pc = step /\ worker'.local = worker.local
      /\ worker'.key = worker.key /\ worker'.obj = worker.obj
  BY <1>1 DEF Goto, Reconciles
<1> QED
  BY <1>2 DEF Key, Spec, Obj, Realm, Client, Secret, ClientIDOf, SecretNameOf

LEMMA ContentIsASecret ==
  ASSUME ClientTypeInv, worker.pc = "writeSecret"
  PROVE  Secret \in SecretNames /\ SecretContent \in SecretContents
<1>1. /\ Client = <<Realm, ClientIDOf(Key, Spec)>> /\ Realm \in RealmNames
      /\ ClientIDOf(Key, Spec) \in ClientIDs
      /\ Secret \in SecretNames /\ worker.local \in Locals
  BY WorkerNamesAClient DEF Client, ClientSteps, RealmlessSteps
<1>2. worker.local.credential \in Credentials \cup {NoCredential}
  BY <1>1 DEF Locals
<1>3. secrets[Secret] # NoSecret => secrets[Secret].credential \in Credentials \cup {NoCredential}
  BY <1>1 DEF ClientTypeInv, StoreOK, SecretContents
<1> QED
  BY <1>1, <1>2, <1>3 DEF SecretContent, SecretContents

LEMMA EnsureKeepsProgressInv ==
  ASSUME ClientTypeInv, ProgressInv, EnsureStep
  PROVE  ProgressInv'
<1>1. PICK o \in Outcomes :
        \/ FindClient(o) \/ PostClient(o) \/ FindCreated(o) \/ PutClient(o)
        \/ GetCredential(o) \/ WriteSecret(o)
  BY DEF EnsureStep
<1>2. worker.pc \in EnsureSteps /\ worker.pc \in ClientSteps \ {"addFinalizer"}
  BY EnsureGoesOn, ClientStepSets
<1>3. /\ Client \in AllClients /\ Secret \in SecretNames
      /\ worker \in Reconciles(Key, ClientSteps, AllLocals) /\ worker.local \in Locals
      /\ DOMAIN kcClients = AllClients /\ DOMAIN secrets = SecretNames
      /\ Representation(Spec) \in Representations
  BY <1>2, WorkerNamesAClient, ClientStepSets, SpecsNameThings DEF ClientTypeInv, StoreOK
<1>4. ASSUME worker'.pc \notin ProgressSteps
      PROVE  ProgressInv'
  BY <1>4 DEF ProgressInv, EnsuredInv, FetchedInv, WrittenInv, ProgressSteps
<1>5. ASSUME NEW step \in {"writeSecret", "getCredential"}, Goto(step), step = AfterEnsure,
             Found' # NoClient => Matches(Found', Spec)
      PROVE  ProgressInv'
  <2>1. worker'.pc = step /\ Spec' = Spec /\ (step = "writeSecret" => Spec.public)
    BY <1>2, <1>5, GotoFrame DEF AfterEnsure
  <2> QED
    BY <1>5, <2>1 DEF ProgressInv, EnsuredInv, FetchedInv, WrittenInv, Matches
<1>6. AfterEnsure \in {"writeSecret", "getCredential"}
  BY DEF AfterEnsure
<1>7. \A step \in {"failStatus", "postClient", "putClient"} : Goto(step) => ProgressInv'
  BY <1>2, <1>4, GotoFrame DEF ProgressSteps
<1>8. CASE FindClient(o)
  <2>1. CASE Goto(AfterEnsure) /\ ~Drifted
    <3>1. Found' = Found
      BY <1>2, <1>8, <2>1, GotoFrame DEF FindClient, Found
    <3> QED
      BY <1>5, <1>6, <2>1, <3>1 DEF Drifted, Matches, Serves
  <2> QED
    BY <1>7, <1>8, <2>1 DEF FindClient
<1>9. CASE PostClient(o)
  <2>1. CASE o = "ok" /\ realmUp[Realm]
    <3>1. /\ Goto("findCreated")
          /\ kcClients' = [kcClients EXCEPT ![Client] =
               [rep |-> Representation(Spec), credential |-> Fresh]]
      BY <1>9, <2>1 DEF PostClient, Call
    <3>2. worker'.pc = "findCreated" /\ Client' = Client /\ Spec' = Spec
      BY <1>2, <3>1, GotoFrame
    <3>3. Matches(Found', Spec')
      BY <1>3, <3>1, <3>2 DEF Found, Matches, Serves
    <3> QED
      BY <3>2, <3>3 DEF ProgressInv, EnsuredInv, FetchedInv, WrittenInv, Matches
  <2> QED
    BY <1>7, <1>9, <2>1 DEF PostClient
<1>10. CASE FindCreated(o)
  <2>1. CASE Goto(AfterEnsure)
    <3>1. worker.pc = "findCreated" /\ Found' = Found
      BY <1>2, <1>10, <2>1, GotoFrame DEF FindCreated, At, Found
    <3>2. Found # NoClient => Matches(Found, Spec)
      BY <3>1 DEF ProgressInv, EnsuredInv
    <3> QED
      BY <1>5, <1>6, <2>1, <3>1, <3>2
  <2> QED
    BY <1>7, <1>10, <2>1 DEF FindCreated
<1>11. CASE PutClient(o)
  <2>1. CASE o = "ok" /\ Found # NoClient
    <3>1. /\ Goto(AfterEnsure)
          /\ kcClients' = [kcClients EXCEPT ![Client].rep = Updating(Found.rep)]
      BY <1>11, <2>1 DEF PutClient, Call
    <3>2. Client' = Client
      BY <1>2, <3>1, GotoFrame
    <3>3. kcClients[Client] \in KcClients
      BY <1>3, <2>1 DEF ClientTypeInv, StoreOK, Found
    <3>4. kcClients'[Client].rep = Updating(kcClients[Client].rep)
      BY <1>3, <3>1, <3>3 DEF KcClients, Found
    <3>5. Matches(kcClients'[Client], Spec)
      BY <1>3, <3>3, <3>4, UpdateServes DEF KcClients, Matches
    <3> QED
      BY <1>5, <1>6, <3>1, <3>2, <3>5 DEF Found
  <2> QED
    BY <1>7, <1>11, <2>1 DEF PutClient
<1>12. CASE GetCredential(o)
  <2>1. CASE o = "ok" /\ Found # NoClient
    <3>1. /\ worker.pc = "getCredential" /\ UNCHANGED kcClients
          /\ worker' = [worker EXCEPT !.pc = "writeSecret", !.local.credential = Found.credential]
      BY <1>12, <2>1 DEF GetCredential, At
    <3>2. /\ worker'.pc = "writeSecret"
          /\ worker'.key = worker.key /\ worker'.obj = worker.obj
          /\ worker'.local = [worker.local EXCEPT !.credential = Found.credential]
      BY <1>3, <3>1 DEF Reconciles
    <3>3. worker'.local.credential = Found.credential /\ worker'.local.realm = worker.local.realm
      BY <1>3, <3>2 DEF Locals
    <3>4. Found' = Found /\ Spec' = Spec
      BY <3>1, <3>2, <3>3 DEF Found, Client, Key, Spec, Obj, Realm, ClientIDOf
    <3>5. Matches(Found, Spec)
      BY <2>1, <3>1 DEF ProgressInv, EnsuredInv
    <3> QED
      BY <3>2, <3>3, <3>4, <3>5 DEF ProgressInv, EnsuredInv, FetchedInv, WrittenInv, Matches
  <2>2. CASE ~(o = "ok" /\ Found # NoClient)
    <3>1. Goto("failStatus")
      BY <1>12, <2>2 DEF GetCredential, Goto
    <3> QED
      BY <1>7, <3>1
  <2> QED
    BY <2>1, <2>2
<1>13. CASE WriteSecret(o)
  <2>1. CASE o = "ok"
    <3>1. /\ worker.pc = "writeSecret" /\ Goto("readyStatus") /\ UNCHANGED kcClients
          /\ secrets' = [secrets EXCEPT ![Secret] = SecretContent]
      BY <1>13, <2>1 DEF WriteSecret, At, Call
    <3>2. /\ worker'.pc = "readyStatus" /\ Spec' = Spec /\ Realm' = Realm /\ Secret' = Secret
          /\ Client' = Client /\ ClientIDOf(Key, Spec)' = ClientIDOf(Key, Spec)
      BY <1>2, <3>1, GotoFrame
    <3>3. Found' = Found
      BY <3>1, <3>2 DEF Found
    <3>4. secrets'[Secret] = SecretContent /\ SecretContent # NoSecret
      BY <1>3, <3>1, ContentIsASecret, ClientAssumption
    <3>5. /\ SecretContent.realm = Realm /\ SecretContent.clientID = ClientIDOf(Key, Spec)
          /\ ~Spec.public => SecretContent.credential = worker.local.credential
      BY DEF SecretContent, Client
    <3>6. EnsuredInv /\ FetchedInv
      BY DEF ProgressInv
    <3>7. EnsuredInv'
      BY <3>1, <3>2, <3>3, <3>6 DEF EnsuredInv, Matches
    <3>8. WrittenInv'
      BY <3>1, <3>2, <3>3, <3>4, <3>5, <3>6 DEF FetchedInv, WrittenInv
    <3> QED
      BY <3>2, <3>7, <3>8 DEF ProgressInv, FetchedInv
  <2> QED
    BY <1>7, <1>13, <2>1 DEF WriteSecret
<1> QED
  BY <1>1, <1>8, <1>9, <1>10, <1>11, <1>12, <1>13

(* Whatever else happens, at most the realm takes the client away.         *)
LEMMA ProgressInvStep ==
  ASSUME HeldInv, ProgressInv, [ClientNext]_clientVars
  PROVE  ProgressInv'
<1>0. ClientTypeInv
  BY DEF HeldInv
<1>1. CASE EnsureStep
  BY <1>0, <1>1, EnsureKeepsProgressInv
<1>2. CASE ~EnsureStep /\ worker'.pc \in ProgressSteps
  <2>1. worker'.pc \in ClientSteps \ {"addFinalizer"}
    BY <1>2 DEF ProgressSteps, ClientSteps
  <2>2. UNCHANGED worker
    BY <1>0, <1>2, <2>1, WorkerEffect DEF Taken, ProgressSteps
  <2>3. UNCHANGED secrets
    BY <1>2, <2>2, SecretsEffect DEF ProgressSteps
  <2>4. /\ UNCHANGED <<Key, Spec, Realm, Client, Secret>>
        /\ ClientIDOf(Key, Spec)' = ClientIDOf(Key, Spec)
    BY <2>2 DEF Key, Spec, Obj, Realm, Client, Secret, ClientIDOf, SecretNameOf
  <2>5. Client \in AllClients
    BY <1>0, <1>2, <2>1, <2>2, WorkerNamesAClient DEF ProgressSteps, RealmlessSteps
  <2>6. Found' # NoClient => Found' = Found
    BY <1>2, <2>2, <2>4, <2>5, KcClientsEffect DEF ProgressSteps, Found
  <2>7. EnsuredInv' /\ FetchedInv'
    BY <2>2, <2>4, <2>6 DEF ProgressInv, EnsuredInv, FetchedInv, Matches
  <2>8. WrittenInv'
    BY <2>2, <2>3, <2>4, <2>6 DEF ProgressInv, WrittenInv
  <2> QED
    BY <2>7, <2>8 DEF ProgressInv
<1>3. CASE worker'.pc \notin ProgressSteps
  BY <1>3 DEF ProgressInv, EnsuredInv, FetchedInv, WrittenInv, ProgressSteps
<1> QED
  BY <1>1, <1>2, <1>3

(* Nobody else's reconcile touches what a Ready client needs.              *)
LEMMA OthersKeepWorking ==
  ASSUME OwnClients, ReferInv, [ClientNext]_clientVars,
         NEW k \in Keys, objects[k] # NoObj, Ready(objects[k]), Key # k
  PROVE  /\ secrets'[SecretNameOf(k, objects[k].spec)] = secrets[SecretNameOf(k, objects[k].spec)]
         /\ LET c == <<objects[k].status.recorded, ClientIDOf(k, objects[k].spec)>>
            IN  kcClients'[c] # NoClient => kcClients'[c] = kcClients[c]
<1> DEFINE id == ClientIDOf(k, objects[k].spec)
           s  == SecretNameOf(k, objects[k].spec)
           n  == objects[k].status.recorded
<1>0. HeldInv /\ ClientTypeInv /\ DOMAIN kcClients = AllClients /\ DOMAIN secrets = SecretNames
  BY DEF ReferInv, HeldInv, ClientTypeInv, StoreOK
<1>1. objects[k] \in CatalogObjects(k)
  BY <1>0 DEF ClientTypeInv, RuntimeInv, RuntimeTypeOK
<1>2. objects[k].spec \in Specs[k] /\ n \in RealmNames \cup {NoName}
  BY <1>1, ClientAssumption DEF CatalogObjects, Statuses
<1>3. n \in RealmNames
  BY <1>0, <1>2 DEF ClientTypeInv, RecordedOK, Ready
<1>4. RefersTo(k, n) /\ id \in ClientIDs /\ s \in SecretNames
  BY <1>2, <1>3, NoNameIsNoRealm, SpecsNameThings DEF ReferInv, Recorded
<1>5. secrets'[s] = secrets[s]
  <2>1. ASSUME worker.pc \in {"writeSecret", "deleteSecret"}
        PROVE  s # Secret
    <3>1. Key \in Keys /\ Spec \in Specs[Key]
      BY <1>0, <2>1, WorkerNamesAClient DEF ClientSteps
    <3> QED
      BY <1>2, <3>1 DEF OwnClients, Secret
  <2> QED
    BY <1>0, <1>4, <2>1, SecretsEffect
<1>6. <<n, id>> \in AllClients
  BY <1>3, <1>4 DEF AllClients
<1>7. ASSUME worker.pc \in {"postClient", "putClient"}
      PROVE  <<n, id>> # Client
  <2>1. Key \in Keys /\ Spec \in Specs[Key] /\ Realm \in RealmNames
    BY <1>0, <1>7, WorkerNamesAClient DEF ClientSteps, RealmlessSteps
  <2>2. RefersTo(Key, Realm)
    BY <1>7, <2>1, NoNameIsNoRealm DEF ReferInv, ClientSteps
  <2> QED
    BY <1>2, <1>3, <1>4, <2>1, <2>2 DEF OwnClients, Client
<1>8. kcClients'[<<n, id>>] # NoClient => kcClients'[<<n, id>>] = kcClients[<<n, id>>]
  BY <1>0, <1>6, <1>7, KcClientsEffect
<1> QED
  BY <1>5, <1>8

(* How a Ready resource comes to be left alone: it was so before, or its   *)
(* reconcile has just ended with it as the last write made it.             *)
LEMMA ClientComesToRest ==
  ASSUME ClientWakeInv, [ClientNext]_clientVars, NEW k \in Keys,
         objects'[k] # NoObj, Quiet(k)', Ready(objects'[k])
  PROVE  \/ objects'[k] = objects[k] /\ Quiet(k)
         \/ /\ worker.pc = "readyStatus" /\ k = Key
            /\ objects'[k] = AsReady(Obj, Realm) /\ UNCHANGED external
<1>0. /\ ClientTypeInv /\ RuntimeInv(ClientSteps, AllLocals) /\ CopiesInv
      /\ TeardownInv(TeardownSteps) /\ StatusInv /\ StatusInv'
      /\ DOMAIN cache = Keys /\ DOMAIN objects = Keys /\ NoKey \notin Keys
      /\ worker.pc = "addFinalizer" => ~Obj.finalizer
  BY ClientWakeInvStep, RuntimeAssumption
    DEF ClientWakeInv, HeldInv, ClientTypeInv, FinalizerInv, VersionInv, WakeInv, RuntimeInv,
        RuntimeTypeOK
<1>a. cache'[k] = objects'[k] /\ k \notin queue' /\ Key' # k
  BY DEF Quiet, Key
<1>1. CASE UserNext
  <2>1. UNCHANGED <<cache, queue, worker>>
    BY <1>0, <1>1, UserEffect DEF UserNext, CreateObject, EditObject, DeleteObject, Edit
  <2>2. objects'[k] = objects[k]
    BY <1>0, <1>1, <1>a, <2>1, UsersAreUnseen
  <2> QED
    BY <1>a, <2>1, <2>2 DEF Quiet, Key
<1>2. CASE \E j \in Keys : Sync(j)
  BY <1>0, <1>2, <1>a DEF Sync, Quiet, Key
<1>3. CASE \E j \in Keys : TakeKey(j)
  <2>1. PICK j \in Keys : TakeKey(j)
    BY <1>3
  <2>2. CASE Skip(j)
    <3>1. UNCHANGED <<objects, cache, worker>> /\ queue' = queue \ {j}
      BY <2>2 DEF Skip
    <3>2. j # k
      BY <1>0, <1>a, <2>2, <3>1 DEF Skip, Terminated, Managed, Unmanaged, Cached, StatusInv, Ready
    <3> QED
      BY <1>a, <3>1, <3>2 DEF Quiet, Key
  <2>3. CASE ~Skip(j)
    <3>1. PICK step \in ClientSteps, local \in AllLocals : Take(j, step, local)
      BY <1>0, <2>1, <2>3, ClientTakes
    <3>2. /\ UNCHANGED <<objects, cache>> /\ queue' = queue \ {j} /\ Key' = j
          /\ worker.pc = "idle"
      BY <3>1 DEF Take, Waiting, Key
    <3>3. Key = NoKey
      BY <1>0, <3>2, ClientStepSets DEF RuntimeInv, RuntimeTypeOK, Reconciles, Idle, Key
    <3> QED
      BY <1>0, <1>a, <3>2, <3>3 DEF Quiet, Key
  <2> QED
    BY <2>2, <2>3
<1>4. CASE LocalStep /\ UNCHANGED external
  <2>1. worker' = Idle /\ worker.pc # "idle" /\ UNCHANGED cache
    BY <1>0, <1>4, ClientLocalStep
  <2>2. queue \subseteq queue' /\ \A j \in Keys : j # Key => objects'[j] = objects[j]
    BY <1>0, <1>4 DEF LocalStep, FinalizerStep, AddFinalizer, RemoveFinalizer, WriteFailed,
      WriteWaiting, WriteClientReady, WriteReady, Write, Updated, Call, Done, Retry
  <2>3. CASE k # Key
    BY <1>a, <2>1, <2>2, <2>3 DEF Quiet, Key
  <2>4. CASE k = Key
    <3>1. Key \in Keys /\ Obj \in CatalogObjects(Key) /\ Obj # NoObj
      BY <1>0, <2>1, WorkerAtAStep, NoObjIsNoObject
    <3>2. Done /\ ~Retry
      BY <1>4, <1>a, <2>4 DEF LocalStep, FinalizerStep, AddFinalizer, RemoveFinalizer,
        WriteFailed, WriteWaiting, WriteClientReady, WriteReady, Done, Retry
    <3>3. PICK o \in Outcomes : FinalizerStep(o) \/ WriteClientReady(o) \/ WriteWaiting(o)
      BY <1>4 DEF LocalStep
    <3>4. CASE AddFinalizer(o)
      <4>1. /\ worker.pc = "addFinalizer" /\ objects[Key] = Obj /\ o = "ok"
            /\ Write(o, WithFinalizer(Obj))
        BY <3>2, <3>4 DEF AddFinalizer, At, Written
      <4>2. objects'[Key] = Stored(WithFinalizer(Obj))
        BY <1>0, <3>1, <4>1 DEF Write, Updated, Call
      <4>3. objects'[Key].status = Obj.status
        BY <2>4, <3>1, <4>2, StatusesOfAnObject DEF Stored
      <4> QED
        BY <1>0, <2>4, <3>1, <4>1, <4>3 DEF StatusInv, Ready
    <3>5. CASE RemoveFinalizer(o)
      <4>1. /\ worker.pc = "removeFinalizer" /\ objects[Key] = Obj /\ o = "ok"
            /\ Write(o, WithoutFinalizer(Obj))
        BY <3>2, <3>5 DEF RemoveFinalizer, At, Written
      <4>2. Obj.deleting
        BY <1>0, <4>1, ClientStepSets DEF TeardownInv
      <4>3. Stored(WithoutFinalizer(Obj)) = NoObj
        BY <3>1, <4>2 DEF Stored, WithoutFinalizer, CatalogObjects
      <4>4. objects'[Key] = NoObj
        BY <1>0, <3>1, <4>1, <4>3 DEF Write, Updated, Call
      <4> QED
        BY <2>4, <4>4
    <3>6. CASE WriteFailed(o) \/ WriteWaiting(o)
      BY <3>2, <3>6 DEF WriteFailed, WriteWaiting
    <3>7. CASE WriteClientReady(o)
      <4>1. /\ worker.pc = "readyStatus" /\ o = "ok" /\ objects[Key] \in {Obj, NoObj}
            /\ Write(o, AsReady(Obj, Realm))
        BY <3>2, <3>7 DEF WriteClientReady, WriteReady, At
      <4>2. objects'[Key] = Stored(AsReady(Obj, Realm)) \/ objects'[Key] = NoObj
        BY <1>0, <3>1, <4>1 DEF Write, Updated, Call
      <4> QED
        BY <1>4, <2>4, <4>1, <4>2 DEF Stored
    <3> QED
      BY <3>3, <3>4, <3>5, <3>6, <3>7 DEF FinalizerStep
  <2> QED
    BY <2>3, <2>4
<1>5. CASE EnsureStep \/ TeardownStep
  <2>1. UNCHANGED <<objects, cache>> /\ worker.pc # "idle"
    BY <1>0, <1>5, EnsureGoesOn, TeardownGoesOn, ClientStepSets
  <2>2. CASE Retry
    BY <1>a, <2>1, <2>2 DEF Retry, Quiet, Key
  <2>3. CASE ~Retry
    <3>1. Key' = Key /\ UNCHANGED queue
      BY <1>0, <1>5, <2>3, EnsureGoesOn, TeardownGoesOn DEF StaysIn, Onward
    <3> QED
      BY <1>a, <2>1, <3>1 DEF Quiet, Key
  <2> QED
    BY <2>2, <2>3
<1>6. CASE UNCHANGED runtimeVars
  BY <1>a, <1>6 DEF runtimeVars, Quiet, Key
<1>7. CASE Restart \/ Resync \/ BecomeCalm
  BY <1>a, <1>7 DEF Restart, Resync, BecomeCalm, Quiet, Key
<1> QED
  BY <1>1, <1>2, <1>3, <1>4, <1>5, <1>6, <1>7 DEF ClientNext, Step, ServiceStep, clientVars,
    runtimeVars

LEMMA QuietClientsWorkStep ==
  ASSUME OwnClients, WorkInv, [ClientNext]_clientVars
  PROVE  QuietReadyClientWorks'
<1> SUFFICES ASSUME NEW k \in Keys, objects'[k] # NoObj, Quiet(k)', Ready(objects'[k])
             PROVE  Works(k, objects[k])'
  BY DEF QuietReadyClientWorks, Ready
<1>1. CASE objects'[k] = objects[k] /\ Quiet(k)
  <2>1. Key # k /\ Works(k, objects[k])
    BY <1>1 DEF WorkInv, QuietReadyClientWorks, Quiet, Key
  <2>2. /\ secrets'[SecretNameOf(k, objects[k].spec)] = secrets[SecretNameOf(k, objects[k].spec)]
        /\ LET c == <<objects[k].status.recorded, ClientIDOf(k, objects[k].spec)>>
           IN  kcClients'[c] # NoClient => kcClients'[c] = kcClients[c]
    BY <1>1, <2>1, OthersKeepWorking DEF WorkInv
  <2> QED
    BY <1>1, <2>1, <2>2 DEF Works, ClientIDOf, SecretNameOf
<1>2. CASE /\ worker.pc = "readyStatus" /\ k = Key
           /\ objects'[k] = AsReady(Obj, Realm) /\ UNCHANGED external
  <2>1. Obj \in CatalogObjects(Key) /\ Spec = Obj.spec
    BY <1>2, WorkerNamesAClient DEF WorkInv, ClientWakeInv, HeldInv, ClientSteps, Spec
  <2>2. objects'[k].spec = Spec /\ objects'[k].status.recorded = Realm
    BY <1>2, <2>1 DEF AsReady, SetReady, CatalogObjects, Statuses
  <2>3. /\ Found # NoClient => Matches(Found, Spec)
        /\ secrets[Secret] # NoSecret
        /\ secrets[Secret].realm = Realm /\ secrets[Secret].clientID = ClientIDOf(Key, Spec)
        /\ Found # NoClient /\ ~Spec.public => secrets[Secret].credential = Found.credential
    BY <1>2 DEF WorkInv, ProgressInv, EnsuredInv, WrittenInv
  <2>4. UNCHANGED <<kcClients, secrets>>
    BY <1>2 DEF external
  <2> QED
    BY <1>2, <2>2, <2>3, <2>4
      DEF Works, Found, Client, Secret, Matches, ClientIDOf, SecretNameOf
<1> QED
  BY <1>1, <1>2, ClientComesToRest DEF WorkInv

(* A Ready client that nobody is about to look at again is what its spec   *)
(* asks for, in the realm it recorded, and its Secret holds the credential *)
(* that Keycloak would check, unless the realm has dropped the client:     *)
(* whatever users edited meanwhile, whichever calls failed or lost their   *)
(* answer, and wherever the operator crashed.                              *)
THEOREM QuietClientsWork ==
  ASSUME OwnClients
  PROVE  ClientSpec => []QuietReadyClientWorks
<1>1. ClientInit => WorkInv
  <2> SUFFICES ASSUME ClientInit PROVE WorkInv
    OBVIOUS
  <2>1. worker.pc = "idle" /\ \A k \in Keys : objects[k] = NoObj
    BY DEF ClientInit, RuntimeInit, Idle
  <2>2. ProgressInv /\ QuietReadyClientWorks
    BY <2>1 DEF ProgressInv, EnsuredInv, FetchedInv, WrittenInv, QuietReadyClientWorks
  <2> QED
    BY <2>2, ReferInvInit, ClientWakeInvInit DEF WorkInv
<1>2. WorkInv /\ [ClientNext]_clientVars => WorkInv'
  BY ReferInvStep, ClientWakeInvStep, ProgressInvStep, QuietClientsWorkStep
    DEF WorkInv, ClientWakeInv
<1>3. WorkInv => QuietReadyClientWorks
  BY DEF WorkInv
<1> QED
  BY <1>1, <1>2, <1>3, PTL DEF ClientSpec
=============================================================================
