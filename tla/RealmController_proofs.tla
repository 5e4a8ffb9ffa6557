----------------------- MODULE RealmController_proofs -----------------------
(***************************************************************************)
(* Theorems about the realm controller, for any number of resources, users'*)
(* operations and faults.                                                  *)
(***************************************************************************)
EXTENDS RealmController, ControllerRuntime_proofs

EnsureSteps   == {"getRealm", "postRealm", "putRealm"}
TeardownSteps == {"deleteRealm", "removeFinalizer"}

(* The invariant behind the theorems: what the API server, the cache and   *)
(* the worker know of each other (ControllerRuntime_proofs); and a realm is*)
(* gone before the finalizer is.                                           *)
RealmTypeInv ==
  /\ RuntimeInv(RealmSteps, {NoLocal})
  /\ kcRealms \in [Names -> Settings \cup {NoRealm}]

RealmInv ==
  /\ RealmTypeInv
  /\ FinalizerInv(EnsureSteps, TeardownSteps)
  /\ worker.pc = "removeFinalizer" => kcRealms[RealmName] = NoRealm
  /\ NoOrphanRealm

LEMMA RealmStepSets ==
  /\ EnsureSteps \cup TeardownSteps \subseteq RealmSteps
  /\ "idle" \notin RealmSteps
  /\ "removeFinalizer" \in TeardownSteps
BY DEF EnsureSteps, TeardownSteps, RealmSteps

(* A spec always names a realm.                                            *)
LEMMA RealmNameIsAName ==
  ASSUME NEW k \in Keys, NEW spec \in Specs[k]
  PROVE  RealmNameOf(spec) \in Names /\ spec.settings \in Settings
BY RealmAssumption DEF RealmSpecs, RealmNameOf

LEMMA WorkerNamesARealm ==
  ASSUME RealmTypeInv, worker.pc # "idle"
  PROVE  /\ Key \in Keys /\ Obj \in CatalogObjects(Key) /\ Obj.spec \in Specs[Key]
         /\ RealmName \in Names /\ Wanted \in Settings
BY WorkerAtAStep, RealmNameIsAName DEF RealmTypeInv, CatalogObjects, RealmName, Wanted

(* What Keycloak has after a PUT: settings, and those that were asked for. *)
Agrees(settings, wanted) ==
  settings.enabled = wanted.enabled /\ wanted.displayName \in {NoName, settings.displayName}

LEMMA UpdateAgrees ==
  ASSUME RealmTypeInv, worker.pc # "idle"
  PROVE  /\ Agrees(Wanted, Wanted)
         /\ \A settings \in Settings :
              Updating(settings) \in Settings /\ Agrees(Updating(settings), Wanted)
BY WorkerNamesARealm DEF Agrees, Updating, Settings

----------------------------------------------------------------------------
(* Type correctness.                                                       *)
LEMMA RealmTypeInvInit ==
  ASSUME RealmInit
  PROVE  RealmTypeInv
BY RuntimeInvInit DEF RealmInit, RealmTypeInv

LEMMA RealmTypeInvStep ==
  ASSUME RealmTypeInv, [RealmNext]_realmVars
  PROVE  RealmTypeInv'
<1> USE DEF RealmTypeInv
<1>1. CASE UserNext /\ UNCHANGED kcRealms
  BY <1>1, UsersKeepRuntimeInv
<1>2. CASE \E k \in Keys : (Sync(k) \/ TakeKey(k)) /\ UNCHANGED kcRealms
  <2>1. PICK k \in Keys : (Sync(k) \/ TakeKey(k)) /\ UNCHANGED kcRealms
    BY <1>2
  <2>2. CASE Sync(k)
    BY <2>1, <2>2, SyncKeepsRuntimeInv
  <2>3. CASE Skip(k)
    BY <2>1, <2>3, IdleKeepsRuntimeInv
  <2>4. CASE StartAdoption(k) \/ StartTeardown(k) \/ StartEnsure(k)
    <3>1. \E step \in RealmSteps : cache[k] # NoObj /\ Take(k, step, NoLocal)
      BY <2>4 DEF StartAdoption, StartTeardown, StartEnsure, Unmanaged, Terminated, Managed,
                  Cached, RealmSteps
    <3> QED
      BY <2>1, <3>1, TakeKeepsRuntimeInv
  <2> QED
    BY <2>1, <2>2, <2>3, <2>4 DEF TakeKey
<1>3. CASE LocalStep /\ UNCHANGED kcRealms
  <2>1. PICK o \in Outcomes : FinalizerStep(o) \/ WriteRealmReady(o)
    BY <1>3 DEF LocalStep
  <2>2. WriteRealmReady(o) => RealmName \in Names
    BY WorkerNamesARealm DEF WriteRealmReady, WriteReady, At
  <2>3. FinalizerStep(o) \/ \E name \in Names \cup {NoName} : WriteReady(o, name)
    BY <2>1, <2>2 DEF WriteRealmReady
  <2> QED
    BY <1>3, <2>3, FinalizerStepKeepsRuntimeInv
<1>4. CASE KeycloakStep
  <2>1. PICK o \in Outcomes : GetRealm(o) \/ PostRealm(o) \/ PutRealm(o) \/ DeleteKcRealm(o)
    BY <1>4 DEF KeycloakStep
  <2>2. worker.pc # "idle" /\ UNCHANGED <<objects, cache, edits, calm>>
    BY <2>1 DEF GetRealm, PostRealm, PutRealm, DeleteKcRealm, At
  <2>3. (\E step \in RealmSteps : Goto(step)) \/ Retry
    BY <2>1 DEF GetRealm, PostRealm, PutRealm, DeleteKcRealm, RealmSteps
  <2>4. kcRealms' \in [Names -> Settings \cup {NoRealm}]
    BY <2>1, <2>2, WorkerNamesARealm, UpdateAgrees
      DEF GetRealm, PostRealm, PutRealm, DeleteKcRealm, Call, Existing
  <2> QED
    BY <2>2, <2>3, <2>4, GotoKeepsRuntimeInv
<1>5. CASE (Restart \/ Resync \/ BecomeCalm) /\ UNCHANGED kcRealms
  BY <1>5, IdleKeepsRuntimeInv
<1>6. CASE UNCHANGED realmVars
  BY <1>6 DEF realmVars, runtimeVars, RuntimeInv, RuntimeTypeOK, Idle
<1> QED
  BY <1>1, <1>2, <1>3, <1>4, <1>5, <1>6 DEF RealmNext, Step

(* The API server, the cache and the worker only ever hold resources that  *)
(* are well formed, held by the finalizer while they terminate, and never  *)
(* Ready ahead of their generation.                                        *)
THEOREM RealmTypeCorrect == RealmSpec => []RealmTypeOK
<1>1. RealmTypeInv => RealmTypeOK
  BY DEF RealmTypeInv, RuntimeInv, RealmTypeOK
<1>2. RealmInit => RealmTypeInv
  BY RealmTypeInvInit
<1>3. RealmTypeInv /\ [RealmNext]_realmVars => RealmTypeInv'
  BY RealmTypeInvStep
<1> QED
  BY <1>1, <1>2, <1>3, PTL DEF RealmSpec

----------------------------------------------------------------------------
(* What the finalizer guarantees.                                          *)
LEMMA RealmFinalizerInvStep ==
  ASSUME RealmTypeInv, FinalizerInv(EnsureSteps, TeardownSteps), [RealmNext]_realmVars
  PROVE  FinalizerInv(EnsureSteps, TeardownSteps)'
<1> DEFINE FInv == FinalizerInv(EnsureSteps, TeardownSteps)
<1>0. /\ RuntimeInv(RealmSteps, {NoLocal})
      /\ "idle" \notin EnsureSteps \cup TeardownSteps /\ "removeFinalizer" \in TeardownSteps
  BY RealmStepSets DEF RealmTypeInv
<1>1. CASE UserNext /\ UNCHANGED kcRealms
  BY <1>0, <1>1, UsersKeepFinalizerInv
<1>2. CASE \E k \in Keys : (Sync(k) \/ TakeKey(k)) /\ UNCHANGED kcRealms
  <2>1. PICK k \in Keys : Sync(k) \/ TakeKey(k)
    BY <1>2
  <2>2. CASE Sync(k)
    BY <1>0, <2>2, SyncKeepsFinalizerInv
  <2>3. CASE Skip(k)
    BY <1>0, <2>3, IdleKeepsFinalizerInv
  <2>4. CASE StartAdoption(k)
    <3>1. Take(k, "addFinalizer", NoLocal)
      BY <2>4 DEF StartAdoption
    <3>2. "addFinalizer" \notin EnsureSteps /\ "addFinalizer" \notin TeardownSteps
      BY DEF EnsureSteps, TeardownSteps
    <3> QED
      BY <1>0, <3>1, <3>2, TakeKeepsFinalizerInv
  <2>5. CASE StartTeardown(k)
    <3>1. Take(k, "deleteRealm", NoLocal) /\ Terminated(k)
      BY <2>5 DEF StartTeardown
    <3>2. "deleteRealm" \notin EnsureSteps
      BY DEF EnsureSteps
    <3> QED
      BY <1>0, <3>1, <3>2, TakeKeepsFinalizerInv
  <2>6. CASE StartEnsure(k)
    <3>1. Take(k, "getRealm", NoLocal) /\ Managed(k)
      BY <2>6 DEF StartEnsure
    <3>2. "getRealm" \notin TeardownSteps
      BY DEF TeardownSteps
    <3> QED
      BY <1>0, <3>1, <3>2, TakeKeepsFinalizerInv
  <2> QED
    BY <2>1, <2>2, <2>3, <2>4, <2>5, <2>6 DEF TakeKey
<1>3. CASE LocalStep /\ UNCHANGED kcRealms
  <2>1. PICK o \in Outcomes : FinalizerStep(o) \/ WriteRealmReady(o)
    BY <1>3 DEF LocalStep
  <2>2. WriteRealmReady(o) => RealmName \in Names
    BY WorkerNamesARealm DEF WriteRealmReady, WriteReady, At
  <2>3. FinalizerStep(o) \/ \E name \in Names \cup {NoName} : WriteReady(o, name)
    BY <2>1, <2>2 DEF WriteRealmReady
  <2> QED
    BY <1>0, <2>3, FinalizerStepKeepsFinalizerInv
<1>4. CASE KeycloakStep
  <2>1. PICK o \in Outcomes : GetRealm(o) \/ PostRealm(o) \/ PutRealm(o) \/ DeleteKcRealm(o)
    BY <1>4 DEF KeycloakStep
  <2>2. worker.pc # "idle" /\ UNCHANGED <<objects, cache>>
    BY <2>1 DEF GetRealm, PostRealm, PutRealm, DeleteKcRealm, At
  <2>3. \/ \E step \in RealmSteps : /\ Goto(step)
                                    /\ step \in EnsureSteps => worker.pc \in EnsureSteps
                                    /\ step \in TeardownSteps => worker.pc \in TeardownSteps
        \/ Retry
    BY <2>1 DEF GetRealm, PostRealm, PutRealm, DeleteKcRealm, At,
                EnsureSteps, TeardownSteps, RealmSteps
  <2> QED
    BY <1>0, <2>2, <2>3, GotoKeepsFinalizerInv
<1>5. CASE (Restart \/ Resync \/ BecomeCalm) /\ UNCHANGED kcRealms
  BY <1>0, <1>5, IdleKeepsFinalizerInv
<1>6. CASE UNCHANGED realmVars
  BY <1>6 DEF realmVars, runtimeVars, FinalizerInv, CacheInv, ReadInv, TeardownInv,
              Held, SameLife, Key, Obj
<1> QED
  BY <1>1, <1>2, <1>3, <1>4, <1>5, <1>6 DEF RealmNext, Step

(* What a step of the specification does to the resources and to Keycloak. *)
LEMMA ManagesStays ==
  ASSUME StableRealmNames, RealmTypeInv, RealmTypeInv', NEW k \in Keys, NEW n,
         Manages(k, n), Held(k)'
  PROVE  Manages(k, n)'
<1>1. objects[k].spec \in Specs[k]
  BY DEF RealmTypeInv, RuntimeInv, RuntimeTypeOK, CatalogObjects, Manages
<1>2. objects'[k].spec \in Specs[k]
  BY DEF RealmTypeInv, RuntimeInv, RuntimeTypeOK, CatalogObjects, Held
<1> QED
  BY <1>1, <1>2 DEF StableRealmNames, Manages, Held

LEMMA HeldUnlessReleased ==
  ASSUME RealmInv, [RealmNext]_realmVars, NEW k \in Keys, Held(k), ~Held(k)'
  PROVE  /\ worker.pc = "removeFinalizer" /\ k = Key /\ objects[k] = Obj
         /\ objects'[k] = NoObj /\ UNCHANGED kcRealms
<1>0. RuntimeInv(RealmSteps, {NoLocal}) /\ TeardownInv(TeardownSteps)
  BY DEF RealmInv, RealmTypeInv, FinalizerInv
<1>1. objects'[k] # objects[k]
  BY DEF Held
<1>2. ~UserNext
  BY <1>0, UserEffect DEF Held
<1>3. LocalStep /\ UNCHANGED kcRealms
  BY <1>1, <1>2 DEF RealmNext, Step, KeycloakStep, realmVars, runtimeVars, Sync, TakeKey, Skip,
    StartAdoption, StartTeardown, StartEnsure, Take, GetRealm, PostRealm, PutRealm,
    DeleteKcRealm, Restart, Resync, BecomeCalm
<1>4. PICK o \in Outcomes : FinalizerStep(o) \/ WriteRealmReady(o)
  BY <1>3 DEF LocalStep
<1>5. CASE RemoveFinalizer(o)
  BY <1>0, <1>1, <1>3, <1>5, RealmStepSets, RemoveFinalizerEffect DEF RemoveFinalizer, At
<1>6. CASE ~RemoveFinalizer(o)
  <2>1. WriteRealmReady(o) => RealmName \in Names
    BY WorkerNamesARealm DEF RealmInv, WriteRealmReady, WriteReady, At
  <2>2. FinalizerStep(o) \/ \E name \in Names \cup {NoName} : WriteReady(o, name)
    BY <1>4, <2>1 DEF WriteRealmReady
  <2> QED
    BY <1>0, <1>1, <1>6, <2>2, OtherWritesEffect DEF Keeps, Held, SameLife
<1> QED
  BY <1>5, <1>6

LEMMA KcRealmsEffect ==
  ASSUME RealmInv, [RealmNext]_realmVars
  PROVE  \/ UNCHANGED kcRealms
         \/ /\ worker.pc \in {"postRealm", "putRealm"} /\ Held(Key) /\ UNCHANGED objects
            /\ \E settings \in Settings : /\ Agrees(settings, Wanted)
                                          /\ kcRealms' = [kcRealms EXCEPT ![RealmName] = settings]
            /\ worker'.pc # "removeFinalizer"
         \/ /\ worker.pc = "deleteRealm" /\ UNCHANGED objects
            /\ kcRealms' = [kcRealms EXCEPT ![RealmName] = NoRealm]
<1>1. CASE KeycloakStep
  <2>1. PICK o \in Outcomes : GetRealm(o) \/ PostRealm(o) \/ PutRealm(o) \/ DeleteKcRealm(o)
    BY <1>1 DEF KeycloakStep
  <2>2. CASE GetRealm(o)
    BY <2>2 DEF GetRealm
  <2>3. CASE PostRealm(o) \/ PutRealm(o)
    <3>1. worker.pc \in EnsureSteps /\ worker.pc \in {"postRealm", "putRealm"}
      BY <2>3 DEF PostRealm, PutRealm, At, EnsureSteps
    <3>2. Held(Key) /\ UNCHANGED objects
      BY <2>3, <3>1 DEF RealmInv, FinalizerInv, PostRealm, PutRealm
    <3>3. worker # Idle /\ worker \in Reconciles(Key, RealmSteps, {NoLocal})
      BY <3>1, WorkerAtAStep, RealmStepSets DEF RealmInv, RealmTypeInv
    <3>4. worker'.pc \in {"readyStatus", "failStatus"}
      BY <2>3, <3>3 DEF PostRealm, PutRealm, Goto, Reconciles
    <3>5. UNCHANGED kcRealms \/ \E settings \in Settings :
            Agrees(settings, Wanted) /\ kcRealms' = [kcRealms EXCEPT ![RealmName] = settings]
      <4>1. /\ RealmName \in Names /\ Wanted \in Settings
            /\ kcRealms \in [Names -> Settings \cup {NoRealm}]
        BY <3>1, WorkerNamesARealm DEF RealmInv, RealmTypeInv
      <4>2. CASE PostRealm(o)
        BY <3>1, <4>1, <4>2, UpdateAgrees DEF PostRealm, Call, RealmInv
      <4>3. CASE PutRealm(o)
        <5>1. CASE Existing = NoRealm \/ UNCHANGED kcRealms
          BY <4>3, <5>1 DEF PutRealm
        <5>2. CASE Existing # NoRealm /\ kcRealms' # kcRealms
          <6>1. /\ Existing \in Settings
                /\ kcRealms' = [kcRealms EXCEPT ![RealmName] = Updating(Existing)]
            BY <4>1, <4>3, <5>2 DEF PutRealm, Call, Existing
          <6> QED
            BY <3>1, <6>1, UpdateAgrees DEF RealmInv
        <5> QED
          BY <5>1, <5>2
      <4> QED
        BY <2>3, <4>2, <4>3
    <3> QED
      BY <3>1, <3>2, <3>4, <3>5
  <2>4. CASE DeleteKcRealm(o)
    BY <2>4 DEF DeleteKcRealm, At, Call
  <2> QED
    BY <2>1, <2>2, <2>3, <2>4
<1>2. CASE ~KeycloakStep
  BY <1>2 DEF RealmNext, Step, realmVars
<1> QED
  BY <1>1, <1>2

LEMMA RealmInvInit ==
  ASSUME RealmInit
  PROVE  RealmInv
<1>1. RealmTypeInv /\ RuntimeInit
  BY RealmTypeInvInit DEF RealmInit
<1>2. FinalizerInv(EnsureSteps, TeardownSteps)
  BY <1>1, FinalizerInvInit DEF RuntimeInit, EnsureSteps, TeardownSteps
<1>3. worker.pc = "idle" /\ \A n \in Names : kcRealms[n] = NoRealm
  BY DEF RealmInit, RuntimeInit, Idle
<1> QED
  BY <1>1, <1>2, <1>3 DEF RealmInv, NoOrphanRealm

LEMMA RealmInvStep ==
  ASSUME StableRealmNames, RealmInv, [RealmNext]_realmVars
  PROVE  RealmInv'
<1>1. RealmTypeInv'
  BY RealmTypeInvStep DEF RealmInv
<1>2. FinalizerInv(EnsureSteps, TeardownSteps)'
  BY RealmFinalizerInvStep DEF RealmInv
<1>3. kcRealms \in [Names -> Settings \cup {NoRealm}]
  BY DEF RealmInv, RealmTypeInv
<1>4. worker.pc # "idle" => Key \in Keys /\ RealmName \in Names /\ Obj.spec \in Specs[Key]
  BY WorkerNamesARealm DEF RealmInv
<1>5. worker'.pc = "removeFinalizer" => kcRealms'[RealmName'] = NoRealm
  <2> SUFFICES ASSUME worker'.pc = "removeFinalizer"
               PROVE  kcRealms'[RealmName'] = NoRealm
    OBVIOUS
  <2>1. CASE UNCHANGED worker
    <3>1. UNCHANGED kcRealms
      BY <2>1, <1>4, KcRealmsEffect
    <3> QED
      BY <2>1, <3>1 DEF RealmInv, RealmName, Obj
  <2>2. CASE worker' # worker
    <3>1. PICK o \in Outcomes : DeleteKcRealm(o)
      <4>1. ~UserNext /\ ~(\E k \in Keys : Sync(k)) /\ ~(\E k \in Keys : Skip(k))
        BY <2>2 DEF UserNext, CreateObject, EditObject, DeleteObject, Edit, Sync, Skip
      <4>2. ~(\E k \in Keys : TakeKey(k)) /\ ~Restart /\ ~Resync /\ ~BecomeCalm
        BY <2>2, <4>1 DEF TakeKey, StartAdoption, StartTeardown, StartEnsure, Take, Restart,
                         Resync, BecomeCalm, Idle
      <4>3. ~LocalStep
        BY DEF LocalStep, FinalizerStep, AddFinalizer, RemoveFinalizer, WriteFailed,
               WriteRealmReady, WriteReady, Retry, Done, Idle
      <4>4. PICK o \in Outcomes :
              GetRealm(o) \/ PostRealm(o) \/ PutRealm(o) \/ DeleteKcRealm(o)
        BY <2>2, <4>1, <4>2, <4>3 DEF RealmNext, Step, KeycloakStep, realmVars, runtimeVars
      <4>5. worker.pc # "idle"
        BY <4>4 DEF GetRealm, PostRealm, PutRealm, DeleteKcRealm, At
      <4>6. worker \in Reconciles(Key, RealmSteps, {NoLocal})
        BY <4>5, WorkerAtAStep DEF RealmInv, RealmTypeInv
      <4>7. ~GetRealm(o) /\ ~PostRealm(o) /\ ~PutRealm(o)
        BY <4>6 DEF GetRealm, PostRealm, PutRealm, Goto, Reconciles
      <4> QED
        BY <4>4, <4>7
    <3>2. worker.pc # "idle" /\ o = "ok"
      BY <3>1 DEF DeleteKcRealm, At, Retry, Idle
    <3>3. worker \in Reconciles(Key, RealmSteps, {NoLocal})
      BY <3>2, WorkerAtAStep DEF RealmInv, RealmTypeInv
    <3>4. Obj' = Obj /\ RealmName' = RealmName
      BY <3>1, <3>2, <3>3 DEF DeleteKcRealm, Goto, Reconciles, Obj, RealmName
    <3> QED
      BY <1>3, <1>4, <3>1, <3>2, <3>4 DEF DeleteKcRealm, Call
  <2> QED
    BY <2>1, <2>2
<1>6. NoOrphanRealm'
  <2> SUFFICES ASSUME NEW n \in Names, kcRealms'[n] # NoRealm
               PROVE  \E k \in Keys : Manages(k, n)'
    BY DEF NoOrphanRealm, Manages
  <2>1. CASE kcRealms[n] # NoRealm
    <3>1. PICK k \in Keys : Manages(k, n)
      BY <2>1 DEF RealmInv, NoOrphanRealm
    <3>2. Held(k)'
      <4> SUFFICES ASSUME ~Held(k)' PROVE FALSE
        OBVIOUS
      <4>1. /\ worker.pc = "removeFinalizer" /\ k = Key /\ objects[k] = Obj
            /\ UNCHANGED kcRealms
        BY <3>1, HeldUnlessReleased DEF Held, Manages
      <4>2. RealmName = n
        BY <3>1, <4>1 DEF Manages, RealmName
      <4> QED
        BY <2>1, <4>1, <4>2 DEF RealmInv
    <3> QED
      BY <1>1, <3>1, <3>2, ManagesStays DEF RealmInv
  <2>2. CASE kcRealms[n] = NoRealm
    <3>1. /\ worker.pc \in {"postRealm", "putRealm"} /\ Held(Key) /\ UNCHANGED objects
          /\ n = RealmName
      BY <2>2, <1>3, KcRealmsEffect
    <3>2. Key \in Keys /\ Obj.spec \in Specs[Key]
      BY <3>1, <1>4
    <3>3. objects[Key].spec \in Specs[Key]
      BY <3>1, <3>2 DEF RealmInv, RealmTypeInv, RuntimeInv, RuntimeTypeOK, CatalogObjects, Held
    <3>4. Manages(Key, n)
      BY <3>1, <3>2, <3>3 DEF StableRealmNames, Manages, Held, RealmName
    <3> QED
      BY <3>1, <3>2, <3>4 DEF Manages
  <2> QED
    BY <2>1, <2>2
<1> QED
  BY <1>1, <1>2, <1>5, <1>6 DEF RealmInv

(* Whatever is lost, stale, repeated or crashed, a realm in Keycloak always*)
(* has a resource that names it and still carries the finalizer, provided  *)
(* no resource is ever given another realm's name.                         *)
THEOREM NoRealmIsOrphaned ==
  ASSUME StableRealmNames
  PROVE  RealmSpec => []NoOrphanRealm
<1>1. RealmInit => RealmInv
  BY RealmInvInit
<1>2. RealmInv /\ [RealmNext]_realmVars => RealmInv'
  BY RealmInvStep
<1>3. RealmInv => NoOrphanRealm
  BY DEF RealmInv
<1> QED
  BY <1>1, <1>2, <1>3, PTL DEF RealmSpec

----------------------------------------------------------------------------
(* With a name of its own for every resource.                              *)
LEMMA OnlyItsOwnRealm ==
  ASSUME StableRealmNames, DistinctRealmNames, RealmInv, worker.pc # "idle"
  PROVE  /\ \A k \in Keys : Manages(k, RealmName) => k = Key
         /\ \A k \in Keys : \A s \in Specs[k] : RealmNameOf(s) = RealmName <=> k = Key
<1>1. Key \in Keys /\ Obj.spec \in Specs[Key]
  BY WorkerNamesARealm DEF RealmInv
<1>2. \A k \in Keys : Held(k) => objects[k].spec \in Specs[k]
  BY DEF RealmInv, RealmTypeInv, RuntimeInv, RuntimeTypeOK, CatalogObjects, Held
<1>3. \A k \in Keys : \A s \in Specs[k] : RealmNameOf(s) = RealmName <=> k = Key
  BY <1>1 DEF StableRealmNames, DistinctRealmNames, RealmName
<1> QED
  BY <1>2, <1>3 DEF Manages, Held

LEMMA DeletesWhatTerminates ==
  ASSUME StableRealmNames, DistinctRealmNames, RealmInv,
         worker.pc = "deleteRealm", kcRealms[RealmName] # NoRealm
  PROVE  Manages(Key, RealmName) /\ objects[Key].deleting
<1>1. RealmName \in Names
  BY WorkerNamesARealm DEF RealmInv
<1>2. \E k \in Keys : Manages(k, RealmName)
  BY <1>1 DEF RealmInv, NoOrphanRealm
<1>3. Manages(Key, RealmName)
  BY <1>2, OnlyItsOwnRealm
<1>4. TeardownInv(TeardownSteps) /\ worker.pc \in TeardownSteps
  BY DEF RealmInv, FinalizerInv, TeardownSteps
<1> QED
  BY <1>3, <1>4 DEF TeardownInv, Manages, Held

(* A realm vanishes only while its resource is being deleted: no retried,  *)
(* repeated or stale teardown takes the realm of a resource that lives.    *)
THEOREM NoRealmIsTornDownAlive ==
  ASSUME StableRealmNames, DistinctRealmNames
  PROVE  RealmSpec => RealmGoesOnlyWithItsResource
<1> DEFINE Goes == \A n \in Names : kcRealms[n] # NoRealm /\ kcRealms'[n] = NoRealm =>
                     \E k \in Keys : Manages(k, n) /\ objects[k].deleting
<1>1. RealmInit => RealmInv
  BY RealmInvInit
<1>2. RealmInv /\ [RealmNext]_realmVars => RealmInv'
  BY RealmInvStep
<1>3. RealmInv /\ [RealmNext]_realmVars => [Goes]_realmVars
  <2> SUFFICES ASSUME RealmInv, [RealmNext]_realmVars, NEW n \in Names,
                      kcRealms[n] # NoRealm, kcRealms'[n] = NoRealm
               PROVE  \E k \in Keys : Manages(k, n) /\ objects[k].deleting
    OBVIOUS
  <2>1. kcRealms \in [Names -> Settings \cup {NoRealm}]
    BY DEF RealmInv, RealmTypeInv
  <2>2. ASSUME worker.pc # "idle"
        PROVE  Key \in Keys /\ RealmName \in Names /\ Wanted # NoRealm
    BY <2>2, WorkerNamesARealm, RealmAssumption DEF RealmInv
  <2>3. worker.pc = "deleteRealm" /\ n = RealmName
    BY <2>1, <2>2, KcRealmsEffect, RealmAssumption
  <2> QED
    BY <2>2, <2>3, DeletesWhatTerminates
<1> QED
  BY <1>1, <1>2, <1>3, PTL DEF RealmSpec, RealmGoesOnlyWithItsResource

----------------------------------------------------------------------------
(* Ready can be believed: Keycloak has what the generation that is Ready   *)
(* asks for, and the last reconcile before it is Ready found it or put it  *)
(* there.                                                                  *)
ManageSteps == EnsureSteps \cup {"readyStatus"}

ProvisionedInv ==
  /\ RealmInv
  /\ VersionInv(ManageSteps)
  /\ worker.pc = "readyStatus" => Provisioned(Obj.spec)
  /\ ReadyRealmIsProvisioned

LEMMA RealmVersionInvStep ==
  ASSUME RealmTypeInv, VersionInv(ManageSteps), [RealmNext]_realmVars
  PROVE  VersionInv(ManageSteps)'
<1>0. /\ RuntimeInv(RealmSteps, {NoLocal})
      /\ "idle" \notin ManageSteps /\ "readyStatus" \in ManageSteps
  BY DEF RealmTypeInv, ManageSteps, EnsureSteps
<1>1. CASE UserNext
  BY <1>0, <1>1, UsersKeepVersionInv
<1>2. CASE \E k \in Keys : Sync(k) \/ TakeKey(k)
  <2>1. PICK k \in Keys : Sync(k) \/ TakeKey(k)
    BY <1>2
  <2>2. CASE Sync(k)
    BY <1>0, <2>2, SyncKeepsVersionInv
  <2>3. CASE Skip(k)
    BY <1>0, <2>3, IdleKeepsVersionInv
  <2>4. CASE TakeKey(k) /\ ~Skip(k)
    <3>1. \E step : /\ Take(k, step, NoLocal) /\ cache[k] # NoObj
                    /\ step \in ManageSteps => ~cache[k].deleting
      BY <2>4 DEF TakeKey, StartAdoption, StartTeardown, StartEnsure, Unmanaged, Terminated,
                  Managed, Cached, ManageSteps, EnsureSteps
    <3> QED
      BY <1>0, <3>1, TakeKeepsVersionInv
  <2> QED
    BY <2>1, <2>2, <2>3, <2>4
<1>3. CASE LocalStep
  <2>1. PICK o \in Outcomes : FinalizerStep(o) \/ WriteRealmReady(o)
    BY <1>3 DEF LocalStep
  <2>2. WriteRealmReady(o) => RealmName \in Names
    BY WorkerNamesARealm DEF WriteRealmReady, WriteReady, At
  <2>3. FinalizerStep(o) \/ \E name \in Names \cup {NoName} : WriteReady(o, name)
    BY <2>1, <2>2 DEF WriteRealmReady
  <2> QED
    BY <1>0, <2>3, FinalizerStepKeepsVersionInv
<1>4. CASE KeycloakStep
  <2>1. PICK o \in Outcomes : GetRealm(o) \/ PostRealm(o) \/ PutRealm(o) \/ DeleteKcRealm(o)
    BY <1>4 DEF KeycloakStep
  <2>2. worker.pc # "idle" /\ UNCHANGED <<objects, cache>>
    BY <2>1 DEF GetRealm, PostRealm, PutRealm, DeleteKcRealm, At
  <2>3. \/ \E step \in RealmSteps :
             Goto(step) /\ (step \in ManageSteps => worker.pc \in ManageSteps)
        \/ Retry
    BY <2>1 DEF GetRealm, PostRealm, PutRealm, DeleteKcRealm, At,
                ManageSteps, EnsureSteps, RealmSteps
  <2> QED
    BY <1>0, <2>2, <2>3, GotoKeepsVersionInv
<1>5. CASE Restart \/ Resync \/ BecomeCalm
  BY <1>0, <1>5, IdleKeepsVersionInv
<1>6. CASE UNCHANGED realmVars
  BY <1>6 DEF realmVars, runtimeVars, VersionInv, CopiesInv, ReadyInv, Precedes, SameVersion,
              SameLife, Ready, Key, Obj
<1> QED
  BY <1>1, <1>2, <1>3, <1>4, <1>5, <1>6 DEF RealmNext, Step

(* What a reconcile found or sent is still in Keycloak when it reports it. *)
LEMMA ReportsWhatIsThere ==
  ASSUME ProvisionedInv, [RealmNext]_realmVars, worker'.pc = "readyStatus"
  PROVE  Provisioned(Obj.spec)'
<1>1. CASE UNCHANGED <<worker, kcRealms>>
  BY <1>1 DEF ProvisionedInv, Provisioned, Obj
<1>2. CASE UserNext /\ UNCHANGED kcRealms
  <2>1. UNCHANGED worker
    BY <1>2, UserEffect DEF ProvisionedInv, RealmInv, RealmTypeInv
  <2> QED
    BY <1>1, <1>2, <2>1
<1>3. CASE KeycloakStep
  <2>1. PICK o \in Outcomes : GetRealm(o) \/ PostRealm(o) \/ PutRealm(o) \/ DeleteKcRealm(o)
    BY <1>3 DEF KeycloakStep
  <2>2. worker.pc # "idle"
    BY <2>1 DEF GetRealm, PostRealm, PutRealm, DeleteKcRealm, At
  <2>3. RealmName \in Names /\ kcRealms \in [Names -> Settings \cup {NoRealm}]
        /\ worker \in Reconciles(Key, RealmSteps, {NoLocal})
    BY <2>2, WorkerNamesARealm, WorkerAtAStep DEF ProvisionedInv, RealmInv, RealmTypeInv
  <2>4. ~DeleteKcRealm(o)
    BY <2>3 DEF DeleteKcRealm, Goto, Retry, Idle, Reconciles
  <2>5. Goto("readyStatus") /\ o = "ok"
    BY <2>1, <2>3, <2>4 DEF GetRealm, PostRealm, PutRealm, Goto, Reconciles
  <2>6. Obj' = Obj /\ RealmName = RealmNameOf(Obj.spec) /\ Wanted = Obj.spec.settings
    BY <2>3, <2>5 DEF Goto, Reconciles, RealmName, Wanted, Obj
  <2>7. \E settings \in Settings : Agrees(settings, Wanted) /\ kcRealms'[RealmName] = settings
    <3>1. CASE GetRealm(o)
      <4>1. kcRealms[RealmName] = Wanted /\ UNCHANGED kcRealms
        BY <2>3, <2>5, <3>1 DEF GetRealm, Goto, Reconciles, Existing
      <4> QED
        BY <2>2, <4>1, WorkerNamesARealm, UpdateAgrees DEF ProvisionedInv, RealmInv
    <3>2. CASE PostRealm(o)
      <4>1. kcRealms'[RealmName] = Wanted
        BY <2>3, <2>5, <3>2 DEF PostRealm, Call
      <4> QED
        BY <2>2, <4>1, WorkerNamesARealm, UpdateAgrees DEF ProvisionedInv, RealmInv
    <3>3. CASE PutRealm(o)
      <4>1. Existing # NoRealm
        BY <2>3, <2>5, <3>3 DEF PutRealm, Goto, Reconciles
      <4>2. kcRealms'[RealmName] = Updating(Existing) /\ Existing \in Settings
        BY <2>3, <2>5, <3>3, <4>1 DEF PutRealm, Call, Existing
      <4> QED
        BY <2>2, <4>2, UpdateAgrees DEF ProvisionedInv, RealmInv
    <3> QED
      BY <2>1, <2>4, <3>1, <3>2, <3>3
  <2> QED
    BY <2>6, <2>7, RealmAssumption DEF Provisioned, Agrees
<1>4. CASE LocalStep \/ Restart
  BY <1>4 DEF LocalStep, FinalizerStep, AddFinalizer, RemoveFinalizer, WriteFailed,
    WriteRealmReady, WriteReady, Retry, Done, Restart, Idle
<1>5. CASE (\E k \in Keys : Sync(k) \/ TakeKey(k)) /\ UNCHANGED kcRealms
  BY <1>1, <1>5 DEF Sync, TakeKey, Skip, StartAdoption, StartTeardown, StartEnsure, Take
<1>6. CASE ((Resync \/ BecomeCalm) /\ UNCHANGED kcRealms) \/ UNCHANGED realmVars
  BY <1>1, <1>6 DEF Resync, BecomeCalm, realmVars, runtimeVars
<1> QED
  BY <1>2, <1>3, <1>4, <1>5, <1>6 DEF RealmNext, Step

(* What becomes Ready in a step was read in the generation it has, so the  *)
(* step is the report of the reconcile; and it changes no settings.        *)
LEMMA BecomesReady ==
  ASSUME RealmInv, [RealmNext]_realmVars, NEW k \in Keys, objects'[k] # NoObj, Ready(objects'[k])
  PROVE  \/ /\ objects[k] # NoObj /\ Ready(objects[k]) /\ objects'[k].spec = objects[k].spec
         \/ /\ worker.pc = "readyStatus" /\ k = Key /\ objects'[k].spec = Obj.spec
            /\ UNCHANGED kcRealms
<1>0. RuntimeInv(RealmSteps, {NoLocal})
  BY DEF RealmInv, RealmTypeInv
<1>1. CASE objects'[k] = objects[k]
  BY <1>1
<1>2. CASE UserNext
  BY <1>0, <1>1, <1>2, UserVersionEffect
<1>3. CASE LocalStep /\ UNCHANGED kcRealms
  <2>1. PICK o \in Outcomes : FinalizerStep(o) \/ WriteRealmReady(o)
    BY <1>3 DEF LocalStep
  <2>2. WriteRealmReady(o) => RealmName \in Names
    BY WorkerNamesARealm DEF RealmInv, WriteRealmReady, WriteReady, At
  <2>3. FinalizerStep(o) \/ \E name \in Names \cup {NoName} : WriteReady(o, name)
    BY <2>1, <2>2 DEF WriteRealmReady
  <2>4. Obj # NoObj \/ worker.pc = "idle"
    BY <1>0, WorkerAtAStep, NoObjIsNoObject
  <2>5. worker.pc # "idle"
    BY <2>1 DEF FinalizerStep, AddFinalizer, RemoveFinalizer, WriteFailed, WriteRealmReady,
                WriteReady, At
  <2> QED
    BY <1>0, <1>1, <1>3, <2>3, <2>4, <2>5, WriteVersionEffect DEF Rewrites
<1>4. CASE UNCHANGED objects
  BY <1>1, <1>4
<1> QED
  BY <1>2, <1>3, <1>4 DEF RealmNext, Step, KeycloakStep, realmVars, runtimeVars, Sync, TakeKey,
    Skip, StartAdoption, StartTeardown, StartEnsure, Take, GetRealm, PostRealm, PutRealm, DeleteKcRealm, Restart, Resync, BecomeCalm

LEMMA ProvisionedInvStep ==
  ASSUME StableRealmNames, DistinctRealmNames, ProvisionedInv, [RealmNext]_realmVars
  PROVE  ProvisionedInv'
<1>0. RealmInv /\ VersionInv(ManageSteps) /\ kcRealms \in [Names -> Settings \cup {NoRealm}]
  BY DEF ProvisionedInv, RealmInv, RealmTypeInv
<1>1. RealmInv' /\ VersionInv(ManageSteps)'
  BY <1>0, RealmInvStep, RealmVersionInvStep DEF RealmInv
<1>2. worker'.pc = "readyStatus" => Provisioned(Obj.spec)'
  BY ReportsWhatIsThere
<1>3. ReadyRealmIsProvisioned'
  <2> SUFFICES ASSUME NEW k \in Keys, objects'[k] # NoObj, Ready(objects'[k])
               PROVE  Provisioned(objects[k].spec)'
    BY DEF ReadyRealmIsProvisioned
  <2>1. CASE /\ worker.pc = "readyStatus" /\ k = Key /\ objects'[k].spec = Obj.spec
             /\ UNCHANGED kcRealms
    BY <2>1 DEF ProvisionedInv, Provisioned
  <2>2. CASE /\ objects[k] # NoObj /\ Ready(objects[k]) /\ objects'[k].spec = objects[k].spec
    <3>1. Provisioned(objects[k].spec)
      BY <2>2 DEF ProvisionedInv, ReadyRealmIsProvisioned
    <3>2. /\ objects[k].spec \in Specs[k] /\ RealmNameOf(objects[k].spec) \in Names
          /\ objects[k].spec.settings \in Settings /\ ~objects[k].deleting
      BY <1>0, <2>2, RealmNameIsAName
        DEF RealmInv, RealmTypeInv, RuntimeInv, RuntimeTypeOK, CatalogObjects, VersionInv, ReadyInv
    <3>3. CASE kcRealms'[RealmNameOf(objects[k].spec)] = kcRealms[RealmNameOf(objects[k].spec)]
      BY <2>2, <3>1, <3>3 DEF Provisioned
    <3>4. CASE worker.pc # "idle" /\ RealmNameOf(objects[k].spec) # RealmName
      <4>1. UNCHANGED kcRealms \/ \E value : kcRealms' = [kcRealms EXCEPT ![RealmName] = value]
        BY <1>0, KcRealmsEffect
      <4> QED
        BY <1>0, <3>2, <3>3, <3>4, <4>1
    <3>5. CASE worker.pc # "idle" /\ RealmNameOf(objects[k].spec) = RealmName
      <4>1. k = Key
        BY <1>0, <3>2, <3>5, OnlyItsOwnRealm
      <4>2. SameVersion(Obj, objects[k]) /\ Precedes(Obj, objects[k]) /\ Obj # NoObj
        BY <1>0, <2>2, <3>5, <4>1, WorkerAtAStep, NoObjIsNoObject
          DEF VersionInv, ReadyInv, CopiesInv, RealmInv, RealmTypeInv
      <4>3. Obj.spec = objects[k].spec /\ ~Obj.deleting
        BY <3>2, <4>2 DEF SameVersion, Precedes
      <4>4. worker.pc # "deleteRealm"
        BY <1>0, <4>3 DEF RealmInv, FinalizerInv, TeardownInv, TeardownSteps
      <4>5. CASE UNCHANGED kcRealms
        BY <3>3, <4>5
      <4>6. CASE kcRealms' # kcRealms
        <5>1. PICK settings \in Settings :
                Agrees(settings, Wanted) /\ kcRealms' = [kcRealms EXCEPT ![RealmName] = settings]
          BY <1>0, <4>4, <4>6, KcRealmsEffect
        <5>2. kcRealms'[RealmNameOf(objects'[k].spec)] = settings
          BY <1>0, <2>2, <3>2, <3>5, <5>1
        <5>3. objects'[k].spec.settings = Wanted
          BY <2>2, <4>3 DEF Wanted
        <5> QED
          BY <5>1, <5>2, <5>3, RealmAssumption DEF Provisioned, Agrees
      <4> QED
        BY <4>5, <4>6
    <3>6. CASE worker.pc = "idle"
      BY <1>0, <3>3, <3>6, KcRealmsEffect
    <3> QED
      BY <3>4, <3>5, <3>6
  <2> QED
    BY <1>0, <2>1, <2>2, BecomesReady
<1> QED
  BY <1>1, <1>2, <1>3 DEF ProvisionedInv

(* A resource that is Ready at its current generation has its realm, as    *)
(* enabled as it asks and under the display name it asks for, if it asks   *)
(* for one, however stale the reconcile that is under way; provided that   *)
(* resources keep their names and have names of their own.                 *)
THEOREM ReadyMeansProvisioned ==
  ASSUME StableRealmNames, DistinctRealmNames
  PROVE  RealmSpec => []ReadyRealmIsProvisioned
<1>1. RealmInit => ProvisionedInv
  <2> SUFFICES ASSUME RealmInit PROVE ProvisionedInv
    OBVIOUS
  <2>1. worker = Idle /\ \A k \in Keys : objects[k] = NoObj /\ cache[k] = NoObj
    BY DEF RealmInit, RuntimeInit
  <2>2. VersionInv(ManageSteps)
    BY <2>1, VersionInvInit DEF ManageSteps, EnsureSteps
  <2> QED
    BY <2>1, <2>2, RealmInvInit DEF ProvisionedInv, ReadyRealmIsProvisioned, Idle
<1>2. ProvisionedInv /\ [RealmNext]_realmVars => ProvisionedInv'
  BY ProvisionedInvStep
<1>3. ProvisionedInv => ReadyRealmIsProvisioned
  BY DEF ProvisionedInv
<1> QED
  BY <1>1, <1>2, <1>3, PTL DEF RealmSpec

----------------------------------------------------------------------------
(* No wakeup is lost.                                                      *)
RealmWakeInv ==
  /\ RealmTypeInv
  /\ FinalizerInv(EnsureSteps, TeardownSteps)
  /\ VersionInv(ManageSteps)
  /\ WakeInv(ManageSteps, {})

LEMMA RealmWakeInvStep ==
  ASSUME RealmWakeInv, [RealmNext]_realmVars
  PROVE  WakeInv(ManageSteps, {})'
<1>0. /\ RealmTypeInv /\ RuntimeInv(RealmSteps, {NoLocal}) /\ CopiesInv /\ CacheInv
      /\ TeardownInv(TeardownSteps) /\ WakeInv(ManageSteps, {})
      /\ "idle" \notin ManageSteps /\ "readyStatus" \in ManageSteps
      /\ "removeFinalizer" \in TeardownSteps /\ "idle" \notin RealmSteps
  BY RealmStepSets
    DEF RealmWakeInv, RealmTypeInv, FinalizerInv, VersionInv, ManageSteps, EnsureSteps
<1>1. CASE UserNext
  BY <1>0, <1>1, UsersKeepWakeInv
<1>2. CASE \E k \in Keys : Sync(k) \/ TakeKey(k)
  <2>1. PICK k \in Keys : Sync(k) \/ TakeKey(k)
    BY <1>2
  <2>2. CASE Sync(k)
    BY <1>0, <2>2, SyncKeepsWakeInv
  <2>3. CASE Skip(k)
    BY <1>0, <2>3, IdleKeepsWakeInv
  <2>4. CASE TakeKey(k) /\ ~Skip(k)
    <3>1. \E step : /\ Take(k, step, NoLocal)
                    /\ step \in ManageSteps => cache[k].finalizer /\ ~cache[k].deleting
                    /\ step = "addFinalizer" => ~cache[k].finalizer
      BY <2>4 DEF TakeKey, StartAdoption, StartTeardown, StartEnsure, Unmanaged, Managed,
                  ManageSteps, EnsureSteps
    <3> QED
      BY <1>0, <3>1, TakeKeepsWakeInv
  <2> QED
    BY <2>1, <2>2, <2>3, <2>4
<1>3. CASE LocalStep
  <2>1. PICK o \in Outcomes : FinalizerStep(o) \/ WriteRealmReady(o)
    BY <1>3 DEF LocalStep
  <2>2. WriteRealmReady(o) => RealmName \in Names
    BY <1>0, WorkerNamesARealm DEF WriteRealmReady, WriteReady, At
  <2>3. FinalizerStep(o) \/ \E name \in Names \cup {NoName} : WriteReady(o, name)
    BY <2>1, <2>2 DEF WriteRealmReady
  <2> QED
    BY <1>0, <2>3, FinalizerStepKeepsWakeInv
<1>4. CASE KeycloakStep
  <2>1. PICK o \in Outcomes : GetRealm(o) \/ PostRealm(o) \/ PutRealm(o) \/ DeleteKcRealm(o)
    BY <1>4 DEF KeycloakStep
  <2>2. worker.pc # "idle" /\ UNCHANGED <<objects, cache>>
    BY <2>1 DEF GetRealm, PostRealm, PutRealm, DeleteKcRealm, At
  <2>3. \/ \E step \in RealmSteps : /\ Goto(step) /\ step # "addFinalizer"
                                    /\ step \in ManageSteps => worker.pc \in ManageSteps
        \/ Retry
    BY <2>1 DEF GetRealm, PostRealm, PutRealm, DeleteKcRealm, At,
                ManageSteps, EnsureSteps, RealmSteps
  <2> QED
    BY <1>0, <2>2, <2>3, GotoKeepsWakeInv
<1>5. CASE Restart \/ Resync \/ BecomeCalm
  BY <1>0, <1>5, IdleKeepsWakeInv
<1>6. CASE UNCHANGED realmVars
  BY <1>0, <1>6 DEF realmVars, runtimeVars, WakeInv, StatusInv, FreshInv, ResultInv, Quiet,
                    Arrived, Ready, Key, Obj
<1> QED
  BY <1>1, <1>2, <1>3, <1>4, <1>5, <1>6 DEF RealmNext, Step

(* A resource that the operator will not look at again by itself is Ready  *)
(* at its generation and not waiting to be deleted, whichever conflicts,   *)
(* lost answers, stale reads and crashes its reconciles met.               *)
THEOREM NoRealmWakeupIsLost == RealmSpec => []QuietIsReady
<1>1. RealmInit => RealmWakeInv
  <2> SUFFICES ASSUME RealmInit PROVE RealmWakeInv
    OBVIOUS
  <2>1. worker = Idle /\ \A k \in Keys : objects[k] = NoObj /\ cache[k] = NoObj
    BY DEF RealmInit, RuntimeInit
  <2>2. "idle" \notin ManageSteps /\ StatusInv
    BY <2>1 DEF ManageSteps, EnsureSteps, StatusInv
  <2>3. FinalizerInv(EnsureSteps, TeardownSteps)
    BY <2>1, FinalizerInvInit DEF EnsureSteps, TeardownSteps
  <2> QED
    BY <2>1, <2>2, <2>3, RealmTypeInvInit, VersionInvInit, WakeInvInit DEF RealmWakeInv
<1>2. RealmWakeInv /\ [RealmNext]_realmVars => RealmWakeInv'
  BY RealmTypeInvStep, RealmFinalizerInvStep, RealmVersionInvStep, RealmWakeInvStep
    DEF RealmWakeInv
<1>3. RealmWakeInv => QuietIsReady
  BY WakeInvMeansReady DEF RealmWakeInv
<1> QED
  BY <1>1, <1>2, <1>3, PTL DEF RealmSpec

----------------------------------------------------------------------------
(* Every step of the controller is a step of the lifecycle, or none.       *)
phases    == [k \in Keys |-> Phase(k)]
externals == [k \in Keys |-> HasRealm(k)]

(* One resource changes its phase and no realm comes or goes: which        *)
(* lifecycle step that is.                                                 *)
LEMMA PhaseStep ==
  ASSUME NEW k \in Keys, UNCHANGED externals,
         \A j \in Keys : j # k => Phase(j)' = Phase(j),
         \/ Phase(k)' = Phase(k)
         \/ Phase(k) = "absent" /\ Phase(k)' = "unmanaged"
         \/ Phase(k) = "unmanaged" /\ Phase(k)' = "absent"
         \/ Phase(k) = "unmanaged" /\ Phase(k)' = "managed"
         \/ Phase(k) = "managed" /\ Phase(k)' = "deleting"
         \/ Phase(k) = "deleting" /\ Phase(k)' = "absent" /\ ~HasRealm(k)
  PROVE  [Lifecycle!LifecycleNext]_(Lifecycle!lifecycleVars)
<1>1. phases' = [phases EXCEPT ![k] = Phase(k)'] /\ phases[k] = Phase(k)
  BY DEF phases
<1>2. externals[k] = HasRealm(k)
  BY DEF externals
<1>3. CASE Phase(k)' = Phase(k)
  <2>1. UNCHANGED phases
    BY <1>3 DEF phases
  <2> QED
    BY <2>1 DEF Lifecycle!lifecycleVars, phases, externals
<1>4. CASE \/ Lifecycle!Create(k) \/ Lifecycle!Vanish(k) \/ Lifecycle!Adopt(k)
           \/ Lifecycle!Retire(k) \/ Lifecycle!Release(k)
  BY <1>4 DEF Lifecycle!LifecycleNext
<1>5. Phase(k)' # Phase(k) =>
        \/ Lifecycle!Create(k) \/ Lifecycle!Vanish(k) \/ Lifecycle!Adopt(k)
        \/ Lifecycle!Retire(k) \/ Lifecycle!Release(k)
  BY <1>1, <1>2 DEF phases, externals, Lifecycle!Create, Lifecycle!Vanish, Lifecycle!Adopt,
    Lifecycle!Retire, Lifecycle!Release, Lifecycle!Move
<1> QED
  BY <1>3, <1>4, <1>5

LEMMA UserLifecycleStep ==
  ASSUME RealmInv, UserNext, UNCHANGED kcRealms
  PROVE  [Lifecycle!LifecycleNext]_(Lifecycle!lifecycleVars)
<1>1. RuntimeInv(RealmSteps, {NoLocal})
  BY DEF RealmInv, RealmTypeInv
<1>2. UNCHANGED externals
  BY DEF externals, HasRealm
<1> QED
  BY <1>1, <1>2, UserPhases, PhaseStep

LEMMA LocalLifecycleStep ==
  ASSUME StableRealmNames, DistinctRealmNames, RealmInv, LocalStep, UNCHANGED kcRealms
  PROVE  [Lifecycle!LifecycleNext]_(Lifecycle!lifecycleVars)
<1>1. PICK o \in Outcomes : FinalizerStep(o) \/ WriteRealmReady(o)
  BY DEF LocalStep
<1>2. RuntimeInv(RealmSteps, {NoLocal}) /\ TeardownInv(TeardownSteps)
  BY DEF RealmInv, RealmTypeInv, FinalizerInv
<1>3. WriteRealmReady(o) => RealmName \in Names
  BY WorkerNamesARealm DEF RealmInv, WriteRealmReady, WriteReady, At
<1>4. FinalizerStep(o) \/ \E name \in Names \cup {NoName} : WriteReady(o, name)
  BY <1>1, <1>3 DEF WriteRealmReady
<1>5. PICK k \in Keys :
        /\ worker.pc # "idle" /\ k = Key
        /\ \A j \in Keys : j # k => Phase(j)' = Phase(j)
        /\ \/ Phase(k)' = Phase(k)
           \/ Phase(k) = "unmanaged" /\ Phase(k)' = "managed"
           \/ /\ worker.pc = "removeFinalizer"
              /\ Phase(k) = "deleting" /\ Phase(k)' = "absent"
  BY <1>2, <1>4, RealmStepSets, WritePhases
<1>6. worker.pc = "removeFinalizer" => ~HasRealm(k)
  BY <1>5, OnlyItsOwnRealm DEF RealmInv, HasRealm
<1>7. UNCHANGED externals
  BY DEF externals, HasRealm
<1> QED
  BY <1>5, <1>6, <1>7, PhaseStep

LEMMA KeycloakLifecycleStep ==
  ASSUME StableRealmNames, DistinctRealmNames, RealmInv, [RealmNext]_realmVars,
         UNCHANGED objects
  PROVE  [Lifecycle!LifecycleNext]_(Lifecycle!lifecycleVars)
<1>1. UNCHANGED phases
  BY DEF phases, Phase
<1>2. CASE UNCHANGED kcRealms
  BY <1>1, <1>2 DEF externals, HasRealm, phases, Lifecycle!lifecycleVars
<1>3. CASE kcRealms' # kcRealms
  <2>1. /\ worker.pc \in {"postRealm", "putRealm", "deleteRealm"}
        /\ \E value : kcRealms' = [kcRealms EXCEPT ![RealmName] = value]
    BY <1>3, KcRealmsEffect
  <2>2. /\ Key \in Keys /\ RealmName \in Names /\ Obj.spec \in Specs[Key]
        /\ Wanted # NoRealm
    BY <2>1, WorkerNamesARealm, RealmAssumption DEF RealmInv
  <2> PICK k \in Keys : k = Key
    BY <2>2
  <2>3. kcRealms \in [Names -> Settings \cup {NoRealm}]
    BY DEF RealmInv, RealmTypeInv
  <2>4. \A j \in Keys : \A s \in Specs[j] :
          RealmNameOf(s) \in Names /\ (RealmNameOf(s) = RealmName <=> j = k)
    BY <2>1, OnlyItsOwnRealm, RealmNameIsAName
  <2>5. HasRealm(k)' <=> kcRealms'[RealmName] # NoRealm
    BY <2>2, <2>4 DEF HasRealm
  <2>6. \A j \in Keys : j # k => (HasRealm(j)' <=> HasRealm(j))
    BY <2>1, <2>3, <2>4 DEF HasRealm
  <2>7. externals' = [externals EXCEPT ![k] = HasRealm(k)'] /\ phases[k] = Phase(k)
    BY <2>2, <2>6 DEF externals, phases, HasRealm
  <2>8. CASE worker.pc = "deleteRealm"
    <3>1. HasRealm(k)' = FALSE
      BY <2>2, <2>3, <2>5, <2>8, KcRealmsEffect, <1>3 DEF HasRealm
    <3>2. kcRealms[RealmName] # NoRealm
      BY <1>3, <2>2, <2>3, <2>8, KcRealmsEffect
    <3>3. Phase(k) = "deleting"
      BY <2>8, <3>2, DeletesWhatTerminates DEF Manages, Phase
    <3>4. Lifecycle!Deprovision(k)
      BY <1>1, <2>7, <3>1, <3>3 DEF Lifecycle!Deprovision, phases, externals
    <3> QED
      BY <2>2, <3>4 DEF Lifecycle!LifecycleNext
  <2>9. CASE worker.pc \in {"postRealm", "putRealm"}
    <3>1. /\ Held(Key)
          /\ \E settings \in Settings : kcRealms' = [kcRealms EXCEPT ![RealmName] = settings]
      BY <1>3, <2>9, KcRealmsEffect
    <3>2. HasRealm(k)' = TRUE
      BY <2>2, <2>3, <2>5, <3>1, RealmAssumption DEF HasRealm
    <3>3. Phase(k) \in {"managed", "deleting"}
      BY <3>1 DEF Held, Phase
    <3>4. Lifecycle!Provision(k)
      BY <1>1, <2>7, <3>2, <3>3 DEF Lifecycle!Provision, phases, externals
    <3> QED
      BY <2>2, <3>4 DEF Lifecycle!LifecycleNext
  <2> QED
    BY <2>1, <2>8, <2>9
<1> QED
  BY <1>2, <1>3

(* The realm controller implements the lifecycle of a Catalog Item.        *)
THEOREM RealmsLiveTheLifecycle ==
  ASSUME StableRealmNames, DistinctRealmNames
  PROVE  RealmSpec => RealmsImplementLifecycle
<1>1. RealmInit => RealmInv
  BY RealmInvInit
<1>2. RealmInv /\ [RealmNext]_realmVars => RealmInv'
  BY RealmInvStep
<1>3. RealmInit => Lifecycle!LifecycleInit
  <2> SUFFICES ASSUME RealmInit PROVE Lifecycle!LifecycleInit
    OBVIOUS
  <2>1. \A k \in Keys : Phase(k) = "absent"
    BY DEF RealmInit, RuntimeInit, Phase
  <2>2. \A k \in Keys : HasRealm(k) = FALSE
    BY RealmNameIsAName DEF RealmInit, HasRealm
  <2>3. /\ phases \in [Keys -> {"absent", "managed"}]
        /\ externals \in [Keys -> BOOLEAN] /\ \A k \in Keys : ~externals[k]
    BY <2>1, <2>2 DEF phases, externals
  <2> QED
    BY <2>3 DEF Lifecycle!LifecycleInit, phases, externals
<1>4. RealmInv /\ [RealmNext]_realmVars => [Lifecycle!LifecycleNext]_(Lifecycle!lifecycleVars)
  <2> SUFFICES ASSUME RealmInv, [RealmNext]_realmVars
               PROVE  [Lifecycle!LifecycleNext]_(Lifecycle!lifecycleVars)
    OBVIOUS
  <2>1. CASE UserNext /\ UNCHANGED kcRealms
    BY <2>1, UserLifecycleStep
  <2>2. CASE LocalStep /\ UNCHANGED kcRealms
    BY <2>2, LocalLifecycleStep
  <2>3. CASE UNCHANGED objects
    BY <2>3, KeycloakLifecycleStep
  <2> QED
    BY <2>1, <2>2, <2>3 DEF RealmNext, Step, KeycloakStep, realmVars, runtimeVars, Sync, TakeKey,
      Skip, StartAdoption, StartTeardown, StartEnsure, Take, GetRealm, PostRealm, PutRealm, DeleteKcRealm, Restart, Resync, BecomeCalm
<1> QED
  BY <1>1, <1>2, <1>3, <1>4, PTL DEF RealmSpec, RealmsImplementLifecycle, Lifecycle!LifecycleSpec
----------------------------------------------------------------------------
(* To the client controller, the realm controller is the RealmService: a   *)
(* realm is up only while the informer shows a resource that may name it.  *)
ViewOf(obj) == IF obj = NoObj THEN NoObj
               ELSE [name |-> RealmNameOf(obj.spec), ready |-> obj.status.ready = "True"]

views == [k \in Keys |-> ViewOf(cache[k])]
ups   == [n \in Names |-> kcRealms[n] # NoRealm]

ServedInv == RealmInv /\ VersionInv(ManageSteps) /\ SeenInv

LEMMA ViewOfAResource ==
  ASSUME NEW k \in Keys, NEW obj \in CatalogObjects(k) \cup {NoObj}
  PROVE  /\ ViewOf(obj) = NoObj <=> obj = NoObj
         /\ ViewOf(obj) \in [name : {RealmNameOf(s) : s \in Specs[k]}, ready : BOOLEAN]
                              \cup {NoObj}
         /\ ViewOf(obj) \in [name : Names, ready : BOOLEAN] \cup {NoObj}
<1>1. CASE obj = NoObj
  BY <1>1 DEF ViewOf
<1>2. CASE obj # NoObj
  <2>1. obj.spec \in Specs[k]
    BY <1>2 DEF CatalogObjects
  <2>2. RealmNameOf(obj.spec) \in Names \cap {RealmNameOf(s) : s \in Specs[k]}
    BY <2>1, RealmNameIsAName
  <2>3. PICK ready \in BOOLEAN : ready <=> obj.status.ready = "True"
    OBVIOUS
  <2>4. ViewOf(obj) = [name |-> RealmNameOf(obj.spec), ready |-> ready]
    BY <1>2, <2>3 DEF ViewOf
  <2> QED
    BY <1>2, <2>2, <2>4, RealmAssumption
<1> QED
  BY <1>1, <1>2

LEMMA RealmSeenInvStep ==
  ASSUME ServedInv, [RealmNext]_realmVars
  PROVE  SeenInv'
<1>0. RuntimeInv(RealmSteps, {NoLocal}) /\ CopiesInv /\ SeenInv
  BY DEF ServedInv, RealmInv, RealmTypeInv, VersionInv
<1>1. CASE UserNext \/ (\E k \in Keys : Sync(k)) \/ Restart
  BY <1>0, <1>1, SeenInvStep
<1>2. CASE LocalStep
  <2>1. PICK o \in Outcomes : FinalizerStep(o) \/ WriteRealmReady(o)
    BY <1>2 DEF LocalStep
  <2>2. WriteRealmReady(o) => RealmName \in Names
    BY WorkerNamesARealm DEF ServedInv, RealmInv, WriteRealmReady, WriteReady, At
  <2>3. FinalizerStep(o) \/ \E name \in Names \cup {NoName} : WriteReady(o, name)
    BY <2>1, <2>2 DEF WriteRealmReady
  <2> QED
    BY <1>0, <2>3, SeenInvStep
<1>3. CASE UNCHANGED <<objects, cache>>
  BY <1>0, <1>3, SeenInvStep
<1> QED
  BY <1>1, <1>2, <1>3 DEF RealmNext, Step, KeycloakStep, realmVars, runtimeVars, TakeKey, Skip,
    StartAdoption, StartTeardown, StartEnsure, Take, GetRealm, PostRealm, PutRealm,
    DeleteKcRealm, Resync, BecomeCalm

(* The informer moves on while no realm comes or goes.                     *)
LEMMA RefreshStep ==
  ASSUME StableRealmNames, DistinctRealmNames, RealmInv, RealmInv', SeenInv', UNCHANGED kcRealms
  PROVE  Service!Refresh
<1>1. UNCHANGED ups
  BY DEF ups
<1>2. \A k \in Keys :
        /\ views'[k] = NoObj <=> cache'[k] = NoObj
        /\ views'[k] \in [name : {RealmNameOf(s) : s \in Specs[k]}, ready : BOOLEAN]
                           \cup {NoObj}
        /\ views'[k] \in [name : Names, ready : BOOLEAN] \cup {NoObj}
  <2>1. \A k \in Keys : cache'[k] \in CatalogObjects(k) \cup {NoObj} /\ views'[k] = ViewOf(cache'[k])
    BY DEF RealmInv, RealmTypeInv, RuntimeInv, RuntimeTypeOK, views, ViewOf
  <2> QED
    BY <2>1, ViewOfAResource
<1>3. ASSUME NEW k \in Keys, views'[k] = NoObj, NEW s \in Specs[k]
      PROVE  kcRealms[RealmNameOf(s)] = NoRealm
  <2>1. ~Held(k)'
    BY <1>2, <1>3 DEF SeenInv
  <2> SUFFICES ASSUME kcRealms'[RealmNameOf(s)] # NoRealm PROVE FALSE
    OBVIOUS
  <2>2. PICK j \in Keys : Manages(j, RealmNameOf(s))'
    BY RealmNameIsAName DEF RealmInv, NoOrphanRealm
  <2>3. objects'[j].spec \in Specs[j] /\ Held(j)' /\ RealmNameOf(objects'[j].spec) = RealmNameOf(s)
    BY <2>2 DEF RealmInv, RealmTypeInv, RuntimeInv, RuntimeTypeOK, CatalogObjects, Manages, Held
  <2> QED
    BY <2>1, <2>3 DEF DistinctRealmNames
<1>4. \A k \in Keys : views'[k] = NoObj =>
        \A n \in {RealmNameOf(s) : s \in Specs[k]} : ~ups[n]
  BY <1>3, RealmNameIsAName DEF ups
<1>5. views' \in [Keys -> [name : Names, ready : BOOLEAN] \cup {NoObj}]
  BY <1>2 DEF views
<1> QED
  BY <1>1, <1>2, <1>4, <1>5 DEF Service!Refresh, Service!RealmViews, views, ViewOf, ups

(* A realm comes or goes, while the informer shows its resource.           *)
LEMMA UpDownStep ==
  ASSUME StableRealmNames, DistinctRealmNames, RealmInv, SeenInv, [RealmNext]_realmVars,
         kcRealms' # kcRealms
  PROVE  [Service!ServiceNext]_(Service!serviceVars)
<1>1. /\ worker.pc \in {"postRealm", "putRealm", "deleteRealm"}
      /\ \/ /\ Held(Key)
            /\ \E settings \in Settings : kcRealms' = [kcRealms EXCEPT ![RealmName] = settings]
         \/ worker.pc = "deleteRealm" /\ kcRealms' = [kcRealms EXCEPT ![RealmName] = NoRealm]
  BY KcRealmsEffect
<1>2. /\ Key \in Keys /\ RealmName \in Names /\ Obj.spec \in Specs[Key] /\ Wanted # NoRealm
      /\ kcRealms \in [Names -> Settings \cup {NoRealm}]
  BY <1>1, WorkerNamesARealm, RealmAssumption DEF RealmInv, RealmTypeInv
<1>3. UNCHANGED views
  <2>1. UNCHANGED cache
    BY DEF RealmNext, Step, KeycloakStep, realmVars, GetRealm, PostRealm, PutRealm,
           DeleteKcRealm
  <2> QED
    BY <2>1 DEF views
<1>4. Held(Key)
  <2>1. CASE worker.pc = "deleteRealm" /\ kcRealms' = [kcRealms EXCEPT ![RealmName] = NoRealm]
    <3>1. kcRealms[RealmName] # NoRealm
      BY <1>2, <2>1
    <3> QED
      BY <2>1, <3>1, DeletesWhatTerminates DEF Manages, Held
  <2> QED
    BY <1>1, <2>1
<1>5. views[Key] # NoObj /\ RealmName \in {RealmNameOf(s) : s \in Specs[Key]}
  <2>1. cache[Key] \in CatalogObjects(Key) /\ cache[Key] # NoObj
    BY <1>2, <1>4 DEF SeenInv, RealmInv, RealmTypeInv, RuntimeInv, RuntimeTypeOK
  <2> QED
    BY <1>2, <2>1, ViewOfAResource DEF views, RealmName
<1>6. \E r \in Keys : views[r] # NoObj /\ RealmName \in {RealmNameOf(s) : s \in Specs[r]}
  BY <1>2, <1>5
<1>7. \E up \in BOOLEAN : ups' = [ups EXCEPT ![RealmName] = up]
  BY <1>1, <1>2 DEF ups
<1>8. CASE ups' = ups
  BY <1>3, <1>8 DEF Service!serviceVars, views, ViewOf, ups
<1>9. CASE ups' # ups
  <2>1. ups \in [Names -> BOOLEAN]
    BY DEF ups
  <2>2. \/ ~ups[RealmName] /\ ups' = [ups EXCEPT ![RealmName] = TRUE]
        \/ ups[RealmName] /\ ups' = [ups EXCEPT ![RealmName] = FALSE]
    BY <1>2, <1>7, <1>9, <2>1
  <2> PICK n \in Names : n = RealmName
    BY <1>2
  <2>3. Service!BringUp(n) \/ Service!TakeDown(n)
    BY <1>3, <1>6, <2>2 DEF Service!BringUp, Service!TakeDown, Service!Managing, views, ViewOf,
      ups
  <2> QED
    BY <2>3 DEF Service!ServiceNext
<1> QED
  BY <1>8, <1>9

(* What the client controller is proved to do on top of any RealmService,  *)
(* it does on top of this realm controller.                                *)
THEOREM RealmsAreTheService ==
  ASSUME StableRealmNames, DistinctRealmNames
  PROVE  RealmSpec => RealmsServeClients
<1>1. RealmInit => ServedInv
  <2> SUFFICES ASSUME RealmInit PROVE ServedInv
    OBVIOUS
  <2>1. worker = Idle /\ \A k \in Keys : objects[k] = NoObj /\ cache[k] = NoObj
    BY DEF RealmInit, RuntimeInit
  <2>2. VersionInv(ManageSteps)
    BY <2>1, VersionInvInit DEF ManageSteps, EnsureSteps
  <2> QED
    BY <2>1, <2>2, RealmInvInit DEF ServedInv, SeenInv, Held
<1>2. ServedInv /\ [RealmNext]_realmVars => ServedInv'
  BY RealmInvStep, RealmVersionInvStep, RealmSeenInvStep DEF ServedInv, RealmInv
<1>3. RealmInit => Service!ServiceInit
  BY DEF RealmInit, RuntimeInit, Service!ServiceInit
<1>4. ServedInv /\ ServedInv' /\ [RealmNext]_realmVars =>
        [Service!ServiceNext]_(Service!serviceVars)
  <2>1. CASE UNCHANGED kcRealms
    BY <2>1, RefreshStep DEF ServedInv, Service!ServiceNext
  <2>2. CASE kcRealms' # kcRealms
    BY <2>2, UpDownStep DEF ServedInv
  <2> QED
    BY <2>1, <2>2
<1> QED
  BY <1>1, <1>2, <1>3, <1>4, PTL DEF RealmSpec, RealmsServeClients, Service!ServiceSpec
=============================================================================
