---------------------- MODULE ControllerRuntime_proofs ----------------------
(***************************************************************************)
(* What the actions shared by all controllers preserve, for any number of  *)
(* resources, users' operations and faults.  The proofs about a controller *)
(* cite these lemmas for the actions it takes from ControllerRuntime.      *)
(***************************************************************************)
EXTENDS ControllerRuntime, TLAPS

(* An object the API server may hold after e operations of users.          *)
GoodObject(k, obj, e) ==
  /\ obj \in CatalogObjects(k)
  /\ obj.deleting => obj.finalizer
  /\ obj.status.readyGen <= obj.gen
  /\ obj.gen <= e /\ obj.uid <= e

(* RuntimeTypeOK, made inductive: generations and incarnations stay behind *)
(* the operations of users, in every copy of an object.                    *)
RuntimeInv(steps, locals) ==
  /\ RuntimeTypeOK(steps, locals)
  /\ \A k \in Keys : objects[k] # NoObj => objects[k].gen <= edits /\ objects[k].uid <= edits
  /\ \A k \in Keys : cache[k] # NoObj => cache[k].uid <= edits
  /\ worker # Idle => worker.obj.uid <= edits

(* NoObj is no object: it never belongs to what the API server stores.     *)
LEMMA NoObjIsNoObject == \A k \in Keys : NoObj \notin CatalogObjects(k)
<1> SUFFICES ASSUME NEW k \in Keys PROVE NoObj \notin CatalogObjects(k)
  OBVIOUS
<1>1. MaxEdits \in Nat /\ 1..MaxEdits \subseteq Nat
  BY RuntimeAssumption
<1>2. CatalogObjects(k) \subseteq
        [uid : Nat, gen : Nat, spec : Specs[k], deleting : BOOLEAN, finalizer : BOOLEAN,
         status : Statuses(MaxEdits, Names)]
  BY <1>1 DEF CatalogObjects
<1> QED
  BY <1>2, RuntimeAssumption

(* What the API server holds initially.                                    *)
LEMMA RuntimeInvInit ==
  ASSUME NEW steps, NEW locals, RuntimeInit
  PROVE  RuntimeInv(steps, locals)
<1>1. \A k \in Keys : objects[k] = NoObj /\ cache[k] = NoObj
  BY DEF RuntimeInit
<1>2. DOMAIN objects = Keys /\ DOMAIN cache = Keys
  BY DEF RuntimeInit
<1>3. worker = Idle /\ queue = {} /\ calm = FALSE /\ edits = 0 /\ 0 \in 0..MaxEdits
  BY RuntimeAssumption DEF RuntimeInit
<1>4. RuntimeTypeOK(steps, locals)
  BY <1>1, <1>2, <1>3 DEF RuntimeTypeOK
<1> QED
  BY <1>1, <1>3, <1>4 DEF RuntimeInv

(* A copy of an object that the operator writes back keeps everything but  *)
(* the finalizer or the status.                                            *)
Rewrites(obj, new) ==
  /\ new.uid = obj.uid /\ new.gen = obj.gen /\ new.spec = obj.spec
  /\ new.deleting = obj.deleting

LEMMA RewritesOfAnObject ==
  ASSUME NEW k \in Keys, NEW obj \in CatalogObjects(k), NEW name \in Names \cup {NoName},
         obj.status.readyGen <= obj.gen
  PROVE  /\ \A new \in {WithFinalizer(obj), WithoutFinalizer(obj), AsFailed(obj),
                        AsReconciling(obj), AsReady(obj, name)} :
              /\ new \in CatalogObjects(k) /\ Rewrites(obj, new)
              /\ new.status.readyGen <= new.gen
         /\ WithFinalizer(obj).finalizer /\ ~WithoutFinalizer(obj).finalizer
         /\ AsFailed(obj).finalizer = obj.finalizer
         /\ AsReconciling(obj).finalizer = obj.finalizer
         /\ AsReady(obj, name).finalizer = obj.finalizer
<1> USE RuntimeAssumption DEF CatalogObjects, Statuses, Rewrites
<1>1. obj.gen \in 0..MaxEdits /\ obj.gen <= obj.gen
  OBVIOUS
<1>2. WithFinalizer(obj) \in CatalogObjects(k) /\ Rewrites(obj, WithFinalizer(obj))
      /\ WithFinalizer(obj).finalizer /\ WithFinalizer(obj).status = obj.status
  BY DEF WithFinalizer
<1>3. WithoutFinalizer(obj) \in CatalogObjects(k) /\ Rewrites(obj, WithoutFinalizer(obj))
      /\ ~WithoutFinalizer(obj).finalizer /\ WithoutFinalizer(obj).status = obj.status
  BY DEF WithoutFinalizer
<1>4. AsFailed(obj) \in CatalogObjects(k) /\ Rewrites(obj, AsFailed(obj))
      /\ AsFailed(obj).finalizer = obj.finalizer
      /\ AsFailed(obj).status.readyGen <= AsFailed(obj).gen
  BY <1>1 DEF AsFailed, SetFailed
<1>5. AsReconciling(obj) \in CatalogObjects(k) /\ Rewrites(obj, AsReconciling(obj))
      /\ AsReconciling(obj).finalizer = obj.finalizer
      /\ AsReconciling(obj).status.readyGen <= AsReconciling(obj).gen
  BY <1>1 DEF AsReconciling, SetReconciling
<1>6. AsReady(obj, name) \in CatalogObjects(k) /\ Rewrites(obj, AsReady(obj, name))
      /\ AsReady(obj, name).finalizer = obj.finalizer
      /\ AsReady(obj, name).status.readyGen <= AsReady(obj, name).gen
  BY <1>1 DEF AsReady, SetReady
<1> QED
  BY <1>2, <1>3, <1>4, <1>5, <1>6

----------------------------------------------------------------------------
(* A user's operation keeps the objects good, one operation later.         *)
LEMMA UsersKeepRuntimeInv ==
  ASSUME NEW steps, NEW locals, RuntimeInv(steps, locals), UserNext
  PROVE  RuntimeInv(steps, locals)'
<1>0. PICK k \in Keys : \E obj :
        /\ Edit(k, obj)
        /\ obj # NoObj => GoodObject(k, obj, edits + 1)
  <2>1. PICK k \in Keys : \/ \E spec \in Specs[k] : CreateObject(k, spec)
                          \/ \E spec \in Specs[k] : EditObject(k, spec)
                          \/ DeleteObject(k)
    BY DEF UserNext
  <2>2. objects[k] # NoObj => GoodObject(k, objects[k], edits)
    BY DEF RuntimeInv, RuntimeTypeOK, GoodObject
  <2>3. edits \in Nat /\ MaxEdits \in Nat
    BY RuntimeAssumption DEF RuntimeInv, RuntimeTypeOK
  <2>4. CASE \E spec \in Specs[k] : CreateObject(k, spec)
    <3>1. PICK spec \in Specs[k] : CreateObject(k, spec)
      BY <2>4
    <3>2. NoStatus \in Statuses(MaxEdits, Names) /\ NoStatus.readyGen = 0
      BY <2>3 DEF NoStatus, Statuses
    <3>3. edits < MaxEdits
      BY <3>1 DEF CreateObject, Edit
    <3>4. GoodObject(k, NewObject(edits + 1, spec), edits + 1)
      BY <2>3, <3>2, <3>3 DEF GoodObject, NewObject, CatalogObjects
    <3> QED
      BY <3>1, <3>4 DEF CreateObject
  <2>5. CASE \E spec \in Specs[k] : EditObject(k, spec)
    <3>1. PICK spec \in Specs[k] : EditObject(k, spec)
      BY <2>5
    <3>2. edits < MaxEdits /\ objects[k] # NoObj
      BY <3>1 DEF EditObject, Edit
    <3>3. GoodObject(k, Edited(objects[k], spec), edits + 1)
      <4> DEFINE old == objects[k]  new == Edited(old, spec)
      <4>1. old \in CatalogObjects(k) /\ old.gen <= edits /\ old.uid <= edits
        BY <2>2, <3>2 DEF GoodObject
      <4>2. old.gen \in Nat /\ old.gen + 1 \in 1..MaxEdits /\ old.status.readyGen \in Nat
        BY <2>3, <3>2, <4>1 DEF CatalogObjects, Statuses
      <4>3. /\ new \in CatalogObjects(k) /\ new.gen = old.gen + 1 /\ new.uid = old.uid
            /\ new.status = old.status /\ new.deleting = old.deleting
            /\ new.finalizer = old.finalizer
        BY <4>1, <4>2 DEF Edited, CatalogObjects
      <4> QED
        BY <2>2, <2>3, <3>2, <4>1, <4>2, <4>3 DEF GoodObject, CatalogObjects
    <3> QED
      BY <3>1, <3>3 DEF EditObject
  <2>6. CASE DeleteObject(k)
    <3>1. edits < MaxEdits /\ objects[k] # NoObj
      BY <2>6 DEF DeleteObject, Edit
    <3>2. Deleted(objects[k]) # NoObj => GoodObject(k, Deleted(objects[k]), edits + 1)
      <4> DEFINE old == objects[k]  new == Deleted(old)
      <4> SUFFICES ASSUME new # NoObj PROVE GoodObject(k, new, edits + 1)
        OBVIOUS
      <4>1. old \in CatalogObjects(k) /\ old.gen <= edits /\ old.uid <= edits
        BY <2>2, <3>1 DEF GoodObject
      <4>2. old.gen \in Nat /\ old.gen + 1 \in 1..MaxEdits /\ old.status.readyGen \in Nat
        BY <2>3, <3>1, <4>1 DEF CatalogObjects, Statuses
      <4>3. /\ new \in CatalogObjects(k) /\ new.gen = old.gen + 1 /\ new.uid = old.uid
            /\ new.status = old.status /\ new.finalizer
        BY <4>1, <4>2 DEF Deleted, CatalogObjects
      <4> QED
        BY <2>2, <2>3, <3>1, <4>1, <4>2, <4>3 DEF GoodObject, CatalogObjects
    <3> QED
      BY <2>6, <3>2 DEF DeleteObject
  <2> QED
    BY <2>1, <2>4, <2>5, <2>6
<1>1. PICK obj : Edit(k, obj) /\ (obj # NoObj => GoodObject(k, obj, edits + 1))
  BY <1>0
<1>2. edits' = edits + 1 /\ edits' \in 0..MaxEdits /\ edits \in Nat
  BY <1>1, RuntimeAssumption DEF Edit, RuntimeInv, RuntimeTypeOK
<1>3. objects' = [objects EXCEPT ![k] = obj] /\ UNCHANGED <<cache, queue, worker, calm>>
  BY <1>1 DEF Edit
<1>4. DOMAIN objects' = Keys /\ DOMAIN cache' = Keys
  BY <1>3 DEF RuntimeInv, RuntimeTypeOK
<1>5. \A j \in Keys : objects'[j] # NoObj => GoodObject(j, objects'[j], edits')
  <2> TAKE j \in Keys
  <2>1. CASE j = k
    BY <2>1, <1>1, <1>2, <1>3 DEF RuntimeInv, RuntimeTypeOK
  <2>2. CASE j # k
    <3>1. objects'[j] = objects[j]
      BY <2>2, <1>3 DEF RuntimeInv, RuntimeTypeOK
    <3>2. objects[j] # NoObj => GoodObject(j, objects[j], edits)
      BY DEF RuntimeInv, RuntimeTypeOK, GoodObject
    <3> QED
      BY <3>1, <3>2, <1>2 DEF GoodObject, CatalogObjects
  <2> QED
    BY <2>1, <2>2
<1>6. RuntimeTypeOK(steps, locals)'
  BY <1>2, <1>3, <1>4, <1>5 DEF RuntimeInv, RuntimeTypeOK, GoodObject, Idle
<1>7. \A j \in Keys : cache'[j] # NoObj => cache'[j].uid <= edits'
  BY <1>2, <1>3 DEF RuntimeInv, RuntimeTypeOK, CatalogObjects
<1>8. worker' # Idle => worker'.obj.uid <= edits'
  BY <1>2, <1>3 DEF RuntimeInv, RuntimeTypeOK, Reconciles, CatalogObjects
<1> QED
  BY <1>5, <1>6, <1>7, <1>8 DEF RuntimeInv, GoodObject, Idle

(* The cache, the queue and the crash move copies of objects around.       *)
LEMMA SyncKeepsRuntimeInv ==
  ASSUME NEW steps, NEW locals, RuntimeInv(steps, locals), NEW k \in Keys, Sync(k)
  PROVE  RuntimeInv(steps, locals)'
<1>1. /\ cache' = [cache EXCEPT ![k] = objects[k]] /\ queue' = queue \cup {k}
      /\ UNCHANGED <<objects, worker, edits, calm>>
  BY DEF Sync
<1>2. DOMAIN cache' = Keys /\ \A j \in Keys : cache'[j] \in {cache[j], objects[j]}
  BY <1>1 DEF RuntimeInv, RuntimeTypeOK
<1>3. RuntimeTypeOK(steps, locals)'
  BY <1>1, <1>2 DEF RuntimeInv, RuntimeTypeOK, Idle
<1> QED
  BY <1>1, <1>2, <1>3 DEF RuntimeInv, Idle

LEMMA TakeKeepsRuntimeInv ==
  ASSUME NEW steps, NEW locals, RuntimeInv(steps, locals),
         NEW k \in Keys, NEW step \in steps, NEW local \in locals,
         cache[k] # NoObj, Take(k, step, local)
  PROVE  RuntimeInv(steps, locals)'
<1>1. /\ worker' = [pc |-> step, key |-> k, obj |-> cache[k], local |-> local]
      /\ queue' \subseteq queue /\ UNCHANGED <<objects, cache, edits, calm>>
  BY DEF Take
<1>2. worker' \in Reconciles(k, steps, locals) /\ worker'.obj.uid <= edits'
  BY <1>1 DEF RuntimeInv, RuntimeTypeOK, Reconciles
<1>3. \E j \in Keys : worker' \in Reconciles(j, steps, locals)
  BY <1>2
<1>4. RuntimeTypeOK(steps, locals)'
  BY <1>1, <1>3 DEF RuntimeInv, RuntimeTypeOK, CatalogObjects, Reconciles
<1> QED
  BY <1>1, <1>2, <1>4 DEF RuntimeInv

LEMMA IdleKeepsRuntimeInv ==
  ASSUME NEW steps, NEW locals, RuntimeInv(steps, locals),
         \/ \E k \in Keys : Skip(k)
         \/ Restart
         \/ Resync
         \/ BecomeCalm
  PROVE  RuntimeInv(steps, locals)'
<1>1. CASE \E k \in Keys : Skip(k)
  <2>1. queue' \subseteq Keys /\ UNCHANGED <<objects, cache, worker, edits, calm>>
    BY <1>1 DEF Skip, RuntimeInv, RuntimeTypeOK
  <2>2. RuntimeTypeOK(steps, locals)'
    BY <2>1 DEF RuntimeInv, RuntimeTypeOK, Idle
  <2> QED
    BY <2>1, <2>2 DEF RuntimeInv, Idle
<1>2. CASE Restart
  <2>1. /\ cache' = objects /\ queue' \subseteq Keys /\ worker' = Idle
        /\ UNCHANGED <<objects, edits, calm>>
    BY <1>2 DEF Restart
  <2>2. RuntimeTypeOK(steps, locals)'
    BY <2>1 DEF RuntimeInv, RuntimeTypeOK, Idle
  <2> QED
    BY <2>1, <2>2 DEF RuntimeInv, Idle
<1>3. CASE BecomeCalm
  <2>1. calm' = TRUE /\ UNCHANGED <<objects, cache, queue, worker, edits>>
    BY <1>3 DEF BecomeCalm
  <2>2. RuntimeTypeOK(steps, locals)'
    BY <2>1 DEF RuntimeInv, RuntimeTypeOK, Idle
  <2> QED
    BY <2>1, <2>2 DEF RuntimeInv, Idle
<1>4. CASE Resync
  <2>1. queue' \subseteq Keys /\ UNCHANGED <<objects, cache, worker, edits, calm>>
    BY <1>4 DEF Resync, RuntimeInv, RuntimeTypeOK
  <2>2. RuntimeTypeOK(steps, locals)'
    BY <2>1 DEF RuntimeInv, RuntimeTypeOK, Idle
  <2> QED
    BY <2>1, <2>2 DEF RuntimeInv, Idle
<1> QED
  BY <1>1, <1>2, <1>3, <1>4

----------------------------------------------------------------------------
(* A reconcile in progress works on a key and an object.                   *)
LEMMA WorkerAtAStep ==
  ASSUME NEW steps, NEW locals, RuntimeInv(steps, locals), worker.pc # "idle"
  PROVE  /\ worker # Idle /\ Key \in Keys /\ Obj \in CatalogObjects(Key)
         /\ worker \in Reconciles(Key, steps, locals)
<1>1. worker # Idle
  BY DEF Idle
<1>2. PICK k \in Keys : worker \in Reconciles(k, steps, locals)
  BY <1>1 DEF RuntimeInv, RuntimeTypeOK
<1> QED
  BY <1>1, <1>2 DEF Reconciles, Key, Obj

(* A reconcile that goes on.                                               *)
Onward(step) == worker'.pc = step /\ Key' = Key /\ Obj' = Obj

LEMMA GotoGoesOnward ==
  ASSUME NEW steps, NEW locals, RuntimeInv(steps, locals), worker.pc # "idle",
         NEW step \in steps, Goto(step)
  PROVE  Onward(step) /\ worker' \in Reconciles(Key, steps, locals) /\ UNCHANGED queue
<1>1. worker \in Reconciles(Key, steps, locals)
  BY WorkerAtAStep
<1> QED
  BY <1>1 DEF Goto, Reconciles, Onward, Key, Obj

LEMMA OnwardKeepsRuntimeInv ==
  ASSUME NEW steps, NEW locals, RuntimeInv(steps, locals), worker.pc # "idle",
         UNCHANGED <<objects, cache, queue, edits, calm>>,
         NEW step, Onward(step), worker' \in Reconciles(Key, steps, locals)
  PROVE  RuntimeInv(steps, locals)'
<1>1. worker # Idle /\ Key \in Keys /\ worker.obj.uid <= edits
  BY WorkerAtAStep DEF RuntimeInv
<1>2. \E j \in Keys : worker' \in Reconciles(j, steps, locals)
  BY <1>1
<1>3. RuntimeTypeOK(steps, locals)'
  BY <1>2 DEF RuntimeInv, RuntimeTypeOK, CatalogObjects, Reconciles
<1> QED
  BY <1>1, <1>3 DEF RuntimeInv, Onward, Obj

(* A reconcile that goes on, or ends for now.                              *)
LEMMA GotoKeepsRuntimeInv ==
  ASSUME NEW steps, NEW locals, RuntimeInv(steps, locals), worker.pc # "idle",
         UNCHANGED <<objects, cache, edits, calm>>,
         (\E step \in steps : Goto(step)) \/ Retry \/ Done
  PROVE  RuntimeInv(steps, locals)'
<1>1. CASE \E step \in steps : Goto(step)
  BY <1>1, GotoGoesOnward, OnwardKeepsRuntimeInv
<1>2. CASE Retry \/ Done
  <2>1. worker' = Idle /\ queue' \subseteq Keys
    BY <1>2, WorkerAtAStep DEF Retry, Done, RuntimeInv, RuntimeTypeOK
  <2>2. RuntimeTypeOK(steps, locals)'
    BY <2>1 DEF RuntimeInv, RuntimeTypeOK, Idle
  <2> QED
    BY <2>1, <2>2 DEF RuntimeInv, Idle
<1> QED
  BY <1>1, <1>2

(* What a write of the resource does to the objects: nothing, or it stores *)
(* the new copy in place of the one that was read.                         *)
LEMMA WriteEffect ==
  ASSUME NEW steps, NEW locals, RuntimeInv(steps, locals), worker.pc # "idle",
         NEW o, NEW new, Write(o, new)
  PROVE  /\ DOMAIN objects' = Keys
         /\ \A k \in Keys :
              \/ objects'[k] = objects[k]
              \/ k = Key /\ objects[k] = Obj /\ objects'[k] = Stored(new)
BY WorkerAtAStep DEF Write, Call, Updated, RuntimeInv, RuntimeTypeOK

LEMMA WriteKeepsRuntimeInv ==
  ASSUME NEW steps, NEW locals, RuntimeInv(steps, locals), worker.pc # "idle",
         NEW o, NEW new, Write(o, new),
         Obj.status.readyGen <= Obj.gen =>
           /\ new \in CatalogObjects(Key) /\ Rewrites(Obj, new)
           /\ new.status.readyGen <= new.gen,
         Retry \/ Done, UNCHANGED <<cache, edits, calm>>
  PROVE  RuntimeInv(steps, locals)'
<1>1. worker # Idle /\ Key \in Keys /\ Obj \in CatalogObjects(Key)
  BY WorkerAtAStep
<1>2. worker' = Idle /\ queue' \subseteq Keys
  BY <1>1 DEF Retry, Done, RuntimeInv, RuntimeTypeOK
<1>3. DOMAIN objects' = Keys
  BY WriteEffect
<1>4. \A k \in Keys : objects'[k] # NoObj => GoodObject(k, objects'[k], edits)
  <2> SUFFICES ASSUME NEW k \in Keys, objects'[k] # NoObj
               PROVE  GoodObject(k, objects'[k], edits)
    OBVIOUS
  <2>1. objects[k] # NoObj => GoodObject(k, objects[k], edits)
    BY DEF RuntimeInv, RuntimeTypeOK, GoodObject
  <2>2. CASE objects'[k] = objects[k]
    BY <2>1, <2>2
  <2>3. CASE k = Key /\ objects[k] = Obj /\ objects'[k] = Stored(new)
    <3>1. Obj # NoObj
      BY <1>1, NoObjIsNoObject
    <3>2. GoodObject(k, Obj, edits)
      BY <2>1, <2>3, <3>1
    <3>3. /\ new \in CatalogObjects(k) /\ Rewrites(Obj, new)
          /\ new.status.readyGen <= new.gen
      BY <2>3, <3>2 DEF GoodObject
    <3>4. objects'[k] = new /\ (new.deleting => new.finalizer)
      BY <2>3, <3>3 DEF Stored, CatalogObjects
    <3> QED
      BY <3>2, <3>3, <3>4 DEF GoodObject, Rewrites
  <2> QED
    BY <2>2, <2>3, WriteEffect
<1>5. RuntimeTypeOK(steps, locals)'
  BY <1>2, <1>3, <1>4 DEF RuntimeInv, RuntimeTypeOK, GoodObject, Idle
<1> QED
  BY <1>2, <1>4, <1>5 DEF RuntimeInv, GoodObject, Idle

LEMMA FinalizerStepKeepsRuntimeInv ==
  ASSUME NEW steps, NEW locals, RuntimeInv(steps, locals), NEW o,
         \/ FinalizerStep(o) \/ WriteRejected(o) \/ WriteWaiting(o)
         \/ \E name \in Names \cup {NoName} : WriteReady(o, name)
  PROVE  RuntimeInv(steps, locals)'
<1>1. worker.pc # "idle"
  BY DEF FinalizerStep, AddFinalizer, RemoveFinalizer, WriteFailed, WriteRejected, WriteWaiting,
         WriteReady, At
<1>2. Key \in Keys /\ Obj \in CatalogObjects(Key)
  BY <1>1, WorkerAtAStep
<1>3. UNCHANGED <<cache, edits, calm>> /\ (Retry \/ Done)
  BY DEF FinalizerStep, AddFinalizer, RemoveFinalizer, WriteFailed, WriteRejected, WriteWaiting,
         WriteReady
<1>4. PICK name \in Names \cup {NoName} :
        \E new \in {WithFinalizer(Obj), WithoutFinalizer(Obj), AsFailed(Obj),
                   AsReconciling(Obj), AsReady(Obj, name)} : Write(o, new)
  BY DEF FinalizerStep, AddFinalizer, RemoveFinalizer, WriteFailed, WriteRejected, WriteWaiting,
         WriteReady
<1>5. PICK new \in {WithFinalizer(Obj), WithoutFinalizer(Obj), AsFailed(Obj),
                   AsReconciling(Obj), AsReady(Obj, name)} : Write(o, new)
  BY <1>4
<1>6. Obj.status.readyGen <= Obj.gen =>
        /\ new \in CatalogObjects(Key) /\ Rewrites(Obj, new)
        /\ new.status.readyGen <= new.gen
  BY <1>2, <1>5, RewritesOfAnObject
<1> QED
  BY <1>1, <1>3, <1>5, <1>6, WriteKeepsRuntimeInv

----------------------------------------------------------------------------
(* Why a resource cannot leave while the operator provisions for it, and   *)
(* its successor is not torn down in its place, though the operator reads a*)
(* cache: the finalizer comes off only after a read that showed the        *)
(* deletion, a deletion is never undone, the cache never goes back within  *)
(* an incarnation, and a successor gets the finalizer only once it was read*)
Held(k) == objects[k] # NoObj /\ objects[k].finalizer

SameLife(obj, other) == other # NoObj /\ other.uid = obj.uid

CacheInv ==
  \A k \in Keys : cache[k] # NoObj =>
    /\ ~cache[k].deleting /\ cache[k].finalizer => Held(k)
    /\ cache[k].deleting /\ SameLife(cache[k], objects[k]) => objects[k].deleting
    /\ cache[k].deleting /\ Held(k) => SameLife(cache[k], objects[k])

ReadInv ==
  worker.pc # "idle" /\ SameLife(Obj, objects[Key]) /\ cache[Key] # NoObj =>
    SameLife(Obj, cache[Key])

TeardownInv(teardown) ==
  worker.pc \in teardown =>
    /\ Obj.deleting
    /\ Held(Key) => SameLife(Obj, objects[Key])
    /\ SameLife(Obj, objects[Key]) =>
         objects[Key].deleting /\ SameLife(Obj, cache[Key]) /\ cache[Key].deleting

FinalizerInv(ensure, teardown) ==
  /\ CacheInv
  /\ ReadInv
  /\ TeardownInv(teardown)
  /\ worker.pc \in ensure => Held(Key)

LEMMA FinalizerInvInit ==
  ASSUME NEW ensure, NEW teardown, "idle" \notin ensure \cup teardown,
         worker = Idle, \A k \in Keys : cache[k] = NoObj
  PROVE  FinalizerInv(ensure, teardown)
<1>1. worker.pc = "idle"
  BY DEF Idle
<1> QED
  BY <1>1 DEF FinalizerInv, CacheInv, ReadInv, TeardownInv

(* An edited object, and one whose deletion the finalizer holds up, is     *)
(* still an object.                                                        *)
LEMMA EditedIsAnObject ==
  ASSUME NEW k \in Keys, NEW obj \in CatalogObjects(k)
  PROVE  /\ \A spec \in Specs[k] : Edited(obj, spec) # NoObj
         /\ obj.finalizer => Deleted(obj) # NoObj
<1> DEFINE Objs == [uid : Nat, gen : Nat, spec : Specs[k], deleting : BOOLEAN,
                    finalizer : BOOLEAN, status : Statuses(MaxEdits, Names)]
<1>1. 1..MaxEdits \subseteq Nat /\ \A n \in 1..MaxEdits : n + 1 \in Nat
  BY RuntimeAssumption
<1>2. obj.gen + 1 \in Nat /\ obj \in Objs
  BY <1>1 DEF CatalogObjects
<1>3. \A spec \in Specs[k] : Edited(obj, spec) \in Objs
  BY <1>2 DEF Edited
<1>4. obj.finalizer => Deleted(obj) \in Objs
  BY <1>2 DEF Deleted
<1> QED
  BY <1>3, <1>4, RuntimeAssumption

(* What a user's operation does: it removes an object without finalizer,   *)
(* creates a new incarnation, or changes an object that stays.             *)
LEMMA UserEffect ==
  ASSUME NEW steps, NEW locals, RuntimeInv(steps, locals), UserNext
  PROVE  /\ UNCHANGED <<cache, queue, worker, calm>>
         /\ \A k \in Keys :
              \/ objects'[k] = objects[k]
              \/ objects'[k] = NoObj /\ objects[k] # NoObj /\ ~objects[k].finalizer
              \/ objects[k] = NoObj /\ objects'[k].uid = edits + 1 /\ ~objects'[k].finalizer
              \/ /\ objects[k] # NoObj
                 /\ objects'[k] # NoObj /\ objects'[k].uid = objects[k].uid
                 /\ objects'[k].finalizer = objects[k].finalizer
                 /\ objects[k].deleting => objects'[k].deleting
<1>1. PICK k \in Keys : \/ \E spec \in Specs[k] : CreateObject(k, spec)
                        \/ \E spec \in Specs[k] : EditObject(k, spec)
                        \/ DeleteObject(k)
  BY DEF UserNext
<1>2. \E obj : Edit(k, obj)
  BY <1>1 DEF CreateObject, EditObject, DeleteObject
<1>3. UNCHANGED <<cache, queue, worker, calm>>
  BY <1>2 DEF Edit
<1>4. \A j \in Keys : j # k => objects'[j] = objects[j]
  BY <1>2 DEF Edit, RuntimeInv, RuntimeTypeOK
<1>5. objects[k] # NoObj => objects[k] \in CatalogObjects(k)
  BY DEF RuntimeInv, RuntimeTypeOK
<1>6. CASE \E spec \in Specs[k] : CreateObject(k, spec)
  <2>1. objects[k] = NoObj /\ objects'[k].uid = edits + 1 /\ ~objects'[k].finalizer
    BY <1>6 DEF CreateObject, Edit, NewObject, RuntimeInv, RuntimeTypeOK
  <2> QED
    BY <1>3, <1>4, <2>1
<1>7. CASE \E spec \in Specs[k] : EditObject(k, spec)
  <2>1. PICK spec \in Specs[k] : EditObject(k, spec)
    BY <1>7
  <2>2. objects[k] # NoObj /\ objects'[k] = Edited(objects[k], spec)
    BY <2>1 DEF EditObject, Edit, RuntimeInv, RuntimeTypeOK
  <2>3. /\ objects'[k].uid = objects[k].uid /\ objects'[k].finalizer = objects[k].finalizer
        /\ objects'[k].deleting = objects[k].deleting
    BY <1>5, <2>2 DEF Edited, CatalogObjects
  <2>4. objects'[k] # NoObj
    BY <1>5, <2>2, EditedIsAnObject
  <2> QED
    BY <1>3, <1>4, <2>2, <2>3, <2>4
<1>8. CASE DeleteObject(k)
  <2>1. objects[k] # NoObj /\ objects'[k] = Deleted(objects[k])
    BY <1>8 DEF DeleteObject, Edit, RuntimeInv, RuntimeTypeOK
  <2>2. CASE ~objects[k].finalizer
    BY <2>1, <2>2, <1>3, <1>4 DEF Deleted
  <2>3. CASE objects[k].finalizer
    <3>1. /\ objects'[k].uid = objects[k].uid /\ objects'[k].finalizer = objects[k].finalizer
          /\ objects'[k].deleting
      BY <1>5, <2>1, <2>3 DEF Deleted, CatalogObjects
    <3>2. objects'[k] # NoObj
      BY <1>5, <2>1, <2>3, EditedIsAnObject DEF CatalogObjects
    <3> QED
      BY <1>3, <1>4, <2>1, <3>1, <3>2
  <2> QED
    BY <2>2, <2>3
<1> QED
  BY <1>1, <1>6, <1>7, <1>8

LEMMA UsersKeepFinalizerInv ==
  ASSUME NEW steps, NEW locals, RuntimeInv(steps, locals),
         NEW ensure, NEW teardown, FinalizerInv(ensure, teardown),
         "idle" \notin ensure \cup teardown, UserNext
  PROVE  FinalizerInv(ensure, teardown)'
<1>1. UNCHANGED <<cache, queue, worker, calm>>
  BY UserEffect
<1>2. \A k \in Keys : Held(k) <=> Held(k)'
  BY UserEffect DEF Held
<1>3. /\ edits \in Nat
      /\ \A k \in Keys : cache[k] # NoObj => cache[k].uid \in Nat /\ cache[k].uid <= edits
  BY RuntimeAssumption DEF RuntimeInv, RuntimeTypeOK, CatalogObjects
<1>4. \A k \in Keys : \A obj : obj.uid \in Nat /\ obj.uid <= edits /\ SameLife(obj, objects'[k]) =>
        /\ SameLife(obj, objects[k])
        /\ objects[k].deleting => objects'[k].deleting
  BY <1>3, UserEffect DEF SameLife
<1>5. \A k \in Keys : \A obj : Held(k) /\ SameLife(obj, objects[k]) => SameLife(obj, objects'[k])
  BY UserEffect DEF Held, SameLife
<1>6. CacheInv'
  BY <1>1, <1>2, <1>3, <1>4, <1>5 DEF FinalizerInv, CacheInv
<1>7. ASSUME worker.pc # "idle"
      PROVE  Key \in Keys /\ Obj.uid \in Nat /\ Obj.uid <= edits
  BY <1>7, WorkerAtAStep DEF RuntimeInv, CatalogObjects, Obj
<1>8. TeardownInv(teardown)'
  <2> SUFFICES ASSUME worker.pc \in teardown PROVE TeardownInv(teardown)'
    BY <1>1 DEF TeardownInv
  <2>1. Key' = Key /\ Obj' = Obj /\ worker.pc # "idle"
    BY <1>1 DEF Key, Obj
  <2>2. Held(Key)' => SameLife(Obj, objects'[Key])
    BY <1>2, <1>7, <1>5, <2>1 DEF FinalizerInv, TeardownInv, Held
  <2> QED
    BY <1>1, <1>4, <1>7, <2>1, <2>2 DEF FinalizerInv, TeardownInv, SameLife
<1>9. worker'.pc \in ensure => Held(Key)'
  BY <1>1, <1>2, <1>7 DEF FinalizerInv, Key, Held
<1>10. ReadInv'
  BY <1>1, <1>4, <1>7 DEF FinalizerInv, ReadInv, SameLife, Key, Obj
<1> QED
  BY <1>6, <1>8, <1>9, <1>10 DEF FinalizerInv

LEMMA SyncKeepsFinalizerInv ==
  ASSUME NEW steps, NEW locals, RuntimeInv(steps, locals),
         NEW ensure, NEW teardown, FinalizerInv(ensure, teardown),
         "idle" \notin ensure \cup teardown, NEW k \in Keys, Sync(k)
  PROVE  FinalizerInv(ensure, teardown)'
<1>1. /\ cache' = [cache EXCEPT ![k] = objects[k]]
      /\ UNCHANGED <<objects, worker>>
  BY DEF Sync
<1>2. \A j \in Keys : cache'[j] = cache[j] \/ cache'[j] = objects[j]
  BY <1>1 DEF RuntimeInv, RuntimeTypeOK
<1>3. CacheInv'
  BY <1>1, <1>2 DEF FinalizerInv, CacheInv, Held, SameLife
<1>4. worker.pc # "idle" => Key \in Keys
  BY WorkerAtAStep
<1>5. TeardownInv(teardown)'
  BY <1>1, <1>2, <1>4 DEF FinalizerInv, TeardownInv, Held, SameLife, Key, Obj
<1>6. ReadInv'
  BY <1>1, <1>2, <1>4 DEF FinalizerInv, ReadInv, SameLife, Key, Obj
<1> QED
  BY <1>1, <1>3, <1>5, <1>6 DEF FinalizerInv, Held, Key

LEMMA TakeKeepsFinalizerInv ==
  ASSUME NEW steps, NEW locals, RuntimeInv(steps, locals),
         NEW ensure, NEW teardown, FinalizerInv(ensure, teardown),
         NEW k \in Keys, NEW step, NEW local, Take(k, step, local),
         step \in ensure => Managed(k), step \in teardown => Terminated(k)
  PROVE  FinalizerInv(ensure, teardown)'
<1>1. /\ worker' = [pc |-> step, key |-> k, obj |-> cache[k], local |-> local]
      /\ UNCHANGED <<objects, cache>>
  BY DEF Take
<1>2. worker'.pc = step /\ Key' = k /\ Obj' = cache[k]
  BY <1>1 DEF Key, Obj
<1>3. CacheInv'
  BY <1>1 DEF FinalizerInv, CacheInv, Held, SameLife
<1>4. TeardownInv(teardown)'
  <2> SUFFICES ASSUME step \in teardown
               PROVE  /\ cache[k].deleting
                      /\ Held(k) => SameLife(cache[k], objects[k])
                      /\ SameLife(cache[k], objects[k]) =>
                           /\ objects[k].deleting
                           /\ SameLife(cache[k], cache[k]) /\ cache[k].deleting
    BY <1>1, <1>2 DEF TeardownInv, Held, SameLife
  <2> QED
    BY DEF FinalizerInv, CacheInv, Terminated, Cached, SameLife
<1>5. worker'.pc \in ensure => Held(Key)'
  BY <1>1, <1>2 DEF FinalizerInv, CacheInv, Managed, Cached, Held
<1>6. ReadInv'
  BY <1>1, <1>2 DEF ReadInv, SameLife
<1> QED
  BY <1>3, <1>4, <1>5, <1>6 DEF FinalizerInv

LEMMA IdleKeepsFinalizerInv ==
  ASSUME NEW ensure, NEW teardown, FinalizerInv(ensure, teardown),
         "idle" \notin ensure \cup teardown,
         \/ \E k \in Keys : Skip(k)
         \/ Restart
         \/ Resync
         \/ BecomeCalm
  PROVE  FinalizerInv(ensure, teardown)'
<1>1. CASE (\E k \in Keys : Skip(k)) \/ Resync \/ BecomeCalm
  <2>1. UNCHANGED <<objects, cache, worker>>
    BY <1>1 DEF Skip, Resync, BecomeCalm
  <2> QED
    BY <2>1 DEF FinalizerInv, CacheInv, ReadInv, TeardownInv, Held, SameLife, Key, Obj
<1>2. CASE Restart
  <2>1. cache' = objects /\ objects' = objects /\ worker'.pc = "idle"
    BY <1>2 DEF Restart, Idle
  <2> QED
    BY <2>1 DEF FinalizerInv, CacheInv, ReadInv, TeardownInv, Held, SameLife
<1> QED
  BY <1>1, <1>2

(* A reconcile goes on to a step of the same kind, or ends.                *)
LEMMA OnwardKeepsFinalizerInv ==
  ASSUME NEW ensure, NEW teardown, FinalizerInv(ensure, teardown), worker.pc # "idle",
         UNCHANGED <<objects, cache>>,
         NEW step, Onward(step),
         step \in ensure => worker.pc \in ensure,
         step \in teardown => worker.pc \in teardown
  PROVE  FinalizerInv(ensure, teardown)'
BY DEF Onward, FinalizerInv, CacheInv, ReadInv, TeardownInv, Held, SameLife

LEMMA GotoKeepsFinalizerInv ==
  ASSUME NEW steps, NEW locals, RuntimeInv(steps, locals), worker.pc # "idle",
         NEW ensure, NEW teardown, FinalizerInv(ensure, teardown),
         "idle" \notin ensure \cup teardown, UNCHANGED <<objects, cache>>,
         \/ \E step \in steps : /\ Goto(step)
                                /\ step \in ensure => worker.pc \in ensure
                                /\ step \in teardown => worker.pc \in teardown
         \/ Retry
         \/ Done
  PROVE  FinalizerInv(ensure, teardown)'
<1>1. CASE Retry \/ Done
  <2>1. worker'.pc = "idle"
    BY <1>1 DEF Retry, Done, Idle
  <2> QED
    BY <2>1 DEF FinalizerInv, CacheInv, Held, SameLife, ReadInv, TeardownInv
<1>2. CASE \E step \in steps : /\ Goto(step)
                               /\ step \in ensure => worker.pc \in ensure
                               /\ step \in teardown => worker.pc \in teardown
  BY <1>2, GotoGoesOnward, OnwardKeepsFinalizerInv
<1> QED
  BY <1>1, <1>2

(* The last write of a reconcile.  Taking the finalizer off a resource     *)
(* removes it: it is the same that was read as terminating.                *)
LEMMA RemoveFinalizerEffect ==
  ASSUME NEW steps, NEW locals, RuntimeInv(steps, locals),
         NEW teardown, TeardownInv(teardown), "removeFinalizer" \in teardown,
         NEW o, RemoveFinalizer(o)
  PROVE  \A k \in Keys : \/ objects'[k] = objects[k]
                         \/ k = Key /\ objects[k] = Obj /\ objects'[k] = NoObj
<1>1. worker.pc = "removeFinalizer" /\ Write(o, WithoutFinalizer(Obj))
  BY DEF RemoveFinalizer, At
<1>2. Obj \in CatalogObjects(Key) /\ Obj.deleting
  BY <1>1, WorkerAtAStep DEF TeardownInv
<1>3. Stored(WithoutFinalizer(Obj)) = NoObj
  BY <1>2 DEF Stored, WithoutFinalizer, CatalogObjects
<1> QED
  BY <1>1, <1>3, WriteEffect

(* Every other write keeps the resource, and the finalizer it may have.    *)
Keeps(old, new) ==
  /\ old # NoObj /\ SameLife(old, new) /\ new.spec = old.spec
  /\ new.deleting = old.deleting /\ (old.finalizer => new.finalizer)

LEMMA OtherWritesEffect ==
  ASSUME NEW steps, NEW locals, RuntimeInv(steps, locals), NEW o, ~RemoveFinalizer(o),
         \/ FinalizerStep(o) \/ WriteRejected(o) \/ WriteWaiting(o)
         \/ \E name \in Names \cup {NoName} : WriteReady(o, name)
  PROVE  \A k \in Keys : \/ objects'[k] = objects[k]
                         \/ k = Key /\ objects[k] = Obj /\ Keeps(objects[k], objects'[k])
<1>1. worker.pc # "idle"
  BY DEF FinalizerStep, AddFinalizer, WriteFailed, WriteRejected, WriteWaiting, WriteReady, At
<1>2. Key \in Keys /\ Obj \in CatalogObjects(Key) /\ Obj # NoObj
  BY <1>1, WorkerAtAStep, NoObjIsNoObject
<1>3. PICK name \in Names \cup {NoName} :
        \E new \in {WithFinalizer(Obj), AsFailed(Obj), AsReconciling(Obj),
                   AsReady(Obj, name)} : Write(o, new)
  BY DEF FinalizerStep, AddFinalizer, WriteFailed, WriteRejected, WriteWaiting, WriteReady
<1>4. PICK new \in {WithFinalizer(Obj), AsFailed(Obj), AsReconciling(Obj),
                   AsReady(Obj, name)} : Write(o, new)
  BY <1>3
<1> SUFFICES ASSUME objects[Key] = Obj, objects'[Key] = Stored(new)
             PROVE  Keeps(Obj, objects'[Key])
  BY <1>1, <1>2, <1>4, WriteEffect
<1>5. Obj.status.readyGen <= Obj.gen /\ (Obj.deleting => Obj.finalizer)
  BY <1>2 DEF RuntimeInv, RuntimeTypeOK
<1>6. new \in CatalogObjects(Key) /\ Rewrites(Obj, new) /\ (Obj.finalizer => new.finalizer)
  BY <1>2, <1>4, <1>5, RewritesOfAnObject
<1>7. objects'[Key] = new /\ new # NoObj
  BY <1>2, <1>5, <1>6, NoObjIsNoObject DEF Stored, Rewrites
<1> QED
  BY <1>2, <1>6, <1>7 DEF Keeps, Rewrites, SameLife

LEMMA FinalizerStepKeepsFinalizerInv ==
  ASSUME NEW steps, NEW locals, RuntimeInv(steps, locals),
         NEW ensure, NEW teardown, FinalizerInv(ensure, teardown),
         "idle" \notin ensure \cup teardown, "removeFinalizer" \in teardown, NEW o,
         \/ FinalizerStep(o) \/ WriteRejected(o) \/ WriteWaiting(o)
         \/ \E name \in Names \cup {NoName} : WriteReady(o, name)
  PROVE  FinalizerInv(ensure, teardown)'
<1>1. worker.pc # "idle"
  BY DEF FinalizerStep, AddFinalizer, RemoveFinalizer, WriteFailed, WriteRejected, WriteWaiting,
         WriteReady, At
<1>2. Key \in Keys /\ Obj # NoObj
  BY <1>1, WorkerAtAStep, NoObjIsNoObject
<1>3. UNCHANGED cache /\ worker' = Idle
  BY DEF FinalizerStep, AddFinalizer, RemoveFinalizer, WriteFailed, WriteRejected, WriteWaiting,
         WriteReady, Retry, Done
<1>4. CacheInv'
  <2>1. CASE RemoveFinalizer(o)
    <3>1. TeardownInv(teardown) /\ worker.pc \in teardown
      BY <2>1 DEF RemoveFinalizer, At, FinalizerInv
    <3>2. SameLife(Obj, objects[Key]) => SameLife(Obj, cache[Key]) /\ cache[Key].deleting
      BY <3>1 DEF TeardownInv
    <3>3. \A k \in Keys : \/ objects'[k] = objects[k]
                          \/ k = Key /\ objects[k] = Obj /\ objects'[k] = NoObj
      BY <2>1, <3>1, RemoveFinalizerEffect
    <3> QED
      BY <1>2, <1>3, <3>2, <3>3 DEF FinalizerInv, CacheInv, Held, SameLife
  <2>2. CASE ~RemoveFinalizer(o)
    <3>1. \A k \in Keys :
            \/ objects'[k] = objects[k]
            \/ k = Key /\ objects[k] = Obj /\ Keeps(objects[k], objects'[k])
      BY <2>2, OtherWritesEffect
    <3>2. objects[Key] = Obj /\ cache[Key] # NoObj => SameLife(Obj, cache[Key])
      BY <1>1, <1>2 DEF FinalizerInv, ReadInv, SameLife
    <3> QED
      BY <1>3, <3>1, <3>2 DEF FinalizerInv, CacheInv, Held, SameLife, Keeps
  <2> QED
    BY <2>1, <2>2
<1> QED
  BY <1>3, <1>4 DEF FinalizerInv, ReadInv, TeardownInv, Idle

----------------------------------------------------------------------------
(* Why Ready can be believed, though the operator reads a cache: a copy is *)
(* never ahead of the resource, and it is of the same generation only with *)
(* the same spec.  The worker that writes Ready has read the generation it *)
(* writes it at, from a cache that does not go back; so as long as Ready is*)
(* current, every reconcile that is under way works on that generation.    *)
Precedes(old, new) ==
  old # NoObj /\ SameLife(old, new) =>
    /\ old.gen <= new.gen
    /\ old.gen = new.gen => old.spec = new.spec /\ old.deleting = new.deleting

SameVersion(copy, obj) == SameLife(copy, obj) /\ copy.gen = obj.gen

CopiesInv ==
  /\ \A k \in Keys : Precedes(cache[k], objects[k])
  /\ worker.pc # "idle" =>
       /\ Precedes(Obj, objects[Key]) /\ Precedes(Obj, cache[Key])
       /\ SameLife(Obj, objects[Key]) => SameLife(Obj, cache[Key])

ReadyInv ==
  \A k \in Keys : objects[k] # NoObj /\ Ready(objects[k]) =>
    /\ ~objects[k].deleting
    /\ cache[k] # NoObj => SameVersion(cache[k], objects[k])
    /\ worker.pc # "idle" /\ Key = k => SameVersion(Obj, objects[k])

(* "manage" are the steps of a reconcile that read no deletion.            *)
VersionInv(manage) ==
  CopiesInv /\ ReadyInv /\ (worker.pc \in manage => ~Obj.deleting)

(* What a user's operation does to generations: whatever it changes is not *)
(* Ready any more, and a generation or an incarnation ahead of all copies. *)
LEMMA UserVersionEffect ==
  ASSUME NEW steps, NEW locals, RuntimeInv(steps, locals), UserNext, NEW k \in Keys
  PROVE  \/ objects'[k] = objects[k]
         \/ objects'[k] = NoObj
         \/ objects[k] = NoObj /\ objects'[k].uid = edits + 1 /\ ~Ready(objects'[k])
         \/ /\ objects[k] # NoObj /\ objects'[k].uid = objects[k].uid
            /\ objects'[k].gen = objects[k].gen + 1 /\ ~Ready(objects'[k])
<1>1. PICK j \in Keys : \/ \E spec \in Specs[j] : CreateObject(j, spec)
                        \/ \E spec \in Specs[j] : EditObject(j, spec)
                        \/ DeleteObject(j)
  BY DEF UserNext
<1>2. objects[k] # NoObj =>
        /\ objects[k] \in CatalogObjects(k) /\ objects[k].gen \in Nat
        /\ objects[k].status.readyGen \in Nat
        /\ objects[k].status.readyGen <= objects[k].gen
  BY RuntimeAssumption DEF RuntimeInv, RuntimeTypeOK, CatalogObjects, Statuses
<1>3. CASE j # k
  BY <1>1, <1>3 DEF CreateObject, EditObject, DeleteObject, Edit, RuntimeInv, RuntimeTypeOK
<1>4. CASE j = k /\ \E spec \in Specs[k] : CreateObject(k, spec)
  BY <1>4 DEF CreateObject, Edit, NewObject, NoStatus, Ready, RuntimeInv, RuntimeTypeOK
<1>5. CASE j = k /\ \E spec \in Specs[k] : EditObject(k, spec)
  <2>1. PICK spec \in Specs[k] : objects'[k] = Edited(objects[k], spec) /\ objects[k] # NoObj
    BY <1>5 DEF EditObject, Edit, RuntimeInv, RuntimeTypeOK
  <2>2. /\ objects'[k].uid = objects[k].uid /\ objects'[k].gen = objects[k].gen + 1
        /\ objects'[k].status = objects[k].status
    BY <1>2, <2>1 DEF Edited, CatalogObjects
  <2> QED
    BY <1>2, <2>1, <2>2 DEF Ready
<1>6. CASE j = k /\ DeleteObject(k)
  <2>1. objects'[k] = Deleted(objects[k]) /\ objects[k] # NoObj
    BY <1>6 DEF DeleteObject, Edit, RuntimeInv, RuntimeTypeOK
  <2>2. \/ objects'[k] = NoObj
        \/ /\ objects'[k].uid = objects[k].uid /\ objects'[k].gen = objects[k].gen + 1
           /\ objects'[k].status = objects[k].status
    BY <1>2, <2>1 DEF Deleted, CatalogObjects
  <2> QED
    BY <1>2, <2>1, <2>2 DEF Ready
<1> QED
  BY <1>1, <1>3, <1>4, <1>5, <1>6

LEMMA UsersKeepVersionInv ==
  ASSUME NEW steps, NEW locals, RuntimeInv(steps, locals), NEW manage, VersionInv(manage),
         UserNext
  PROVE  VersionInv(manage)'
<1>1. UNCHANGED <<cache, worker>> /\ Key' = Key /\ Obj' = Obj
  BY UserEffect DEF Key, Obj
<1>2. \A k \in Keys : cache[k] # NoObj =>
        cache[k].uid \in Nat /\ cache[k].gen \in Nat /\ cache[k].uid <= edits
  BY RuntimeAssumption DEF RuntimeInv, RuntimeTypeOK, CatalogObjects
<1>3. worker.pc # "idle" =>
        Key \in Keys /\ Obj.uid \in Nat /\ Obj.gen \in Nat /\ Obj.uid <= edits
  BY WorkerAtAStep, RuntimeAssumption DEF RuntimeInv, CatalogObjects, Obj
<1>4. edits \in Nat /\ \A k \in Keys : objects[k] # NoObj => objects[k].gen \in Nat
  BY RuntimeAssumption DEF RuntimeInv, RuntimeTypeOK, CatalogObjects
<1>5. ASSUME NEW k \in Keys, NEW obj, obj # NoObj =>
               obj.uid \in Nat /\ obj.gen \in Nat /\ obj.uid <= edits,
             Precedes(obj, objects[k])
      PROVE  Precedes(obj, objects'[k])
  BY <1>4, <1>5, UserVersionEffect DEF Precedes, SameLife
<1>6. ASSUME NEW k \in Keys, NEW obj, obj.uid \in Nat, obj.uid <= edits,
             SameLife(obj, objects'[k])
      PROVE  SameLife(obj, objects[k])
  BY <1>4, <1>6, UserVersionEffect DEF SameLife
<1>7. CopiesInv'
  <2>1. \A k \in Keys : Precedes(cache[k], objects[k])
    BY DEF VersionInv, CopiesInv
  <2>2. \A k \in Keys : Precedes(cache[k], objects'[k])
    BY <1>2, <1>5, <2>1
  <2>3. worker.pc # "idle" =>
          /\ Precedes(Obj, objects[Key]) /\ Precedes(Obj, cache[Key])
          /\ SameLife(Obj, objects[Key]) => SameLife(Obj, cache[Key])
    BY DEF VersionInv, CopiesInv
  <2>4. worker.pc # "idle" =>
          /\ Precedes(Obj, objects'[Key])
          /\ SameLife(Obj, objects'[Key]) => SameLife(Obj, cache[Key])
    BY <1>3, <1>5, <1>6, <2>3
  <2> QED
    BY <1>1, <2>2, <2>3, <2>4 DEF CopiesInv
<1>8. ReadyInv'
  <2> SUFFICES ASSUME NEW k \in Keys, objects'[k] # NoObj, Ready(objects'[k])
               PROVE  objects'[k] = objects[k]
    BY <1>1 DEF VersionInv, ReadyInv, SameVersion, SameLife, Ready
  <2> QED
    BY UserVersionEffect
<1> QED
  BY <1>1, <1>7, <1>8 DEF VersionInv

LEMMA SyncKeepsVersionInv ==
  ASSUME NEW steps, NEW locals, RuntimeInv(steps, locals), NEW manage, VersionInv(manage),
         NEW k \in Keys, Sync(k)
  PROVE  VersionInv(manage)'
<1>1. /\ UNCHANGED <<objects, worker>> /\ Key' = Key /\ Obj' = Obj
      /\ \A j \in Keys : cache'[j] \in {cache[j], objects[j]}
  BY DEF Sync, Key, Obj, RuntimeInv, RuntimeTypeOK
<1>2. \A j \in Keys : objects[j] # NoObj => objects[j].gen \in Nat
  BY RuntimeAssumption DEF RuntimeInv, RuntimeTypeOK, CatalogObjects
<1>3. CopiesInv'
  <2>1. \A j \in Keys : Precedes(objects[j], objects[j])
    BY <1>2 DEF Precedes
  <2>2. worker.pc # "idle" => Key \in Keys
    BY WorkerAtAStep
  <2> QED
    BY <1>1, <2>1, <2>2 DEF VersionInv, CopiesInv
<1>4. ReadyInv'
  BY <1>1 DEF VersionInv, ReadyInv, SameVersion, SameLife, Ready
<1> QED
  BY <1>1, <1>3, <1>4 DEF VersionInv

LEMMA TakeKeepsVersionInv ==
  ASSUME NEW steps, NEW locals, RuntimeInv(steps, locals), NEW manage, VersionInv(manage),
         NEW k \in Keys, NEW step, NEW local, Take(k, step, local),
         cache[k] # NoObj, step \in manage => ~cache[k].deleting
  PROVE  VersionInv(manage)'
<1>1. /\ UNCHANGED <<objects, cache>>
      /\ worker'.pc = step /\ Key' = k /\ Obj' = cache[k]
  BY DEF Take, Key, Obj
<1>2. cache[k].gen \in Nat
  BY RuntimeAssumption DEF RuntimeInv, RuntimeTypeOK, CatalogObjects
<1>3. CopiesInv'
  <2>1. Precedes(cache[k], cache[k]) /\ SameLife(cache[k], cache[k])
    BY <1>2 DEF Precedes, SameLife
  <2> QED
    BY <1>1, <2>1 DEF VersionInv, CopiesInv
<1>4. ReadyInv'
  BY <1>1 DEF VersionInv, ReadyInv, SameVersion, SameLife, Ready
<1> QED
  BY <1>1, <1>3, <1>4 DEF VersionInv

LEMMA IdleKeepsVersionInv ==
  ASSUME NEW steps, NEW locals, RuntimeInv(steps, locals), NEW manage, VersionInv(manage),
         "idle" \notin manage,
         \/ \E k \in Keys : Skip(k)
         \/ Restart
         \/ Resync
         \/ BecomeCalm
  PROVE  VersionInv(manage)'
<1>1. CASE (\E k \in Keys : Skip(k)) \/ Resync \/ BecomeCalm
  <2>1. UNCHANGED <<objects, cache, worker>>
    BY <1>1 DEF Skip, Resync, BecomeCalm
  <2> QED
    BY <2>1 DEF VersionInv, CopiesInv, ReadyInv, Precedes, SameVersion, SameLife, Ready, Key, Obj
<1>2. CASE Restart
  <2>1. cache' = objects /\ objects' = objects /\ worker'.pc = "idle"
    BY <1>2 DEF Restart, Idle
  <2>2. \A k \in Keys : objects[k] # NoObj => objects[k].gen \in Nat
    BY RuntimeAssumption DEF RuntimeInv, RuntimeTypeOK, CatalogObjects
  <2>3. \A k \in Keys : Precedes(objects[k], objects[k])
    BY <2>2 DEF Precedes
  <2>4. CopiesInv'
    BY <2>1, <2>3 DEF CopiesInv
  <2>5. ReadyInv'
    BY <2>1 DEF VersionInv, ReadyInv, SameVersion, SameLife, Ready
  <2> QED
    BY <2>1, <2>4, <2>5 DEF VersionInv
<1> QED
  BY <1>1, <1>2

(* A reconcile goes on, still having read no deletion, or ends.            *)
LEMMA OnwardKeepsVersionInv ==
  ASSUME NEW manage, VersionInv(manage), worker.pc # "idle", UNCHANGED <<objects, cache>>,
         NEW step, Onward(step), step \in manage => worker.pc \in manage
  PROVE  VersionInv(manage)'
<1>1. CopiesInv'
  BY DEF Onward, VersionInv, CopiesInv
<1>2. ReadyInv'
  BY DEF Onward, VersionInv, ReadyInv, SameVersion, SameLife, Ready
<1> QED
  BY <1>1, <1>2 DEF Onward, VersionInv

LEMMA GotoKeepsVersionInv ==
  ASSUME NEW steps, NEW locals, RuntimeInv(steps, locals), worker.pc # "idle",
         NEW manage, VersionInv(manage), "idle" \notin manage,
         UNCHANGED <<objects, cache>>,
         \/ \E step \in steps : Goto(step) /\ (step \in manage => worker.pc \in manage)
         \/ Retry
         \/ Done
  PROVE  VersionInv(manage)'
<1>1. CASE Retry \/ Done
  <2>1. worker'.pc = "idle"
    BY <1>1 DEF Retry, Done, Idle
  <2> QED
    BY <2>1 DEF VersionInv, CopiesInv, ReadyInv, Precedes, SameVersion, SameLife, Ready
<1>2. CASE \E step \in steps : Goto(step) /\ (step \in manage => worker.pc \in manage)
  BY <1>2, GotoGoesOnward, OnwardKeepsVersionInv
<1> QED
  BY <1>1, <1>2

(* A write of the resource keeps its generation, and makes it Ready only at*)
(* the end of a reconcile that got there.                                  *)
LEMMA WriteVersionEffect ==
  ASSUME NEW steps, NEW locals, RuntimeInv(steps, locals), NEW o,
         \/ FinalizerStep(o) \/ WriteRejected(o) \/ WriteWaiting(o)
         \/ \E name \in Names \cup {NoName} : WriteReady(o, name)
  PROVE  \A k \in Keys :
           \/ objects'[k] = objects[k]
           \/ /\ k = Key /\ objects[k] = Obj
              /\ \/ objects'[k] = NoObj
                 \/ /\ Rewrites(objects[k], objects'[k])
                    /\ Ready(objects'[k]) => Ready(objects[k]) \/ worker.pc = "readyStatus"
<1>1. worker.pc # "idle"
  BY DEF FinalizerStep, AddFinalizer, RemoveFinalizer, WriteFailed, WriteRejected, WriteWaiting,
         WriteReady, At
<1>2. Key \in Keys /\ Obj \in CatalogObjects(Key) /\ Obj # NoObj
  BY <1>1, WorkerAtAStep, NoObjIsNoObject
<1>3. PICK new : /\ Write(o, new)
                 /\ \/ new \in {WithFinalizer(Obj), WithoutFinalizer(Obj), AsFailed(Obj),
                               AsReconciling(Obj)}
                    \/ /\ worker.pc = "readyStatus"
                       /\ \E name \in Names \cup {NoName} : new = AsReady(Obj, name)
  BY DEF FinalizerStep, AddFinalizer, RemoveFinalizer, WriteFailed, WriteRejected, WriteWaiting,
         WriteReady, At
<1> SUFFICES ASSUME objects[Key] = Obj
             PROVE  \/ Stored(new) = NoObj
                    \/ /\ Rewrites(Obj, Stored(new))
                       /\ Ready(Stored(new)) => Ready(Obj) \/ worker.pc = "readyStatus"
  BY <1>1, <1>2, <1>3, WriteEffect
<1>4. Obj.status.readyGen <= Obj.gen
  BY <1>2 DEF RuntimeInv, RuntimeTypeOK
<1>5. Rewrites(Obj, new)
  BY <1>2, <1>3, <1>4, RewritesOfAnObject
<1>6. Ready(new) => Ready(Obj) \/ worker.pc = "readyStatus"
  <2>1. CASE new \in {WithFinalizer(Obj), WithoutFinalizer(Obj)}
    <3>1. new.status = Obj.status /\ new.gen = Obj.gen
      BY <1>2, <2>1 DEF WithFinalizer, WithoutFinalizer, CatalogObjects
    <3> QED
      BY <3>1 DEF Ready
  <2>2. CASE new = AsFailed(Obj)
    <3>1. new.status = SetFailed(Obj.status, Obj.gen) /\ Obj.status \in Statuses(MaxEdits, Names)
      BY <1>2, <2>2 DEF AsFailed, CatalogObjects
    <3>2. new.status.ready = "False"
      BY <3>1 DEF SetFailed, Statuses
    <3> QED
      BY <3>2 DEF Ready
  <2>3. CASE new = AsReconciling(Obj)
    <3>1. new.status = SetReconciling(Obj.status, Obj.gen)
          /\ Obj.status \in Statuses(MaxEdits, Names)
      BY <1>2, <2>3 DEF AsReconciling, CatalogObjects
    <3>2. new.status.ready = "False"
      BY <3>1 DEF SetReconciling, Statuses
    <3> QED
      BY <3>2 DEF Ready
  <2> QED
    BY <1>3, <2>1, <2>2, <2>3
<1> QED
  BY <1>5, <1>6 DEF Stored

LEMMA FinalizerStepKeepsVersionInv ==
  ASSUME NEW steps, NEW locals, RuntimeInv(steps, locals),
         NEW manage, VersionInv(manage), "idle" \notin manage, "readyStatus" \in manage, NEW o,
         \/ FinalizerStep(o) \/ WriteRejected(o) \/ WriteWaiting(o)
         \/ \E name \in Names \cup {NoName} : WriteReady(o, name)
  PROVE  VersionInv(manage)'
<1>1. worker.pc # "idle" /\ UNCHANGED cache /\ worker' = Idle
  BY DEF FinalizerStep, AddFinalizer, RemoveFinalizer, WriteFailed, WriteRejected, WriteWaiting,
         WriteReady, At, Retry, Done
<1>2. worker'.pc = "idle"
  BY <1>1 DEF Idle
<1>3. Key \in Keys /\ Obj # NoObj /\ Obj.gen \in Nat
  BY <1>1, WorkerAtAStep, NoObjIsNoObject, RuntimeAssumption DEF CatalogObjects
<1>4. \A k \in Keys : cache[k] # NoObj => cache[k].gen \in Nat
  BY RuntimeAssumption DEF RuntimeInv, RuntimeTypeOK, CatalogObjects
<1>5. \A k \in Keys :
        \/ objects'[k] = objects[k]
        \/ /\ k = Key /\ objects[k] = Obj
           /\ \/ objects'[k] = NoObj
              \/ /\ Rewrites(objects[k], objects'[k])
                 /\ Ready(objects'[k]) => Ready(objects[k]) \/ worker.pc = "readyStatus"
  BY WriteVersionEffect
<1>6. CopiesInv'
  <2> SUFFICES ASSUME NEW k \in Keys
               PROVE  Precedes(cache[k], objects'[k])
    BY <1>1, <1>2 DEF CopiesInv, Precedes, SameLife
  <2>1. Precedes(cache[k], objects[k])
    BY DEF VersionInv, CopiesInv
  <2>2. \/ objects'[k] \in {NoObj, objects[k]}
        \/ objects[k] # NoObj /\ Rewrites(objects[k], objects'[k])
    BY <1>3, <1>5
  <2> QED
    BY <2>1, <2>2 DEF Precedes, SameLife, Rewrites
<1>7. ReadyInv'
  <2> SUFFICES ASSUME NEW k \in Keys, objects'[k] # NoObj, Ready(objects'[k])
               PROVE  /\ ~objects'[k].deleting
                      /\ cache[k] # NoObj => SameVersion(cache[k], objects'[k])
    BY <1>1, <1>2 DEF ReadyInv, SameVersion, SameLife
  <2>1. CASE objects'[k] = objects[k]
    BY <2>1 DEF VersionInv, ReadyInv
  <2>2. CASE k = Key /\ objects[k] = Obj /\ Rewrites(Obj, objects'[k]) /\ Ready(Obj)
    BY <1>3, <2>2 DEF VersionInv, ReadyInv, SameVersion, SameLife, Rewrites
  <2>3. CASE /\ k = Key /\ objects[k] = Obj /\ Rewrites(Obj, objects'[k])
             /\ worker.pc = "readyStatus"
    <3>1. SameLife(Obj, cache[k]) /\ SameLife(cache[k], objects[k]) /\ cache[k] # NoObj
      BY <1>1, <1>3, <2>3 DEF VersionInv, CopiesInv, SameLife
    <3>2. Obj.gen <= cache[k].gen /\ cache[k].gen <= Obj.gen
      BY <1>1, <1>3, <2>3, <3>1 DEF VersionInv, CopiesInv, Precedes
    <3> QED
      BY <1>3, <1>4, <2>3, <3>1, <3>2 DEF VersionInv, SameVersion, SameLife, Rewrites
  <2> QED
    BY <1>5, <2>1, <2>2, <2>3
<1> QED
  BY <1>2, <1>6, <1>7 DEF VersionInv

LEMMA VersionInvInit ==
  ASSUME NEW manage, "idle" \notin manage, worker = Idle, \A k \in Keys : cache[k] = NoObj,
         \A k \in Keys : objects[k] # NoObj => ~objects[k].deleting
  PROVE  VersionInv(manage)
<1>1. worker.pc = "idle"
  BY DEF Idle
<1> QED
  BY <1>1 DEF VersionInv, CopiesInv, ReadyInv, Precedes

----------------------------------------------------------------------------
(* A resource that carries the finalizer was seen by the operator, and the *)
(* informer does not lose sight of it.                                     *)
SeenInv == \A k \in Keys : Held(k) => cache[k] # NoObj

LEMMA SeenInvStep ==
  ASSUME NEW steps, NEW locals, RuntimeInv(steps, locals), CopiesInv, SeenInv, NEW o,
         \/ UserNext
         \/ \E k \in Keys : Sync(k)
         \/ Restart
         \/ FinalizerStep(o) \/ WriteRejected(o) \/ WriteWaiting(o)
         \/ \E name \in Names \cup {NoName} : WriteReady(o, name)
         \/ UNCHANGED <<objects, cache>>
  PROVE  SeenInv'
<1>1. CASE UserNext
  BY <1>1, UserEffect DEF SeenInv, Held
<1>2. CASE \E k \in Keys : Sync(k)
  BY <1>2 DEF Sync, SeenInv, Held, RuntimeInv, RuntimeTypeOK
<1>3. CASE Restart
  BY <1>3 DEF Restart, SeenInv, Held
<1>4. CASE \/ FinalizerStep(o) \/ WriteRejected(o) \/ WriteWaiting(o)
           \/ \E name \in Names \cup {NoName} : WriteReady(o, name)
  <2>1. worker.pc # "idle" /\ UNCHANGED cache
    BY <1>4 DEF FinalizerStep, AddFinalizer, RemoveFinalizer, WriteFailed, WriteRejected,
                WriteWaiting, WriteReady, At
  <2>2. PICK new : Write(o, new)
    BY <1>4 DEF FinalizerStep, AddFinalizer, RemoveFinalizer, WriteFailed, WriteRejected,
                WriteWaiting, WriteReady
  <2>3. Obj # NoObj /\ (objects[Key] = Obj => cache[Key] # NoObj)
    BY <2>1, WorkerAtAStep, NoObjIsNoObject DEF CopiesInv, SameLife
  <2>4. \A k \in Keys : objects'[k] = objects[k] \/ (k = Key /\ objects[k] = Obj)
    BY <2>1, <2>2, WriteEffect
  <2> QED
    BY <2>1, <2>3, <2>4 DEF SeenInv, Held
<1>5. CASE UNCHANGED <<objects, cache>>
  BY <1>5 DEF SeenInv, Held
<1> QED
  BY <1>1, <1>2, <1>3, <1>4, <1>5

(* Why no wakeup is lost, though a reconcile ends for good only in a few   *)
(* places and often on a copy that is out of date by then.  Either the     *)
(* copy is as the cache shows the resource, so that the write at the end   *)
(* decides what the resource is; or an event has come since the copy was   *)
(* taken, and the key is in the queue; or one is still to come.            *)
FreshInv ==
  worker.pc # "idle" /\ objects[Key] # NoObj /\ cache[Key] = objects[Key] /\ Key \notin queue =>
    Obj = objects[Key]

StatusInv ==
  \A k \in Keys : objects[k] # NoObj /\ objects[k].status.ready = "True" =>
    objects[k].finalizer /\ ~objects[k].status.failed /\ ~objects[k].status.reconciling

(* Where a resource has to be when nothing is on its way to it, unless it  *)
(* is one whose errors its controller may leave to the user ("rejects").   *)
Arrived(obj) == Ready(obj) /\ ~obj.status.failed /\ ~obj.status.reconciling

ResultInv(rejects) ==
  \A k \in Keys : objects[k] # NoObj /\ Quiet(k) =>
    objects[k].finalizer /\ ~objects[k].deleting /\ (k \in rejects \/ Arrived(objects[k]))

(* "manage" are the steps of a reconcile that read a managed resource.     *)
WakeInv(manage, rejects) ==
  /\ StatusInv /\ FreshInv /\ ResultInv(rejects)
  /\ worker.pc \in manage => Obj.finalizer /\ ~Obj.deleting
  /\ worker.pc = "addFinalizer" => ~Obj.finalizer

LEMMA WakeInvInit ==
  ASSUME NEW manage, NEW rejects, "idle" \notin manage, worker = Idle, StatusInv,
         \A k \in Keys : cache[k] = NoObj
  PROVE  WakeInv(manage, rejects)
<1>1. worker.pc = "idle"
  BY DEF Idle
<1> QED
  BY <1>1 DEF WakeInv, FreshInv, ResultInv, Quiet

LEMMA WakeInvMeansReady ==
  ASSUME NEW manage, WakeInv(manage, {})
  PROVE  QuietIsReady
BY DEF WakeInv, ResultInv, Arrived, QuietIsReady

(* What a user changed the operator has not seen yet.                      *)
LEMMA UsersAreUnseen ==
  ASSUME NEW steps, NEW locals, RuntimeInv(steps, locals), CopiesInv, UserNext,
         NEW k \in Keys, objects'[k] # objects[k], objects'[k] # NoObj
  PROVE  cache[k] # objects'[k]
<1>1. cache[k] # NoObj =>
        cache[k].uid \in Nat /\ cache[k].gen \in Nat /\ cache[k].uid <= edits
  BY RuntimeAssumption DEF RuntimeInv, RuntimeTypeOK, CatalogObjects
<1>2. edits \in Nat /\ (objects[k] # NoObj => objects[k].gen \in Nat)
  BY RuntimeAssumption DEF RuntimeInv, RuntimeTypeOK, CatalogObjects
<1>3. Precedes(cache[k], objects[k])
  BY DEF CopiesInv
<1>4. \/ objects[k] = NoObj /\ objects'[k].uid = edits + 1
      \/ /\ objects[k] # NoObj /\ objects'[k].uid = objects[k].uid
         /\ objects'[k].gen = objects[k].gen + 1
  BY UserVersionEffect
<1> QED
  BY <1>1, <1>2, <1>3, <1>4 DEF Precedes, SameLife

LEMMA UsersKeepStatusInv ==
  ASSUME NEW steps, NEW locals, RuntimeInv(steps, locals), StatusInv, UserNext
  PROVE  StatusInv'
<1> SUFFICES ASSUME NEW k \in Keys, objects'[k] # NoObj
             PROVE  \/ objects'[k].status.ready = "Unknown"
                    \/ /\ objects[k] # NoObj /\ objects'[k].status = objects[k].status
                       /\ objects'[k].finalizer = objects[k].finalizer
  BY DEF StatusInv
<1>1. PICK j \in Keys : \/ \E spec \in Specs[j] : CreateObject(j, spec)
                        \/ \E spec \in Specs[j] : EditObject(j, spec)
                        \/ DeleteObject(j)
  BY DEF UserNext
<1>2. objects[k] # NoObj => objects[k] \in CatalogObjects(k)
  BY DEF RuntimeInv, RuntimeTypeOK
<1>3. CASE j # k
  BY <1>1, <1>3 DEF CreateObject, EditObject, DeleteObject, Edit, RuntimeInv, RuntimeTypeOK
<1>4. CASE j = k /\ \E spec \in Specs[k] : CreateObject(k, spec)
  BY <1>4 DEF CreateObject, Edit, NewObject, NoStatus, RuntimeInv, RuntimeTypeOK
<1>5. CASE j = k /\ \E spec \in Specs[k] : EditObject(k, spec)
  BY <1>2, <1>5 DEF EditObject, Edit, Edited, CatalogObjects, RuntimeInv, RuntimeTypeOK
<1>6. CASE j = k /\ DeleteObject(k)
  BY <1>2, <1>6 DEF DeleteObject, Edit, Deleted, CatalogObjects, RuntimeInv, RuntimeTypeOK
<1> QED
  BY <1>1, <1>3, <1>4, <1>5, <1>6

LEMMA UsersKeepWakeInv ==
  ASSUME NEW steps, NEW locals, RuntimeInv(steps, locals), CopiesInv,
         NEW manage, NEW rejects, WakeInv(manage, rejects), UserNext
  PROVE  WakeInv(manage, rejects)'
<1>1. UNCHANGED <<cache, queue, worker>> /\ Key' = Key /\ Obj' = Obj
  BY UserEffect DEF Key, Obj
<1>2. \A k \in Keys : objects'[k] # NoObj /\ cache[k] = objects'[k] => objects'[k] = objects[k]
  BY UsersAreUnseen
<1>3. StatusInv'
  BY UsersKeepStatusInv DEF WakeInv
<1>4. FreshInv'
  BY <1>1, <1>2, WorkerAtAStep DEF WakeInv, FreshInv
<1>5. ResultInv(rejects)'
  BY <1>1, <1>2 DEF WakeInv, ResultInv, Quiet, Arrived, Ready
<1> QED
  BY <1>1, <1>3, <1>4, <1>5 DEF WakeInv

LEMMA SyncKeepsWakeInv ==
  ASSUME NEW steps, NEW locals, RuntimeInv(steps, locals),
         NEW manage, NEW rejects, WakeInv(manage, rejects), NEW k \in Keys, Sync(k)
  PROVE  WakeInv(manage, rejects)'
<1>1. /\ UNCHANGED <<objects, worker>> /\ Key' = Key /\ Obj' = Obj
      /\ queue' = queue \cup {k} /\ \A j \in Keys : j # k => cache'[j] = cache[j]
  BY DEF Sync, Key, Obj, RuntimeInv, RuntimeTypeOK
<1>2. FreshInv'
  BY <1>1, WorkerAtAStep DEF WakeInv, FreshInv
<1>3. ResultInv(rejects)'
  BY <1>1 DEF WakeInv, ResultInv, Quiet, Arrived, Ready
<1> QED
  BY <1>1, <1>2, <1>3 DEF WakeInv, StatusInv

LEMMA TakeKeepsWakeInv ==
  ASSUME NEW steps, NEW locals, RuntimeInv(steps, locals), "idle" \notin steps,
         NEW manage, NEW rejects, WakeInv(manage, rejects),
         NEW k \in Keys, NEW step, NEW local, Take(k, step, local),
         step \in manage => cache[k].finalizer /\ ~cache[k].deleting,
         step = "addFinalizer" => ~cache[k].finalizer
  PROVE  WakeInv(manage, rejects)'
<1>1. /\ UNCHANGED <<objects, cache>> /\ queue' = queue \ {k}
      /\ worker'.pc = step /\ worker'.key = k /\ Key' = k /\ Obj' = cache[k]
  BY DEF Take, Key, Obj
<1>2. worker.key \notin Keys
  BY RuntimeAssumption DEF Take, Waiting, RuntimeInv, RuntimeTypeOK, Reconciles, Idle
<1>3. FreshInv'
  BY <1>1 DEF FreshInv
<1>4. ResultInv(rejects)'
  BY <1>1, <1>2 DEF WakeInv, ResultInv, Quiet, Arrived, Ready
<1> QED
  BY <1>1, <1>3, <1>4 DEF WakeInv, StatusInv

LEMMA IdleKeepsWakeInv ==
  ASSUME NEW steps, NEW locals, RuntimeInv(steps, locals),
         NEW manage, NEW rejects, WakeInv(manage, rejects), "idle" \notin manage,
         \/ \E k \in Keys : Skip(k)
         \/ Restart
         \/ Resync
         \/ BecomeCalm
  PROVE  WakeInv(manage, rejects)'
<1>1. CASE \E k \in Keys : Skip(k)
  <2>1. PICK k \in Keys : Skip(k)
    BY <1>1
  <2>2. UNCHANGED <<objects, cache, worker>> /\ queue' = queue \ {k} /\ worker.pc = "idle"
    BY <2>1 DEF Skip, Waiting
  <2>3. objects[k] # NoObj => cache[k] # objects[k]
    BY <2>1 DEF Skip, Terminated, Unmanaged, Managed, Cached, RuntimeInv, RuntimeTypeOK
  <2>4. ResultInv(rejects)'
    BY <2>2, <2>3 DEF WakeInv, ResultInv, Quiet, Arrived, Ready
  <2> QED
    BY <2>2, <2>4 DEF WakeInv, StatusInv, FreshInv, Obj
<1>2. CASE Restart
  <2>1. /\ UNCHANGED objects /\ worker' = Idle /\ worker'.pc = "idle"
        /\ \A k \in Keys : objects[k] # NoObj => k \in queue'
    BY <1>2 DEF Restart, Idle
  <2> QED
    BY <2>1 DEF WakeInv, StatusInv, FreshInv, ResultInv, Quiet
<1>3. CASE Resync
  <2>1. UNCHANGED <<objects, cache, worker>> /\ queue \subseteq queue'
    BY <1>3 DEF Resync
  <2> QED
    BY <2>1 DEF WakeInv, StatusInv, FreshInv, ResultInv, Quiet, Arrived, Ready, Key, Obj
<1>4. CASE BecomeCalm
  <2>1. UNCHANGED <<objects, cache, worker, queue>>
    BY <1>4 DEF BecomeCalm
  <2> QED
    BY <2>1 DEF WakeInv, StatusInv, FreshInv, ResultInv, Quiet, Arrived, Ready, Key, Obj
<1> QED
  BY <1>1, <1>2, <1>3, <1>4

(* A reconcile goes on, or is tried again.                                 *)
LEMMA OnwardKeepsWakeInv ==
  ASSUME NEW manage, NEW rejects, WakeInv(manage, rejects), worker.pc # "idle",
         UNCHANGED <<objects, cache, queue>>,
         NEW step, Onward(step), step \in manage => worker.pc \in manage,
         step # "addFinalizer"
  PROVE  WakeInv(manage, rejects)'
<1>1. worker'.key = worker.key /\ Key' = Key /\ Obj' = Obj /\ worker'.pc = step
  BY DEF Onward, Key
<1>2. ResultInv(rejects)'
  BY <1>1 DEF WakeInv, ResultInv, Quiet, Arrived, Ready
<1> QED
  BY <1>1, <1>2 DEF WakeInv, StatusInv, FreshInv

LEMMA RetryKeepsWakeInv ==
  ASSUME NEW manage, NEW rejects, WakeInv(manage, rejects), "idle" \notin manage,
         UNCHANGED cache, \A k \in Keys : objects'[k] = objects[k] \/ k = Key,
         StatusInv', Retry
  PROVE  WakeInv(manage, rejects)'
<1>1. worker' = Idle /\ worker'.pc = "idle" /\ queue' = queue \cup {Key}
  BY DEF Retry, Idle
<1>2. ResultInv(rejects)'
  BY <1>1 DEF WakeInv, ResultInv, Quiet, Arrived, Ready, Key
<1> QED
  BY <1>1, <1>2 DEF WakeInv, FreshInv

LEMMA GotoKeepsWakeInv ==
  ASSUME NEW steps, NEW locals, RuntimeInv(steps, locals), worker.pc # "idle",
         NEW manage, NEW rejects, WakeInv(manage, rejects), "idle" \notin manage,
         UNCHANGED <<objects, cache>>,
         \/ \E step \in steps : /\ Goto(step) /\ step # "addFinalizer"
                                /\ step \in manage => worker.pc \in manage
         \/ Retry
  PROVE  WakeInv(manage, rejects)'
<1>1. CASE Retry
  BY <1>1, RetryKeepsWakeInv DEF WakeInv, StatusInv
<1>2. CASE \E step \in steps : /\ Goto(step) /\ step # "addFinalizer"
                               /\ step \in manage => worker.pc \in manage
  BY <1>2, GotoGoesOnward, OnwardKeepsWakeInv
<1> QED
  BY <1>1, <1>2

(* A reconcile ends for good: what it leaves behind is where it has to be, *)
(* or has yet to be seen.                                                  *)
LEMMA DoneKeepsWakeInv ==
  ASSUME NEW manage, NEW rejects, WakeInv(manage, rejects), "idle" \notin manage,
         UNCHANGED cache, \A k \in Keys : objects'[k] = objects[k] \/ k = Key,
         StatusInv', Done,
         objects'[Key] # NoObj /\ cache[Key] = objects'[Key] /\ Key \notin queue =>
           /\ objects'[Key].finalizer /\ ~objects'[Key].deleting
           /\ Key \in rejects \/ Arrived(objects'[Key])
  PROVE  WakeInv(manage, rejects)'
<1>1. worker' = Idle /\ worker'.pc = "idle" /\ UNCHANGED queue
  BY DEF Done, Idle
<1>2. ResultInv(rejects)'
  <2> SUFFICES ASSUME NEW k \in Keys, objects'[k] # NoObj, Quiet(k)'
               PROVE  /\ objects'[k].finalizer /\ ~objects'[k].deleting
                      /\ k \in rejects \/ Arrived(objects'[k])
    BY DEF ResultInv, Arrived, Ready
  <2>1. CASE k = Key
    BY <1>1, <2>1 DEF Quiet
  <2>2. CASE k # Key
    BY <1>1, <2>2 DEF WakeInv, ResultInv, Quiet, Key
  <2> QED
    BY <2>1, <2>2
<1> QED
  BY <1>1, <1>2 DEF WakeInv, FreshInv

(* What the statuses that are written say.                                 *)
LEMMA StatusesOfAnObject ==
  ASSUME NEW k \in Keys, NEW obj \in CatalogObjects(k), NEW name
  PROVE  /\ WithFinalizer(obj).status = obj.status
         /\ AsFailed(obj).status.ready = "False"
         /\ AsReconciling(obj).status.ready = "False"
         /\ Arrived(AsReady(obj, name))
<1>1. obj.status \in Statuses(MaxEdits, Names)
  BY DEF CatalogObjects
<1>2. WithFinalizer(obj).status = obj.status
  BY DEF WithFinalizer, CatalogObjects
<1>3. AsFailed(obj).status = SetFailed(obj.status, obj.gen)
  BY DEF AsFailed, CatalogObjects
<1>4. AsReconciling(obj).status = SetReconciling(obj.status, obj.gen)
  BY DEF AsReconciling, CatalogObjects
<1>5. /\ AsReady(obj, name).status = [SetReady(obj.status, obj.gen) EXCEPT !.recorded = name]
      /\ AsReady(obj, name).gen = obj.gen
  BY DEF AsReady, CatalogObjects
<1>6. SetFailed(obj.status, obj.gen).ready = "False"
  BY <1>1 DEF SetFailed, Statuses
<1>7. SetReconciling(obj.status, obj.gen).ready = "False"
  BY <1>1 DEF SetReconciling, Statuses
<1>8. Arrived(AsReady(obj, name))
  BY <1>1, <1>5 DEF SetReady, Statuses, Arrived, Ready
<1> QED
  BY <1>2, <1>3, <1>4, <1>6, <1>7, <1>8

(* A write of the resource that does not let it go, and its status.        *)
LEMMA WriteStatusEffect ==
  ASSUME NEW steps, NEW locals, RuntimeInv(steps, locals), worker.pc # "idle",
         NEW o, NEW name \in Names \cup {NoName},
         NEW new \in {WithFinalizer(Obj), AsFailed(Obj), AsReconciling(Obj), AsReady(Obj, name)},
         Write(o, new)
  PROVE  /\ Key \in Keys
         /\ \A k \in Keys :
              \/ objects'[k] = objects[k]
              \/ k = Key /\ objects[k] = Obj /\ objects'[k] = new
         /\ objects[Key] = Obj => /\ Rewrites(Obj, new)
                                  /\ new # WithFinalizer(Obj) => new.finalizer = Obj.finalizer
<1>1. Key \in Keys /\ Obj \in CatalogObjects(Key) /\ Obj # NoObj
  BY WorkerAtAStep, NoObjIsNoObject
<1>2. \A k \in Keys : \/ objects'[k] = objects[k]
                      \/ k = Key /\ objects[k] = Obj /\ objects'[k] = Stored(new)
  BY WriteEffect
<1>3. objects[Key] = Obj => Obj.status.readyGen <= Obj.gen /\ (Obj.deleting => Obj.finalizer)
  BY <1>1 DEF RuntimeInv, RuntimeTypeOK
<1>4. objects[Key] = Obj =>
        /\ Rewrites(Obj, new)
        /\ new = WithFinalizer(Obj) => new.finalizer
        /\ new # WithFinalizer(Obj) => new.finalizer = Obj.finalizer
  BY <1>1, <1>3, RewritesOfAnObject
<1>5. objects[Key] = Obj => Stored(new) = new
  BY <1>3, <1>4 DEF Stored, Rewrites
<1> QED
  BY <1>1, <1>2, <1>4, <1>5

LEMMA FinalizerStepKeepsStatusInv ==
  ASSUME NEW steps, NEW locals, RuntimeInv(steps, locals),
         NEW teardown, TeardownInv(teardown), "removeFinalizer" \in teardown,
         NEW manage, NEW rejects, WakeInv(manage, rejects), "readyStatus" \in manage, NEW o,
         \/ FinalizerStep(o) \/ WriteRejected(o) \/ WriteWaiting(o)
         \/ \E name \in Names \cup {NoName} : WriteReady(o, name)
  PROVE  StatusInv'
<1>1. worker.pc # "idle"
  BY DEF FinalizerStep, AddFinalizer, RemoveFinalizer, WriteFailed, WriteRejected, WriteWaiting,
         WriteReady, At
<1>2. CASE RemoveFinalizer(o)
  <2>1. \A k \in Keys : objects'[k] \in {objects[k], NoObj}
    BY <1>2, RemoveFinalizerEffect
  <2> QED
    BY <2>1 DEF WakeInv, StatusInv
<1>3. CASE ~RemoveFinalizer(o)
  <2>1. PICK name \in Names \cup {NoName} :
          \/ Write(o, WithFinalizer(Obj)) \/ Write(o, AsFailed(Obj))
          \/ Write(o, AsReconciling(Obj))
          \/ Write(o, AsReady(Obj, name)) /\ worker.pc = "readyStatus"
    BY <1>3 DEF FinalizerStep, AddFinalizer, WriteFailed, WriteRejected, WriteWaiting,
                WriteReady, At
  <2>2. PICK new \in {WithFinalizer(Obj), AsFailed(Obj), AsReconciling(Obj), AsReady(Obj, name)} :
          Write(o, new) /\ (new = AsReady(Obj, name) => \/ worker.pc = "readyStatus"
                                                      \/ new = WithFinalizer(Obj)
                                                      \/ new = AsFailed(Obj)
                                                      \/ new = AsReconciling(Obj))
    BY <2>1
  <2>3. /\ \A k \in Keys : \/ objects'[k] = objects[k]
                           \/ k = Key /\ objects[k] = Obj /\ objects'[k] = new
        /\ objects[Key] = Obj => Rewrites(Obj, new)
                                 /\ (new # WithFinalizer(Obj) => new.finalizer = Obj.finalizer)
    BY <1>1, <2>2, WriteStatusEffect
  <2>4. Key \in Keys /\ Obj \in CatalogObjects(Key) /\ Obj # NoObj
    BY <1>1, WorkerAtAStep, NoObjIsNoObject
  <2>5. /\ WithFinalizer(Obj).status = Obj.status
        /\ AsFailed(Obj).status.ready = "False" /\ AsReconciling(Obj).status.ready = "False"
        /\ Arrived(AsReady(Obj, name))
    BY <2>4, StatusesOfAnObject
  <2>6. WithFinalizer(Obj).finalizer
    BY <2>4 DEF WithFinalizer, CatalogObjects
  <2>7. objects[Key] = Obj /\ new.status.ready = "True" =>
          new.finalizer /\ ~new.status.failed /\ ~new.status.reconciling
    <3>1. CASE new = WithFinalizer(Obj)
      BY <2>4, <2>5, <2>6, <3>1 DEF WakeInv, StatusInv
    <3>2. CASE new = AsReady(Obj, name) /\ worker.pc = "readyStatus"
      BY <2>3, <2>5, <2>6, <3>2 DEF WakeInv, Arrived
    <3>3. CASE new \in {AsFailed(Obj), AsReconciling(Obj)}
      BY <2>5, <3>3
    <3> QED
      BY <2>2, <3>1, <3>2, <3>3
  <2> QED
    BY <2>3, <2>7 DEF WakeInv, StatusInv
<1> QED
  BY <1>2, <1>3

LEMMA FinalizerStepKeepsWakeInv ==
  ASSUME NEW steps, NEW locals, RuntimeInv(steps, locals), CacheInv,
         NEW teardown, TeardownInv(teardown), "removeFinalizer" \in teardown,
         NEW manage, NEW rejects, WakeInv(manage, rejects), "idle" \notin manage,
         "readyStatus" \in manage, rejects = {} \/ "rejectStatus" \in manage, NEW o,
         \/ FinalizerStep(o) \/ WriteWaiting(o)
         \/ Key \in rejects /\ WriteRejected(o)
         \/ \E name \in Names \cup {NoName} : WriteReady(o, name)
  PROVE  WakeInv(manage, rejects)'
<1>1. worker.pc # "idle" /\ UNCHANGED cache /\ (Retry \/ Done)
  BY DEF FinalizerStep, AddFinalizer, RemoveFinalizer, WriteFailed, WriteRejected, WriteWaiting,
         WriteReady, At
<1>2. Key \in Keys /\ Obj \in CatalogObjects(Key) /\ Obj # NoObj
  BY <1>1, WorkerAtAStep, NoObjIsNoObject
<1>3. StatusInv'
  BY FinalizerStepKeepsStatusInv
<1>4. \A k \in Keys : objects'[k] = objects[k] \/ k = Key
  <2>1. PICK new : Write(o, new)
    BY DEF FinalizerStep, AddFinalizer, RemoveFinalizer, WriteFailed, WriteRejected,
           WriteWaiting, WriteReady
  <2> QED
    BY <1>1, <2>1, WriteEffect
<1>5. CASE Retry
  BY <1>1, <1>3, <1>4, <1>5, RetryKeepsWakeInv
<1>6. ASSUME Done, ~Retry, objects'[Key] # NoObj, cache[Key] = objects'[Key], Key \notin queue
      PROVE  /\ objects'[Key].finalizer /\ ~objects'[Key].deleting
             /\ Key \in rejects \/ Arrived(objects'[Key])
  <2>1. CASE RemoveFinalizer(o)
    <3>1. objects[Key] = Obj /\ Obj.deleting
      BY <1>6, <2>1 DEF RemoveFinalizer, At, TeardownInv, Written
    <3>2. objects'[Key] = NoObj
      <4>1. objects'[Key] = Stored(WithoutFinalizer(Obj))
        BY <1>2, <1>6, <2>1, <3>1
          DEF RemoveFinalizer, Write, Written, Call, Updated, RuntimeInv, RuntimeTypeOK
      <4> QED
        BY <1>2, <3>1, <4>1 DEF Stored, WithoutFinalizer, CatalogObjects
    <3> QED
      BY <1>6, <3>2
  <2>2. CASE AddFinalizer(o)
    <3>1. objects[Key] = Obj /\ ~Obj.finalizer /\ objects'[Key] = WithFinalizer(Obj)
      <4>1. objects[Key] = Obj /\ o = "ok"
        BY <1>6, <2>2 DEF AddFinalizer, Written
      <4>2. objects'[Key] = Stored(WithFinalizer(Obj))
        BY <1>2, <2>2, <4>1
          DEF AddFinalizer, Write, Call, Updated, RuntimeInv, RuntimeTypeOK
      <4>3. WithFinalizer(Obj).finalizer
        BY <1>2 DEF WithFinalizer, CatalogObjects
      <4> QED
        BY <2>2, <4>1, <4>2, <4>3 DEF AddFinalizer, At, WakeInv, Stored
    <3>2. ~Obj.deleting
      BY <1>2, <3>1 DEF RuntimeInv, RuntimeTypeOK
    <3>3. WithFinalizer(Obj).finalizer /\ ~WithFinalizer(Obj).deleting
      BY <1>2, <3>2 DEF WithFinalizer, CatalogObjects
    <3> QED
      BY <1>2, <1>6, <3>1, <3>3 DEF CacheInv, Held
  <2>3. CASE \E name \in Names \cup {NoName} : WriteReady(o, name)
    <3>1. PICK name \in Names \cup {NoName} : WriteReady(o, name)
      BY <2>3
    <3>2. objects[Key] \in {Obj, NoObj} /\ o = "ok" /\ Obj.finalizer /\ ~Obj.deleting
      BY <1>6, <3>1 DEF WriteReady, At, WakeInv
    <3>3. objects[Key] = Obj
      BY <1>2, <1>6, <3>1, <3>2 DEF WriteReady, Write, Call, Updated
    <3>4. objects'[Key] = Stored(AsReady(Obj, name))
      BY <1>2, <3>1, <3>2, <3>3
        DEF WriteReady, Write, Call, Updated, RuntimeInv, RuntimeTypeOK
    <3>5. AsReady(Obj, name).finalizer /\ ~AsReady(Obj, name).deleting
      BY <1>2, <3>2 DEF AsReady, CatalogObjects
    <3>6. Arrived(AsReady(Obj, name))
      BY <1>2, StatusesOfAnObject
    <3> QED
      BY <3>4, <3>5, <3>6 DEF Stored
  <2>4. CASE Key \in rejects /\ WriteRejected(o)
    <3>1. Write(o, AsFailed(Obj)) /\ Obj.finalizer /\ ~Obj.deleting
      BY <2>4 DEF WriteRejected, At, WakeInv
    <3>2. \/ objects'[Key] = objects[Key]
          \/ objects[Key] = Obj /\ objects'[Key] = Stored(AsFailed(Obj))
      BY <1>1, <1>2, <3>1, WriteEffect
    <3>3. AsFailed(Obj).finalizer /\ ~AsFailed(Obj).deleting
      BY <1>2, <3>1 DEF AsFailed, CatalogObjects
    <3>4. objects'[Key] = objects[Key] => objects[Key] = Obj
      BY <1>1, <1>6 DEF WakeInv, FreshInv
    <3> QED
      BY <2>4, <3>1, <3>2, <3>3, <3>4 DEF Stored
  <2>5. ~WriteFailed(o) /\ ~WriteWaiting(o)
    BY <1>6 DEF WriteFailed, WriteWaiting
  <2> QED
    BY <2>1, <2>2, <2>3, <2>4, <2>5 DEF FinalizerStep
<1> QED
  BY <1>1, <1>3, <1>4, <1>5, <1>6, DoneKeepsWakeInv

----------------------------------------------------------------------------
(* How a resource moves through the life of a Catalog Item.                *)
LEMMA UserPhases ==
  ASSUME NEW steps, NEW locals, RuntimeInv(steps, locals), UserNext
  PROVE  \E k \in Keys :
           /\ \A j \in Keys : j # k => Phase(j)' = Phase(j)
           /\ \/ Phase(k)' = Phase(k)
              \/ Phase(k) = "absent" /\ Phase(k)' = "unmanaged"
              \/ Phase(k) = "unmanaged" /\ Phase(k)' = "absent"
              \/ Phase(k) = "managed" /\ Phase(k)' = "deleting"
<1>1. PICK k \in Keys : \E obj : Edit(k, obj)
  BY DEF UserNext, CreateObject, EditObject, DeleteObject
<1>2. \A j \in Keys : j # k => objects'[j] = objects[j]
  BY <1>1 DEF Edit
<1>3. \A j \in Keys : j # k => Phase(j)' = Phase(j)
  BY <1>2 DEF Phase
<1>4. \/ Phase(k)' = Phase(k)
      \/ Phase(k) = "absent" /\ Phase(k)' = "unmanaged"
      \/ Phase(k) = "unmanaged" /\ Phase(k)' = "absent"
      \/ Phase(k) = "managed" /\ Phase(k)' = "deleting"
  BY UserEffect DEF Phase
<1> QED
  BY <1>3, <1>4

LEMMA WritePhases ==
  ASSUME NEW steps, NEW locals, RuntimeInv(steps, locals),
         NEW teardown, TeardownInv(teardown), "removeFinalizer" \in teardown, NEW o,
         \/ FinalizerStep(o) \/ WriteRejected(o)
         \/ \E name \in Names \cup {NoName} : WriteReady(o, name)
  PROVE  \E k \in Keys :
           /\ worker.pc # "idle" /\ k = Key
           /\ \A j \in Keys : j # k => Phase(j)' = Phase(j)
           /\ \/ Phase(k)' = Phase(k)
              \/ Phase(k) = "unmanaged" /\ Phase(k)' = "managed"
              \/ /\ worker.pc = "removeFinalizer"
                 /\ Phase(k) = "deleting" /\ Phase(k)' = "absent"
<1>1. worker.pc # "idle"
  BY DEF FinalizerStep, AddFinalizer, RemoveFinalizer, WriteFailed, WriteRejected,
         WriteReady, At
<1>2. Key \in Keys /\ Obj # NoObj
  BY <1>1, WorkerAtAStep, NoObjIsNoObject
<1>3. PICK k \in Keys : k = Key
  BY <1>2
<1>4. CASE RemoveFinalizer(o)
  <2>1. worker.pc = "removeFinalizer"
    BY <1>4 DEF RemoveFinalizer, At
  <2>2. \A j \in Keys : \/ objects'[j] = objects[j]
                        \/ j = Key /\ objects[j] = Obj /\ objects'[j] = NoObj
    BY <1>4, RemoveFinalizerEffect
  <2>3. Obj.deleting /\ (Obj.finalizer \/ objects[Key] # Obj)
    BY <1>2, <2>1 DEF TeardownInv, RuntimeInv, RuntimeTypeOK
  <2>4. \A j \in Keys : j # k => Phase(j)' = Phase(j)
    BY <1>3, <2>2 DEF Phase
  <2>5. \/ Phase(k)' = Phase(k)
        \/ Phase(k) = "deleting" /\ Phase(k)' = "absent"
    BY <1>2, <1>3, <2>2, <2>3 DEF Phase
  <2> QED
    BY <1>1, <1>3, <2>1, <2>4, <2>5
<1>5. CASE ~RemoveFinalizer(o)
  <2>1. \A j \in Keys : \/ objects'[j] = objects[j]
                        \/ j = Key /\ objects[j] = Obj /\ Keeps(objects[j], objects'[j])
    BY <1>5, OtherWritesEffect
  <2>2. \A j \in Keys : objects[j] # NoObj /\ objects[j].deleting => objects[j].finalizer
    BY DEF RuntimeInv, RuntimeTypeOK
  <2>3. \A j \in Keys : j # k => Phase(j)' = Phase(j)
    BY <1>3, <2>1 DEF Phase
  <2>4. \/ Phase(k)' = Phase(k)
        \/ Phase(k) = "unmanaged" /\ Phase(k)' = "managed"
    BY <1>2, <1>3, <2>1, <2>2 DEF Phase, Keeps, SameLife
  <2> QED
    BY <1>1, <1>3, <2>3, <2>4
<1> QED
  BY <1>4, <1>5
=============================================================================
