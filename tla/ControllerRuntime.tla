------------------------- MODULE ControllerRuntime -------------------------
(***************************************************************************)
(* What all controllers of the operator have in common: custom resources   *)
(* in the API server, an informer cache that may lag it, a work queue, one *)
(* worker that reconciles one key at a time, and the finalizer handling of *)
(* common.go.  A controller extends this module with the steps in between. *)
(*                                                                         *)
(* A reconcile is a sequence of steps, one per remote call.  Between any   *)
(* two steps users may create, edit or delete resources, the cache may     *)
(* catch up, a call may fail or lose its answer, and the process may       *)
(* crash, until the environment becomes calm.                              *)
(*                                                                         *)
(* In this and the other modules, an operator Name_Bug is Name with a      *)
(* plausible bug.  No specification uses it; the project replaces Name by  *)
(* it to show that the properties would find the bug.                      *)
(***************************************************************************)
EXTENDS CatalogItem

CONSTANTS Keys,       \* names of the custom resources
          Specs,      \* for each of them the specs a user may give it
          Names,      \* what a status can record
          NoKey,      \* an idle worker works on no key
          NoLocal,    \* a reconcile without local variables
          MaxEdits    \* bound: how often users create, edit or delete resources

ASSUME RuntimeAssumption ==
  /\ MaxEdits \in Nat
  /\ NoKey \notin Keys
  /\ NoName \notin Names
  /\ \A k \in Keys : NoObj \notin [uid : Nat, gen : Nat, spec : Specs[k],
       deleting : BOOLEAN, finalizer : BOOLEAN, status : Statuses(MaxEdits, Names)]

VARIABLES objects,   \* the API server: the stored resources
          cache,     \* the informer cache
          queue,     \* the work queue
          worker,    \* the reconcile in progress: its next step, its key, the object
                     \* as it was read, and local variables
          edits,     \* what users did so far; also numbers the incarnations
          calm       \* from here on no edits, no faults, no crashes, no resync

runtimeVars == <<objects, cache, queue, worker, edits, calm>>

Idle == [pc |-> "idle", key |-> NoKey, obj |-> NoObj, local |-> NoLocal]
Key  == worker.key
Obj  == worker.obj

RuntimeInit ==
  /\ objects = [k \in Keys |-> NoObj]
  /\ cache = [k \in Keys |-> NoObj]
  /\ queue = {}
  /\ worker = Idle
  /\ edits = 0
  /\ calm = FALSE

----------------------------------------------------------------------------
(* Users, through the API server.                                          *)

Edit(k, obj) ==
  /\ ~calm /\ edits < MaxEdits
  /\ objects' = [objects EXCEPT ![k] = obj]
  /\ edits' = edits + 1
  /\ UNCHANGED <<cache, queue, worker, calm>>

CreateObject(k, spec) == objects[k] = NoObj /\ Edit(k, NewObject(edits + 1, spec))

EditObject(k, spec) ==
  objects[k] # NoObj /\ objects[k].spec # spec /\ Edit(k, Edited(objects[k], spec))

DeleteObject(k) ==
  objects[k] # NoObj /\ ~objects[k].deleting /\ Edit(k, Deleted(objects[k]))

----------------------------------------------------------------------------
(* controller-runtime: a watch event brings the cache up to date and       *)
(* enqueues the key; a worker takes a key and Get reads the cache.         *)

Sync(k) ==
  /\ cache[k] # objects[k]
  /\ cache' = [cache EXCEPT ![k] = objects[k]]
  /\ queue' = queue \cup {k}
  /\ UNCHANGED <<objects, worker, edits, calm>>

Waiting(k) == worker.pc = "idle" /\ k \in queue

Take(k, step, local) ==
  /\ Waiting(k)
  /\ queue' = queue \ {k}
  /\ worker' = [pc |-> step, key |-> k, obj |-> cache[k], local |-> local]
  /\ UNCHANGED <<objects, cache, edits, calm>>

(* How a reconcile goes on, ends, or ends with an error (or RequeueAfter)  *)
(* and is tried again.                                                     *)
Goto(step) == worker' = [worker EXCEPT !.pc = step] /\ UNCHANGED queue
Done       == worker' = Idle /\ UNCHANGED queue
Retry      == worker' = Idle /\ queue' = queue \cup {Key}

At(step, outcome) == worker.pc = step /\ (outcome = "ok" \/ ~calm)

(* A write of the resource with the worker's copy: it fails on a conflict. *)
Write(outcome, obj) == objects' = Call(outcome, objects, Updated(objects, Key, Obj, obj))
Written(outcome)    == outcome = "ok" /\ objects[Key] = Obj

(* The process dies and starts again: what it held in memory is lost, the  *)
(* informer lists the API server afresh and enqueues every object.         *)
Restart ==
  /\ ~calm
  /\ cache' = objects
  /\ queue' = {k \in Keys : objects[k] # NoObj}
  /\ worker' = Idle
  /\ UNCHANGED <<objects, edits, calm>>

(* The informer lists its objects again (every ten hours, or because a     *)
(* watch broke), or an event comes twice: a key is enqueued that did not   *)
(* change.  During a reconcile it would only wait for the worker.          *)
Resync ==
  /\ ~calm /\ worker = Idle
  /\ \E k \in Keys : cache[k] # NoObj /\ queue' = queue \cup {k}
  /\ UNCHANGED <<objects, cache, worker, edits, calm>>

BecomeCalm == ~calm /\ calm' = TRUE /\ UNCHANGED <<objects, cache, queue, worker, edits>>

----------------------------------------------------------------------------
(* The beginning of every Reconcile, and the finalizer.                    *)

Cached(k)     == cache[k] # NoObj
Terminated(k) == Cached(k) /\ cache[k].deleting /\ cache[k].finalizer
Unmanaged(k)  == Cached(k) /\ ~cache[k].deleting /\ ~cache[k].finalizer
Managed(k)    == Cached(k) /\ ~cache[k].deleting /\ cache[k].finalizer

(* Get finds nothing, or finalize finds no finalizer: nothing to do        *)
Skip(k) ==
  /\ Waiting(k)
  /\ ~Terminated(k) /\ ~Unmanaged(k) /\ ~Managed(k)
  /\ queue' = queue \ {k}
  /\ UNCHANGED <<objects, cache, worker, edits, calm>>

StartAdoption(k) == Unmanaged(k) /\ Take(k, "addFinalizer", NoLocal)

(* Bug: the error is dropped, as an event of the update is to come anyway  *)
AddFinalizer_NoRetry(o) ==
  /\ At("addFinalizer", o)
  /\ Write(o, WithFinalizer(Obj))
  /\ Done
  /\ UNCHANGED <<cache, edits, calm>>

(* ensureFinalizer: once added, Reconcile returns and waits for the event  *)
AddFinalizer(o) ==
  /\ At("addFinalizer", o)
  /\ Write(o, WithFinalizer(Obj))
  /\ IF Written(o) THEN Done ELSE Retry
  /\ UNCHANGED <<cache, edits, calm>>

(* Bug: a failed update of the finalizer is not retried                    *)
RemoveFinalizer_NoRetry(o) ==
  /\ At("removeFinalizer", o)
  /\ Write(o, WithoutFinalizer(Obj))
  /\ Done
  /\ UNCHANGED <<cache, edits, calm>>

(* finalize, after its cleanup                                             *)
RemoveFinalizer(o) ==
  /\ At("removeFinalizer", o)
  /\ Write(o, WithoutFinalizer(Obj))
  /\ IF Written(o) THEN Done ELSE Retry
  /\ UNCHANGED <<cache, edits, calm>>

(* SetFailed after an error: the error of the status write is dropped      *)
WriteFailed(o) ==
  /\ At("failStatus", o)
  /\ Write(o, AsFailed(Obj))
  /\ Retry
  /\ UNCHANGED <<cache, edits, calm>>

(* SetFailed after an error that is left to the user: nothing is retried,  *)
(* not even the status write                                               *)
WriteRejected(o) ==
  /\ At("rejectStatus", o)
  /\ Write(o, AsFailed(Obj))
  /\ Done
  /\ UNCHANGED <<cache, edits, calm>>

(* Bug: waits for an event of what is missing, which is not watched        *)
WriteWaiting_NoRequeue(o) ==
  /\ At("waitStatus", o)
  /\ Write(o, AsReconciling(Obj))
  /\ Done
  /\ UNCHANGED <<cache, edits, calm>>

(* SetReconciling with the write's own error dropped, then a 15s requeue   *)
WriteWaiting(o) ==
  /\ At("waitStatus", o)
  /\ Write(o, AsReconciling(Obj))
  /\ Retry
  /\ UNCHANGED <<cache, edits, calm>>

(* Bug: the error is dropped, as that of the other status writes is        *)
WriteReady_ErrorDropped(o, name) ==
  /\ At("readyStatus", o)
  /\ Write(o, AsReady(Obj, name))
  /\ Done
  /\ UNCHANGED <<cache, edits, calm>>

(* The status write after success: NotFound is ignored, a conflict retried *)
WriteReady(o, name) ==
  /\ At("readyStatus", o)
  /\ Write(o, AsReady(Obj, name))
  /\ IF o = "ok" /\ objects[Key] \in {Obj, NoObj} THEN Done ELSE Retry
  /\ UNCHANGED <<cache, edits, calm>>

UserNext ==
  \E k \in Keys :
    \/ \E spec \in Specs[k] : CreateObject(k, spec) \/ EditObject(k, spec)
    \/ DeleteObject(k)

FinalizerStep(o) == AddFinalizer(o) \/ RemoveFinalizer(o) \/ WriteFailed(o)

----------------------------------------------------------------------------
CatalogObjects(k) ==
  [uid : 1..MaxEdits, gen : 1..MaxEdits, spec : Specs[k],
   deleting : BOOLEAN, finalizer : BOOLEAN, status : Statuses(MaxEdits, Names)]

Reconciles(k, steps, locals) ==
  [pc : steps, key : {k}, obj : CatalogObjects(k), local : locals]

(* Every object is one the API server could hold, a terminating object is  *)
(* still held by the finalizer, and no condition was observed at a         *)
(* generation the object has not reached.                                  *)
RuntimeTypeOK(steps, locals) ==
  /\ DOMAIN objects = Keys /\ DOMAIN cache = Keys
  /\ \A k \in Keys :
       /\ objects[k] \in CatalogObjects(k) \cup {NoObj}
       /\ cache[k] \in CatalogObjects(k) \cup {NoObj}
       /\ objects[k] # NoObj =>
            /\ objects[k].deleting => objects[k].finalizer
            /\ objects[k].status.readyGen <= objects[k].gen
  /\ queue \subseteq Keys
  /\ worker = Idle \/ \E k \in Keys : worker \in Reconciles(k, steps, locals)
  /\ edits \in 0..MaxEdits
  /\ calm \in BOOLEAN

(* Nothing is on its way to a resource: the cache shows it as it is, its   *)
(* key is not queued, and no reconcile of it is in progress.               *)
Quiet(k) == cache[k] = objects[k] /\ k \notin queue /\ worker.key # k

(* No wakeup is lost: a resource the operator will not look at again until *)
(* something else happens has got where it was going - it is Ready at its  *)
(* generation, without a condition that says otherwise, and nobody waits   *)
(* for its deletion.  Every conflict, lost answer, stale read, wait and    *)
(* crash on the way has left the key in the queue or an event to come.     *)
QuietIsReady ==
  \A k \in Keys : objects[k] # NoObj /\ Quiet(k) =>
    /\ objects[k].finalizer /\ ~objects[k].deleting
    /\ Ready(objects[k])
    /\ ~objects[k].status.failed /\ ~objects[k].status.reconciling

(* The operator has nothing to do until something else happens.            *)
AtRest == worker = Idle /\ queue = {} /\ cache = objects

(* Where a resource is in the life of a Catalog Item (CatalogItemLifecycle)*)
Phase(k) ==
  IF objects[k] = NoObj THEN "absent"
  ELSE IF ~objects[k].finalizer THEN "unmanaged"
  ELSE IF ~objects[k].deleting THEN "managed" ELSE "deleting"
=============================================================================
