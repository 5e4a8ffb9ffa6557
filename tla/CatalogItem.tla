---------------------------- MODULE CatalogItem ----------------------------
(***************************************************************************)
(* What every platform custom resource ("Catalog Item") of the operator    *)
(* has in common: its metadata and status conditions, the way the API      *)
(* server stores an update of it, and the outcome a remote call can have.  *)
(*                                                                         *)
(* An object is a record                                                   *)
(*   uid        which incarnation of the name it is                        *)
(*   gen        metadata.generation                                        *)
(*   spec       what the user asked for                                    *)
(*   deleting   metadata.deletionTimestamp is set                          *)
(*   finalizer  platform.inari.io/finalizer is attached                    *)
(*   status     the conditions, and the name the status records (the       *)
(*              Keycloak realm; for a ClusterDex, its Application)         *)
(* A name without an object is NoObj.  There is no resourceVersion: an     *)
(* update carries the record that was read and is in conflict exactly when *)
(* the stored record is another one.                                       *)
(***************************************************************************)
EXTENDS Naturals

CONSTANTS NoObj,      \* no object of that name
          NoName      \* the empty string, in an optional name

(* shared_types.go: the three conditions, Ready with the generation it was *)
(* observed at.                                                            *)
Statuses(maxGen, names) ==
  [ready : {"Unknown", "True", "False"}, readyGen : 0..maxGen,
   failed : BOOLEAN, reconciling : BOOLEAN, recorded : names \cup {NoName}]

NoStatus == [ready |-> "Unknown", readyGen |-> 0, failed |-> FALSE,
             reconciling |-> FALSE, recorded |-> NoName]

SetReady(status, gen) ==
  [status EXCEPT !.ready = "True", !.readyGen = gen,
                 !.failed = FALSE, !.reconciling = FALSE]

SetReconciling(status, gen) ==
  [status EXCEPT !.ready = "False", !.readyGen = gen, !.reconciling = TRUE]

SetFailed(status, gen) ==
  [status EXCEPT !.ready = "False", !.readyGen = gen, !.failed = TRUE]

(* The user's side of the API server: an object begins with generation 1;  *)
(* a new spec and a deletion each bump the generation; an object that no   *)
(* finalizer holds goes at once.                                           *)
NewObject(uid, spec) ==
  [uid |-> uid, gen |-> 1, spec |-> spec, deleting |-> FALSE,
   finalizer |-> FALSE, status |-> NoStatus]

Edited(obj, spec) == [obj EXCEPT !.spec = spec, !.gen = @ + 1]

Deleted(obj) ==
  IF obj.finalizer THEN [obj EXCEPT !.deleting = TRUE, !.gen = @ + 1] ELSE NoObj

(* An update by the operator: optimistic, and taking the last finalizer    *)
(* off a terminating object removes it.                                    *)
Stored(obj) == IF obj.deleting /\ ~obj.finalizer THEN NoObj ELSE obj

Updated(objects, key, read, write) ==
  IF objects[key] = read THEN [objects EXCEPT ![key] = Stored(write)] ELSE objects

WithFinalizer(obj)    == [obj EXCEPT !.finalizer = TRUE]
WithoutFinalizer(obj) == [obj EXCEPT !.finalizer = FALSE]
AsFailed(obj)         == [obj EXCEPT !.status = SetFailed(@, obj.gen)]
AsReconciling(obj)    == [obj EXCEPT !.status = SetReconciling(@, obj.gen)]

(* Bug: Ready is claimed for the next generation                           *)
AsReady_NextGen(obj, name) ==
  [obj EXCEPT !.status = [SetReady(@, obj.gen + 1) EXCEPT !.recorded = name]]

AsReady(obj, name)    == [obj EXCEPT !.status = [SetReady(@, obj.gen) EXCEPT !.recorded = name]]
Ready(obj)            == obj.status.ready = "True" /\ obj.status.readyGen = obj.gen

(* A remote call succeeds, fails before the server acts on it ("down"), or *)
(* is acted on with its answer lost ("lost"); the caller cannot tell the   *)
(* last two apart.                                                         *)
Outcomes == {"ok", "down", "lost"}

Call(outcome, before, after) == IF outcome = "down" THEN before ELSE after
=============================================================================
