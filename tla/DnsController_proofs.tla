------------------------ MODULE DnsController_proofs ------------------------
(***************************************************************************)
(* Theorems about the DNSRecord controller, for any number of records and  *)
(* zones, of users' operations and of faults.                              *)
(***************************************************************************)
EXTENDS DnsController, ControllerRuntime_proofs

ManageSteps == {"applyEndpoint", "readyStatus"}

RecordTypeInv ==
  /\ RuntimeInv(RecordSteps, {NoLocal})
  /\ DOMAIN endpoints = Keys

LEMMA RecordStepSets ==
  /\ ManageSteps \subseteq RecordSteps /\ "idle" \notin RecordSteps
  /\ "idle" \notin ManageSteps /\ "readyStatus" \in ManageSteps
BY DEF ManageSteps, RecordSteps

(* The two controllers share nothing but the bound on the users' operations*)
(* and the calm.                                                           *)
ZonesOnlyStep ==
  /\ UNCHANGED zonesOnly
  /\ \/ Zone!UserNext
     \/ \E z \in Zones : Zone!Sync(z) \/ ZoneTakeKey(z)
     \/ ZoneStep
     \/ Zone!Resync

LEMMA ZonesLeaveRecordsAlone ==
  ASSUME RecordTypeInv, ZonesOnlyStep
  PROVE  /\ UNCHANGED <<objects, cache, queue, worker, endpointVars>>
         /\ edits' \in {edits, edits + 1} /\ edits' \in 0..MaxEdits /\ calm' \in BOOLEAN
<1>1. UNCHANGED <<objects, cache, queue, worker, endpointVars>>
  BY DEF ZonesOnlyStep, zonesOnly, recordVars
<1>2. edits \in 0..MaxEdits /\ calm \in BOOLEAN /\ MaxEdits \in Nat
  BY RuntimeAssumption DEF RecordTypeInv, RuntimeInv, RuntimeTypeOK
<1>3. CASE Zone!UserNext
  <2>1. PICK z \in Zones : \E obj : Zone!Edit(z, obj)
    BY <1>3 DEF Zone!UserNext, Zone!CreateObject, Zone!EditObject, Zone!DeleteObject
  <2>2. edits < MaxEdits /\ edits' = edits + 1 /\ calm' = calm
    BY <2>1 DEF Zone!Edit
  <2> QED
    BY <1>1, <1>2, <2>2
<1>4. CASE ~Zone!UserNext
  <2>1. UNCHANGED <<edits, calm>>
    BY <1>4 DEF ZonesOnlyStep, Zone!Sync, ZoneTakeKey, Zone!Skip, Zone!StartAdoption,
      ZoneTeardown, ZoneUnchanged, ZoneDelegate, Zone!Take, ZoneStep, Zone!AddFinalizer,
      Zone!RemoveFinalizer, Zone!WriteReady, Zone!Resync
  <2> QED
    BY <1>1, <1>2, <2>1
<1> QED
  BY <1>3, <1>4

LEMMA MoreEditsKeepRuntimeInv ==
  ASSUME NEW steps, NEW locals, RuntimeInv(steps, locals),
         UNCHANGED <<objects, cache, queue, worker>>,
         edits' \in {edits, edits + 1}, edits' \in 0..MaxEdits, calm' \in BOOLEAN
  PROVE  RuntimeInv(steps, locals)'
<1>1. edits \in Nat /\ edits <= edits' /\ edits' \in Nat
  BY RuntimeAssumption DEF RuntimeInv, RuntimeTypeOK
<1>2. RuntimeTypeOK(steps, locals)'
  BY DEF RuntimeInv, RuntimeTypeOK, Idle
<1>3. \A k \in Keys : objects[k] # NoObj => objects[k].gen \in Nat /\ objects[k].uid \in Nat
  BY RuntimeAssumption DEF RuntimeInv, RuntimeTypeOK, CatalogObjects
<1>4. \A k \in Keys : cache[k] # NoObj => cache[k].uid \in Nat
  BY RuntimeAssumption DEF RuntimeInv, RuntimeTypeOK, CatalogObjects
<1>5. worker # Idle => worker.obj.uid \in Nat
  BY RuntimeAssumption DEF RuntimeInv, RuntimeTypeOK, Reconciles, CatalogObjects
<1> QED
  BY <1>1, <1>2, <1>3, <1>4, <1>5 DEF RuntimeInv, Idle

----------------------------------------------------------------------------
LEMMA RecordLocalStep ==
  ASSUME NEW o, FinalizerStep(o) \/ WriteRejected(o) \/ WriteRecordReady(o)
  PROVE  FinalizerStep(o) \/ WriteRejected(o)
           \/ \E name \in Names \cup {NoName} : WriteReady(o, name)
BY DEF WriteRecordReady

LEMMA LocalStepsEnd ==
  ASSUME NEW o, FinalizerStep(o) \/ WriteRejected(o) \/ WriteRecordReady(o)
  PROVE  worker' = Idle /\ worker.pc # "idle" /\ UNCHANGED <<cache, edits, calm>>
BY DEF FinalizerStep, AddFinalizer, RemoveFinalizer, WriteFailed, WriteRejected,
       WriteRecordReady, WriteReady, At, Retry, Done

LEMMA RecordTakes ==
  ASSUME NEW k \in Keys, TakeKey(k)
  PROVE  \/ Skip(k)
         \/ \E step \in RecordSteps :
              /\ Take(k, step, NoLocal) /\ cache[k] # NoObj
              /\ step \in ManageSteps => ~cache[k].deleting
              /\ step # "readyStatus"
              /\ step = "applyEndpoint" => CachedZone(k) # NoObj /\ Admitted(k)
BY DEF TakeKey, StartAdoption, StartTeardown, StartWithoutZone, StartRejection, StartRender,
       Unmanaged, Terminated, Managed, Cached, RecordSteps, ManageSteps

LEMMA EndpointStep ==
  ASSUME NEW o, ApplyEndpoint(o)
  PROVE  /\ worker.pc = "applyEndpoint"
         /\ UNCHANGED <<objects, cache, edits, calm, zoneVars, condemned>>
         /\ \E step \in {"readyStatus", "failStatus"} :
              /\ Goto(step)
              /\ step = "readyStatus" => o = "ok"
         /\ \/ UNCHANGED endpoints
            \/ endpoints' = [endpoints EXCEPT ![Key] =
                               [owner |-> Obj.uid, names |-> Obj.spec.names]]
BY DEF ApplyEndpoint, At, Call

(* Which step of the system it is, seen from the records.                  *)
LEMMA DnsSteps ==
  ASSUME [DnsNext]_dnsVars
  PROVE  \/ UserNext /\ UNCHANGED recordsOnly
         \/ ZonesOnlyStep
         \/ \E k \in Keys : (Sync(k) \/ TakeKey(k)) /\ UNCHANGED recordsOnly
         \/ \E o \in Outcomes :
              /\ FinalizerStep(o) \/ WriteRejected(o) \/ WriteRecordReady(o)
              /\ UNCHANGED recordsOnly
         \/ \E o \in Outcomes : ApplyEndpoint(o)
         \/ CollectorStep
         \/ Restart /\ Zone!Restart /\ UNCHANGED endpointVars
         \/ (Resync \/ BecomeCalm) /\ UNCHANGED recordsOnly
         \/ UNCHANGED dnsVars
BY DEF DnsNext, ZonesOnlyStep, RecordStep

(* What the garbage collector does.                                        *)
LEMMA CollectorEffect ==
  ASSUME CollectorStep
  PROVE  /\ UNCHANGED <<objects, cache, queue, worker, edits, calm, zoneVars>>
         /\ \E k \in Keys :
              \/ /\ objects[k] # NoObj => objects[k].uid # endpoints[k].owner
                 /\ endpoints[k] # NoEndpoint
                 /\ condemned' = [condemned EXCEPT ![k] = endpoints[k]]
                 /\ UNCHANGED endpoints
              \/ /\ condemned[k] # NoEndpoint
                 /\ condemned' = [condemned EXCEPT ![k] = NoEndpoint]
                 /\ \/ UNCHANGED endpoints
                    \/ /\ GuardedDeletes => endpoints[k] = condemned[k]
                       /\ endpoints' = [endpoints EXCEPT ![k] = NoEndpoint]
BY DEF CollectorStep, Condemn, Collect, runtimeVars

LEMMA RecordTypeInvStep ==
  ASSUME RecordTypeInv, [DnsNext]_dnsVars
  PROVE  RecordTypeInv'
<1>0. RuntimeInv(RecordSteps, {NoLocal}) /\ DOMAIN endpoints = Keys
  BY DEF RecordTypeInv
<1>1. CASE UserNext /\ UNCHANGED recordsOnly
  BY <1>0, <1>1, UsersKeepRuntimeInv DEF RecordTypeInv, recordsOnly, endpointVars
<1>2. CASE ZonesOnlyStep
  BY <1>0, <1>2, ZonesLeaveRecordsAlone, MoreEditsKeepRuntimeInv DEF RecordTypeInv, endpointVars
<1>3. CASE \E k \in Keys : (Sync(k) \/ TakeKey(k)) /\ UNCHANGED recordsOnly
  <2>1. PICK k \in Keys : (Sync(k) \/ TakeKey(k)) /\ UNCHANGED endpoints
    BY <1>3 DEF recordsOnly, endpointVars
  <2>2. CASE Sync(k)
    BY <1>0, <2>1, <2>2, SyncKeepsRuntimeInv DEF RecordTypeInv
  <2>3. CASE Skip(k)
    BY <1>0, <2>1, <2>3, IdleKeepsRuntimeInv DEF RecordTypeInv
  <2>4. CASE TakeKey(k) /\ ~Skip(k)
    <3>1. \E step \in RecordSteps : Take(k, step, NoLocal) /\ cache[k] # NoObj
      BY <2>4, RecordTakes
    <3> QED
      BY <1>0, <2>1, <3>1, TakeKeepsRuntimeInv DEF RecordTypeInv
  <2> QED
    BY <2>1, <2>2, <2>3, <2>4
<1>4. CASE \E o \in Outcomes :
             /\ FinalizerStep(o) \/ WriteRejected(o) \/ WriteRecordReady(o)
             /\ UNCHANGED recordsOnly
  BY <1>0, <1>4, RecordLocalStep, FinalizerStepKeepsRuntimeInv
    DEF RecordTypeInv, recordsOnly, endpointVars
<1>5. CASE \E o \in Outcomes : ApplyEndpoint(o)
  <2>1. /\ worker.pc # "idle" /\ UNCHANGED <<objects, cache, edits, calm>>
        /\ \E step \in RecordSteps : Goto(step)
        /\ DOMAIN endpoints' = Keys
    BY <1>0, <1>5, EndpointStep DEF RecordSteps
  <2> QED
    BY <1>0, <2>1, GotoKeepsRuntimeInv DEF RecordTypeInv
<1>6. CASE CollectorStep
  <2>1. UNCHANGED <<objects, cache, queue, worker, edits, calm>> /\ DOMAIN endpoints' = Keys
    BY <1>0, <1>6, CollectorEffect
  <2> QED
    BY <1>0, <2>1 DEF RecordTypeInv, RuntimeInv, RuntimeTypeOK, Idle
<1>7. CASE Restart /\ UNCHANGED endpointVars
  BY <1>0, <1>7, IdleKeepsRuntimeInv DEF RecordTypeInv, endpointVars
<1>8. CASE (Resync \/ BecomeCalm) /\ UNCHANGED recordsOnly
  BY <1>0, <1>8, IdleKeepsRuntimeInv DEF RecordTypeInv, recordsOnly, endpointVars
<1>9. CASE UNCHANGED dnsVars
  BY <1>0, <1>9
    DEF dnsVars, runtimeVars, endpointVars, RecordTypeInv, RuntimeInv, RuntimeTypeOK, Idle
<1> QED
  BY <1>1, <1>2, <1>3, <1>4, <1>5, <1>6, <1>7, <1>8, <1>9, DnsSteps

LEMMA RecordVersionInvStep ==
  ASSUME RecordTypeInv, VersionInv(ManageSteps), [DnsNext]_dnsVars
  PROVE  VersionInv(ManageSteps)'
<1>0. /\ RuntimeInv(RecordSteps, {NoLocal})
      /\ "idle" \notin ManageSteps /\ "readyStatus" \in ManageSteps
  BY RecordStepSets DEF RecordTypeInv
<1>1. CASE UserNext
  BY <1>0, <1>1, UsersKeepVersionInv
<1>2. CASE UNCHANGED <<objects, cache, worker>>
  BY <1>2 DEF VersionInv, CopiesInv, ReadyInv, Precedes, SameVersion, SameLife, Ready, Key, Obj
<1>3. CASE \E k \in Keys : Sync(k) \/ TakeKey(k)
  <2>1. PICK k \in Keys : Sync(k) \/ TakeKey(k)
    BY <1>3
  <2>2. CASE Sync(k)
    BY <1>0, <2>2, SyncKeepsVersionInv
  <2>3. CASE Skip(k)
    BY <1>0, <2>3, IdleKeepsVersionInv
  <2>4. CASE TakeKey(k) /\ ~Skip(k)
    <3>1. \E step : /\ Take(k, step, NoLocal) /\ cache[k] # NoObj
                    /\ step \in ManageSteps => ~cache[k].deleting
      BY <2>4, RecordTakes
    <3> QED
      BY <1>0, <3>1, TakeKeepsVersionInv
  <2> QED
    BY <2>1, <2>2, <2>3, <2>4
<1>4. CASE \E o \in Outcomes : FinalizerStep(o) \/ WriteRejected(o) \/ WriteRecordReady(o)
  BY <1>0, <1>4, RecordLocalStep, FinalizerStepKeepsVersionInv
<1>5. CASE \E o \in Outcomes : ApplyEndpoint(o)
  <2>1. /\ worker.pc # "idle" /\ UNCHANGED <<objects, cache>>
        /\ \E step \in RecordSteps :
             Goto(step) /\ (step \in ManageSteps => worker.pc \in ManageSteps)
    BY <1>5, EndpointStep DEF RecordSteps, ManageSteps
  <2> QED
    BY <1>0, <2>1, GotoKeepsVersionInv
<1>6. CASE Restart \/ Resync \/ BecomeCalm
  BY <1>0, <1>6, IdleKeepsVersionInv
<1>7. CASE ZonesOnlyStep
  BY <1>2, <1>7, ZonesLeaveRecordsAlone
<1> QED
  BY <1>1, <1>2, <1>3, <1>4, <1>5, <1>6, <1>7, DnsSteps, CollectorEffect DEF dnsVars, runtimeVars

----------------------------------------------------------------------------
(* The users' operations on the records count for the zones too.           *)
LEMMA RecordsLeaveZonesAlone ==
  ASSUME RecordTypeInv, UserNext
  PROVE  edits' = edits + 1
BY DEF UserNext, CreateObject, EditObject, DeleteObject, Edit

(* An endpoint is written only for an incarnation that users created.      *)
EndpointsOK ==
  /\ endpoints \in [Keys -> Endpoints \cup {NoEndpoint}]
  /\ condemned \in [Keys -> Endpoints \cup {NoEndpoint}]

LEMMA EndpointsStayGood ==
  ASSUME RecordTypeInv, EndpointsOK, [DnsNext]_dnsVars
  PROVE  EndpointsOK'
<1>0. RuntimeInv(RecordSteps, {NoLocal})
  BY DEF RecordTypeInv
<1>1. edits \in Nat
  BY <1>0, RuntimeAssumption DEF RuntimeInv, RuntimeTypeOK
<1>2. edits' \in {edits, edits + 1}
  BY LocalStepsEnd, EndpointStep, ZonesLeaveRecordsAlone, RecordsLeaveZonesAlone, DnsSteps,
    CollectorEffect
    DEF Sync, TakeKey, Skip, StartAdoption, StartTeardown, StartWithoutZone, StartRejection,
      StartRender, Take, Restart, Resync, BecomeCalm, dnsVars, runtimeVars
<1>3. /\ endpoints' \in [Keys -> Endpoints \cup {NoEndpoint}]
      /\ condemned' \in [Keys -> Endpoints \cup {NoEndpoint}]
  <2>1. CASE \E o \in Outcomes : ApplyEndpoint(o)
    <3>1. /\ worker.pc # "idle" /\ UNCHANGED condemned
          /\ \/ UNCHANGED endpoints
             \/ endpoints' = [endpoints EXCEPT ![Key] = [owner |-> Obj.uid, names |-> Obj.spec.names]]
      BY <2>1, EndpointStep
    <3>2. Key \in Keys /\ Obj \in CatalogObjects(Key) /\ Obj.uid <= edits
      BY <1>0, <3>1, WorkerAtAStep DEF RuntimeInv, Obj
    <3>3. Obj.uid \in 1..edits /\ Obj.spec \in RecordSpecs
      BY <1>0, <3>2, RuntimeAssumption, DnsAssumption DEF CatalogObjects
    <3>4. [owner |-> Obj.uid, names |-> Obj.spec.names] \in Endpoints
      BY <3>3 DEF RecordSpecs, Endpoints
    <3> QED
      BY <3>1, <3>4 DEF EndpointsOK
  <2>2. CASE CollectorStep
    BY <2>2, CollectorEffect DEF EndpointsOK
  <2>3. CASE UNCHANGED endpointVars
    BY <2>3 DEF EndpointsOK, endpointVars
  <2> QED
    BY <2>1, <2>2, <2>3, DnsSteps DEF recordsOnly, ZonesOnlyStep, zonesOnly, dnsVars
<1>4. Endpoints \subseteq Endpoints'
  <2>1. 1..edits \subseteq 1..edits'
    BY <1>1, <1>2
  <2> QED
    BY <2>1 DEF Endpoints
<1> QED
  BY <1>3, <1>4 DEF EndpointsOK

(* A record keeps its UID as long as it lives, and a new one gets a new UID*)
LEMMA RecordLives ==
  ASSUME RecordTypeInv, [DnsNext]_dnsVars, NEW k \in Keys, objects'[k] # NoObj
  PROVE  \/ objects[k] # NoObj /\ objects'[k].uid = objects[k].uid
         \/ objects'[k].uid = edits + 1
<1>0. RuntimeInv(RecordSteps, {NoLocal})
  BY DEF RecordTypeInv
<1>1. CASE UserNext
  BY <1>0, <1>1, UserVersionEffect
<1>2. CASE \E o \in Outcomes : FinalizerStep(o) \/ WriteRejected(o) \/ WriteRecordReady(o)
  <2>1. PICK o \in Outcomes : FinalizerStep(o) \/ WriteRejected(o) \/ WriteRecordReady(o)
    BY <1>2
  <2>2. FinalizerStep(o) \/ WriteRejected(o)
          \/ \E name \in Names \cup {NoName} : WriteReady(o, name)
    BY <2>1, RecordLocalStep
  <2>3. Obj # NoObj
    BY <1>0, <2>1, LocalStepsEnd, WorkerAtAStep, NoObjIsNoObject
  <2> QED
    BY <1>0, <2>2, <2>3, WriteVersionEffect DEF Rewrites
<1>3. CASE UNCHANGED objects
  BY <1>3
<1> QED
  BY <1>1, <1>2, <1>3, DnsSteps, EndpointStep, ZonesLeaveRecordsAlone, CollectorEffect DEF Sync,
    TakeKey, Skip, StartAdoption, StartTeardown, StartWithoutZone, StartRejection, StartRender,
    Take, Restart, Resync, BecomeCalm, dnsVars, runtimeVars

(* What the collector is about to delete belonged to a record that is gone,*)
(* and whose UID no other record will ever have.                           *)
CondemnedInv ==
  /\ EndpointsOK
  /\ \A k \in Keys : condemned[k] # NoEndpoint /\ objects[k] # NoObj =>
       objects[k].uid # condemned[k].owner

LEMMA CondemnedInvStep ==
  ASSUME RecordTypeInv, CondemnedInv, [DnsNext]_dnsVars
  PROVE  CondemnedInv'
<1>1. EndpointsOK /\ EndpointsOK'
  BY EndpointsStayGood DEF CondemnedInv
<1>2. edits \in Nat
  BY RuntimeAssumption DEF RecordTypeInv, RuntimeInv, RuntimeTypeOK
<1>3. ASSUME NEW k \in Keys, condemned'[k] # NoEndpoint, objects'[k] # NoObj
      PROVE  objects'[k].uid # condemned'[k].owner
  <2>1. CASE condemned'[k] = condemned[k]
    <3>1. condemned[k].owner \in Nat /\ condemned[k].owner <= edits
      BY <1>1, <1>2, <1>3, <2>1 DEF EndpointsOK, Endpoints
    <3> QED
      BY <1>2, <1>3, <2>1, <3>1, RecordLives DEF CondemnedInv
  <2>2. CASE CollectorStep
    BY <1>1, <1>3, <2>1, <2>2, CollectorEffect DEF EndpointsOK
  <2> QED
    BY <2>1, <2>2, DnsSteps, EndpointStep DEF recordsOnly, ZonesOnlyStep, zonesOnly, dnsVars,
      endpointVars
<1> QED
  BY <1>1, <1>3 DEF CondemnedInv

----------------------------------------------------------------------------
(* Ready can be believed (see VersionInv), and the garbage collector takes *)
(* no endpoint from the record that owns it.                               *)
IsRendered(k, obj) == endpoints[k] = [owner |-> obj.uid, names |-> obj.spec.names]

RecordInv ==
  /\ RecordTypeInv
  /\ VersionInv(ManageSteps)
  /\ CondemnedInv
  /\ worker.pc = "readyStatus" /\ SameLife(Obj, objects[Key]) => IsRendered(Key, Obj)
  /\ ReadyRecordIsRendered

(* What may become of an endpoint.                                         *)
LEMMA EndpointEffect ==
  ASSUME GuardedDeletes, RecordTypeInv, CondemnedInv, [DnsNext]_dnsVars, NEW k \in Keys
  PROVE  \/ UNCHANGED endpoints[k]
         \/ /\ k = Key /\ worker.pc = "applyEndpoint" /\ IsRendered(Key, Obj)'
            /\ UNCHANGED objects /\ Key' = Key /\ Obj' = Obj
         \/ /\ UNCHANGED <<objects, worker>>
            /\ objects[k] # NoObj => objects[k].uid # endpoints[k].owner
<1>0. RuntimeInv(RecordSteps, {NoLocal}) /\ DOMAIN endpoints = Keys
  BY DEF RecordTypeInv
<1>1. CASE \E o \in Outcomes : ApplyEndpoint(o)
  <2>1. /\ worker.pc = "applyEndpoint" /\ UNCHANGED objects
        /\ \E step \in RecordSteps : Goto(step)
        /\ \/ UNCHANGED endpoints
           \/ endpoints' = [endpoints EXCEPT ![Key] = [owner |-> Obj.uid, names |-> Obj.spec.names]]
    BY <1>1, EndpointStep DEF RecordSteps
  <2>2. Key' = Key /\ Obj' = Obj /\ Key \in Keys
    BY <1>0, <2>1, GotoGoesOnward, WorkerAtAStep DEF Onward
  <2> QED
    BY <1>0, <2>1, <2>2 DEF IsRendered
<1>2. CASE CollectorStep
  BY <1>0, <1>2, CollectorEffect DEF CondemnedInv
<1>3. CASE UNCHANGED endpoints
  BY <1>3
<1> QED
  BY <1>1, <1>2, <1>3, DnsSteps
    DEF recordsOnly, ZonesOnlyStep, zonesOnly, dnsVars, endpointVars

(* How the worker of the records goes on.                                  *)
LEMMA WorkersWay ==
  ASSUME RecordTypeInv, [DnsNext]_dnsVars
  PROVE  \/ UNCHANGED worker
         \/ worker' = Idle
         \/ \E k \in Keys : TakeKey(k) /\ ~Skip(k)
         \/ \E o \in Outcomes : ApplyEndpoint(o)
<1>1. UserNext => UNCHANGED worker
  BY DEF UserNext, CreateObject, EditObject, DeleteObject, Edit
<1>2. CASE \E o \in Outcomes : FinalizerStep(o) \/ WriteRejected(o) \/ WriteRecordReady(o)
  BY <1>2, LocalStepsEnd
<1>3. CASE \/ \E k \in Keys : Sync(k) \/ Skip(k)
           \/ CollectorStep
  BY <1>3, CollectorEffect DEF Sync, Skip
<1>4. CASE Restart \/ Resync \/ BecomeCalm \/ UNCHANGED dnsVars
  BY <1>4 DEF Restart, Resync, BecomeCalm, dnsVars, runtimeVars
<1> QED
  BY <1>1, <1>2, <1>3, <1>4, DnsSteps, ZonesLeaveRecordsAlone

(* Only the renderer writes an endpoint.                                   *)
LEMMA EndpointWritten ==
  ASSUME RecordTypeInv, [DnsNext]_dnsVars, NEW k \in Keys
  PROVE  \/ UNCHANGED endpoints[k]
         \/ endpoints'[k] = NoEndpoint
         \/ k = Key /\ worker.pc = "applyEndpoint" /\ endpoints'[k].names = Obj.spec.names
<1>0. DOMAIN endpoints = Keys
  BY DEF RecordTypeInv
<1>1. CASE \E o \in Outcomes : ApplyEndpoint(o)
  BY <1>0, <1>1, EndpointStep
<1>2. CASE CollectorStep
  BY <1>0, <1>2, CollectorEffect
<1>3. CASE UNCHANGED endpoints
  BY <1>3
<1> QED
  BY <1>1, <1>2, <1>3, DnsSteps
    DEF recordsOnly, ZonesOnlyStep, zonesOnly, dnsVars, endpointVars

(* A record becomes Ready only at the end of a reconcile.                  *)
LEMMA RecordBecomesReady ==
  ASSUME RecordTypeInv, [DnsNext]_dnsVars, NEW k \in Keys,
         objects'[k] # NoObj, Ready(objects'[k])
  PROVE  \/ objects[k] # NoObj /\ Ready(objects[k]) /\ Rewrites(objects[k], objects'[k])
         \/ /\ worker.pc = "readyStatus" /\ k = Key /\ objects[k] = Obj
            /\ Rewrites(Obj, objects'[k]) /\ Obj # NoObj
            /\ UNCHANGED endpointVars
<1>0. RuntimeInv(RecordSteps, {NoLocal})
  BY DEF RecordTypeInv
<1>1. CASE objects'[k] = objects[k]
  BY <1>1 DEF Rewrites
<1>2. CASE UserNext
  BY <1>0, <1>1, <1>2, UserVersionEffect
<1>3. CASE \E o \in Outcomes :
             /\ FinalizerStep(o) \/ WriteRejected(o) \/ WriteRecordReady(o)
             /\ UNCHANGED recordsOnly
  <2>1. PICK o \in Outcomes :
          /\ FinalizerStep(o) \/ WriteRejected(o) \/ WriteRecordReady(o)
          /\ UNCHANGED recordsOnly
    BY <1>3
  <2>2. worker.pc # "idle"
    BY <2>1, LocalStepsEnd
  <2>3. Obj # NoObj
    BY <1>0, <2>2, WorkerAtAStep, NoObjIsNoObject
  <2>4. FinalizerStep(o) \/ WriteRejected(o)
          \/ \E name \in Names \cup {NoName} : WriteReady(o, name)
    BY <2>1, RecordLocalStep
  <2> QED
    BY <1>0, <1>1, <2>1, <2>3, <2>4, WriteVersionEffect DEF recordsOnly
<1>4. CASE UNCHANGED objects
  BY <1>1, <1>4
<1> QED
  BY <1>2, <1>3, <1>4, DnsSteps, EndpointStep, ZonesLeaveRecordsAlone, CollectorEffect DEF Sync,
    TakeKey, Skip, StartAdoption, StartTeardown, StartWithoutZone, StartRejection, StartRender,
    Take, Restart, Resync, BecomeCalm, dnsVars, runtimeVars

(* The reconcile that will write Ready has seen to the endpoint, and if its*)
(* record lives on, nobody took it away since.                             *)
LEMMA ReportsWhatIsRendered ==
  ASSUME GuardedDeletes, RecordInv, [DnsNext]_dnsVars,
         worker'.pc = "readyStatus", SameLife(Obj, objects[Key])'
  PROVE  IsRendered(Key, Obj)'
<1>0. /\ RecordTypeInv /\ RuntimeInv(RecordSteps, {NoLocal}) /\ DOMAIN endpoints = Keys
      /\ CondemnedInv
  BY DEF RecordInv, RecordTypeInv
<1>1. CASE \E o \in Outcomes : ApplyEndpoint(o)
  <2>1. PICK o \in Outcomes : ApplyEndpoint(o)
    BY <1>1
  <2>2. PICK step \in {"readyStatus", "failStatus"} :
          Goto(step) /\ (step = "readyStatus" => o = "ok")
    BY <2>1, EndpointStep
  <2>3. worker.pc = "applyEndpoint" /\ step \in RecordSteps
    BY <2>1, EndpointStep DEF RecordSteps
  <2>4. worker'.pc = step /\ Key' = Key /\ Obj' = Obj /\ Key \in Keys
    BY <1>0, <2>2, <2>3, GotoGoesOnward, WorkerAtAStep DEF Onward
  <2>5. endpoints' = [endpoints EXCEPT ![Key] = [owner |-> Obj.uid, names |-> Obj.spec.names]]
    BY <2>1, <2>2, <2>4 DEF ApplyEndpoint, Call
  <2> QED
    BY <1>0, <2>4, <2>5 DEF IsRendered
<1>2. CASE UNCHANGED worker
  <2>1. worker.pc = "readyStatus" /\ Key' = Key /\ Obj' = Obj
    BY <1>2 DEF Key, Obj
  <2>2. Key \in Keys /\ Obj.uid \in Nat /\ Obj.uid <= edits /\ edits \in Nat
    <3>1. Key \in Keys /\ Obj \in CatalogObjects(Key) /\ worker # Idle
      BY <1>0, <2>1, WorkerAtAStep
    <3>2. Obj.uid \in Nat
      BY <3>1, RuntimeAssumption DEF CatalogObjects
    <3>3. Obj.uid <= edits /\ edits \in Nat
      BY <1>0, <3>1, RuntimeAssumption DEF RuntimeInv, RuntimeTypeOK, Obj
    <3> QED
      BY <3>1, <3>2, <3>3
  <2>3. SameLife(Obj, objects'[Key])
    BY <2>1 DEF SameLife
  <2>4. SameLife(Obj, objects[Key])
    <3>1. CASE UserNext
      BY <1>0, <2>2, <2>3, <3>1, UserVersionEffect DEF SameLife
    <3>2. CASE \E o \in Outcomes : FinalizerStep(o) \/ WriteRejected(o) \/ WriteRecordReady(o)
      BY <1>2, <2>1, <3>2, LocalStepsEnd DEF Idle
    <3>3. CASE UNCHANGED objects
      BY <2>3, <3>3
    <3> QED
      BY <1>0, <3>1, <3>2, <3>3, DnsSteps, EndpointStep, ZonesLeaveRecordsAlone, CollectorEffect
        DEF Sync, TakeKey, Skip, StartAdoption, StartTeardown, StartWithoutZone, StartRejection,
          StartRender, Take, Restart, Resync, BecomeCalm, dnsVars, runtimeVars
  <2>5. IsRendered(Key, Obj)
    BY <2>1, <2>4 DEF RecordInv
  <2>6. UNCHANGED endpoints[Key]
    <3>1. PICK k \in Keys : k = Key
      BY <2>2
    <3>2. UNCHANGED endpoints[k]
      BY <1>0, <2>1, <2>4, <2>5, <3>1, EndpointEffect DEF IsRendered, SameLife
    <3> QED
      BY <2>1, <3>1, <3>2
  <2> QED
    BY <2>1, <2>5, <2>6 DEF IsRendered
<1>3. CASE worker' = Idle
  BY <1>3 DEF Idle
<1>4. CASE \E k \in Keys : TakeKey(k) /\ ~Skip(k)
  BY <1>4, RecordTakes DEF Take
<1> QED
  BY <1>0, <1>1, <1>2, <1>3, <1>4, WorkersWay

LEMMA RecordInvStep ==
  ASSUME GuardedDeletes, RecordInv, [DnsNext]_dnsVars
  PROVE  RecordInv'
<1>0. /\ RecordTypeInv /\ VersionInv(ManageSteps) /\ RuntimeInv(RecordSteps, {NoLocal})
      /\ CondemnedInv
  BY DEF RecordInv, RecordTypeInv
<1>1. RecordTypeInv' /\ VersionInv(ManageSteps)' /\ CondemnedInv'
  BY <1>0, RecordTypeInvStep, RecordVersionInvStep, CondemnedInvStep
<1>2. (worker.pc = "readyStatus" /\ SameLife(Obj, objects[Key]) => IsRendered(Key, Obj))'
  BY ReportsWhatIsRendered
<1>3. ReadyRecordIsRendered'
  <2> SUFFICES ASSUME NEW k \in Keys, objects'[k] # NoObj, Ready(objects'[k])
               PROVE  endpoints'[k] = [owner |-> objects'[k].uid, names |-> objects'[k].spec.names]
    BY DEF ReadyRecordIsRendered
  <2>1. CASE /\ worker.pc = "readyStatus" /\ k = Key /\ objects[k] = Obj
             /\ Rewrites(Obj, objects'[k]) /\ Obj # NoObj
             /\ UNCHANGED endpointVars
    BY <2>1 DEF RecordInv, IsRendered, Rewrites, SameLife, endpointVars
  <2>2. CASE objects[k] # NoObj /\ Ready(objects[k]) /\ Rewrites(objects[k], objects'[k])
    <3>1. endpoints[k] = [owner |-> objects[k].uid, names |-> objects[k].spec.names]
      BY <2>2 DEF RecordInv, ReadyRecordIsRendered
    <3>2. CASE UNCHANGED endpoints[k]
      BY <2>2, <3>1, <3>2 DEF Rewrites
    <3>3. CASE /\ k = Key /\ worker.pc = "applyEndpoint" /\ IsRendered(Key, Obj)'
               /\ Key' = Key /\ Obj' = Obj
      <4>1. SameVersion(Obj, objects[k]) /\ Precedes(Obj, objects[k]) /\ Obj # NoObj
        BY <1>0, <2>2, <3>3, WorkerAtAStep, NoObjIsNoObject DEF VersionInv, ReadyInv, CopiesInv
      <4>2. Obj.spec = objects[k].spec /\ Obj.uid = objects[k].uid
        BY <4>1 DEF SameVersion, SameLife, Precedes
      <4> QED
        BY <2>2, <3>3, <4>2 DEF IsRendered, Rewrites
    <3> QED
      BY <1>0, <2>2, <3>1, <3>2, <3>3, EndpointEffect
  <2> QED
    BY <1>0, <2>1, <2>2, RecordBecomesReady
<1> QED
  BY <1>1, <1>2, <1>3 DEF RecordInv

LEMMA RecordInvInit ==
  ASSUME DnsInit
  PROVE  RecordInv
<1>1. /\ worker = Idle /\ queue = {} /\ edits = 1 /\ calm = FALSE
      /\ DOMAIN objects = Keys /\ DOMAIN cache = Keys
      /\ \A k \in Keys : objects[k] = NoObj /\ cache[k] = NoObj
      /\ endpoints = [k \in Keys |-> NoEndpoint] /\ condemned = endpoints
  BY DEF DnsInit
<1>2. 1 \in 0..MaxEdits
  <2>1. MaxEdits \in Nat /\ MaxEdits > 0
    BY RuntimeAssumption, DnsAssumption
  <2> QED
    BY <2>1
<1>3. RecordTypeInv
  BY <1>1, <1>2 DEF RecordTypeInv, RuntimeInv, RuntimeTypeOK
<1>4. VersionInv(ManageSteps)
  BY <1>1, RecordStepSets, VersionInvInit
<1>5. CondemnedInv
  BY <1>1 DEF CondemnedInv, EndpointsOK
<1> QED
  BY <1>1, <1>3, <1>4, <1>5 DEF RecordInv, ReadyRecordIsRendered, Idle

(* A record that is Ready at its current generation has its endpoint, with *)
(* the names of that generation and owned by that very incarnation of the  *)
(* record, though it took the endpoint over from an earlier one for which  *)
(* the garbage collector had already condemned it, and however old the copy*)
(* is that a reconcile under way works with - if the collector deletes an  *)
(* object only as it saw it.                                               *)
THEOREM ReadyMeansRendered ==
  ASSUME GuardedDeletes
  PROVE  DnsSpec => []ReadyRecordIsRendered
<1>1. DnsInit => RecordInv
  BY RecordInvInit
<1>2. RecordInv /\ [DnsNext]_dnsVars => RecordInv'
  BY RecordInvStep
<1>3. RecordInv => ReadyRecordIsRendered
  BY DEF RecordInv
<1> QED
  BY <1>1, <1>2, <1>3, PTL DEF DnsSpec

----------------------------------------------------------------------------
(* No record is forgotten: no deletion waits for a wakeup that was lost.   *)
TeardownSteps == {"removeFinalizer"}
WakeSteps == ManageSteps \cup {"rejectStatus"}

RecordWakeInv ==
  /\ RecordTypeInv
  /\ FinalizerInv({}, TeardownSteps)
  /\ VersionInv(ManageSteps)
  /\ WakeInv(WakeSteps, Keys)

LEMMA RecordStarts ==
  ASSUME NEW k \in Keys, TakeKey(k), ~Skip(k)
  PROVE  \E step : /\ Take(k, step, NoLocal)
                   /\ step \in WakeSteps => cache[k].finalizer /\ ~cache[k].deleting
                   /\ step = "addFinalizer" => ~cache[k].finalizer
                   /\ step \in TeardownSteps => Terminated(k)
BY DEF TakeKey, StartAdoption, StartTeardown, StartWithoutZone, StartRejection, StartRender,
       Unmanaged, Managed, WakeSteps, ManageSteps, TeardownSteps

LEMMA RecordFinalizerInvStep ==
  ASSUME RecordTypeInv, FinalizerInv({}, TeardownSteps), [DnsNext]_dnsVars
  PROVE  FinalizerInv({}, TeardownSteps)'
<1>0. /\ RuntimeInv(RecordSteps, {NoLocal})
      /\ "idle" \notin {} \cup TeardownSteps /\ "removeFinalizer" \in TeardownSteps
  BY DEF RecordTypeInv, TeardownSteps
<1>1. CASE UserNext
  BY <1>0, <1>1, UsersKeepFinalizerInv
<1>2. CASE UNCHANGED <<objects, cache, worker>>
  BY <1>2 DEF FinalizerInv, CacheInv, ReadInv, TeardownInv, Held, SameLife, Key, Obj
<1>3. CASE \E k \in Keys : Sync(k) \/ TakeKey(k)
  <2>1. PICK k \in Keys : Sync(k) \/ TakeKey(k)
    BY <1>3
  <2>2. CASE Sync(k)
    BY <1>0, <2>2, SyncKeepsFinalizerInv
  <2>3. CASE Skip(k)
    BY <1>0, <2>3, IdleKeepsFinalizerInv
  <2>4. CASE TakeKey(k) /\ ~Skip(k)
    <3>1. PICK step : Take(k, step, NoLocal) /\ (step \in TeardownSteps => Terminated(k))
      BY <2>4, RecordStarts
    <3> QED
      BY <1>0, <3>1, TakeKeepsFinalizerInv
  <2> QED
    BY <2>1, <2>2, <2>3, <2>4
<1>4. CASE \E o \in Outcomes : FinalizerStep(o) \/ WriteRejected(o) \/ WriteRecordReady(o)
  BY <1>0, <1>4, RecordLocalStep, FinalizerStepKeepsFinalizerInv
<1>5. CASE \E o \in Outcomes : ApplyEndpoint(o)
  <2>1. /\ worker.pc # "idle" /\ UNCHANGED <<objects, cache>>
        /\ \E step \in RecordSteps : Goto(step) /\ step \notin TeardownSteps
    BY <1>5, EndpointStep DEF RecordSteps, TeardownSteps
  <2> QED
    BY <1>0, <2>1, GotoKeepsFinalizerInv
<1>6. CASE Restart \/ Resync \/ BecomeCalm
  BY <1>0, <1>6, IdleKeepsFinalizerInv
<1>7. CASE ZonesOnlyStep
  BY <1>2, <1>7, ZonesLeaveRecordsAlone
<1> QED
  BY <1>1, <1>2, <1>3, <1>4, <1>5, <1>6, <1>7, DnsSteps, CollectorEffect DEF dnsVars, runtimeVars

LEMMA RecordWakeInvStep ==
  ASSUME RecordWakeInv, [DnsNext]_dnsVars
  PROVE  WakeInv(WakeSteps, Keys)'
<1>0. /\ RecordTypeInv /\ RuntimeInv(RecordSteps, {NoLocal}) /\ CopiesInv /\ CacheInv
      /\ TeardownInv(TeardownSteps) /\ WakeInv(WakeSteps, Keys)
      /\ "idle" \notin WakeSteps /\ "idle" \notin RecordSteps
      /\ {"readyStatus", "rejectStatus"} \subseteq WakeSteps /\ "removeFinalizer" \in TeardownSteps
  BY DEF RecordWakeInv, RecordTypeInv, FinalizerInv, VersionInv, WakeSteps, ManageSteps,
         TeardownSteps, RecordSteps
<1>1. CASE UserNext
  BY <1>0, <1>1, UsersKeepWakeInv
<1>2. CASE UNCHANGED <<objects, cache, queue, worker>>
  BY <1>0, <1>2 DEF WakeInv, StatusInv, FreshInv, ResultInv, Quiet, Arrived, Ready, Key, Obj
<1>3. CASE \E k \in Keys : Sync(k) \/ TakeKey(k)
  <2>1. PICK k \in Keys : Sync(k) \/ TakeKey(k)
    BY <1>3
  <2>2. CASE Sync(k)
    BY <1>0, <2>2, SyncKeepsWakeInv
  <2>3. CASE Skip(k)
    BY <1>0, <2>3, IdleKeepsWakeInv
  <2>4. CASE TakeKey(k) /\ ~Skip(k)
    BY <1>0, <2>4, RecordStarts, TakeKeepsWakeInv
  <2> QED
    BY <2>1, <2>2, <2>3, <2>4
<1>4. CASE \E o \in Outcomes : FinalizerStep(o) \/ WriteRejected(o) \/ WriteRecordReady(o)
  <2>1. PICK o \in Outcomes : FinalizerStep(o) \/ WriteRejected(o) \/ WriteRecordReady(o)
    BY <1>4
  <2>2. Key \in Keys
    BY <1>0, <2>1, LocalStepsEnd, WorkerAtAStep
  <2>3. \/ FinalizerStep(o)
        \/ Key \in Keys /\ WriteRejected(o)
        \/ \E name \in Names \cup {NoName} : WriteReady(o, name)
    BY <2>1, <2>2 DEF WriteRecordReady
  <2> QED
    BY <1>0, <2>3, FinalizerStepKeepsWakeInv
<1>5. CASE \E o \in Outcomes : ApplyEndpoint(o)
  <2>1. /\ worker.pc # "idle" /\ UNCHANGED <<objects, cache>>
        /\ \E step \in RecordSteps : /\ Goto(step) /\ step # "addFinalizer"
                                     /\ step \in WakeSteps => worker.pc \in WakeSteps
    BY <1>5, EndpointStep DEF RecordSteps, WakeSteps, ManageSteps
  <2> QED
    BY <1>0, <2>1, GotoKeepsWakeInv
<1>6. CASE Restart \/ Resync \/ BecomeCalm
  BY <1>0, <1>6, IdleKeepsWakeInv
<1>7. CASE ZonesOnlyStep
  BY <1>0, <1>2, <1>7, ZonesLeaveRecordsAlone
<1> QED
  BY <1>1, <1>2, <1>3, <1>4, <1>5, <1>6, <1>7, DnsSteps, CollectorEffect DEF dnsVars, runtimeVars

(* A record that the operator will not look at again by itself holds its   *)
(* finalizer and nobody waits for its deletion, even if it was rejected    *)
(* and the write that says so was lost: no deletion is forgotten.          *)
THEOREM NoRecordIsForgotten == DnsSpec => []ResultInv(Keys)
<1>1. DnsInit => RecordWakeInv
  <2> SUFFICES ASSUME DnsInit PROVE RecordWakeInv
    OBVIOUS
  <2>1. worker = Idle /\ \A k \in Keys : objects[k] = NoObj /\ cache[k] = NoObj
    BY DEF DnsInit
  <2>2. "idle" \notin WakeSteps /\ "idle" \notin {} \cup TeardownSteps /\ StatusInv
    BY <2>1 DEF WakeSteps, ManageSteps, TeardownSteps, StatusInv
  <2>3. FinalizerInv({}, TeardownSteps)
    BY <2>1, <2>2, FinalizerInvInit
  <2> QED
    BY <2>1, <2>2, <2>3, RecordInvInit, WakeInvInit DEF RecordWakeInv, RecordInv
<1>2. RecordWakeInv /\ [DnsNext]_dnsVars => RecordWakeInv'
  BY RecordTypeInvStep, RecordFinalizerInvStep, RecordVersionInvStep, RecordWakeInvStep
    DEF RecordWakeInv
<1>3. RecordWakeInv => ResultInv(Keys)
  BY DEF RecordWakeInv, WakeInv
<1> QED
  BY <1>1, <1>2, <1>3, PTL DEF DnsSpec

----------------------------------------------------------------------------
(* Every copy of a zone, in the API server, in the cache and in the hands  *)
(* of the worker, is one the API server could hold, under a name this zone *)
(* may have.                                                               *)
GoodZone(z, obj) ==
  /\ obj \in Zone!CatalogObjects(z)
  /\ obj.deleting => obj.finalizer
  /\ obj.status.readyGen <= obj.gen /\ obj.gen <= edits

ZoneTypeInv ==
  /\ DOMAIN zones = Zones /\ DOMAIN zoneCache = Zones /\ zoneQueue \subseteq Zones
  /\ \A z \in Zones : /\ zones[z] = NoObj \/ GoodZone(z, zones[z])
                      /\ zoneCache[z] = NoObj \/ GoodZone(z, zoneCache[z])
  /\ \/ zoneWorker = Zone!Idle
     \/ \E z \in Zones : /\ zoneWorker \in Zone!Reconciles(z, ZoneSteps, {NoLocal})
                         /\ GoodZone(z, zoneWorker.obj)

(* Copies are moved around, and at most one zone is written.               *)
LEMMA MovedZonesAreGood ==
  ASSUME RecordTypeInv, ZoneTypeInv, edits' \in {edits, edits + 1},
         DOMAIN zones' = Zones, DOMAIN zoneCache' = Zones, zoneQueue' \subseteq Zones,
         \A z \in Zones : /\ zones'[z] \in {NoObj, zones[z]} \/ GoodZone(z, zones[z])'
                         /\ zoneCache'[z] \in {zoneCache[z], zones[z]},
         \/ zoneWorker' \in {zoneWorker, Zone!Idle}
         \/ \E z \in Zones : /\ zoneWorker' \in Zone!Reconciles(z, ZoneSteps, {NoLocal})
                             /\ zoneCache[z] # NoObj /\ zoneWorker'.obj = zoneCache[z]
  PROVE  ZoneTypeInv'
<1> SUFFICES (/\ DOMAIN zones = Zones /\ DOMAIN zoneCache = Zones /\ zoneQueue \subseteq Zones
              /\ \A z \in Zones : /\ zones[z] = NoObj \/ GoodZone(z, zones[z])
                                  /\ zoneCache[z] = NoObj \/ GoodZone(z, zoneCache[z])
              /\ \/ zoneWorker = Zone!Idle
                 \/ \E z \in Zones : /\ zoneWorker \in Zone!Reconciles(z, ZoneSteps, {NoLocal})
                                     /\ GoodZone(z, zoneWorker.obj))'
  BY DEF ZoneTypeInv
<1>1. edits \in Nat /\ MaxEdits \in Nat
  BY RuntimeAssumption DEF RecordTypeInv, RuntimeInv, RuntimeTypeOK
<1>2. ASSUME NEW z \in Zones, NEW obj, GoodZone(z, obj)
      PROVE  /\ obj \in Zone!CatalogObjects(z) /\ (obj.deleting => obj.finalizer)
             /\ obj.status.readyGen <= obj.gen /\ obj.gen <= edits'
  BY <1>1, <1>2 DEF GoodZone, Zone!CatalogObjects
<1>3. (/\ DOMAIN zones = Zones /\ DOMAIN zoneCache = Zones /\ zoneQueue \subseteq Zones
       /\ \A z \in Zones : /\ zones[z] = NoObj \/ GoodZone(z, zones[z])
                           /\ zoneCache[z] = NoObj \/ GoodZone(z, zoneCache[z]))'
  BY <1>2 DEF ZoneTypeInv, GoodZone
<1>4. (\/ zoneWorker = Zone!Idle
       \/ \E z \in Zones : /\ zoneWorker \in Zone!Reconciles(z, ZoneSteps, {NoLocal})
                           /\ GoodZone(z, zoneWorker.obj))'
  BY <1>2 DEF ZoneTypeInv, GoodZone, Zone!Idle
<1> QED
  BY <1>3, <1>4

(* The last write of a reconcile.                                          *)
LEMMA WrittenZoneIsGood ==
  ASSUME RecordTypeInv, NEW z \in Zones, NEW obj, GoodZone(z, obj),
         NEW new \in {Zone!WithFinalizer(obj), Zone!WithoutFinalizer(obj),
                     Zone!AsReady(obj, obj.spec)},
         Zone!Stored(new) # NoObj
  PROVE  GoodZone(z, Zone!Stored(new))
<1> USE DEF Zone!CatalogObjects, Zone!Statuses
<1>1. MaxEdits \in Nat /\ obj \in Zone!CatalogObjects(z) /\ obj.gen \in 0..MaxEdits
      /\ obj.spec \in DnsNames
  BY RuntimeAssumption, DnsAssumption DEF GoodZone
<1>2. /\ new \in Zone!CatalogObjects(z) /\ new.gen = obj.gen
      /\ new.status.readyGen \in {obj.status.readyGen, obj.gen}
  <2>1. CASE new = Zone!WithFinalizer(obj)
    BY <1>1, <2>1 DEF Zone!WithFinalizer
  <2>2. CASE new = Zone!WithoutFinalizer(obj)
    BY <1>1, <2>2 DEF Zone!WithoutFinalizer
  <2>3. CASE new = Zone!AsReady(obj, obj.spec)
    BY <1>1, <2>3 DEF Zone!AsReady, Zone!SetReady
  <2> QED
    BY <2>1, <2>2, <2>3
<1>3. Zone!Stored(new) = new /\ (new.deleting => new.finalizer)
  BY <1>2 DEF Zone!Stored
<1> QED
  BY <1>1, <1>2, <1>3 DEF GoodZone

LEMMA ZoneStepKeepsTypes ==
  ASSUME RecordTypeInv, ZoneTypeInv, ZoneStep
  PROVE  ZoneTypeInv'
<1> DEFINE obj == zoneWorker.obj
<1>1. PICK new \in {Zone!WithFinalizer(obj), Zone!WithoutFinalizer(obj), Zone!AsReady(obj, obj.spec)} :
        /\ zones' = zones \/ zones' = Zone!Updated(zones, zoneWorker.key, obj, new)
        /\ zoneWorker' = Zone!Idle /\ zoneWorker.pc # "idle" /\ UNCHANGED <<zoneCache, edits>>
        /\ zoneQueue' \in {zoneQueue, zoneQueue \cup {zoneWorker.key}}
  BY DEF ZoneStep, Zone!AddFinalizer, Zone!RemoveFinalizer, Zone!WriteReady, Zone!At, Zone!Write,
    Zone!Done, Zone!Retry, Zone!Key, Zone!Obj, Zone!Call
<1>2. PICK z \in Zones : zoneWorker.key = z /\ GoodZone(z, obj)
  BY <1>1 DEF ZoneTypeInv, Zone!Idle, Zone!Reconciles
<1>3. Zone!Stored(new) = NoObj \/ GoodZone(z, Zone!Stored(new))
  BY <1>1, <1>2, WrittenZoneIsGood
<1>4. \A y \in Zones : zones'[y] = zones[y] \/ (y = z /\ zones'[y] = Zone!Stored(new))
  BY <1>1, <1>2 DEF Zone!Updated, ZoneTypeInv
<1>5. DOMAIN zones' = Zones /\ DOMAIN zoneCache' = Zones /\ zoneQueue' \subseteq Zones
  BY <1>1, <1>2 DEF Zone!Updated, ZoneTypeInv
<1>6. \A y \in Zones : zones'[y] \in {NoObj, zones[y]} \/ GoodZone(y, zones[y])'
  BY <1>1, <1>3, <1>4 DEF GoodZone
<1> QED
  BY <1>1, <1>5, <1>6, MovedZonesAreGood

LEMMA ZoneTakeKeepsTypes ==
  ASSUME RecordTypeInv, ZoneTypeInv, NEW z \in Zones, ZoneTakeKey(z)
  PROVE  ZoneTypeInv'
<1>1. UNCHANGED <<zones, zoneCache, edits>> /\ zoneQueue' \subseteq zoneQueue
  BY DEF ZoneTakeKey, Zone!Skip, Zone!StartAdoption, ZoneTeardown, ZoneUnchanged, ZoneDelegate,
    Zone!Take
<1>2. CASE UNCHANGED zoneWorker
  BY <1>1, <1>2, MovedZonesAreGood DEF ZoneTypeInv
<1>3. CASE \E step \in ZoneSteps : Zone!Take(z, step, NoLocal) /\ zoneCache[z] # NoObj
  <2>1. PICK step \in ZoneSteps : Zone!Take(z, step, NoLocal) /\ zoneCache[z] # NoObj
    BY <1>3
  <2>2. zoneWorker' = [pc |-> step, key |-> z, obj |-> zoneCache[z], local |-> NoLocal]
    BY <2>1 DEF Zone!Take
  <2>3. zoneCache[z] \in Zone!CatalogObjects(z)
    BY <2>1 DEF ZoneTypeInv, GoodZone
  <2>4. zoneWorker' \in Zone!Reconciles(z, ZoneSteps, {NoLocal}) /\ zoneWorker'.obj = zoneCache[z]
    BY <2>2, <2>3 DEF Zone!Reconciles
  <2> QED
    BY <1>1, <2>1, <2>4, MovedZonesAreGood DEF ZoneTypeInv
<1> QED
  BY <1>2, <1>3 DEF ZoneTakeKey, Zone!Skip, Zone!StartAdoption, ZoneTeardown, ZoneUnchanged,
    ZoneDelegate, Zone!Take, Zone!Unmanaged, Zone!Terminated, Zone!Managed, Zone!Cached, ZoneSteps

LEMMA ZoneUsersKeepTypes ==
  ASSUME RecordTypeInv, ZoneTypeInv, Zone!UserNext
  PROVE  ZoneTypeInv'
<1>0. PICK z \in Zones : \E obj :
        /\ Zone!Edit(z, obj)
        /\ \/ \E spec \in ZoneSpecs[z] : obj = Zone!NewObject(edits + 1, spec)
           \/ \E spec \in ZoneSpecs[z] : zones[z] # NoObj /\ obj = Zone!Edited(zones[z], spec)
           \/ zones[z] # NoObj /\ obj = Zone!Deleted(zones[z])
  BY DEF Zone!UserNext, Zone!CreateObject, Zone!EditObject, Zone!DeleteObject
<1>1. PICK obj :
        /\ Zone!Edit(z, obj)
        /\ \/ \E spec \in ZoneSpecs[z] : obj = Zone!NewObject(edits + 1, spec)
           \/ \E spec \in ZoneSpecs[z] : zones[z] # NoObj /\ obj = Zone!Edited(zones[z], spec)
           \/ zones[z] # NoObj /\ obj = Zone!Deleted(zones[z])
  BY <1>0
<1>2. /\ zones' = [zones EXCEPT ![z] = obj] /\ UNCHANGED <<zoneCache, zoneQueue, zoneWorker>>
      /\ edits < MaxEdits /\ edits' = edits + 1
  BY <1>1 DEF Zone!Edit
<1>3. edits \in Nat /\ MaxEdits \in Nat
  BY RuntimeAssumption DEF RecordTypeInv, RuntimeInv, RuntimeTypeOK
<1>4. obj = NoObj \/ (obj \in Zone!CatalogObjects(z) /\ (obj.deleting => obj.finalizer)
                      /\ obj.status.readyGen <= obj.gen /\ obj.gen <= edits + 1)
  <2>1. CASE \E spec \in ZoneSpecs[z] : obj = Zone!NewObject(edits + 1, spec)
    BY <1>2, <1>3, <2>1 DEF Zone!NewObject, Zone!NoStatus, Zone!CatalogObjects, Zone!Statuses
  <2>2. CASE zones[z] # NoObj
    <3>1. GoodZone(z, zones[z]) /\ zones[z].gen \in Nat /\ zones[z].status.readyGen \in Nat
          /\ zones[z].gen + 1 \in 1..MaxEdits
      BY <1>2, <1>3, <2>2 DEF ZoneTypeInv, GoodZone, Zone!CatalogObjects, Zone!Statuses
    <3> DEFINE old == zones[z]
    <3>2. CASE \E spec \in ZoneSpecs[z] : obj = Zone!Edited(old, spec)
      <4>1. /\ obj \in Zone!CatalogObjects(z) /\ obj.gen = old.gen + 1
            /\ obj.status = old.status /\ obj.deleting = old.deleting
            /\ obj.finalizer = old.finalizer
        BY <3>1, <3>2 DEF GoodZone, Zone!CatalogObjects, Zone!Edited
      <4> QED
        BY <1>3, <3>1, <4>1 DEF GoodZone
    <3>3. CASE obj = Zone!Deleted(old)
      <4> SUFFICES ASSUME obj # NoObj
                   PROVE  /\ obj \in Zone!CatalogObjects(z) /\ (obj.deleting => obj.finalizer)
                          /\ obj.status.readyGen <= obj.gen /\ obj.gen <= edits + 1
        OBVIOUS
      <4>1. /\ obj \in Zone!CatalogObjects(z) /\ obj.gen = old.gen + 1
            /\ obj.status = old.status /\ obj.finalizer
        BY <3>1, <3>3 DEF GoodZone, Zone!CatalogObjects, Zone!Deleted
      <4> QED
        BY <1>3, <3>1, <4>1 DEF GoodZone
    <3> QED
      BY <1>1, <2>1, <3>1, <3>2, <3>3
  <2> QED
    BY <1>1, <2>1, <2>2
<1>5. \A y \in Zones : zones'[y] \in {NoObj, zones[y]} \/ GoodZone(y, zones[y])'
  <2> TAKE y \in Zones
  <2>1. CASE y = z
    BY <1>2, <1>4, <2>1 DEF ZoneTypeInv, GoodZone
  <2>2. CASE y # z
    BY <1>2, <2>2 DEF ZoneTypeInv
  <2> QED
    BY <2>1, <2>2
<1> QED
  BY <1>2, <1>5, MovedZonesAreGood DEF ZoneTypeInv

LEMMA ZoneTypeInvStep ==
  ASSUME RecordTypeInv, ZoneTypeInv, [DnsNext]_dnsVars
  PROVE  ZoneTypeInv'
<1>1. CASE Zone!UserNext
  BY <1>1, ZoneUsersKeepTypes
<1>2. CASE ZoneStep
  BY <1>2, ZoneStepKeepsTypes
<1>3. CASE \E z \in Zones : ZoneTakeKey(z)
  BY <1>3, ZoneTakeKeepsTypes
<1>4. CASE \E z \in Zones : Zone!Sync(z)
  <2>1. /\ UNCHANGED <<zones, zoneWorker, edits>> /\ DOMAIN zoneCache' = Zones
        /\ zoneQueue' \subseteq Zones /\ \A z \in Zones : zoneCache'[z] \in {zoneCache[z], zones[z]}
    BY <1>4 DEF Zone!Sync, ZoneTypeInv
  <2> QED
    BY <2>1, MovedZonesAreGood DEF ZoneTypeInv
<1>5. CASE Zone!Restart
  <2>1. /\ UNCHANGED <<zones, edits>> /\ zoneCache' = zones /\ zoneWorker' = Zone!Idle
        /\ zoneQueue' \subseteq Zones
    BY <1>5 DEF Zone!Restart
  <2> QED
    BY <2>1, MovedZonesAreGood DEF ZoneTypeInv
<1>6. CASE Zone!Resync
  <2>1. UNCHANGED <<zones, zoneCache, zoneWorker, edits>> /\ zoneQueue' \subseteq Zones
    BY <1>6 DEF Zone!Resync, ZoneTypeInv
  <2> QED
    BY <2>1, MovedZonesAreGood DEF ZoneTypeInv
<1>7. CASE UNCHANGED zoneVars /\ edits' \in {edits, edits + 1}
  BY <1>7, MovedZonesAreGood DEF zoneVars, ZoneTypeInv
<1>8. CASE UserNext /\ UNCHANGED recordsOnly
  BY <1>7, <1>8, RecordsLeaveZonesAlone DEF recordsOnly
<1>9. CASE /\ UNCHANGED recordsOnly
           /\ \/ \E k \in Keys : Sync(k) \/ TakeKey(k)
              \/ \E o \in Outcomes : FinalizerStep(o) \/ WriteRejected(o) \/ WriteRecordReady(o)
              \/ Resync \/ BecomeCalm
  <2>1. UNCHANGED edits
    BY <1>9, LocalStepsEnd DEF Sync, TakeKey, Skip, StartAdoption, StartTeardown, StartWithoutZone,
      StartRejection, StartRender, Take, Resync, BecomeCalm
  <2> QED
    BY <1>7, <1>9, <2>1 DEF recordsOnly
<1>10. CASE (\E o \in Outcomes : ApplyEndpoint(o)) \/ CollectorStep \/ UNCHANGED dnsVars
  BY <1>7, <1>10, EndpointStep, CollectorEffect DEF dnsVars, runtimeVars
<1> QED
  BY <1>1, <1>2, <1>3, <1>4, <1>5, <1>6, <1>8, <1>9, <1>10, DnsSteps DEF ZonesOnlyStep

LEMMA ZoneTypeInvInit ==
  ASSUME DnsInit
  PROVE  ZoneTypeInv
<1>1. PICK spec \in [Zones -> DnsNames] : zones = [z \in Zones |-> NewObject(1, spec[z])]
  BY DEF DnsInit
<1>2. MaxEdits \in Nat /\ MaxEdits > 0 /\ edits = 1
  BY RuntimeAssumption, DnsAssumption DEF DnsInit
<1>3. ASSUME NEW z \in Zones
      PROVE  GoodZone(z, zones[z])
  <2>1. PICK s \in ZoneSpecs[z] : zones[z] = NewObject(1, s)
    <3>1. zones[z] = NewObject(1, spec[z])
      BY <1>1
    <3>2. spec[z] = zones[z].spec
      BY <3>1 DEF NewObject
    <3> QED
      BY <3>1, <3>2 DEF DnsInit
  <2>2. NoStatus \in Zone!Statuses(MaxEdits, DnsNames) /\ NoStatus.readyGen = 0
    BY <1>2 DEF NoStatus, Zone!Statuses
  <2>3. 1 \in 1..MaxEdits
    BY <1>2
  <2>4. /\ zones[z] \in Zone!CatalogObjects(z) /\ zones[z].gen = 1
        /\ zones[z].status = NoStatus /\ ~zones[z].deleting
    BY <2>1, <2>2, <2>3 DEF NewObject, Zone!CatalogObjects
  <2> QED
    BY <1>2, <2>2, <2>4 DEF GoodZone
<1> QED
  BY <1>1, <1>3 DEF DnsInit, ZoneTypeInv, Idle, Zone!Idle

(* Records and zones, which two controllers keep side by side, hold their  *)
(* types, and an endpoint is owned by a record that users did create.      *)
THEOREM DnsTypeCorrect == DnsSpec => []DnsTypeOK
<1> DEFINE Inv == RecordTypeInv /\ ZoneTypeInv /\ EndpointsOK
<1>1. DnsInit => Inv
  <2>1. DnsInit => EndpointsOK
    BY DEF DnsInit, EndpointsOK
  <2> QED
    BY <2>1, RecordInvInit, ZoneTypeInvInit DEF RecordInv
<1>2. Inv /\ [DnsNext]_dnsVars => Inv'
  BY RecordTypeInvStep, ZoneTypeInvStep, EndpointsStayGood
<1>3. Inv => DnsTypeOK
  <2> SUFFICES ASSUME Inv PROVE DnsTypeOK
    OBVIOUS
  <2>1. Zone!RuntimeTypeOK(ZoneSteps, {NoLocal})
    BY DEF RecordTypeInv, RuntimeInv, RuntimeTypeOK, ZoneTypeInv, GoodZone, Zone!RuntimeTypeOK
  <2> QED
    BY <2>1 DEF DnsTypeOK, RecordTypeInv, RuntimeInv, EndpointsOK
<1> QED
  BY <1>1, <1>2, <1>3, PTL DEF DnsSpec

----------------------------------------------------------------------------
(* A record that is about to be rendered was admitted to a zone under a    *)
(* name that zone may have.                                                *)
Inside(k, spec) ==
  spec \in Specs[k] /\ \A name \in spec.names : \E zone \in ZoneSpecs[spec.zoneRef] : InZone(name, zone)

InsideInv ==
  /\ RecordTypeInv /\ ZoneTypeInv
  /\ worker.pc = "applyEndpoint" => Inside(Key, Obj.spec)
  /\ RenderedInsideZone

LEMMA AdmittedIsInside ==
  ASSUME InsideInv, NEW k \in Keys, cache[k] # NoObj, CachedZone(k) # NoObj, Admitted(k)
  PROVE  Inside(k, cache[k].spec)
<1>1. cache[k].spec \in Specs[k]
  BY DEF InsideInv, RecordTypeInv, RuntimeInv, RuntimeTypeOK, CatalogObjects
<1>2. cache[k].spec.zoneRef \in Zones
  BY <1>1, DnsAssumption DEF RecordSpecs
<1>3. CachedZone(k).spec \in ZoneSpecs[cache[k].spec.zoneRef]
  BY <1>2 DEF InsideInv, ZoneTypeInv, GoodZone, Zone!CatalogObjects, CachedZone
<1> QED
  BY <1>1, <1>3 DEF Inside, Admitted

LEMMA InsideInvStep ==
  ASSUME InsideInv, [DnsNext]_dnsVars
  PROVE  InsideInv'
<1>0. RecordTypeInv /\ ZoneTypeInv /\ RuntimeInv(RecordSteps, {NoLocal})
  BY DEF InsideInv, RecordTypeInv
<1>1. RecordTypeInv' /\ ZoneTypeInv'
  BY <1>0, RecordTypeInvStep, ZoneTypeInvStep
<1>2. (worker.pc = "applyEndpoint" => Inside(Key, Obj.spec))'
  <2>1. CASE \E k \in Keys : TakeKey(k) /\ ~Skip(k)
    <3>1. PICK k \in Keys, step \in RecordSteps :
            /\ Take(k, step, NoLocal) /\ cache[k] # NoObj
            /\ step = "applyEndpoint" => CachedZone(k) # NoObj /\ Admitted(k)
      BY <2>1, RecordTakes
    <3>2. worker'.pc = step /\ Key' = k /\ Obj' = cache[k]
      BY <3>1 DEF Take, Key, Obj
    <3> QED
      BY <3>1, <3>2, AdmittedIsInside DEF Inside
  <2>2. CASE \E o \in Outcomes : ApplyEndpoint(o)
    <3>1. PICK step \in {"readyStatus", "failStatus"} : Goto(step) /\ worker.pc = "applyEndpoint"
      BY <2>2, EndpointStep
    <3>2. worker'.pc = step
      BY <1>0, <3>1, GotoGoesOnward DEF RecordSteps, Onward
    <3> QED
      BY <3>1, <3>2
  <2>3. CASE UNCHANGED worker
    BY <2>3 DEF InsideInv, Inside, Key, Obj
  <2>4. CASE worker' = Idle
    BY <2>4 DEF Idle
  <2> QED
    BY <1>0, <2>1, <2>2, <2>3, <2>4, WorkersWay
<1>3. RenderedInsideZone'
  <2> SUFFICES ASSUME NEW k \in Keys, endpoints'[k] # NoEndpoint
               PROVE  \A name \in endpoints'[k].names :
                        \E spec \in Specs[k] : \E zone \in ZoneSpecs[spec.zoneRef] :
                          name \in spec.names /\ InZone(name, zone)
    BY DEF RenderedInsideZone
  <2>1. CASE UNCHANGED endpoints[k]
    BY <2>1 DEF InsideInv, RenderedInsideZone
  <2>2. CASE k = Key /\ worker.pc = "applyEndpoint" /\ endpoints'[k].names = Obj.spec.names
    BY <2>2 DEF InsideInv, Inside
  <2>3. CASE endpoints'[k] = NoEndpoint
    BY <2>3
  <2> QED
    BY <1>0, <2>1, <2>2, <2>3, EndpointWritten
<1> QED
  BY <1>1, <1>2, <1>3 DEF InsideInv

LEMMA InsideInvInit ==
  ASSUME DnsInit
  PROVE  InsideInv
<1>1. RecordTypeInv
  BY RecordInvInit DEF RecordInv
<1>2. ZoneTypeInv
  BY ZoneTypeInvInit
<1>3. worker.pc # "applyEndpoint" /\ RenderedInsideZone
  BY DEF DnsInit, Idle, RenderedInsideZone
<1> QED
  BY <1>1, <1>2, <1>3 DEF InsideInv

(* "Records must fall inside the referenced tenant zone": for any zones,   *)
(* edited, deleted and created again while the records are, and however    *)
(* old the cached zone is, every name ever rendered lies in a zone the     *)
(* record may refer to, under a name that zone may have.                   *)
THEOREM RecordsStayInside == DnsSpec => []RenderedInsideZone
<1>1. DnsInit => InsideInv
  BY InsideInvInit
<1>2. InsideInv /\ [DnsNext]_dnsVars => InsideInv'
  BY InsideInvStep
<1>3. InsideInv => RenderedInsideZone
  BY DEF InsideInv
<1> QED
  BY <1>1, <1>2, <1>3, PTL DEF DnsSpec
=============================================================================
