--------------------------- MODULE DnsController ---------------------------
(***************************************************************************)
(* The DNSRecord controller, which renders a record as a DNSEndpoint when  *)
(* its names are inside the zone it refers to, next to the DNSZone         *)
(* controller.  The two share the informer cache, not a worker, and        *)
(* neither watches what the other one writes.                              *)
(*                                                                         *)
(* The DNSEndpoint is not deleted by the operator: it names its record as  *)
(* its owner and is left to the garbage collector.                         *)
(***************************************************************************)
EXTENDS ControllerRuntime       \* of the records
LOCAL INSTANCE SequencesExt

CONSTANTS Zones,          \* names of the DNSZones
          ZoneSpecs,      \* for each of them the zone names it may be given
          DnsNames,       \* DNS names, of zones too, as sequences of labels
          GuardedDeletes, \* the garbage collector deletes an object only as it saw it
          NoEndpoint

(* A record's endpoints matter by their names: the rest is copied.         *)
RecordSpecs == [zoneRef : Zones, names : SUBSET DnsNames \ {{}}]

ASSUME DnsAssumption ==
  /\ Names = {} /\ NoKey \notin Zones /\ MaxEdits > 0 /\ GuardedDeletes \in BOOLEAN
  /\ \A k \in Keys : Specs[k] \subseteq RecordSpecs
  /\ \A z \in Zones : ZoneSpecs[z] \subseteq DnsNames

VARIABLES zones, zoneCache, zoneQueue, zoneWorker,    \* as for the records
          endpoints,    \* the API server: the DNSEndpoint of each record
          condemned     \* garbage collector: the endpoint it is about to delete

Zone == INSTANCE ControllerRuntime WITH
  Keys <- Zones, Specs <- ZoneSpecs, Names <- DnsNames,
  objects <- zones, cache <- zoneCache, queue <- zoneQueue, worker <- zoneWorker

zoneVars == <<zones, zoneCache, zoneQueue, zoneWorker>>
recordVars == <<objects, cache, queue, worker>>
endpointVars == <<endpoints, condemned>>
dnsVars == <<runtimeVars, zoneVars, endpointVars>>

(* The operator starts in a cluster that has zones; its caches are empty.  *)
DnsInit ==
  /\ objects = [k \in Keys |-> NoObj] /\ cache = objects
  /\ zones \in {[z \in Zones |-> NewObject(1, spec[z])] : spec \in [Zones -> DnsNames]}
  /\ \A z \in Zones : zones[z].spec \in ZoneSpecs[z]
  /\ zoneCache = [z \in Zones |-> NoObj]
  /\ queue = {} /\ zoneQueue = {} /\ worker = Idle /\ zoneWorker = Idle
  /\ edits = 1 /\ calm = FALSE
  /\ endpoints = [k \in Keys |-> NoEndpoint] /\ condemned = endpoints

(* dnsNamesInZone: the zone itself, or a name below it                     *)
InZone(name, zone) == IsSuffix(zone, name)

----------------------------------------------------------------------------
(* DNSZone: there is nothing to create and nothing to clean up.            *)

UpToDate(zone) == Ready(zone) /\ zone.status.recorded = zone.spec

ZoneTeardown(z) == Zone!Terminated(z) /\ Zone!Take(z, "removeFinalizer", NoLocal)

ZoneUnchanged(z) ==
  /\ Zone!Managed(z) /\ UpToDate(zoneCache[z]) /\ Zone!Waiting(z)
  /\ zoneQueue' = zoneQueue \ {z}
  /\ UNCHANGED <<zones, zoneCache, zoneWorker, edits, calm>>

ZoneDelegate(z) ==
  Zone!Managed(z) /\ ~UpToDate(zoneCache[z]) /\ Zone!Take(z, "readyStatus", NoLocal)

ZoneTakeKey(z) ==
  \/ Zone!Skip(z) \/ Zone!StartAdoption(z)
  \/ ZoneTeardown(z) \/ ZoneUnchanged(z) \/ ZoneDelegate(z)

ZoneStep ==
  \E o \in Outcomes :
    Zone!AddFinalizer(o) \/ Zone!RemoveFinalizer(o) \/ Zone!WriteReady(o, Zone!Obj.spec)

----------------------------------------------------------------------------
(* DNSRecord: what Reconcile branches on before its first call.            *)

StartTeardown(k) == Terminated(k) /\ Take(k, "removeFinalizer", NoLocal)

CachedZone(k) == zoneCache[cache[k].spec.zoneRef]

(* Bug: one name inside the zone is enough                                 *)
Admitted_AnyName(k) == \E name \in cache[k].spec.names : InZone(name, CachedZone(k).spec)

Admitted(k) == \A name \in cache[k].spec.names : InZone(name, CachedZone(k).spec)

(* Bug: waits for an event of the zone, which is not watched               *)
StartWithoutZone_NoRequeue(k) ==
  Managed(k) /\ CachedZone(k) = NoObj /\ Take(k, "rejectStatus", NoLocal)

(* the zone may appear later: Failed, and a requeue after 30s              *)
StartWithoutZone(k) ==
  Managed(k) /\ CachedZone(k) = NoObj /\ Take(k, "failStatus", NoLocal)

(* a name outside the zone waits for the user                              *)
StartRejection(k) ==
  Managed(k) /\ CachedZone(k) # NoObj /\ ~Admitted(k) /\ Take(k, "rejectStatus", NoLocal)

StartRender(k) ==
  Managed(k) /\ CachedZone(k) # NoObj /\ Admitted(k) /\ Take(k, "applyEndpoint", NoLocal)

TakeKey(k) ==
  \/ Skip(k) \/ StartAdoption(k) \/ StartTeardown(k)
  \/ StartWithoutZone(k) \/ StartRejection(k) \/ StartRender(k)

(* Bug: an endpoint is left to no one                                      *)
ApplyEndpoint_NoOwner(o) ==
  /\ At("applyEndpoint", o)
  /\ endpoints' = Call(o, endpoints, [endpoints EXCEPT ![Key] =
       [owner |-> 0, names |-> Obj.spec.names]])
  /\ Goto(IF o = "ok" THEN "readyStatus" ELSE "failStatus")
  /\ UNCHANGED <<objects, cache, edits, calm, zoneVars, condemned>>

(* Bug: an endpoint that has an owner keeps it                             *)
ApplyEndpoint_KeepsOwner(o) ==
  /\ At("applyEndpoint", o)
  /\ endpoints' = Call(o, endpoints, [endpoints EXCEPT ![Key] =
       [owner |-> IF @ = NoEndpoint THEN Obj.uid ELSE @.owner, names |-> Obj.spec.names]])
  /\ Goto(IF o = "ok" THEN "readyStatus" ELSE "failStatus")
  /\ UNCHANGED <<objects, cache, edits, calm, zoneVars, condemned>>

(* CreateOrUpdate, of the API server's copy.  An endpoint of an earlier    *)
(* incarnation of the record is taken over: SetControllerReference tells   *)
(* owners apart by kind and name, and replaces the UID.                    *)
ApplyEndpoint(o) ==
  /\ At("applyEndpoint", o)
  /\ endpoints' = Call(o, endpoints, [endpoints EXCEPT ![Key] =
       [owner |-> Obj.uid, names |-> Obj.spec.names]])
  /\ Goto(IF o = "ok" THEN "readyStatus" ELSE "failStatus")
  /\ UNCHANGED <<objects, cache, edits, calm, zoneVars, condemned>>

WriteRecordReady(o) == WriteReady(o, NoName)

(* Kubernetes' garbage collector finds that the owner of an endpoint is    *)
(* gone, be there another record of that name or not, and then deletes it. *)
(* The delete names the version that was looked at, or only the UID, which *)
(* an endpoint that was taken over meanwhile keeps.                        *)
Condemn(k) ==
  /\ endpoints[k] # NoEndpoint /\ condemned[k] = NoEndpoint
  /\ objects[k] # NoObj => objects[k].uid # endpoints[k].owner
  /\ condemned' = [condemned EXCEPT ![k] = endpoints[k]]
  /\ UNCHANGED <<runtimeVars, zoneVars, endpoints>>

Collect(k) ==
  /\ condemned[k] # NoEndpoint
  /\ condemned' = [condemned EXCEPT ![k] = NoEndpoint]
  /\ endpoints' = IF GuardedDeletes /\ endpoints[k] # condemned[k] THEN endpoints
                  ELSE [endpoints EXCEPT ![k] = NoEndpoint]
  /\ UNCHANGED <<runtimeVars, zoneVars>>

----------------------------------------------------------------------------
CollectorStep == \E k \in Keys : Condemn(k) \/ Collect(k)

zonesOnly   == <<recordVars, endpointVars>>
recordsOnly == <<zoneVars, endpointVars>>

RecordStep ==
  \/ (\E o \in Outcomes : FinalizerStep(o) \/ WriteRejected(o) \/ WriteRecordReady(o))
       /\ UNCHANGED recordsOnly
  \/ \E o \in Outcomes : ApplyEndpoint(o)

DnsNext ==
  \/ UserNext /\ UNCHANGED recordsOnly
  \/ Zone!UserNext /\ UNCHANGED zonesOnly
  \/ \E k \in Keys : (Sync(k) \/ TakeKey(k)) /\ UNCHANGED recordsOnly
  \/ \E z \in Zones : (Zone!Sync(z) \/ ZoneTakeKey(z)) /\ UNCHANGED zonesOnly
  \/ RecordStep
  \/ ZoneStep /\ UNCHANGED zonesOnly
  \/ CollectorStep
  \/ Restart /\ Zone!Restart /\ UNCHANGED endpointVars
  \/ Zone!Resync /\ UNCHANGED zonesOnly
  \/ (Resync \/ BecomeCalm) /\ UNCHANGED recordsOnly

DnsSpec == DnsInit /\ [][DnsNext]_dnsVars

(* Both controllers as in RealmController; the garbage collector gets to   *)
(* every orphan.                                                           *)
DnsFairness ==
  /\ WF_dnsVars(RecordStep) /\ WF_dnsVars(ZoneStep /\ UNCHANGED zonesOnly)
  /\ \A k \in Keys : /\ WF_dnsVars(Sync(k) /\ UNCHANGED recordsOnly)
                     /\ SF_dnsVars(TakeKey(k) /\ UNCHANGED recordsOnly)
                     /\ WF_dnsVars(Condemn(k)) /\ WF_dnsVars(Collect(k))
  /\ \A z \in Zones : /\ WF_dnsVars(Zone!Sync(z) /\ UNCHANGED zonesOnly)
                      /\ SF_dnsVars(ZoneTakeKey(z) /\ UNCHANGED zonesOnly)

DnsFairSpec == DnsSpec /\ DnsFairness

----------------------------------------------------------------------------
RecordSteps == {"addFinalizer", "applyEndpoint", "rejectStatus", "readyStatus",
                "failStatus", "removeFinalizer"}
ZoneSteps == {"addFinalizer", "readyStatus", "removeFinalizer"}

Endpoints == [owner : 1..edits, names : SUBSET DnsNames \ {{}}]

(* Records and zones keep their shape (see RuntimeTypeOK); an endpoint is  *)
(* owned by an incarnation of its record that users created.               *)
DnsTypeOK ==
  /\ RuntimeTypeOK(RecordSteps, {NoLocal})
  /\ Zone!RuntimeTypeOK(ZoneSteps, {NoLocal})
  /\ endpoints \in [Keys -> Endpoints \cup {NoEndpoint}]
  /\ condemned \in [Keys -> Endpoints \cup {NoEndpoint}]

(* Ready at the current generation means that the endpoint is there, says  *)
(* what that generation says, and belongs to this very incarnation of the  *)
(* record: the garbage collector, which may have condemned the endpoint of *)
(* the predecessor before it was taken over, does not take it away.        *)
ReadyRecordIsRendered ==
  \A k \in Keys : objects[k] # NoObj /\ Ready(objects[k]) =>
    endpoints[k] = [owner |-> objects[k].uid, names |-> objects[k].spec.names]

(* "Records must fall inside the referenced tenant zone"                   *)
(* (dns_controller.go:87-88): each name that was ever rendered lies in a   *)
(* zone the record may refer to, under a name that zone may have.          *)
RenderedInsideZone ==
  \A k \in Keys : endpoints[k] # NoEndpoint =>
    \A name \in endpoints[k].names :
      \E spec \in Specs[k] : \E zone \in ZoneSpecs[spec.zoneRef] :
        name \in spec.names /\ InZone(name, zone)

(* Once the environment is calm: every zone is Ready or gone; a record     *)
(* with names inside its zone is Ready, or without a zone Ready or Failed; *)
(* no endpoint outlives its record, although nothing but its owner         *)
(* reference removes it.  (Needs zones that keep their names.  Of a record *)
(* with a name outside nothing is promised: it is looked at once, and the  *)
(* write that reports it Failed may be lost.)                              *)
ZoneOf(k) == zones[objects[k].spec.zoneRef]

Admissible(k) ==
  \A name \in objects[k].spec.names :
    \A zone \in ZoneSpecs[objects[k].spec.zoneRef] : InZone(name, zone)

ZoneSettled(z) == zones[z] # NoObj => ~zones[z].deleting /\ UpToDate(zones[z])

RecordSettled(k) ==
  /\ objects[k] # NoObj =>
       /\ ~objects[k].deleting
       /\ Admissible(k) => IF ZoneOf(k) = NoObj
                           THEN Ready(objects[k]) \/ objects[k].status.failed
                           ELSE Ready(objects[k]) /\ ~objects[k].status.failed
  /\ endpoints[k] # NoEndpoint =>
       objects[k] # NoObj /\ endpoints[k].owner = objects[k].uid

RecordsConverge ==
  <>calm => <>[]((\A k \in Keys : RecordSettled(k)) /\ (\A z \in Zones : ZoneSettled(z)))
=============================================================================
