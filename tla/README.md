# Verification of inari-operator

TLA+ models of the operator in `src/`, TLC configurations that check them on small
instances, and proofs that TLAPS checks for every value of the constants. Line
numbers refer to the files of this commit.

## 1. The system

The operator turns *Catalog Items*, custom resources of one tenant each, into
resources of other systems: Keycloak realms and clients, ExternalDNS endpoints,
cert-manager issuers, ArgoCD projects and applications, tenant namespaces. Each kind
has a controller of its own with one worker; all controllers share one process, one
informer cache per kind, and one Keycloak admin client.

| Component | State it keeps | Operations | What makes it correct |
|---|---|---|---|
| Catalog Item API (`api/v1alpha1`) | spec, generation, deletion timestamp, finalizer, conditions Ready / Reconciling / Failed, recorded names | `SetReady`, `SetReconciling`, `SetFailed` | a condition never claims a generation that was not reached |
| Shared machinery (`internal/controller/common.go`, controller-runtime) | informer cache, work queue, the reconcile in progress | `ensureFinalizer`, `finalize`, take, retry, requeue, resync, restart | nothing external exists without a finalizer; the finalizer goes only after a verified teardown |
| KeycloakRealm controller | realms in Keycloak | `EnsureRealm`, `DeleteRealm`, status | no realm orphaned, none torn down alive, Ready is true, converges |
| KeycloakClient controller | clients in Keycloak, Secrets of tenants, realm recorded in the status | realm resolution, `EnsureClient`, `DeleteClient`, Secret write | never the wrong realm, nothing orphaned, the Secret opens the client, converges |
| Keycloak admin token (`internal/keycloak/client.go`) | cached token, expiry, mutex | `getToken`, `invalidateToken`, `do` with its retry | one login at a time, no wasted retry, every request returns |
| ClusterDex controller | an ArgoCD Application and two ConfigMaps | checks of two Secrets, three upserts, three deletes | children match the spec when Ready; removed when disabled or deleted |
| DNSZone / DNSRecord controllers | zone status; a DNSEndpoint | validation against the cached zone, upsert | records stay inside their zone |
| TenantNamespace controller | a namespace with RBAC, network policy, quota | four upserts, one delete | a Ready tenant is isolated; teardown removes it |
| CertIssuer / ArgoProject controllers | one child each | upsert, delete | no orphaned child, Ready is true, one lifecycle |
| Manager (`cmd/main.go`) | process lifetime | start, stop | a restart loses only memory |

How they interact: users write Catalog Items through the API server; a watch event
updates the cache and enqueues the key; the worker takes the key, reads *the cache*
and makes remote calls, each of which may fail, lose its answer or be followed by a
crash. Controllers do not call one another: the client controller reads the
`KeycloakRealm` from the cache, the record controller reads the `DNSZone`, and the two
Keycloak controllers meet in Keycloak and in the token cache.

What is hard: every read may be stale when it is used; every write may be in conflict;
a call that failed for the caller may have happened; a reconcile is up to eight remote
calls with users' edits, deletions and re-creations between any two; nothing but the
finalizer survives a crash. `PROJECT.json` lists each hazard with its line.

## 2. Modules

```
CatalogItem                  objects, conditions, API server semantics, call outcomes
  └ ControllerRuntime        cache, queue, worker, finalizer steps, users, crashes
      ├ RealmController ──── implements ──► CatalogItemLifecycle
      │        └──────────── implements ──► RealmService
      ├ ClientController     extends RealmService (assume-guarantee)
      ├ ClusterDexController
      ├ DnsController        two instances of ControllerRuntime: records and zones
      ├ ItemController ───── implements ──► CatalogItemLifecycle
      │                      CertIssuer and ArgoProject
      └ TenantNamespaceController
TokenCache                   goroutines around the admin token
```

Each `MC...` module gives one of these its constants for TLC; `..._proofs` holds
theorems.

**CatalogItem.** An object is a record with `uid`, `gen`, `spec`, `deleting`,
`finalizer` and `status`. `Edited`, `Deleted`, `Stored` and `Updated` are what the API
server does on a user's edit and deletion and on an optimistic update. `Outcomes`: a
call is `"ok"`, `"down"` (failed before it took effect) or `"lost"` (took effect, the
answer did not arrive).

**ControllerRuntime.** `objects` is the API server, `cache` the informer, `queue` the
work queue, `worker` the reconcile in progress with the object as it was read. `Sync`
delivers the latest version and enqueues; `Take` reads the cache; `Retry` is an error
return or `RequeueAfter`; `Resync` enqueues a key that did not change, as a resync, a
broken watch or a repeated event does; `Restart` loses worker and queue and lists afresh.
`Restart` is also what a change of leader comes to, as the successor starts with nothing
but the API server. `Edit` is a user, `calm` the point after which edits, faults, crashes
and resyncs cease (used only by liveness, which therefore owes nothing to a lucky
resync). The finalizer steps are those of `common.go`: adding it ends the reconcile,
removing it follows the cleanup.

**RealmController.** One action per Admin REST request of `EnsureRealm` and
`DeleteRealm`, one per write of the resource. `kcRealms` is Keycloak. `Updating` is what
a PUT makes of the realm that is there: a field that is empty in Go is `omitempty`, so it
is not in the body, and stays as it was.

**RealmService.** What the client controller may assume of realms: their view in the
cache and whether Keycloak has them. `RealmController` is checked to implement it, so
the client controller is checked on top of it instead of on top of a second complete
controller.

**ClientController.** `ResolvedRealm` is lines 54-75, the `Start...` actions the branches
of `Reconcile` before its first call, then one action per request of `EnsureClient`, the
Secret, the status; and the teardown. `kcClients` is Keycloak, `secrets` the tenant's.
`Representation` is what a spec asks for, `Updating` what a PUT of it makes of a client
that is there, `Serves` what can be asked of a client after that.

**ClusterDexController.** `Awaited` is what lines 86-103 wait for, `Renderable` what the
rendering refuses, `ChildrenOf` and `Rendered` the names and the content of the three
children. `ApplyChild` is one iteration of the loop over them for an enabled baseline,
`DeleteChild` one for a disabled baseline (`deleteChildren` at line 80) and for the
teardown, with the index in the worker's `local`. `children` is the API server, `seen`
the informer cache of the ConfigMaps: `Read` is the cached copy unless the tenant is
impersonated, and a copy that looks as wanted is not written.

**DnsController.** The record controller is this module's own `ControllerRuntime`, the
zone controller the instance `Zone` of it, with its own objects, cache, queue and worker;
`edits` and `calm` are shared. A DNS name is a sequence of labels, and `InZone` is
`IsSuffix`. `endpoints` carry the incarnation that owns them; a re-created record takes
the endpoint of its predecessor over. The garbage collector looks (`Condemn`) and deletes
(`Collect`) in two steps, with the takeover possible between them; `GuardedDeletes` says
that the second names the version the first saw.

**ItemController.** CertIssuer and ArgoProject have the same shape and differ in
`Rendered`, in `Buildable` and in `AfterError`: one retries, one does not. They share
nothing, so a behaviour is about resources of one kind (`mine`), chosen in `ItemInit`,
which also covers a project that an older version of the operator left Ready. A name is
the sequence of its words, so that `ChildOf`, which joins tenant and name as
`tenantChildName` does, may make one child of two resources.

**TenantNamespaceController.** `parts` are the namespace and what is in it, `seen` their
informer caches, one per kind, which catch up one by one (`See`). `ApplyPart` is one
`CreateOrUpdate`, which is refused in a namespace that terminates (`Accepted`);
`DeleteQuota` is what it does without a quota; `Purge` is Kubernetes emptying a
terminating namespace, then removing it.

**CatalogItemLifecycle.** The abstract promise: an external resource exists only while
its item is managed, an item leaves only when the resource is gone. Realms implement it
under names of their own, issuers and projects under a child of their own.

**TokenCache.** `getToken` with the mutex held across the login, `invalidateToken`, the
loop of `do`. A token is good or bad at Keycloak; the client cannot tell.

An operator called `Name_Bug` beside `Name` is `Name` with a plausible bug. No
specification uses it; `PROJECT.json` pairs each with the property that finds it.

## 3. Runs

| Run | Instance | Shows |
|---|---|---|
| `realm` | two realms, settings with and without a display name, 3 edits, any number of faults and crashes | `NoOrphanRealm`, `ReadyRealmIsProvisioned`, `RealmGoesOnlyWithItsResource`, `QuietIsReady`, `RealmsConverge`, and that the controller implements `CatalogItemLifecycle` and `RealmService` |
| `client` | one client, a service account or public with redirects, 3 edits, realms that come, go and are stripped | `NoOrphanClient`, `NoOrphanSecret`, `ClientsStayInReferencedRealms`, `RecordedClientIsTornDown`, `QuietIsReady`, `QuietReadyClientWorks` |
| `client_converges` | the same with fairness, 2 edits, no stripping | `ClientsConverge` |
| `client_teardown` | the same | *violated*: `TeardownOutlivesRealm`, see findings |
| `token` | two goroutines | `RetryGetsANewToken`, `GoodTokenStays`, `EveryRequestReturns` |
| `clusterdex` | one ClusterDex, four specs (two baselines, one that cannot be rendered, disabled), one Secret that comes and goes, ConfigMaps found at the start, 3 edits | `NoOrphanChild`, `ReadyDexIsRendered`, `QuietIsReady`, `DexesConverge` |
| `clusterdex_toggle` | on and off, 3 edits | *violated*: `EnabledIsRendered` |
| `dns` | one zone, one record with a name inside or also one outside, 4 edits | `ReadyRecordIsRendered`, `RenderedInsideZone`, `RecordsConverge` |
| `item` | one issuer with three specs, or two issuers of different tenants whose child has one name, or one project with two specs; 4 edits | `NoOrphanChild`, `ReadyItemIsRendered`, `ItemsConverge`, and that the controllers implement `CatalogItemLifecycle` |
| `item_swallow` | the same, 3 edits | *violated*: `OnlySpecErrorsWait`, an invariant of the states in which the operator is at rest |
| `tenant` | one resource, with, without and with a malformed quota; the namespace exists already; 3 edits | `NoOrphanNamespace`, `NamespaceGoesOnlyWithItsResource`, `FirstTenantIsConfined`, `QuietIsReady`, `TenantsConverge` |
| `tenant_recreated` | with a quota, 3 edits | *violated*: `ReadyTenantIsConfined` |

Every passing run but `client_converges` checks its module's type invariant too.

**`QuietIsReady`** is the safety half of convergence: a resource that is not queued, not
in the hands of the worker and not about to be told of a change (`Quiet`) is Ready at its
generation, holds its finalizer and nobody waits for its deletion. Liveness could still
hold by a lucky resync if a wakeup were lost; this cannot. It is not checked of DNS
records and issuers, for which it is false by design: both leave a rejected spec to the
user (and issuers any error, which `item_swallow` shows).

**Bounds.** `MaxEdits` bounds what users do (create, edit, delete, re-create): three are
enough for create, delete and re-create of one item, for create and two edits, and for
two items of which one is deleted. The DNS and item runs begin with one operation spent
(the zone or the old project is there), hence 4. Faults, crashes, resyncs, retries, and
the steps of the garbage collector, of ESO and of informers are not bounded. Four
credentials are enough for one client: Keycloak always has another to give, which
`ClientAssumption` asks for and TLC evaluates. One or two
resources are enough because no controller keeps state across keys other than the
external one, which is indexed by name; two resources that share a name are in the run
`item`, and in every theorem that does not assume distinct names. Deadlock is not
checked where the system may rest: with the users' edits spent and the queue empty
nothing is left to do.

**Fairness.** `WF` on the worker's steps (HTTP and API calls end; retries have back-off
but no limit), `WF` on `Sync` and on the informers of children (watches deliver), `SF` on
taking a key (the queue is first-in first-out, so a key that stays in it is taken), `WF`
on the garbage collector and on the termination of namespaces, which Kubernetes promises.
For `TokenCache`: every HTTP call ends, by its timeout if not otherwise, and
`sync.Mutex` is fair (starvation mode), hence `SF` on acquiring it. Nothing is asked of
the users, of Keycloak, of the RealmService or of who provides Secrets.

**Liveness** is under `<>calm`; the client's also under the assumption that its realm is
eventually served for good, which `RealmsConverge` is what provides it, and the
ClusterDex's under the assumption that its Secrets stay.

## 4. Findings

* `client_teardown`: `DeleteClient` promises "missing clients are not an error"
  (`client.go:162-163`), but lists the clients of the realm first and passes the 404 of a
  missing realm on. If the realm goes first, its clients can never be finalized.
* `clusterdex_toggle`: "toggling on renders the baseline"
  (`clusterdex_controller_test.go:487`), but a ConfigMap deleted a moment ago may still
  look as wanted in the informer cache; it is then not written, Ready is set, and as the
  controller watches no child, nothing brings the resource back. The test uses a client
  without a cache.
* `item_swallow`: `certissuer_controller.go:132` treats every error of `CreateOrUpdate`
  as a spec error and returns nil. After one failure the `Failed` it writes changes the
  issuer, whose event brings it back, and the retry renders it. But when that write fails
  too (its error is dropped), or the retry fails and the status it writes is already
  there, a correct issuer stays unrendered until it is edited, the operator restarts or
  the informer resyncs, which it does every ten hours.
* `tenant_recreated`: the TenantNamespace lets go of its finalizer while the namespace is
  still terminating. Created again at that moment, it finds namespace, RoleBinding and
  NetworkPolicy as wanted, becomes Ready, and is not told when they go.

Seen while modelling, without a run of their own (each is a hazard of `PROJECT.json`):

* The realm recorded "so teardown targets the right realm even if the realm CR is gone"
  (`keycloakclient_types.go:52-53`) is recorded only with the first Ready. With a realm
  resource forced out (`qa_break_test.go:82-100`) between the POST and that write, the
  client stays in Keycloak. `NoOrphanClient` shows that it takes a stripped finalizer.
* EnsureRealm "updates it if it drifts" (`client.go:86`), but a `displayName` that was
  cleared is left out of the PUT (`omitempty`, `client.go:24`). Keycloak keeps the old
  one, Ready is set, and each later reconcile sends the same PUT in vain.
* "If the desired representation changes (e.g. redirect URIs), the existing Keycloak
  client must be updated, not silently left stale" (`internal/keycloak/qa_break_test.go:13-15`),
  but redirect URIs that were all revoked are left out of the PUT (`client.go:35`) and
  stay registered, though with the standard flow off. The server of that test replaces a
  client on every PUT, and the test never clears its redirect URIs.
* "The cluster keeps its pre-existing (break-glass/static-token) setup"
  (`clusterdex_controller.go:77-78`, `clusterdex_types.go:164-166`), but `argocd-cm` and
  `argocd-rbac-cm` are deleted by name, whoever made them, also by a ClusterDex that was
  created disabled.
* "Records must fall inside the referenced tenant zone" (`dns_controller.go:87-88`), but a
  record is compared with its zone only when it is reconciled, and zones are not watched.
  After an edit of the zone's name its records stay Ready outside of it. Even an edit or
  a restart only makes them Failed; the endpoint is not withdrawn.
* A rejected DNSRecord whose status write is lost has no condition, and is not retried.
* Renaming the realm of a KeycloakRealm leaves the old realm in Keycloak.
* `tenantChildName` joins tenant and name with a dash, "so the name stays unique"
  (`common.go:81-84`) as far as truncation goes; but the issuers `eu-le` of tenant `acme`
  and `le` of tenant `acme-eu` both render `tenant-acme-eu-le`, and so do two resources
  of one name in different namespaces. The second overwrites the first, and deleting
  either deletes the child of both; `NoOrphanChild` holds all the same.
* Started without `KEYCLOAK_URL` (`main.go:100`) the operator does not run the Keycloak
  controllers, and nobody takes the finalizers of their resources off.

## 5. Proofs

Every theorem holds for any resources, names, settings and number of edits, and for any
number of faults, crashes and resyncs.

| Theorem | States | Assuming |
|---|---|---|
| `RealmTypeCorrect` | `RealmTypeOK` | |
| `NoRealmIsOrphaned` | `NoOrphanRealm` | `StableRealmNames` |
| `NoRealmIsTornDownAlive` | `RealmGoesOnlyWithItsResource` | and `DistinctRealmNames` |
| `ReadyMeansProvisioned` | `ReadyRealmIsProvisioned` | the same |
| `RealmsLiveTheLifecycle` | `RealmsImplementLifecycle` | the same |
| `RealmsAreTheService` | `RealmsServeClients` | the same |
| `NoRealmWakeupIsLost` | `QuietIsReady` of realms | |
| `ClientTypeCorrect` | `ClientTypeOK` | |
| `NoSecretIsOrphaned` | `NoOrphanSecret` | `StableSecretNames` |
| `RecordedClientGoes` | `RecordedClientIsTornDown` | |
| `ClientsStay` | `ClientsStayInReferencedRealms` | `StableClientIDs` |
| `NoClientIsOrphaned` | `NoOrphanClient` | `StableClientIDs`, `StableRealms` |
| `NoClientWakeupIsLost` | `QuietIsReady` of clients | |
| `QuietClientsWork` | `QuietReadyClientWorks` | `OwnClients` |
| `ItemTypeCorrect` | `ItemTypeOK` | |
| `NoChildIsOrphaned` | `NoOrphanChild` of issuers and projects | `StableTenants` |
| `ReadyMeansRendered` | `ReadyItemIsRendered` | `StableTenants` |
| `ItemsLiveTheLifecycle` | `ItemsImplementLifecycle` | `StableTenants` |
| `NoItemWakeupIsLost` | `ResultInv(Issuers)` of issuers and projects | |
| `DexTypeCorrect` | `DexTypeOK` | |
| `NoChildIsOrphaned` | `NoOrphanChild` of ClusterDexes | `StableChildren` |
| `ReadyMeansRendered` | `ReadyDexIsRendered` | `DistinctChildren` |
| `NoDexWakeupIsLost` | `QuietIsReady` of ClusterDexes | |
| `DnsTypeCorrect` | `DnsTypeOK`, of records and zones | |
| `NoRecordIsForgotten` | `ResultInv(Keys)` of records | |
| `ReadyMeansRendered` | `ReadyRecordIsRendered` | `GuardedDeletes` |
| `RecordsStayInside` | `RenderedInsideZone` | |
| `TenantTypeCorrect` | `TenantTypeOK` | |
| `NoNamespaceIsOrphaned` | `NoOrphanNamespace` | `StableNamespaces` |
| `NoNamespaceIsTornDownAlive` | `NamespaceGoesOnlyWithItsResource` | and `DistinctNamespaces` |
| `TheFirstTenantIsConfined` | `FirstTenantIsConfined` | the same |
| `NoTenantWakeupIsLost` | `QuietIsReady` of TenantNamespaces | |
| `TokenTypeCorrect` | `TokenTypeOK` | |
| `RetriesAreFresh` | `RetryGetsANewToken` | |
| `GoodTokensStay` | `GoodTokenStays` | |

A theorem is in the module of its controller, `..._proofs`. An assumption `Stable...`
says that users do not edit the name a resource gives its external counterpart,
`Distinct...` that no two resources give the same; nothing in the operator enforces
either, and the properties are false without. `OwnClients` says that no two resources
stand for one client of a realm both may refer to, or name one Secret. `StableRealms` is
both for the realms clients refer to: a client keeps its `realmRef`, a realm its name, and
no realm has the name of another or of one that nobody manages. Beyond these only the
named assumptions on constants are used, which TLC evaluates on every run.

**Who holds what** (`FinalizerInv` in `ControllerRuntime_proofs`). That nothing is
orphaned is not inductive: the worker acts on a copy that may be arbitrarily old. The
invariant says why old copies do no harm. Every copy of an object, in the cache or in the
worker, is of an incarnation no newer than the stored one; within an incarnation a
deletion is never undone, and a finalizer, once on, comes off only in the write that lets
the object go (`CacheInv`, `ReadInv`). So a worker that provisions has read a managed
object, which is therefore still in the API server with its finalizer on; a worker that
takes the finalizer off has read a deleted object (`TeardownInv`), is the only worker,
and has seen its deletes succeed, so what it held is gone and stays gone. A successor of
the same name gets its finalizer only after it was read, by the same single worker, so no
old teardown is still under way. Each controller's invariant adds what it has undone when
it gets to the finalizer: for a realm and an item one delete, for a ClusterDex the
children counted off one by one (`GoneBelow`).

**Ready tells the truth** (`VersionInv`). A copy of the same incarnation and generation
as the stored object has its spec (`CopiesInv`), so a status write that is not in
conflict is for the spec the worker rendered, and a worker that renders with an old copy
cannot find a Ready object of a newer generation made by somebody else, for there is
nobody else. The controllers add that what the worker has written so far is as its copy
asks (for a ClusterDex, child by child: `AsReadyBelow`). As it asks means as far as a
call can do it: a PUT leaves a display name or redirect URIs that were cleared as they
were, so the theorems of realms and clients speak of those that are asked for, and the
rest is false (section 4). Of a disabled ClusterDex the theorem says that there is no
child of ours, and nothing of what was there before.

**Clients** add three arguments. The recorded realm: a resource that has one carries the
finalizer, a teardown that comes to the Secret without visiting Keycloak had no record to
go by, and otherwise Keycloak has no such client in that realm (`RecordedGone`). The
realm of a client: whatever realm a copy records or a worker works in is one that a spec
of that resource may name (`ReferInv`). The client itself: a realm that is up is visible
in the cache and a client is in a realm that is up (`VisibleInv`, which is what
RealmService promises), so a teardown that sees no realm has no client to delete
(`TornDown`). These theorems are about `ClientSpec`, in which the realms may take any
step of `RealmService`. That the realm controller takes no other is `RealmsAreTheService`:
with distinct names each step of `RealmSpec` changes at most one realm, brings one up only
while its resource carries the finalizer, which the cache then shows (`SeenInv`), and
takes one down only for a resource that is being deleted; every other step is a refresh
of what clients see, or a stutter.

**No wakeup is lost** (`WakeInv`). A reconcile ends for good (`Done`) in a few places, and
on a copy that may be old by then. `FreshInv`: if the cache shows the resource as it is
and its key is not queued while a reconcile is under way, the reconcile works with that
very object, because whatever changed it since would have put the key into the queue, or
has still to be synced. So a write that succeeds at the end decides what the resource is
(`StatusInv`: Ready comes with the finalizer and takes back what other conditions said),
and one that did not is a retry; `ResultInv` says of a quiet resource that it has arrived.
The ClusterDex, which skips the write if Ready is recorded, needs both: that record is
then the current one. `ResultInv(rejects)` leaves out, for resources in `rejects`, that
they are Ready, but neither the finalizer nor the deletion: it is `QuietIsReady` for the
empty set, and what is true of records and of issuers, whose errors are left to the user.

**Quiet clients work** (`ProgressInv`). What a reconcile has done so far is as its copy
asks, as long as the client it found or made is still in Keycloak: what `Serves` asks of
it (`EnsuredInv`; that a PUT brings it about is the lemma `UpdateServes`), the credential
it read (`FetchedInv`), the Secret it wrote (`WrittenInv`).
A realm that goes down takes the client with it, and nothing is claimed of one that is
gone; a new one, with another credential, is made by a reconcile of the same resource
only, and the single worker is busy with this one. `FreshInv` carries this from the copy
to the stored resource when Ready is written. Two resources that stand for one
client, or share a Secret, overwrite each other's; hence `OwnClients`.

**Tenants.** `OldCopiesInv`: a copy that says "deleting" of a resource that is gone can
only be of one whose namespace was terminated, so if that namespace is active again it
was given to a tenant since, whose resource is another. For the first tenant
(`ConfinedInv`): before users did anything the parts are those found in the cluster and
no cache shows a part that is not there (`Untouched`). As long as the first resource is
there and not deleted, its namespace is not terminating, and no part of it goes, as parts
go only with a terminating namespace; so whatever a cache shows of them exists
(`Confines`), a part the worker has passed was written or was seen (`FirstIsRead`), and
Ready is written after the last.

**DNS.** `ZoneTypeInv`: every copy of a zone, stored, cached or in the hands of its
worker, is an object of that zone, so it has a name some spec of that zone gave it, and a
record is rendered only after it was compared with such a copy. That a Ready record keeps
its endpoint is against the collector: what it has condemned belonged to an incarnation
that is gone, and no later one gets its UID (`CondemnedInv`), so an endpoint that was
taken over is no longer what was condemned and a delete that names the version it saw
fails. Zones are an `INSTANCE`
of `ControllerRuntime`, and the lemmas of `ControllerRuntime_proofs`, which are about its
own variables, cannot be cited for an instance; the step lemmas of zones are therefore
proved once more, as far as the types need them.

**Token cache.** The mutex is held by exactly who logs in, so what is stored is the only
login there was since the last rejection (`StoreInv`); a caller that tries again has
dropped the token it saw rejected, or found it dropped, and whatever is cached after that
is newer than its first 401 (`FreshInv`). A login cannot spoil the cache for the same
reason: with the mutex held nobody else stores, and when Keycloak rejects what it gave out
it rejects the token in the cache and the one that is on its way alike, so what is stored
is no worse than what it replaces.

*Only model-checked.* Everything about liveness, which is out of the prover's reach: the
`...Converge` properties and `EveryRequestReturns`. Every invariant, action property and
refinement of a passing run is a theorem.

## 6. Abstractions

* The informer jumps to the latest version when it catches up; the lag is arbitrary but
  intermediate versions are skipped. After a restart it lists the latest version. A
  conflict is inequality of the whole record instead of a `resourceVersion`; the two
  differ only if a sequence of writes restores the very same record.
* `CreateOrUpdate` of a child is one step: read, compare and write together. Where the
  read goes to the API server (unstructured children, impersonating clients) a change
  between read and write would be a conflict, which is the outcome `"down"`. Where it
  goes to an informer cache (ConfigMaps of a ClusterDex, the parts of a tenant) the cache
  is a variable of the model.
* The Secret of a client is written whenever it is reconciled: `StringData` never equals
  what is stored, so a stale copy of it can only cause a conflict.
* A failed `Get` of a Secret, or a client that cannot be built, ends a reconcile with an
  error before it did anything; that is a retry without effect and left out.
* The Secrets a ClusterDex waits for are looked at when the reconcile begins.
* Specs are represented by the fields a property tells apart. Helm values, policy text,
  targets, TTLs and limits follow from the spec and are written with it.
* Kubernetes empties a terminating namespace in one step, and removes it in another.
* A PUT to Keycloak changes the fields its body has and leaves the others alone, which is
  how its Admin API treats fields that are null; with a server that clears them the two
  disagreements of section 4 about a PUT do not arise. The empty string and the empty
  list are the only values that are left out; the flags have no `omitempty`.
* The garbage collector deletes an endpoint only if it is as it was looked at
  (`GuardedDeletes`, `TRUE` in the runs). If its precondition were the UID of the endpoint
  alone, which a takeover does not change, `ReadyRecordIsRendered` would be false: an
  endpoint that was just taken over would go, and as the record controller does not watch
  endpoints, nothing would bring it back.
* A controller reference is taken over by a same-named successor, as
  `SetControllerReference` compares group, kind and name, not the UID.
* Keycloak is changed by the operator alone, but for `AmbientRealms` and stripped
  finalizers. A request whose answer is lost took effect when it was sent.
* Every client has a credential in Keycloak from its creation.
* Properties that speak of a child or a realm by the current spec need specs that keep
  its name, and distinct names for distinct resources: nothing remembers an old name,
  and nothing in the operator keeps two resources from naming the same thing. These are
  the assumptions of section 5; the instances of the runs are chosen so, but for the two
  issuers of `item`.
* Events, logs, metrics and the wording of conditions are left out.

**Not modelled.**

* A request to Keycloak that was given up and takes effect only after later requests: a
  lost answer takes effect within its step. With `http.Client`'s timeout and one worker
  per controller the window is that of one request in Keycloak's queue, and nothing in
  the operator defends against it, so the orphan properties would fail by construction.
* A start without `KEYCLOAK_URL`, after which the two Keycloak controllers do not run; the
  `r.Keycloak == nil` branches cannot be reached, as the controllers are only registered
  with a client.
* Names longer than 63 characters, which `tenantChildName` cuts and tells apart by a hash.
* Two operators at once. Leader election is off by default; with it, a successor starts
  when the lease of its predecessor ran out, which is `Restart`.
* Generated deep copies, CRDs, RBAC, Helm charts, samples, tests and build scripts, which
  have no behaviour of their own.

## 7. Plan

What is left, in order of what it would tell:

1. Requests to Keycloak that take effect after their answer was given up, with the
   properties weakened to what can be had.
2. `CatalogItemLifecycle` for the TenantNamespace, whose namespace is still there when
   its resource goes: it needs a lifecycle with a terminating stage; and for the
   ClusterDex, whose three children go one by one.
3. One theorem about both Keycloak controllers in one specification: the step from
   `RealmsAreTheService` and the theorems about `ClientSpec` to it is made in prose here.
4. `QuietIsReady` for zones, with the lemmas about `FreshInv` proved for the instance.
