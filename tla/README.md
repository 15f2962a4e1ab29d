# A TLA+ model of Open-CAS CSI

Open-CAS CSI gives pods on Kubernetes volumes that are cached on a local device of their node. This
directory holds TLA+ modules for its core, the TLC configurations that check them, and proofs that
TLAPS checks. Paths such as `cache_controller.go` are below `src/pkg/`; `PROJECT.json` maps every
definition to its lines.

## 1. The system

| Component | Source | State it keeps | Operations | Modelled in |
|---|---|---|---|---|
| Cache controller of the operator | `csi-operator/internal/controller/cache_controller.go` | finalizer of the `Cache` resource, operating-cache label of the `Node`; its work queue | `Reconcile`, woken by events of the resource and of its node | `CacheReconciler` |
| Open-CAS manager | `opencas/api.go`, `opencas/casadm.go` | none of its own; the caches of a node | start, stop, list, set mode, line size, add core, remove core, by-id links | `OpenCAS` (effects) |
| CSI node server | `csi-driver/node.go`, `utils/utils.go` | cores, by-id links, file systems, staging and target mounts | stage, unstage, publish, unpublish | `NodeServer` |
| CSI controller server | `csi-driver/controller.go`, `k8sutils/k8sutils.go` | backend PVC, intermediate Pods, their protection labels | create, delete, controller publish, controller unpublish | `ControllerServer` |
| Admission webhook | `webhook/main.go` | none | verdict on deletions | `ControllerServer` (`Validate`) |
| Command jobs | `k8sutils/k8sutils.go` (`ExecCommandJob`), `opencas/casadm.go` | Jobs in the cluster, told apart by name | run a casadm command on a node, wait, read its exit code and log, delete | `CommandJob` |
| DriverInstance controller | `csi-operator/internal/controller/driverinstance_controller.go`, `csi-operator/internal/helpers/helpers.go` | finalizers of the `DriverInstance` and of the driver's objects; its work queue | `Reconcile`: create or patch the objects in order, release them in reverse order | `DriverInstance` |
| Cache validation webhook, identity server, gRPC server, entry points, installation | see `PROJECT.json` | none | constant answers, transport, start-up | not modelled |

How they interact. A user's `Cache` resource names the device to be the cache of a node. The operator
starts that cache with casadm jobs and puts its id in a label of the `Node`. A pod with a cached volume
makes the provisioner call `CreateVolume` (a backend PVC), the attacher call
`ControllerPublishVolume` (an intermediate Pod that brings the backend device to the node), and kubelet
call `NodeStageVolume` (make a link to the device, add it as a core to the cache the label names, format,
mount) and `NodePublishVolume` (bind it into the pod). Deletion goes the other way. The components
share no memory. They meet in API objects (label, finalizers, Pods, PVs) and in the table of caches of
the node, which operator and node server change independently, through casadm jobs whose names may collide.

What is hard about it:

* every handler is a sequence of remote calls; each can fail, take effect and fail, or be the last
  before a crash, and nothing is transactional;
* kubelet and the sidecars give up on a call after seconds or minutes and send the next one, while the
  handler goes on: casadm jobs wait up to 5 minutes, an intermediate Pod up to 2;
* decisions rest on listings and cached reads that are stale by the time they are acted on, and devices are named by
  ids (`/dev/cas1-2`) that casadm gives out again;
* errors are partly requeued, partly only logged, partly overwritten;
* nodes reboot, and take their caches, links and mounts with them.

What makes each part correct:

* *Cache controller*: it never comes to rest with anything but the configured cache on the node, and never stops
  the wanted one; it gives up the finalizer only when nothing it should stop still runs; the label never keeps naming the
  wrong cache and is emptied before its cache is stopped; everything asked for happens in the end.
* *Node server*: a successful unstage leaves nothing behind and no abandoned call brings it back; what
  kubelet takes for staged is cached and mounted from its own device; a pod never gets a bare directory or the volume
  of another; data are never formatted away; unstaging ends even for detached volumes.
* *Controller server and webhook*: a successful delete or detach leaves no object behind; objects in
  use are not deleted; creation and deletion come to an end.
* *Command jobs*: done means carried out; one caller at a time uses a name, and no job is deleted under the call that waits for
  it; every command is done in the end, whatever jobs of the same name are in the way.
* *DriverInstance controller*: at rest every object of the driver exists and is configured; objects are created
  after what they refer to and released before the resource; deployment and removal come to an end.

`PROJECT.json` lists the hazards behind these statements at the lines where they bite.

## 2. The modules

    OpenCAS                     the table of caches, and what casadm does to it
      <- OpenCASProofs                 lemmas about its operators
      <- CacheReconciler        the operator's Cache controller for one node
           <- MCCacheReconciler        instances, statements that are violated
           <- CacheReconcilerProofs    what it does to the node (uses OpenCASProofs)
                <- CacheLabelProofs    what it stops, and what it does to the label
      <- NodeServer             the CSI node server of one node
           <- MCNodeServer
           <- NodeServerProofs         the calls of a volume (uses OpenCASProofs)
                <- NodeDeviceProofs    the devices they work on
    ControllerServer            the CSI controller server for one volume, with the webhook
      <- MCControllerServer, ControllerServerProofs
    ExclusiveCommand            abstract: what ExecCommandJob promises to its callers
    CommandJob                  a casadm command as a Kubernetes Job   (implements ExclusiveCommand)
      <- MCCommandJob, CommandJobProofs
    DriverInstance              the operator's DriverInstance controller
      <- MCDriverInstance, DriverInstanceProofs

(`A <- B`: B extends A.) Definitions called `X_Suffix` next to a definition `X` are plausible wrong
versions of `X`. No specification uses them; they show that a property can fail (section 5).

**OpenCAS.** The caches of a node are a function from ids to device, line size, mode and cores. casadm
and the kernel module are not in the repository. `CanStart` (one cache per device) and `CanStop` (no
core held open) are how the code uses them.

**CacheReconciler.** `rec` holds the local variables of the running `Reconcile` and the call it is at;
each call to the API server or to casadm is one action, so edits, volumes, outages and crashes fall
between any two. `cr` is the resource (`fin` its finalizer), `queue` the single place of the work queue.
`rec.inst`, `rec.todo` and `rec.modify` are `GetCacheInstances`'s result, `removeInstances` and
`modifyInstance`. `label` is the label in the API server, `shown` the one that the informer shows: they differ after a
patch whose event is late, until some later read. Setting or emptying the label is a merge patch against the copy
that was read, so it is empty when that copy has the value already (`PatchLabel`). The environment is users,
volumes that come to any running cache and are mounted, reboots, and the loss of the Node object.

**NodeServer.** `handler[v]` is the call that holds the mutex of volume `v`, `waiting[v]` the calls
that wait. A call's `live` says whether kubelet still waits for it. Only the read of the label uses the
request's context, so only that step of an abandoned call fails on account of it. `kub[v]` is what
kubelet believes of the volume. An "uncertain" volume is unstaged later, a "failed" one is not: that is
kubelet's distinction between error codes. `link[v]` tells a by-id link to the present device from one to
a device that is gone. A cached device is known by the ids of cache and core (`coreId[v]`; `VolumesAt(i, n)` is
what `/dev/cas<i>-<n>` is at the moment). A call takes them from a listing or from its own AddCore, keeps them in
`cache` and `core`, and every later step (lsblk, mkfs, mount, bind, remove) works on whatever `Device(v)` is by then.
When casadm gives ids to a volume that a call of another one still holds (`reuse`), the two are entered in the history
variable `exposed`: nothing in the code protects them from each other, so the properties about devices leave them
out. TLC finds each of these properties violated without that exception. For example, the cache is stopped and
started again between lsblk and mkfs, another volume gets the path, its pod writes and leaves, and the older call
formats it. The environment is kubelet, the attach controller and an operator that starts caches, stops those that
casadm lets it stop, and changes the label at any time, which covers `CacheReconciler`.

**ControllerServer.** PVC and Pods are created labelled, protected by the webhook on account of the
label, and deleted in the same two steps. They are therefore one kind of object with the keys `Backend`
and the nodes. `know[k]` is what the sidecars believe of an object and want of it. A PVC that is deleted before it
was ever bound is "dropped", not "terminating". `WaitForPod` is the wait inside `CreateIntermediatePod` with its
three endings: running, two minutes over, watch closed (which the code does not take for an error). The mutex is
a plain Go mutex: a call that arrives as it is released may take it ahead of those that wait (`overtake`). The object
concerned is then in the history variable `overtaken`: a given-up publish call that was overtaken by the
unpublish creates its Pod again, and the properties leave such objects out.

**CommandJob.** `call[c]` is a caller in `ExecCommandJob`, one action per request: create, watch, wait, list
pods, read the log, and the deferred deletion. `job` lists the Jobs ever created, so that an index is a uid; the
name is what `getJobName` leaves of the command. A command is the letter of the casadm command and its
parameters, cut after `MaxName` of them in place of 63 characters. The cluster runs one pod of a Job at a time, replaces a
failed one, and removes the pods of a deleted Job, one of which may carry out its command first. A finished Job
expires after a minute unless its caller is still there, which takes less than that to read the result. The module
shows where the outcomes come from that the others take for granted: `job` is a call that fails before its pod
has run, `late` one that fails after it (a failed log request, a crash), `cut` a listing read from a pod that
still runs. `effect` is the set of Jobs whose command has taken effect; a pod may fail after that, and its
replacement then carries the command out again.

**ExclusiveCommand.** The same without Jobs, pods and watches: among callers with the same name one at a time uses
it, nobody but the user gives it back, and a strict caller (start, add, set mode, which look at the exit code) is told
of success only if its command took effect during that use. It also says what is not promised: a name may
stay taken after its user has left, until it expires, and a command may take effect after its failure was reported.
`CommandJob` is shown to implement it (`CommandsExclusive`; the mapping is `Taken`, `Using`, `Worked`, `Told`).

**DriverInstance.** `di` is the resource, `obj` the objects of the driver, `rec` the local variables of the
running `Reconcile` with its place in the list. Every request is an action. A merge patch (`Merged`) sends what
differs from the object that was read, without a check of its version; an Update is refused if the version is not
the one read. Of an object's contents the model keeps the labels, one value for the rest of what comes from the
specification, the labels a workload selects its pods by, finalizer and owner; `Configuration` says for each
kind what it depends on and refers to. Others may edit labels and contents of any object. Edits of contents pass the
event filter for workloads only; `drifted` (history) has the other objects whose contents were edited and not read
since. The cluster collects what belongs to a resource that is gone, empties
namespaces that are deleted, and removes what has no finalizer.

**Kinds of faults** (`FaultKinds`; their total number is bounded by `MaxFaults`):

| Kind | Meaning |
|---|---|
| `api` | an API request fails without effect |
| `lost` | an API request takes effect and its answer is lost |
| `label` | a patch of the Node fails |
| `lag` | the informer shows the Node as it was before the operator's own patch |
| `job`, `late` | a casadm job (in the node server also an API read) fails without effect; takes effect and is reported as failed |
| `cut` | a listing job whose output is cut short: `ListCaches` ignores the exit code and sees no cache |
| `local` | a local command (find, link, lsblk, mkfs, mount, unmount) fails; mkfs perhaps after its work, find without a message |
| `timeout` | kubelet or a sidecar gives up on a call, which goes on |
| `overtake` | a call takes the mutex ahead of those that wait for it (node and controller server) |
| `reuse` | casadm gives a core the ids that a running call of another volume still holds |
| `crash` | operator, node plugin or controller plugin restart |
| `detach`, `pv` | a volume is detached by force; its PV cannot be read any more |
| `forget` | kubelet takes a final error to mean that nothing was done |
| `slow`, `watch` | a Pod does not run within two minutes, or a Job does not end within five; its watch fails or is closed |
| `casadm` | the pod of a Job fails |
| `stray` | somebody deletes an object of the driver by accident |

A casadm job also fails whenever its node is down; that needs no fault and has no bound.

## 3. The runs

| Run | Shows | Bounds |
|---|---|---|
| `reconcile_faults` | `TypeOK`; `SettledMeansConfigured`: at rest the node runs exactly the wanted cache; `WantedCacheKept`: that cache is never stopped; `FinalizerHeldUntilClean`; `WantedCacheRuns`, `DeletionCompletes`; all with lagging reads of the label | 2 ids, 2 devices, 4 specifications, 1 volume; 1 fault, 3 edits, 1 outage |
| `reconcile_label` | `SettledLabelFits`, `UnlabelledBeforeStopped`, while patches of the Node succeed and are shown, and answers of jobs arrive; also with cut listings | as above, with 3 ids and 2 faults |
| `node_overtake` | `TypeOK`; `CleanWhenUnstaged` with abandoned, waiting and overtaking calls and reused core ids, for a file-system and a raw block volume | 2 volumes, 1 cache, 2 core ids; 2 faults, 2 pods, 3 operator steps |
| `node_faults` | `StagedIsReady`, `PublishedIsVolume`, `DataSurvives` with reused core ids, crashes and forgetful kubelets | 2 file-system volumes, 1 cache, 2 core ids; 2 faults, 2 pods, 3 operator steps |
| `node_live` | `UnstageCompletes`, `StageCompletes`, also with forced detach, lost PV, cut listings | 1 volume, 2 caches; 1 fault, 2 pods, 3 operator steps, 1 reboot |
| `controller_faults` | `TypeOK`; `NothingLeftBehind`; `ProtectionKept`: what is attached and protected stays; `DeletionCompletes`, `CreationCompletes`, with every kind of fault | 2 nodes; 3 faults, 4 attachments |
| `driver_instance` | `TypeOK`; `SettledMeansDeployed`; `CreatedAfterItsRefs`, `ReleasedLast`; `DriverDeployed`, `DriverRemoved` | 3 kinds of objects, 3 specifications; the resource is created twice and edited once; 1 failing request, crash, or object deleted or edited by others |
| `command_job` | `TypeOK`; `DoneMeansCarriedOut`, `WaitedJobStays`; `CommandsExclusive` (refinement); `CommandsDone` | 2 callers with the same job name, for 3 pairs of commands; 2 faults, 1 replacement of a failed pod |

Four further runs have an expected violation; section 4.

*Why these bounds.* What a reconciliation can get wrong is a matter of one change falling between two of its
calls, on the way from one specification to another and back. Three edits among four specifications give such
paths with another device, another line size and another mode, and a volume makes a removal deferred. Two
devices mean at most two caches at a time, so two ids are enough for a free one. The label run has a third, so
that a cache started anew can have an id that no cache had before. One fault is enough to interrupt a
reconciliation once. The safety properties do not rest on that number: they are proved for any (section 6). A
call of the node server can be overtaken by an unstage and by a second stage: two pods in sequence and two faults
(a timeout, and an overtaking or a failing step) suffice. For a path to be given to another volume, two volumes, one
cache that is stopped and started again (three operator steps with the first start), and the fault `reuse` are
enough; `node_overtake` and `node_faults` therefore have one cache and no reboot, after which no path and no call is
left. The label that names the wrong one of two caches is in `node_live`, and the proofs have any number. In
the controller four attachments over two nodes give a return to the first node while calls of the first
attachment are still around. The driver's objects are of four classes: the namespace, which holds others and goes
last; objects outside it; objects in it with a finalizer; workloads, without one and with a selector. One kind of each
but the second is in the run; objects outside the namespace are treated as those in it, only the namespace does not
take them along, and the proofs cover any selection of kinds. A second creation makes objects of an earlier
resource meet a new one. Two callers are enough for a name to be taken, and two faults for a Job to be left behind
and for its successor to fail. Adding a core, listing and stopping a cache stand for the three ways in which callers treat
a job's end (exit code looked at, output read whatever it is, error of a missing cache accepted). The bounds are in the guards of
users, faults and outages only; the code's own steps have none. A model stops when the bounds are used up and nothing is asked for, as the system does when nobody
wants anything of it, so deadlock is not checked.

*Fairness.* `CacheReconciler`: weak fairness of `Reconcile`, because the work queue is served by a
worker, requeued items come back, and every call returns (a job after at most 5 minutes). `NodeServer`:
of the handlers' steps, of kubelet's repetition of calls that have not succeeded, and of the attachment.
`ControllerServer`: of the handlers' steps, of the sidecars' repetitions and of the cluster's progress
(PVCs get bound, Pods start when they can, terminating objects go). `DriverInstance`: of `Reconcile`, as above,
and of the garbage collector and namespace controller. `CommandJob`: of each caller's steps (every request
returns; reconciliations are requeued and kubelet repeats its calls) and of the cluster, which starts, ends and
removes pods and Jobs. Users, faults, outages and the
operator's changes have no fairness. `WantedCacheRuns` and the `DeletionCompletes` of CacheReconciler are
about a node that stays up in the end; `StageCompletes` about a label that keeps naming a running cache;
`DriverDeployed` leaves out a namespace that somebody else deleted and labels that no longer select the pods (`Stuck`).

## 4. Where the code does not do what the repository says

Each of these runs checks one quoted statement, and TLC finds a behaviour of the code that breaks it.

| Run, property | Statement | What happens |
|---|---|---|
| `label_stuck`, `EmptyLabelIsTransient` | `node.go:143` "if label exists, but is empty, then current cache is being removed" | the specification moves to another device and back while a volume keeps the first cache: the label is emptied, and `Reconcile` sets it only after a start. Staging is refused for good. |
| `orphan_cache`, `RemovalStopsCache` | `README.md:115` "Removing a Cache resource stops the corresponding local cache instance." | the resource is deleted before it has its finalizer. The failing patch is only logged, the cache is started, and no later reconciliation finds the resource. |
| `publish_retry`, `PublishCompletes` | `node.go:370` "Check if mount is compatible. Return OK if these match" | the requested flags contain "bind", which the kernel never lists; a repeated publish of what is published is refused for good. |
| `terminating_pod`, `AttachedHasPod` | `README.md:128` "the backend for the cached volume is requested on the same node where the Pod is scheduled" | publishing takes a Pod that is being deleted for the Pod it needs. |

Further deviations can be read off the models and have no run:

* for a Cache resource being deleted, a stop that is "deferred until they are no longer present"
  (`cache_controller.go:165`) never happens, because nothing is requeued;
* a label that could not be deleted is not cleaned up later, although the comment at `cache_controller.go:216`
  speaks of a retry, because the requeued reconciliation finds no resource;
* the clean-up of a slow intermediate Pod takes the label off and then may fail to delete (`controller.go:306`,
  errors ignored); the next publish uses the Pod, which the webhook no longer protects, against `README.md:337`
  "Webhook prevents accidental deletion of required resources in a protected namespace." `ProtectionKept` is
  therefore about Pods that have their label;
* a failure to add the finalizer to a DriverInstance is only logged (`driverinstance_controller.go:93`). If the
  resource is deleted before a later reconciliation adds it, its objects keep their finalizers, which nobody takes
  off, against `README.md:109` "Deleting a DriverInstance resource results in the Open-CAS CSI Driver removal."
  `DriverRemoved` is about resources that have it;
* the operator "monitors them for changes" (`README.md:108`), but the event filter lets only labels, deletions and
  the specifications of workloads through: an edit of the contents of a ConfigMap or role goes unnoticed until the
  next reconciliation. `StrayEdit` makes such edits, and `SettledMeansDeployed` leaves the contents of these
  objects (`drifted`) out;
* a device path of an older listing may be used for another volume (`reuse`, section 2), and a call that is overtaken at
  the mutex of the controller server may leave a Pod behind (`overtake`); no statement of the repository is
  about either;
* an edit of `spec.labels` changes the selectors of Deployment and DaemonSet (`helpers.go:381`), which the API
  server refuses, and reconciliation is repeated for good.

## 5. Wrong versions of the code

For each property of each passing run `PROJECT.json` names a mapped definition and a wrong version of
it (a dropped guard, an ignored error, a swapped order). With the wrong version in its place the run
finds the property violated: it is not true by the shape of the model.

## 6. What is proved

Every invariant, every action property and the refinement that the passing runs check are theorems, for any
sets of ids, devices, volumes, nodes, callers and specifications, and any bounds. What the modules assume of their
constants is all that is assumed (`DefaultsAssumption`, `ReconcilerAssumption`, `NodeAssumption`,
`ControllerAssumption`, `DriverAssumption`, `JobAssumption`: special values are not ids or sizes, users give
well-formed specifications, bounds are numbers, callers are finitely many), together with the hypotheses on
`FaultKinds` in the table. A hypothesis says which faults do not happen; with each of those faults TLC finds the
property violated, so none can be dropped.

| Theorem | States | Hypothesis | What happens without it |
|---|---|---|---|
| *CacheReconcilerProofs* | | | |
| `TypeCorrect` | `TypeOK` | | |
| `RestIsConfigured` | `SettledMeansConfigured` | no `cut` | a cut listing shows a busy node as empty |
| `FinalizerHeld` | `FinalizerHeldUntilClean` | no `cut` | a deleted resource loses its finalizer while its cache runs |
| *CacheLabelProofs* | | | |
| `WantedIsKept` | `WantedCacheKept` | | |
| `UnlabelsFirst` | `UnlabelledBeforeStopped` | no `label`, `lag` | emptying the label fails, which is only logged, or a label that the informer does not show yet is not emptied, and the cache is stopped |
| `RestIsLabelled` | `SettledLabelFits` | no `label`, `lag`, `late`, `crash` | the label is set only after a start that was answered; a cache that was started otherwise is found to fit, and an older label stays |
| *NodeServerProofs* | | | |
| `TypeCorrect` | `TypeOK` | | |
| `UnstagedStaysClean` | `CleanWhenUnstaged` | no `cut`, `pv`, `detach`, `forget` | the link, PV or listing by which unstaging finds the core is gone, and it succeeds without removing it |
| *NodeDeviceProofs* | | | |
| `StagedStaysReady`, `PublishesVolumes` | `StagedIsReady`, `PublishedIsVolume` | no `overtake` | an abandoned unstage runs after the stage call that followed it |
| `DataIsKept` | `DataSurvives` | | |
| *ControllerServerProofs* | | | |
| `TypeCorrect`, `LeavesNothingBehind`, `KeepsProtection` | `TypeOK`, `NothingLeftBehind`, `ProtectionKept` | | |
| *DriverInstanceProofs* | | | |
| `TypeCorrect`, `RestsWhenDeployed` | `TypeOK`, `SettledMeansDeployed` | | |
| `CreatesInOrder`, `ReleasesLast` | `CreatedAfterItsRefs`, `ReleasedLast` | | |
| *CommandJobProofs* | | | |
| `TypeCorrect`, `ReportedMeansCarriedOut`, `WaitedStays` | `TypeOK`, `DoneMeansCarriedOut`, `WaitedJobStays` | | |
| `CommandsKeepPromise` | `CommandsExclusive` | | |

The exceptions in the properties themselves (`exposed`, `overtaken`, `drifted`) are history variables that only the
faults `reuse` and `overtake`, and edits by others, fill: without these faults the theorems are about every volume,
object and content.

The properties are not inductive as they stand: they speak of moments of rest, of answers, or of what somebody
believes, and say nothing of the way there. The inductive invariants add that.

**CacheReconciler, the node.** `IInv`. `Calm` says that the resource is not queued and the node is up: as soon as an
edit or outage makes the resource queued, nothing is claimed any more, because another reconciliation will follow.

* `Fresh`: under `Calm`, the resource that a running reconciliation has read is the present one;
* `Synced`: under `Calm`, and unless an error is noted that will requeue, the listing still says which caches
  run, the caches not yet removed are exactly those still to do, and the wanted one is known or absent
  (`Classified`, `Accounted`). Volumes may change meanwhile; ids, devices, line sizes and modes do not;
* `DeviceUnique`: no two caches have the same device, so at most one is the candidate;
* `DeletionAccounted`: what `Synced` says, for a resource being deleted, without `Calm`: then no step starts
  a cache, so every running one was listed and is still to do, had volumes, or is accounted for by an error;
* `StartedId`: when the label is to be set, the started cache has an id.

**CacheReconciler, what it stops and the label.** `RemovesUnwanted`: a running cache that is still to be removed lacks
the device or the line size that the pass works for. The pass may be out of date, but while its resource is the
present one `WantedCacheKept` follows. `LabelOwned`: from its start to the last removal the label is what Reconcile has
read, or was emptied since; so the cache whose turn it is to be stopped does not have it (`TurnUnlabelled`).
`LabelRuns`: the label names a running cache unless there is none, the resource is being deleted, or Reconcile is
about to change the label. `LabelSynced` replaces `Synced`, which does not survive cut listings: it claims
nothing of the caches that a listing may have missed, only that one taken to be kept fits and that the label names
it or one still to be removed (`Kept`).

**NodeServer.** `CallInv`: kubelet waits for at most one call of a volume, and a handler's place fits its operation.
`OrderInv`: calls that take the mutex in order of arrival leave the live one last, so no unstage is left for a
volume that is taken for staged, and a publish call comes to a mounted one. `DeviceInv` follows the device paths:
volumes of a cache have different ids (`Apart`); a call has ids only from its listing on, and what they lead to is its own
volume, or both have met (`OwnDevice`); what it is about to format is empty (`Blank`); what shows at the paths of
a volume is the volume (`OwnShown`), and a core while it is in use (`OpenIsCore`). Its step lemmas say what any step
but AddCore and a reboot may do to devices (`Steady`), and AddCore has a proof of its own. `CleanInv`: a core has a link that leads to it, unstaging unmounts first, and no
abandoned stage call is past its read of the label, the only step that looks at the request's context. It does not
need the order of arrival.

**ControllerServer.** For objects of which no call was overtaken, `LiveIsLast`: a call that a sidecar waits for is the last one for its object; `NoLateCalls`:
none is left for an object of which nothing is wanted; `DeletedUnlabelled`: deletion follows unlabelling.

**DriverInstance.** What a pass has behind it: `FitsSoFar` (the objects are as the resource says, unless it
is queued, and contents that have drifted), `HeldSoFar` (they have their finalizers, so they cannot go) and, for a deleted resource, `ReleasedSoFar`.
`SeenIsRecent` is what remains true of an object after it was read. The order of `getObjectsList` is proved from its
text, for every selection of kinds (`Sorted`).

**CommandJob.** `OwnJob`, `NamesTaken` (a name belongs to one Job at a time), `EffectOfPods` and `Reading` (what was
read from the log was done); for the refinement also that a call knows only Jobs of its own (`KnownJob`). The bound on the number of Jobs in `TypeOK` needs `JobsPaid`: the Jobs and the
callers that may still create one without a fault are together no more than callers and faults.

Each step lemma has one step per action. The invariants were checked with TLC on the runs' instances before they
were proved.

*Only model-checked*: the liveness properties (`WantedCacheRuns`, the two `DeletionCompletes`, `UnstageCompletes`,
`StageCompletes`, `CreationCompletes`, `DriverDeployed`, `DriverRemoved`, `CommandsDone`), because fairness is beyond
the prover, and the violations of section 4.

## 7. What is not modelled, and what the modules leave out

* The components so marked in section 1: the Cache validation webhook accepts everything (its checks are
  stubs), the identity server gives constant answers, the gRPC server and the entry points are transport and
  start-up, the rest is installation scripts and generated code. None of them keeps state of its own.
* Text: tables, JSON, the contents of the driver's objects.
* Requests that are rejected before they change anything (missing fields, unsupported capabilities).
* The controllers' client reads a cache that may lag behind the API server. Of the Cache controller's reads the one of
  the label is modelled so (`shown`, `lag`), because no later event corrects it: a specification that goes from one
  device to another and back while a volume keeps the first cache can then stop a cache that the label still names, and rest with that label, so
  `UnlabelledBeforeStopped` and `SettledLabelFits` are stated without `lag`. A late read of the Cache resource is the
  same as a late edit, since its event queues the resource again; the resource without its finalizer, seen late, gets it
  once more. `DriverInstance` reads the present objects: one that is being deleted could, in the code, miss an
  object that was created just before, and leave its finalizer.
* `CommandJob` takes for granted that a caller reads the result of a finished Job within the 60 s after which it
  expires (`ExpireJob`); a caller held up for longer in the watch or log stream would lose it and report a failure.
* `DriverInstance` has one resource, whose `driverNamespace` does not change (the objects in the former namespace
  would stay) and whose deletion is not a foreground deletion.
* A pod of a deleted Job that carries out its command after the call has failed is in `CommandJob`, but not in
  `CacheReconciler` and `NodeServer`, where a command takes effect before its call returns.
* `NodeServer` does not tell the backend devices of two attachments apart, so a core left behind by a forgotten
  stage call is the volume's own when it is attached again.
* In `NodeServer` an answer that is lost (`late`) and ids given out again (`reuse`) do not meet in one AddCore.
* In `ControllerServer` a volume is wanted on one node at a time.

## 8. Plan

Done: OpenCAS, CacheReconciler, NodeServer, ControllerServer, CommandJob with ExclusiveCommand, and DriverInstance,
with proofs of every safety property that a run checks.

Next: the safety part of the progress properties, where it can be stated without fairness. A candidate is that a
Reconcile that ends in an error always leaves the resource queued, which `WantedCacheRuns` rests on; another, that the
handlers of the node server are never left waiting for a mutex that nobody holds, on which `UnstageCompletes` rests.
