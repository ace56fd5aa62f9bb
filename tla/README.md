# Formal models of the deployment engine

The deployment engine creates virtual machines at a cloud provider, installs Kubernetes on them, deploys
services and datasources into the clusters, and, with the DITAS front end, deploys Virtual Data Containers
(VDCs) for abstract blueprints. This directory models that program in TLA+: TLC checks the models on small
instances, TLAPS proves all safety properties of the passing runs, under hypotheses that section 5 names, for every
value of the constants.

Paths below are relative to `src/`.

## 1. The system

One Go process serves HTTP. `net/http` runs every request on a goroutine of its own; the handlers share a
MongoDB database, the Kubernetes clusters, the cloud provider and nothing else: there is no lock and no
transaction in the program, and a request may work for many minutes between reading a document and
writing it.

| component | state | operations | talks to |
|---|---|---|---|
| REST front end (`restfrontend`) | none | `CreateDep`, `DeleteDeployment`, `DeleteInfra`, `DeployProduct`, `CreateSecret` | deployment controller, provisioner controller, vault |
| DITAS front end (`ditas/frontend.go`) | none | `createDep`, `moveVDC`, `createDatasource`, `createDal`, `setDal`, `getVDCInfo` | VDC manager |
| deployment controller (`infrastructure/deploymentcontroller.go`) | none of its own; channels per request | `CreateDeployment`, `DeleteDeployment`, `DeleteInfrastructure` | deployers, repository, vault |
| CloudSigma deployer (`infrastructure/cloudsigma`) | per request: `NodeInfo`, the UUIDs it knows; at the provider: drives, servers, IPs | `DeployInfrastructure`, `CreateServer`, `createHostDrives`, `deleteHost`, `DeleteInfrastructure` | CloudSigma API |
| existing clusters (`infrastructure/kubernetes`) | a configuration file | `DeployInfrastructure`, `DeleteInfrastructure` | file system |
| provisioner controller (`provision/provisionercontroller.go`) | none | `Provision` | repository, provisioners |
| Ansible provisioners (`provision/ansible`) | inventory files, the fetched configuration file of the cluster, and what the playbooks leave on the machines | `Provision` of hosts, docker, kubernetes, k3s, private_registries, helm, fluentd, gluster-kubernetes, kubespray | machines |
| Kubernetes provisioners (`provision/kubernetes`) | `KubernetesConfiguration` in the document: `UsedPorts`, services, counters | generic service, datasource, rook, traefik, kube-state-metrics | Kubernetes API |
| NodePort allocator (`kubernetes_controller.go`) | `UsedPorts`, a sorted slice | `GetNewFreePort`, `ClaimPort`, `LiberatePort`, `SetUsedPorts` | called by the provisioners |
| VDC manager (`ditas/vdcmanager.go`) | the collection `vdcs`: one document per blueprint | `DeployBlueprint`, `CopyVDC`, `DeployDatasource`, `DeployDAL`, `SetDALInUse` | both controllers, its collection |
| VDC, VDM, DAL provisioners (`ditas/*_provisioner.go`) | pods and services in the clusters | `Provision` | Kubernetes API, allocator |
| repository and vault (`persistence`) | infrastructures, products, secrets | find, insert, replace, delete | MongoDB |
| status polling (`utils/utils.go`) | local | `WaitForStatusChange` | a getter |

### What is hard about it

* **Read, work, replace.** `Provision` and all operations of the VDC manager read a whole document, change
  the world for minutes, and replace the whole document. Two requests in flight work on copies of the same
  state (interleaving, stale state); a request that fails in between leaves the world changed and the document
  as it was (partial failure).
* **Names and ports are computed from the copy**: a NodePort from `UsedPorts`, the name of a datasource from the
  number of instances, the identifier of a VDC from `NumVDCs`. A retry uses the same name again and must
  replace what the failed attempt left.
* **Goroutines that report over channels**: one per infrastructure, one per node, one per drive. Each receiver
  counts results; every failing path must send exactly one.
* **A provider that is slow, refuses, changes on its own, and may do what was asked though the answer was lost**
  (`client.go:52-74` reports any transport error as a failure).
* **Playbooks on machines that keep what they got**: each product builds on earlier ones, a failed one leaves some of
  the machines done, and not every playbook can be run twice. The inventory they run over is written once.
* **Undo by what is known**: a node that fails deletes the drives and the server whose UUIDs it knows.

### What makes each component correct

* allocator: the slice is sorted and exact; a granted port is in nobody's hands; a refusal means a full range;
* provisioning: what the document lists exists in the cluster; an answer "deployed" is true; a retry
  succeeds; a deleted document stays deleted; every request ends;
* deployer: a failed node leaves nothing at the provider, a created one has everything the blueprint asks for;
* deployment controller: every request is answered; what is stored is complete; what was deleted is gone;
* VDC manager: the document of a blueprint describes the clusters; what was answered stays; a VDC can be added
  after a failure; the identity of a blueprint (its infrastructures and its VDM) never changes;
* Ansible: a product answered as deployed is on the machines it is for, with what it builds on; what the document
  records is there; a failed installation can be repeated;
* polling: an answer without error and timeout means a change; the wait is bounded.

## 2. The modules

```
PortPool                 what an allocator promises
PortAllocator            UsedPorts and its operations, as operators
  NodePorts              every sequence of calls; refines PortPool
  Provisioning           requests that provision products in one infrastructure
  VDCManager             requests about one blueprint, on new and on existing clusters
Ansible                  inventories, playbooks and records on the machines of one infrastructure
Lifecycle                what a deployment promises
CloudSigma               goroutines of nodes, drives and deletions; the provider
  Deployments            controller and repository around CloudSigma; refines Lifecycle
StatusPoll               WaitForStatusChange
PortAllocatorTheorems    lemmas about PortAllocator
  NodePortsProofs, ProvisioningProofs, VDCManagerProofs
CloudSigmaProofs         and on top of it DeploymentsProofs
AnsibleProofs, StatusPollProofs
MC...                    instances for TLC
```

**PortAllocator** translates `kubernetes_controller.go:31-157`. The slice is a sequence; `Search` is
`sort.IntSlice.Search`; `ClaimPort`, `LiberatePort` and `AfterNewFreePort` give the slice after a call,
`ClaimFails` and `GetNewFreePort` the results. `initPortRange` gives the two ends of the range. `NonDecreasing` is what
`SetUsedPorts` leaves of a listing.

**NodePorts** has one action per call. `granted` is a history variable: the ports granted and not given back.
Callers may pass any number to `ClaimPort` and `LiberatePort` (a service in a request names its ports).

**Provisioning** follows one request of `DeployProduct` or `DeleteInfra` through
`ProvisionerController.Provision`: `Begin...` is everything up to the first call that leaves the process after
`FindInfrastructure` (each early return is an action of its own), then one action per call of
`CreateOrUpdateResource` (get, delete, wait, create) for each resource in the order of the provisioner, the rollback
of the datasource provisioner (`Undo`), the playbook (which replaces the configuration: Kubernetes installed again, or the
registries, which write it back without the fields they do not know), the teardown, and the final `UpdateInfrastructure`
(`Save`). `req[r].kube` is the copy of the configuration the goroutine works on. The cluster is a function from
keys (kind, name, instance) to who created the resource and with which NodePort. `Plan(r)` lists what the provisioner
of a product creates: generic services and datasources resource by resource, Rook and kube-state-metrics as scripts
for `kubectl create` and waits (`Script`, `Ready`), Traefik as a script, the claim of its configured port
(`AfterScript`) and a Service.

**Ansible** has what a playbook leaves on each machine (`installed`), the lines of each product's inventory file
(`inventory`), the fetched configuration file (`config`), what `Products` of the stored document records (`doc`), and one
record per request. A request is one product or the chain of products of `doProvisionKubernetes`. `Steps(product)`
is what `DeployProduct` of that product does in order, `Kubernetes` with the Docker and registry provisioners it
calls itself; the steps are taken by `FindInventory`, `CreateInventory`, `WriteLine` (one line of the file each, so that an
error leaves a part of it), `RunPlaybook`, `CheckKubernetes` and `RecordProduct`, between `Read` and `Save` of
`ProvisionerController.Provision`. `Targets` and `Finds` say of each playbook whom it addresses and what it needs to
succeed: read from `scripts/`, and external beyond that. A failing playbook is through with some of its hosts.

**StatusPoll** is the loop of `WaitForStatusChange`, time passing only in `Sleep`.

**CloudSigma** has a program counter per drive (`disk`), per node and per deletion (`work`), the provider's state
(`drives`, `servers`, `address`) and the deployer's knowledge (`info`). `Creating(n)` is `CreateServer` of
`deployer.go:330-403` with its undo, `Deleting(w)` is `deleteHost` of 536-620, also used by the undo; `Settles` is the
provider acting on its own. What may go wrong is named by `Faulty`: refused requests, bad statuses, timeouts, lost
answers.

**Deployments** puts `CreateDeployment` (one goroutine per infrastructure, results received in any order,
`AddInfrastructure` per result) and `DeleteInfrastructure` (host after host, then the document) around it.
`VDCManager.createDeployment`, which deletes what a failed creation returned, is a client of it (`Cleaners`).

**Lifecycle** is its abstract specification: an infrastructure is asked for, built, then failed or listed complete; its
machines stay until a deletion is asked for, from then on they only get fewer, and it leaves the list when none is
left; a creation is answered when all of its infrastructures exist or one failed, and "undone" only when nothing is
left of those that came to exist. `machines[i]` is a set: "some" is in it when a machine or drive is there, "all" when
nothing is missing. The refinement mapping is `LifeOf`, `MachinesOf`, `ToldTo` and `EndOf`.

**VDCManager** has the document of one blueprint (`info`), the documents of the infrastructures (`used`), the
clusters (`pods`, `services`) and one record per request. `DeployBlueprint` is `BeginBlueprint` (with
`FirstTime`: any error of `FindOne` is taken for a new blueprint), `CreateOwners`, `Insert`, the provisioning of the
VDM, `CreateApps`, the provisioning of the VDC; `CopyVDC`, `DeployDatasource`, `SetDALInUse` and `DeployDAL` begin with
`BeginVdcRequest`; all five then go through `Read` ... `Save` (`ProvisionerController.Provision`) and `Store`. `Result`
is what each writes into its copy of the document. Creating an infrastructure is one step here, because
Deployments has its details, and so is creating a resource, because Provisioning has them; but the outcome Deployments
cannot show is here: `AddInfrastructure` may fail, which the controller only logs (`missing` in `CreateInfras`). Then
`Read`, `NextTime` and `Reachable` find no document; only an existing cluster, for which nobody looks for one before the
blueprint is stored, gets into the blueprint that way. In an existing cluster
(`Existing`) nothing is installed, software of others has Services (`Other`, and `Balancer` of type LoadBalancer), and `List`
replaces the slice before ports are taken by what `Shown` gives, the NodePorts of the Services of type NodePort, while
`CreateService` is refused for a port of either kind. The pods of a VDC are given the DALs with an address
(`Aliases`: the one in use, else that of the blueprint, `WithAddress`); `Readdressed` changes only the addresses a
Deployment has, as `ModifyVDC` does. `RefuseDal` is the DAL provisioner, which comes no further than its check of the variables.

### Conventions

A call that leaves the process is one action; what a goroutine computes between two such calls is part of
the action before or after it. `Fails(party)` is a call of that party that fails and has no effect;
`Loses(party)` is one that has its effect while the caller is told that it failed. Both take from one
budget (`MaxFaults`; CloudSigma has `MaxLost` for the second). An operator marked `mutant` is not part of a
model: it is a plausible mistake, kept to show that a property would notice it.

## 3. The runs

| run | question | bounds |
|---|---|---|
| NodePorts | sorted, exact, implements the pool? | range of 6 ports, callers name 0..7 |
| ProvisionSerial | does the document describe the cluster; does a retry succeed? | 7 requests (registries, 3 services of two names, 2 datasources, Rook), one in flight, one fault or lost answer, one port |
| ProvisionConcurrent | are answers true when requests overlap? | a service, 2 datasources, Traefik on the port the service is given, an installation, a deletion; 2 in flight, one fault of cluster or provider |
| Ansible | are answers and records true of the machines; does a retry succeed? | 2 machines, with and without Docker, kubeadm and repositories; the chain, 2 installations of Kubernetes, the registries, k3s; one in flight, 1 fault of the disk, a playbook or the store |
| StatusPoll | timeouts and answers | interval 3, timeouts 1..7: before, on and between multiples |
| CreateNodes | no leftovers, nothing missing | 2 nodes, 2 drives each, one deletion, 2 faults |
| DeployAndDelete | controller and deployer together, implementing Lifecycle | 2 infrastructures of one node, three deletions of which two race, 1 fault, 1 lost answer |
| VdcSerial | does the blueprint's document stay true? | 3 blueprint requests (two on existing clusters with two NodePorts in use and one of a LoadBalancer), copy, datasource, 2 moved DALs (with and without an address in the blueprint), one in flight, 1 fault; 13 ports |
| VdcConcurrent | what survives overwriting | 2 blueprint requests, copy, datasource, new DAL, 2 in flight, 1 fault, 7 ports |
| PortReused | (violated) is a new port unused? | the registries and 2 services, one in flight, no faults |
| DeleteRetry | (violated) does a repeated deletion succeed? | 2 nodes, 2 deletions, 1 fault |
| CopyRefused | (violated) is a refused copy running? | blueprint, datasource, copy, one in flight, no faults |

Why the bounds are enough to be interesting: the range of six ports has every pattern of holes at the start, in the
middle and at the end, and a full range; the one port of ProvisionSerial is exhausted by the first service, so that one of
another name gets -1, and the three of ProvisionConcurrent never are; two requests in flight suffice for a lost update, and two
drives for a drive that fails while another is being created. Two machines are the least on which a playbook can be
half done, and the five requests of Ansible meet in every order, so that each product meets what a failed one left. In
VdcSerial the second and the third request meet what the first left, the ports suffice for them, so that a failure is
a failure, and those of the other software lie between those the VDM asks for; the LoadBalancer's port, which no
listing shows, is 11 of 13 in VdcSerial, 9 of 11 in CopyRefused and 5 of 7 in VdcConcurrent; in VdcConcurrent the range ends in the
middle of a VDC. Symmetry is used for the two nodes of CreateNodes, a run with invariants only.
`CHECK_DEADLOCK FALSE` is there where the requests come to an end and nothing is left to do.

### What the properties say

* `ImplementsPool`: refinement of PortPool; `held` is the history `granted`.
* `ListedRuns`, `RetrySucceeds`, `RecordedRuns`, `AnswersHold`, `VdcSucceeds`: requests one at a time, any call
  failing. `VdcSucceeds` asks that the ports of all Services are recorded (`PortsKnown`): when only
  `UpdateInfrastructure` fails, they are not, and the same port is refused by the cluster for ever after. On an existing cluster the listing makes up for
  that, unless a LoadBalancer, which it does not show, has one of the next three free ports (`HiddenFar`). Where the VDM is
  still to be provisioned it asks that the ports of the VDM are free, and of the owners' infrastructures that their
  documents are there (section 6 has each of these cases).
* `AnswersHold` says of the address of a DAL that it is in the document, and in the Deployment if that has an address for
  the DAL or the blueprint gives one: of another DAL `ModifyVDC` changes nothing and reports success (section 6).
  `CopyUsesDals` says that a copy made later gets every address in use, of those DALs too.
* `CopiesAreSound` takes the place of a type invariant in Provisioning: the stored configuration and each copy that a
  request works on have their ports sorted, without a double and in the range, and a request asks for no port that its
  copy does not record, although the claims of both kinds are made on copies and one of them drops its error.
* `DoneIsDeployed`, `RecordedIsThere`, `RetryInstalls`: as long as no inventory was left incomplete (`Whole`, section 6).
  `RetryInstalls` leaves out the machines on which an attempt ran `kubeadm init` or created the secret, which cannot be
  done twice, and those with k3s; `DoneIsDeployed` asks of k3s the master only, and not that "hosts", whose error the
  chain drops, was done.
* `FollowsLifecycle`: refinement of Lifecycle, with failing calls and lost answers. That a creation which failed leaves no
  machine is not part of it, because it is not so (section 6).
* `ServiceDeployed`, `DeletedForGood`, `EveryRequestEnds`, `IdentityStays`: what holds although requests overlap.
  `ServiceDeployed` leaves datasources out and is checked with one request for each service name (section 6).
* `FailedNodeIsGone` is checked for failing requests, failing and slow drives, and servers that stop instead of booting
  (which count as created), not for a lost answer, a failing poll or a server that is slow to boot, after which the deployer does not know what exists; the run's `Faulty` says so.
* `StoredIsComplete`, `DeletedIsGone`, `EveryRequestIsAnswered`: with all of these faults.

### Fairness

Weak fairness of the next step of each goroutine that has begun: Go's scheduler runs what can run. Clients owe
nothing: `Begin`, `Submit` and a client's `Find` are not fair. Nor is the provider: the waits of the code have
timeouts, which the liveness properties then rest on; only `ReliableSpec` (run DeleteRetry) has a provider that
does what it was asked for, to show that the deletion fails all the same.

## 4. Disagreements with the repository's own words

* **PortReused**: `kubernetes_controller.go:59` promises a port "which hasn't been used in this kubernetes
  installation". The registry provisioner reads the configuration into a structure without `UsedPorts` and writes it back
  (`registry_provisioner.go:58-59`, `92-93`): the next service gets a port that is in use. Two service requests in flight,
  which read the same document, do the same.
* **DeleteRetry**: `doc/usage.md:25` promises that a deletion clears the resources. `deleteHost` takes a host whose
  details cannot be read for running (`deployer.go:543`), so a host that the first attempt removed makes every later
  attempt fail.
* **CopyRefused**: `vdcmanager.go:673` says "VDC %s is already running in infrastructure %s" when only a datasource
  was created there: `saveDatasourceInformation` makes the entry that `CopyVDC` takes for a running VDC.

## 5. The proofs

**NodePortsProofs** (with PortAllocatorTheorems). `SliceCorrect`: `Spec => [](TypeOK /\ PortsSorted /\ NothingLost)` for every
non-empty range and every set of integers the callers may name. The three parts are inductive only together
(`SliceInv`): a claim keeps the slice sorted because binary search splits it (`SearchSplits`), which needs it sorted;
`NothingLost` needs `FoundIffRecorded`, which needs the same; and the type is needed to know that a removal or an
insertion moves the other elements (`InsertAtElements`, `RemoveAtElements`). `NewFreePortOfListing` is about any sorted
listing, duplicates and ports out of the range included: the result is not listed, in the range when a listed port
reaches it, and -1 only for a full range when none lies below it; `GetNewFreePortProperties` is the case of a cluster
of the engine. The second half needs that a slice that begins at `PortStart` and has no gap covers an interval; the
library's induction theorems cannot be used here, so a least counterexample is taken (`LeastNatural`). `AllocatorImplementsPool`
maps each call to a step of PortPool; `TypeCorrect` and `SliceIsSorted` state two of the three parts of `SliceCorrect`.

**StatusPollProofs**. `PollInvariant` adds two facts to the properties: the caller sleeps only before the time is up, and
a call that is done has left the loop by its condition. From them follow `AnswerIsChange` and `WaitIsBounded`, for all
timeouts and intervals.

**CloudSigmaProofs**. `CloudInvariant` ties what the provider holds for a node to where its goroutine is
(`NodeInv`), drive by drive while they are made (`DiskInv`), and says that a deletion works on nodes that were
created (`RequestInv`). It holds with any number of nodes, drives, deletions, faults and lost answers; the lemmas
about single steps say which nodes a step touches and which it leaves alone (`SameNode`), so that each action is
looked at once. `CreatedNodesAreComplete` adds that a created node which no deletion has reached keeps what it had.
`FailedNodesAreGone` needs more: what the provider holds is what the goroutine knows (`KnownInv`), and the undo can
only be complete under `NoFaultOfUndoing`: no lost answers, no failing poll, no slow boot and no failing delete, the
same restriction as the run's.

**DeploymentsProofs**. `DeploymentInvariant` adds to `CloudInv` the phases of the infrastructures (`PhaseInv`: where
the nodes of an infrastructure are, by its phase), the answers (`AnswerInv`) and the progress of deletions
(`DeletionInv`: the hosts a deletion has left behind it are gone, unless it knows of an error; after the last, all
are). From it follow `StoredInfrasAreComplete` and `DeletedInfrasAreGone`, with deletions that race and all faults.
`LifecycleIsFollowed` maps each step to one of Lifecycle or to a stutter: a step of a node changes at most
`machines` of its infrastructure, which grow only while it is built and shrink only once a deletion was asked for; a
controller's step is the one of Lifecycle that it is named after.

**AnsibleProofs**. `TypeCorrect` holds for any number in flight. The two others are about one request at a time.
Their invariant `SerialInv` says that as long as no inventory was left incomplete (`Sound`), every step that a
request has to come finds what it builds on, or an earlier one of its steps provides it (`Provided`), that of the
product at hand nothing is missing but the steps to come (`OnTheWay`), that the products before it are installed
(`Before`), and that the marks in the document and in the copy are true of the machines (`True`). At the end no step
is left: hence `DoneMeansDeployed`; and `RecordedMeansThere` is `True` of the document. The hardest part is the
order of the steps inside each product, which `Steps` gives: helm is recorded before it is installed, so its mark is
true of what is still to come only.

**ProvisioningProofs**. `DeletionIsForGood`: `Spec => []DeletedForGood`, for any requests, any number in flight and
any faults. `DeletionInvariant` says of each deletion how far it is: after its teardown the machines are gone, and
once it is answered the document is too. Neither can come back: `Replaced` of a document that is gone is gone
(`StaysAway`), and the step of a request that does not delete leaves the deletions alone (`OnlyOf`, `Harmless`).
`CopiesStaySound`, `Spec => []CopiesAreSound`, holds for any number in flight too: `TypeInv` has every copy in `Configs`
(sorted slices of ports of the range), and the port a request asks for in its copy (`OwnPort`), by the lemmas about
`GetNewFreePort` and `ClaimPort`. `ServicesAreDeployed`, that a request answered as deployed has its own resources, is
about requests that overlap, under
`NamesApart`: its `ServedInv` says that as long as the machines are up, the resources of the steps a request has
behind it are there and are its own. `ListedIsRunning` is about requests one at a time. Its `ListedInv` says that
the document lists what runs (`Lists`), and that the copy of the request in flight is the document plus the one item
the request is about (`IsCopy`), whose resources are there when it comes to save (`OwnRuns`). What a request deletes
or replaces is never what the document lists: a service that is listed is refused, and the number of a datasource is
beyond those listed.

**VDCManagerProofs**. `BlueprintKeepsIdentity`: `Spec => IdentityStays`, for any number in flight.
`IdentityInvariant` says that a recorded blueprint names its infrastructures, and its VDM is in the default one of
them or not known yet (`InfoInvariant`); and that a request past its first read carries the recorded infrastructures
in its copy, and the recorded VDM, unless it is one that provisions the VDM, whose copy has none and lists no VDC
(`CopyInvariant`). The hard cases are two first deployments at once, of which `Insert` refuses the second, and two
provisionings of the VDM, which choose the same infrastructure because the default one is a function of the list.
`TypeCorrect` needs of the infrastructures that they are there when a request comes to them, or still to be created
by one request only (`Fresh`), that one which has a document and Kubernetes keeps both (`UsedStays`, `Ready`), and of
every slice that it is sorted and in the range, which `Sorted` gives of a listing. `RecordedVdcsRun` (one at a time) says of the clusters what the document says (`ClusterHolds`), and of the
request in flight what its copy and the clusters have got so far (`Progress`: `Subject`, the VDC it is about;
`Covers`, the slice has the ports of all Services of a cluster that must be known; `PortsTaken` and `Made`). A
Service that is replaced is that of the request's own VDC, because names of different VDCs differ. `PromisesHold`
adds what each answered request was promised (`Promised`) and shows that a later one keeps it: documents only grow,
ports of a recorded VDC stay, and its DALs change to another request's address only (`DalsKept`). `CopiesUseDals` is an
action property: the Deployment of a copy is made from the document the request read, which with requests one at a
time is still the stored one when the copy is recorded (`Subject`, `HasPod`).

### What the theorems assume

The named `ASSUME`s of the modules, which TLC evaluates on every run, are about what the constants stand for: the
bounds of the range are naturals (`RangeAssumption`, `NonEmptyRange`), callers name integers, intervals and timeouts
are positive, nodes and requests are not confused (`WorkersAssumption`), what a request creates has an identifier of
its own (`OwnerAssumption`, `FreshAssumption`), `createDeployment` deletes whatever was returned
(`CleanerAssumption`), there are finitely many infrastructures (`InfrasAssumption`), a VDM has two ports
(`VdmAssumption`), no NodePort is one of a NodePort Service and of a LoadBalancer (`ExistingAssumption`), an address
belongs to a DAL of the blueprint (`DalAssumption`), and no machine has the name of the inventory's groups (`LinesAssumption`).

Some theorems have hypotheses beyond these, because the code does not keep the property without them:

| hypothesis | theorem | why |
|---|---|---|
| `OneRequestAtATime` | `ListedIsRunning`, `RecordedVdcsRun`, `PromisesHold`, `CopiesUseDals`, `DoneMeansDeployed`, `RecordedMeansThere` | requests that overlap overwrite each other's documents (sections 1 and 6) |
| `NamesApart` | `ServicesAreDeployed` | two requests for one service name replace each other's resources (section 6) |
| `NamesOfKinds` | `ListedIsRunning` | a service named like a datasource or like Traefik would replace it |
| `PortStart <= PortEnd`, `PortsInRange` | `CopiesStaySound`, `ListedIsRunning`, those of VDCManager except `BlueprintKeepsIdentity` | the range is not empty, and Kubernetes gives NodePorts from its range only, which is the default one |
| `OneAddress` | `PromisesHold` | of two addresses set for one DAL of a VDC the last is in use, as it should be |
| `NoFaultOfUndoing` | `FailedNodesAreGone` | the deployer does not undo what it does not know (section 3) |

Each holds on the instance of the run that checks the property, and each inductive invariant was checked by TLC on
that instance before it was proved.

### What is only model-checked

The liveness properties (`RetrySucceeds`, `EveryRequestEnds`, `PollEnds`, `EveryRequestIsAnswered`, `VdcSucceeds`,
`RetryInstalls`), which like `ENABLED` are outside the prover's reach, and the violations of section 4. Every safety
property of a passing run is a theorem.

## 6. What the models left as observations

While modelling, TLC gave or confirmed these behaviours of the code. No run states them, because no text of the
repository promises otherwise, because a run above has the same cause, or because one request shows them (the first).

* Setting the address of a DAL for which the Deployment of the VDC has none, because the blueprint gives none or does not
  know the DAL, is answered as done although the VDC does not use the DAL: `ModifyVDC` rewrites addresses that are there
  (`vdc_provisioner.go:367-374`) and `SetDALInUse` does not look at the identifier (`vdcmanager.go:978-1016`).
  `ditas/frontend.go:603` says: "When this operation success the VDC will be using the DAL which must be deployed using this
  IP here". Without `Job[r].dal \in WithAddress[i] \union DOMAIN aliases` in `Holds`, TLC finds `AnswersHold` violated.
* The addresses in use are kept per VDC (`ditas/model.go:62`) while `SetDALInUse` changes the pods of one infrastructure: the
  same VDC in another one keeps the old address until that is set too.
* When the infrastructure document of an existing cluster cannot be stored, the error is only logged
  (`deploymentcontroller.go:159-163`), nothing looks for it before the blueprint is, and every later request for the blueprint
  fails at `FindInfrastructure`. This is what `VdcSucceeds` excludes.
* `GetUsedNodePorts` shows the ports of the Services of type NodePort only (`kubernetes_client.go:586`). Services of type
  LoadBalancer have NodePorts too: the first of them below the next free ones is taken at each attempt and refused by the
  cluster, for ever (`HiddenFar`).

* With a range reserved in an existing cluster and Services below it only, `GetNewFreePort` returns the last listed port
  plus one, below the range; the claim of it fails silently, so that the next call returns it again
  (`kubernetes_controller.go:103-105`). This is what `NewFreePortOfListing` excludes.
* An inventory that was left without some of its lines (a full disk) is used for ever: the playbook runs on the
  machines it lists, and the request is answered "The product has been successfully deployed". A request that finds the
  file while another one writes it does the same (`ansible.go:183-188`).
* `kubeadm init`, the secret of the registries, helm and fluentd cannot be installed twice: a request that failed after one
  of them fails at each repetition. `RetryInstalls` says what is left.
* The workers of k3s are sought in the group `slaves` (`deploy_k3s.yml:45`) and the role is `slave`: k3s comes to the
  master only, and is answered as deployed.
* The secret of the registries is recorded when no repository is configured and none was created
  (`registry_provisioner.go:92`).
* The chain of the VDC manager overwrites the error of "hosts" (`vdcmanager.go:423-428`).
* `AddInfrastructure` may fail after the machines were created: they run, and no document lists them.
* `Provision` compares configurations with the product's name (`provisionercontroller.go:57-59`), so a product can be
  installed twice, and the second installation of Kubernetes empties `UsedPorts`.
* Two datasource requests in flight get the same number and replace each other's resources; both are answered.
* Two requests in flight for one service name both pass the check that it is new, and replace each other's resources.
* Scripts are given to `kubectl create`, which refuses what exists: when a step of Traefik or Rook after a script fails,
  or the document is not saved, each repetition fails at the first script (`traefik_provisioner.go:122`).
* When `UpdateInfrastructure` fails after a Service was created, its port is given to every later request and refused
  by the cluster.
* A server that leaves `starting` for `stopped` counts as created (`deployer.go:309-327`).
* Infrastructures created in parallel may pick the same free IP; the second server is refused.
* Credentials in the request are erased before the infrastructure is stored (`deploymentcontroller.go:158`), so it
  cannot be deleted.
* When one node of an infrastructure fails, the others stay, in no document.
* A change seen by the last poll of `WaitForStatusChange` is reported together with a timeout.
* The VDM claims fixed ports. If they are saved, or its Service was created, and then the document of the blueprint is
  not written, each later attempt fails at the claim (`vdm_provisioner.go:234`), and no VDC of the blueprint can be
  deployed.
* Concurrent requests of a blueprint lose each other's updates, and two VDCs may get the same number.
* `DeployDAL` fails always (`RefuseDal`): `dal_provisioner.go:77` asserts another type than the parameter has.

## 7. What is not modelled

* What is inside a script: it is one resource. Traefik claims one port (the code: up to three), and Rook finds data drives.
* What a playbook does beyond whom it addresses, what it needs and what it leaves; Kubespray, whose playbook is not in the
  repository; the wait for the SSH ports. Traefik, kube-state-metrics and Rook at the end of the chain are requests of
  Provisioning.
* The vault (one encrypted document), the in-memory repository (only tests use it), parsing and validation of
  requests, the start of the engine, wording and logging: there is no state change in them that a property is about.
* The file the deployer of existing clusters writes, and a range of its own for one of them.
* A crash of the engine: nothing is recovered at a restart (`main.go` reads no unfinished work), and the states a crash
  leaves are those of a goroutine that never runs again, which the safety properties include.
* In Provisioning a generic service takes one port and minio is like mysql; in VDCManager the debug ports of the VDM, the
  configuration maps and volumes are left out.
* `doDeleteVDC`, which nothing calls.

## 8. Plan

Done: the allocator with refinement and proofs; StatusPoll with proofs; Provisioning; CloudSigma and Deployments with
Lifecycle; VDCManager with existing clusters; Ansible; a theorem for every safety property of the passing runs, the
refinements of PortPool and of Lifecycle included.

Left, in this order:

1. What survives when requests overlap, beyond `ServiceDeployed` and `IdentityStays`: the part of `RecordedRuns` that
   is about pods alone, and the part of `RecordedIsThere` that is about marks that only one product sets.
2. `NewFreePortOfListing` for a range of its own and a listing with ports below it, which says exactly when the
   port returned lies outside.
3. `CreateOrUpdateResource` for one name as a module of its own with time, as StatusPoll has it, refining the step
   that VDCManager takes.
