---------------------------- MODULE Provisioning ----------------------------
(***************************************************************************)
(* Requests that provision products in one infrastructure, each on its own  *)
(* goroutine (restfrontend/restfrontend.go:259-289, 205-221). A request     *)
(* reads the whole infrastructure document, works for minutes on its copy   *)
(* and on the Kubernetes cluster, and writes the whole document back        *)
(* (provision/provisionercontroller.go:48-86): nothing holds the document   *)
(* in between.                                                              *)
(***************************************************************************)
EXTENDS PortAllocator, FiniteSets, TLC

CONSTANTS
  Requests,     \* the requests the clients will send
  Job,          \* what each request asks for
  MaxInFlight,  \* requests the clients have in flight at once
  Faulty,       \* the parties whose calls may fail, with or without an effect
  MaxFaults,    \* bound: calls that fail
  TraefikPort,  \* the NodePort the configuration gives to Traefik
  Absent,       \* FindInfrastructure finds no document
  Bare          \* a document without the product "kubernetes"

(* The products that scripts for "kubectl create" install; a redirection is  *)
(* the provisioner of Traefik in its other mode.                            *)
Scripted == {"traefik", "redirect", "kube-state-metrics", "rook"}
Kinds    == Scripted \union {"services", "mysql", "kubernetes", "registries", "delete"}

ASSUME JobAssumption == Job \in [Requests -> [kind : Kinds, name : STRING]]
ASSUME TraefikAssumption == TraefikPort \in Nat \ {0}
ASSUME BoundAssumption == {MaxInFlight, MaxFaults} \subseteq Nat
ASSUME FaultyAssumption == Faulty \subseteq {"cluster", "store", "provider"}

VARIABLES
  doc,      \* the stored document: Absent, Bare or a KubernetesConfiguration
  up,       \* the machines of the cluster exist
  cluster,  \* the Kubernetes resources: key -> who created it, and NodePort
  req,      \* the state of each request
  faults    \* failing calls left

vars == <<doc, up, cluster, req, faults>>

(* Products["kubernetes"] as KubernetesProvisioner installs it.             *)
FreshKube == [used |-> << >>, services |-> {}, instances |-> 0]

NotNodePort == 0

Idle == [pc |-> "idle", kube |-> FreshKube, index |-> 0, port |-> NotNodePort,
         step |-> 1]

Init ==
  /\ doc \in {Bare, FreshKube}
  /\ up = TRUE
  /\ cluster = << >>
  /\ req = [r \in Requests |-> Idle]
  /\ faults = MaxFaults

(* A call that fails has no effect, or only its answer is lost.             *)
Fails(party) == party \in Faulty /\ faults > 0 /\ faults' = faults - 1
Loses(party) == Fails(party)

Ended(r)    == req[r].pc \in {"done", "failed"}
InFlight    == {r \in Requests : req[r].pc # "idle" /\ ~Ended(r)}
Goto(r, pc) == req' = [req EXCEPT ![r].pc = pc]

(* The answer to the client; what the goroutine knew is gone.               *)
End(r, pc)  == req' = [req EXCEPT ![r] = [Idle EXCEPT !.pc = pc]]

(***************************************************************************)
(* The resources a provisioner creates, in order, each a kind and a name,   *)
(* and what it waits for. A script is one resource here, and so is what it   *)
(* made in part. Rook waits for its operator and for the storage cluster.   *)
(***************************************************************************)
Plan(r) ==
  LET key(kind) == <<kind, Job[r].name, req[r].index>> IN
    CASE Job[r].kind = "mysql"    -> <<key("Secret"), key("StatefulSet"), key("Service")>>
      [] Job[r].kind = "services" -> <<key("Deployment"), key("Service")>>
      [] Job[r].kind = "traefik"  -> <<key("Script"), key("Service")>>
      [] Job[r].kind = "rook"     -> <<<<"Script", "operator", 0>>, <<"Await", "operator", 0>>,
                                       <<"Script", "cluster", 0>>, <<"Script", "storage", 0>>,
                                       <<"Await", "cluster", 0>>>>
      [] OTHER                    -> <<key("Script")>>

Key(r)   == Plan(r)[req[r].step]
IsScript(r) == Key(r)[1] = "Script"
IsAwait(r)  == Key(r)[1] = "Await"
Exists(r) == Key(r) \in DOMAIN cluster

NodePorts == {cluster[k].port : k \in DOMAIN cluster} \ {NotNodePort}

Dropped(key) == [k \in DOMAIN cluster \ {key} |-> cluster[k]]
Added(key, resource) ==
  [k \in DOMAIN cluster \union {key} |-> IF k = key THEN resource ELSE cluster[k]]

(* What Create makes: only the Service of "services" and of Traefik asks for *)
(* a port.                                                                  *)
Resource(r) ==
  [by |-> r,
   port |-> IF Key(r)[1] = "Service" THEN req[r].port ELSE NotNodePort]

(* The API server refuses a name that exists, and a NodePort that another   *)
(* service has or that is not one.                                          *)
CreateRefused(r) ==
  LET port == Resource(r).port IN
    \/ Exists(r)
    \/ port # NotNodePort /\ (port \in NodePorts \/ port \notin NodePortStart..NodePortEnd)

-----------------------------------------------------------------------------
Installed == doc \notin {Absent, Bare}

(* ProvisionerController.Provision and DeleteInfrastructure up to the first *)
(* call that leaves the process: FindInfrastructure, the choice of the      *)
(* provisioner, and what it computes on its own copy of the configuration.  *)
BeginAbsent(r) == doc = Absent /\ End(r, "failed")

BeginInstall(r) ==
  /\ doc # Absent
  /\ Job[r].kind = "kubernetes"
  /\ Goto(r, "playbook")

(* The product "private_registries", in a cluster that has no secret of that  *)
(* name yet (Ansible has the details).                                      *)
BeginRegistries(r) ==
  /\ Installed
  /\ Job[r].kind = "registries"
  /\ Goto(r, "playbook")

BeginDelete(r) ==
  /\ doc # Absent
  /\ Job[r].kind = "delete"
  /\ Goto(r, "teardown")

(* The product "kubernetes" is missing.                                     *)
BeginTooSoon(r) ==
  /\ doc = Bare
  /\ Job[r].kind \notin {"kubernetes", "delete"}
  /\ End(r, "failed")

(* "Service %s already exists".                                             *)
BeginDuplicate(r) ==
  /\ Installed
  /\ Job[r].kind = "services"
  /\ Job[r].name \in doc.services
  /\ End(r, "failed")

(* GenericServiceProvisioner takes a port; it does not look at its sign.    *)
BeginServiceForgetful(r) ==  \* mutant: the port is always liberated
  /\ Installed
  /\ Job[r].kind = "services"
  /\ Job[r].name \notin doc.services
  /\ req' = [req EXCEPT ![r] =
       [Idle EXCEPT !.pc = "get", !.port = GetNewFreePort(doc.used),
          !.kube = [doc EXCEPT !.services = doc.services \union {Job[r].name}]]]

BeginService(r) ==
  /\ Installed
  /\ Job[r].kind = "services"
  /\ Job[r].name \notin doc.services
  /\ req' = [req EXCEPT ![r] =
       [Idle EXCEPT !.pc = "get", !.port = GetNewFreePort(doc.used),
          !.kube = [doc EXCEPT !.used = AfterNewFreePort(doc.used),
                               !.services = doc.services \union {Job[r].name}]]]

(* DatasourceProvisioner names the instance after the number of instances.  *)
BeginDatasource(r) ==
  /\ Installed
  /\ Job[r].kind = "mysql"
  /\ req' = [req EXCEPT ![r] =
       [Idle EXCEPT !.pc = "get", !.index = doc.instances,
          !.kube = [doc EXCEPT !.instances = doc.instances + 1]]]

(* The other provisioners begin with a script; Rook finds data drives.       *)
BeginScripted(r) ==
  /\ Installed
  /\ Job[r].kind \in Scripted
  /\ req' = [req EXCEPT ![r] = [Idle EXCEPT !.pc = "get", !.kube = doc]]

Begin(r) ==
  /\ req[r].pc = "idle"
  /\ Cardinality(InFlight) < MaxInFlight
  /\ \/ BeginAbsent(r) \/ BeginTooSoon(r) \/ BeginDuplicate(r) \/ BeginDelete(r)
     \/ BeginInstall(r) \/ BeginRegistries(r)
     \/ BeginService(r) \/ BeginDatasource(r) \/ BeginScripted(r)
  /\ UNCHANGED <<doc, up, cluster, faults>>

-----------------------------------------------------------------------------
(* A provisioner that fails returns the error and its copy of the           *)
(* configuration is dropped; only DatasourceProvisioner first deletes what  *)
(* it created.                                                              *)
AfterFailureIgnored(r) ==  \* mutant: the error is logged and dropped
  [req EXCEPT ![r].pc = "save"]

AfterFailure(r) ==
  IF Job[r].kind = "mysql" /\ req[r].step > 1
    THEN [req EXCEPT ![r].pc = "undo", ![r].step = @ - 1]
    ELSE [req EXCEPT ![r] = [Idle EXCEPT !.pc = "failed"]]

(* CreateOrUpdateResource, one call of the API server at a time.            *)
GetWithoutDelete(r) ==  \* mutant: an existing resource is not deleted
  /\ req[r].pc = "get" /\ ~IsScript(r) /\ ~IsAwait(r)
  /\ up
  /\ Goto(r, "create")
  /\ UNCHANGED <<doc, up, cluster, faults>>

Get(r) ==
  /\ req[r].pc = "get" /\ ~IsScript(r) /\ ~IsAwait(r)
  /\ up
  /\ Goto(r, IF Exists(r) THEN "delete" ELSE "create")
  /\ UNCHANGED <<doc, up, cluster, faults>>

(* A deletion by name, whose error the code drops.                          *)
DeleteByName(r) ==
  \/ up /\ cluster' = Dropped(Key(r)) /\ faults' = faults
  \/ up /\ Fails("cluster") /\ cluster' = cluster
  \/ ~up /\ UNCHANGED <<cluster, faults>>

Delete(r) ==
  /\ req[r].pc = "delete"
  /\ DeleteByName(r)
  /\ Goto(r, "wait")
  /\ UNCHANGED <<doc, up>>

Wait(r) ==
  /\ req[r].pc = "wait"
  /\ up
  /\ ~Exists(r)
  /\ Goto(r, "create")
  /\ UNCHANGED <<doc, up, cluster, faults>>

(* Two minutes have passed and the name is still, or again, there, or the    *)
(* cluster took that long to let it go.                                     *)
WaitForever(r) ==  \* mutant: the name is awaited without a limit
  /\ req[r].pc = "wait"
  /\ up
  /\ Fails("cluster")
  /\ req' = AfterFailure(r)
  /\ UNCHANGED <<doc, up, cluster>>

WaitTimeout(r) ==
  /\ req[r].pc = "wait"
  /\ up
  /\ \/ Exists(r) /\ faults' = faults
     \/ Fails("cluster")
  /\ req' = AfterFailure(r)
  /\ UNCHANGED <<doc, up, cluster>>

NextStep(r) ==
  IF req[r].step < Len(Plan(r))
    THEN [req EXCEPT ![r].pc = "get", ![r].step = @ + 1]
    ELSE [req EXCEPT ![r].pc = "save"]

Create(r) ==
  /\ req[r].pc = "create"
  /\ up
  /\ IF CreateRefused(r)
       THEN req' = AfterFailure(r) /\ cluster' = cluster
       ELSE req' = NextStep(r) /\ cluster' = Added(Key(r), Resource(r))
  /\ UNCHANGED <<doc, up, faults>>

(* A call that reads or creates fails: the cluster is gone, or a fault.     *)
ApiFails(r) ==
  /\ req[r].pc \in {"get", "wait", "create"}
  /\ \/ ~up /\ faults' = faults
     \/ up /\ Fails("cluster")
  /\ req' = AfterFailure(r)
  /\ UNCHANGED <<doc, up, cluster>>

(* The resource is created but the answer does not arrive.                  *)
CreateLost(r) ==
  /\ req[r].pc = "create"
  /\ up
  /\ ~CreateRefused(r)
  /\ Loses("cluster")
  /\ cluster' = Added(Key(r), Resource(r))
  /\ req' = AfterFailure(r)
  /\ UNCHANGED <<doc, up>>

(* Traefik claims its port between its script and its Service.               *)
AfterScript(r) ==
  IF Job[r].kind # "traefik" THEN NextStep(r)
  ELSE IF ClaimFails(req[r].kube.used, TraefikPort) THEN AfterFailure(r)
  ELSE [NextStep(r) EXCEPT ![r].port = TraefikPort,
                           ![r].kube.used = ClaimPort(req[r].kube.used, TraefikPort)]

(* "kubectl create" refuses what exists, and may fail half-way.              *)
Script(r) ==
  /\ req[r].pc = "get" /\ IsScript(r)
  /\ up
  /\ \/ Exists(r) /\ req' = AfterFailure(r) /\ UNCHANGED <<cluster, faults>>
     \/ /\ ~Exists(r)
        /\ cluster' = Added(Key(r), Resource(r))
        /\ (faults' = faults /\ req' = AfterScript(r)) \/ (Loses("cluster") /\ req' = AfterFailure(r))
  /\ UNCHANGED <<doc, up>>

(* What was created becomes ready; when it does not in time, ApiFails.       *)
Ready(r) ==
  /\ req[r].pc = "get" /\ IsAwait(r)
  /\ up
  /\ req' = NextStep(r)
  /\ UNCHANGED <<doc, up, cluster, faults>>

(* DatasourceProvisioner deletes what it created, the last resource first.   *)
Undo(r) ==
  /\ req[r].pc = "undo"
  /\ DeleteByName(r)
  /\ req' = IF req[r].step = 1 THEN [req EXCEPT ![r] = [Idle EXCEPT !.pc = "failed"]]
                               ELSE [req EXCEPT ![r].step = @ - 1]
  /\ UNCHANGED <<doc, up>>

-----------------------------------------------------------------------------
(* The kubernetes playbook, which can be run again on an installed cluster,   *)
(* and those of the registries. Either provisioner writes a configuration of  *)
(* its own type (provision/ansible/kubernetes_provisioner.go:33-37), without  *)
(* the ports, services and datasources.                                     *)
Playbook(r) ==
  /\ req[r].pc = "playbook"
  /\ \/ up /\ faults' = faults
        /\ req' = [req EXCEPT ![r].pc = "save", ![r].kube = FreshKube]
     \/ ~up /\ faults' = faults /\ End(r, "failed")
     \/ up /\ Fails("provider") /\ End(r, "failed")
  /\ UNCHANGED <<doc, up, cluster>>

(* What UpdateInfrastructure leaves in the store: it replaces the document   *)
(* that is there.                                                           *)
ReplacedOrInserted(new) == new  \* mutant: an upsert, as in memoryrepo

Replaced(new) == IF doc = Absent THEN Absent ELSE new

(* A call of the store that would leave it with the document new.            *)
StoreCall(r, new) ==
  \/ /\ doc' = new
     /\ End(r, IF doc = Absent THEN "failed" ELSE "done")
     /\ UNCHANGED faults
  \/ Fails("store") /\ End(r, "failed") /\ UNCHANGED doc
  \/ Loses("store") /\ doc' = new /\ End(r, "failed")

Save(r) ==
  /\ req[r].pc = "save"
  /\ StoreCall(r, Replaced(req[r].kube))
  /\ UNCHANGED <<up, cluster>>

(* Deployer.DeleteInfrastructure: the provider deletes the machines, then    *)
(* the document goes; an error of the provider keeps the document.          *)
Teardown(r) ==
  /\ req[r].pc = "teardown"
  /\ \/ up /\ up' = FALSE /\ cluster' = << >> /\ faults' = faults /\ Goto(r, "remove")
     \/ ~up /\ End(r, "failed") /\ UNCHANGED <<up, cluster, faults>>
     \/ Fails("provider") /\ End(r, "failed") /\ UNCHANGED <<up, cluster>>
     \/ Loses("provider") /\ up' = FALSE /\ cluster' = << >> /\ End(r, "failed")
  /\ UNCHANGED doc

RemoveDocument(r) ==
  /\ req[r].pc = "remove"
  /\ StoreCall(r, Absent)
  /\ UNCHANGED <<up, cluster>>

-----------------------------------------------------------------------------
Work(r) ==
  \/ Get(r) \/ Delete(r) \/ Wait(r) \/ WaitTimeout(r) \/ Create(r)
  \/ ApiFails(r) \/ CreateLost(r) \/ Script(r) \/ Ready(r) \/ Undo(r)
  \/ Playbook(r) \/ Save(r) \/ Teardown(r) \/ RemoveDocument(r)

Next == \E r \in Requests : Begin(r) \/ Work(r)

Spec == Init /\ [][Next]_vars

(* A goroutine that can run runs; a client need not send its request.       *)
FairSpec == Spec /\ \A r \in Requests : WF_vars(Work(r))

-----------------------------------------------------------------------------
(* Every copy of the configuration, the stored one and those that requests   *)
(* work on for minutes, is one that the binary searches of the allocator are  *)
(* right about, and a request asks the cluster for no port but one that its   *)
(* own copy records: GetNewFreePort drops the error of its deferred claim     *)
(* (kubernetes_controller.go:65-69), and Traefik claims between two resources.   *)
Copies == {req[r].kube : r \in Requests} \union ({doc} \ {Absent, Bare})

CopiesAreSound ==
  /\ \A kube \in Copies :
       /\ StrictlyIncreasing(kube.used)
       /\ PortsOf(kube.used) \subseteq PortStart..PortEnd
       /\ kube.instances \in Nat
  /\ \A r \in Requests :
       req[r].port \in PortsOf(req[r].kube.used) \union {NotNodePort, NoPort}

(* What the document lists runs: every service has its Deployment and a      *)
(* Service on a recorded port, every datasource counted has its three        *)
(* resources, whatever failed or was left behind before.                    *)
ListedRuns ==
  up /\ Installed =>
    /\ \A name \in doc.services :
         /\ <<"Deployment", name, 0>> \in DOMAIN cluster
         /\ <<"Service", name, 0>> \in DOMAIN cluster
         /\ cluster[<<"Service", name, 0>>].port \in PortsOf(doc.used)
    /\ \A i \in 0..doc.instances - 1, kind \in {"Secret", "StatefulSet", "Service"} :
         <<kind, "mysql", i>> \in DOMAIN cluster

(* A client that repeats a failed datasource request gets its datasource     *)
(* once nothing fails any more: what the failed attempt left is replaced.   *)
RetrySucceeds ==
  \A r \in Requests :
    /\ Job[r].kind = "mysql" /\ req[r].pc = "get" /\ req[r].step = 1
    /\ up /\ faults = 0
    ~> req[r].pc = "done"

(* "The product has been successfully deployed" (restfrontend.go:252): a     *)
(* request that was answered so has its own resources in the cluster, a      *)
(* service, Traefik, a redirection, kube-state-metrics and Rook alike,        *)
(* whatever requests for other services and products do meanwhile. (Two      *)
(* requests in flight for one service name replace each other's resources.)  *)
Deployed(r) ==
  \A i \in 1..Len(Plan(r)) :
    Plan(r)[i][1] # "Await" =>
      Plan(r)[i] \in DOMAIN cluster /\ cluster[Plan(r)[i]].by = r
ServiceDeployed ==
  \A r \in Requests :
    up /\ Job[r].kind \in Scripted \union {"services"} /\ req[r].pc = "done" => Deployed(r)

(* A document that a request deleted stays away, although requests that read *)
(* it before still write it (mongorepository.go:105-107, 168-173), and its    *)
(* machines are gone, so that none is left without a document.               *)
DeletedForGood ==
  \A r \in Requests :
    Job[r].kind = "delete" /\ req[r].pc = "done" => doc = Absent /\ ~up

(* Every request that was begun is answered.                                *)
EveryRequestEnds ==
  \A r \in Requests : r \in InFlight ~> Ended(r)

(* "GetNewFreePort gets a port which hasn't been used in this kubernetes     *)
(* installation" (kubernetes_controller.go:59).                             *)
UnusedPort ==
  [][\A r \in Requests :
       req'[r].port # req[r].port => req'[r].port \notin NodePorts]_vars
=============================================================================
