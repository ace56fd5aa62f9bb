------------------------------- MODULE Ansible -------------------------------
(***************************************************************************)
(* The Ansible provisioner (provision/ansible): the products installed on    *)
(* the machines of one infrastructure by playbooks that run over an          *)
(* inventory file. The file of a product is written once and then used for   *)
(* every later request. A request is one product (restfrontend.go:259-289)   *)
(* or the chain of products with which the VDC manager prepares a cluster    *)
(* (ditas/vdcmanager.go:406-546).                                           *)
(***************************************************************************)
EXTENDS Naturals, Sequences, FiniteSets

CONSTANTS
  Nodes,        \* the machines, in the roles "master" and "slave"
  Master,       \* the machine in the role "master"
  Requests,     \* the requests the clients will send
  Wanted,       \* the products each request asks for, in order
  MaxInFlight,  \* requests the clients have in flight at once
  Faulty,       \* what may fail: "disk", "host" (a playbook), "store"
  MaxFaults,    \* bound: calls that fail
  Missing       \* a file that does not exist

(* Kubespray is a project of its own and its playbook is not in the          *)
(* repository.                                                              *)
Products == {"hosts", "docker", "kubernetes", "k3s", "private_registries",
             "helm", "gluster-kubernetes", "fluentd"}

ASSUME NodesAssumption == Master \in Nodes /\ IsFiniteSet(Nodes)
ASSUME WantedAssumption == \A r \in Requests :
  Wanted[r] \in Seq(Products) /\ Wanted[r] # << >>
ASSUME BoundAssumption == {MaxInFlight, MaxFaults} \subseteq Nat
ASSUME FaultyAssumption == Faulty \subseteq {"disk", "host", "store"}

VARIABLES
  setup,      \* properties of the infrastructure and of the configuration
  doc,        \* what Products of the stored document records
  inventory,  \* the inventory file of each product: the lines it has
  config,     \* the cluster's configuration file is in the inventory folder
  installed,  \* what playbooks left on each machine
  req,        \* the state of each request
  faults      \* failing calls left

vars == <<setup, doc, inventory, config, installed, req, faults>>

(* One line for each host, and those of the groups at the end.              *)
Groups == "groups"
ASSUME LinesAssumption ==  \* no host has that name, and no file is no file
  /\ Groups \notin Nodes
  /\ \A lines \in SUBSET (Nodes \union {Groups}) : Missing # lines
Lines(product) == IF product \in {"hosts", "docker"} THEN Nodes ELSE Nodes \union {Groups}

(* Which playbooks address whom, and which cannot be run twice: they say     *)
(* "kubeadm init", "kubectl create" or "helm install --name". The workers of *)
(* k3s are sought in the group "slaves", which no inventory has.             *)
OnAll   == {"hosts", "docker", "kubernetes", "docker_repository", "gluster"}
Once    == {"kubeadm", "secret", "helm", "fluentd"}
Cluster == {"kubernetes", "kubeadm", "k3s"}

Targets(book, lines) ==
  IF book \in OnAll \/ (book = "kubeadm" /\ Groups \in lines) THEN lines \ {Groups}
  ELSE IF Groups \in lines THEN {Master} ELSE {}

Has(node, some) == installed[node] \intersect some # {}

(* What a playbook must find to succeed. Two clusters do not fit on a machine, *)
(* without the master's token none joins, and the last play of k3s edits the  *)
(* fetched file.                                                            *)
Finds(book, hosts, lines) ==
  /\ book \in Once => \A n \in hosts : ~Has(n, {book})
  /\ book \in {"kubernetes", "docker_repository"} => \A n \in hosts : Has(n, {"docker"})
  /\ book \in Cluster => \A n \in hosts : ~Has(n, Cluster \ {book})
  /\ book = "kubernetes" /\ hosts # {} => Master \in hosts
  /\ book \in {"get_config", "secret", "helm", "gluster"} /\ hosts # {} => Has(Master, Cluster)
  /\ book = "secret" => \A n \in hosts : Has(n, {"docker_repository"})
  /\ book = "fluentd" => \A n \in hosts : Has(n, {"helm"})
  /\ book = "k3s" => Groups \in lines \/ config

(***************************************************************************)
(* What Provision does for a product, step by step: find or write the        *)
(* inventory, run playbooks, and record what was installed in the copy of    *)
(* the document. Kubernetes provisions Docker and the registries itself.     *)
(***************************************************************************)
Write(product)       == <<"write", product, product>>
Run(book, product)   == <<"run", book, product>>
Record(what)         == <<"record", what, what>>

Docker == <<Write("docker"), Run("docker", "docker")>>

Registries ==
  <<Write("private_registries"), <<"check", "kubernetes", "kubernetes">>>>
  \o (IF setup.repos THEN <<Run("docker_repository", "private_registries"),
                            Run("secret", "private_registries")>> ELSE << >>)
  \o <<Record("secret")>>

KubernetesWithoutDocker ==  \* mutant: Docker is taken for granted
  <<Write("kubernetes"), Run(IF setup.kubeadm THEN "kubeadm" ELSE "kubernetes", "kubernetes"),
    Run("get_config", "kubernetes"), Record("kubernetes")>>
  \o (IF setup.repos THEN Registries ELSE << >>)

KubernetesUnfetched ==  \* mutant: the configuration is recorded, not fetched
  <<Write("kubernetes")>> \o Docker
  \o <<Run("kubernetes", "kubernetes"), Record("kubernetes")>>

Kubernetes ==
  <<Write("kubernetes")>>
  \o (IF setup.kubeadm THEN <<Run("kubeadm", "kubernetes")>>
      ELSE (IF setup.docker THEN << >> ELSE Docker) \o <<Run("kubernetes", "kubernetes")>>)
  \o <<Run("get_config", "kubernetes"), Record("kubernetes")>>
  \o (IF setup.repos THEN Registries ELSE << >>)

Single(book, product) == <<Write(product), Run(book, product)>>

Steps(product) ==
  CASE product = "hosts"              -> Single("hosts", "hosts")
    [] product = "docker"             -> Docker
    [] product = "kubernetes"         -> Kubernetes
    [] product = "private_registries" -> Registries
    [] product = "k3s"                -> Single("k3s", "k3s") \o <<Record("k3s")>>
    [] product = "helm"               -> <<Write("helm"), Record("helm"), Run("helm", "helm")>>
    [] product = "fluentd"            -> Single("fluentd", "fluentd")
    [] product = "gluster-kubernetes" -> Single("gluster", "gluster-kubernetes")

(* The document names the configuration file of the cluster, whether the      *)
(* engine manages it, the secret of the registries, and helm.                *)
Recorded(copy, what) ==
  CASE what = "kubernetes" -> (copy \ {"secret"}) \union {"kubernetes", "managed"}
    [] what = "k3s"        -> (copy \ {"secret", "managed"}) \union {"kubernetes"}
    [] OTHER               -> copy \union {what}

Idle == [pc |-> "idle", list |-> << >>, steps |-> << >>, copy |-> {}, left |-> {}]

(* An image may have Docker, or kubeadm with it, and repositories may be      *)
(* configured (utils.GetDockerRepositories).                                *)
Init ==
  /\ setup \in [kubeadm : BOOLEAN, docker : BOOLEAN, repos : BOOLEAN]
  /\ setup.kubeadm => setup.docker
  /\ doc = {}
  /\ inventory = [p \in Products |-> Missing]
  /\ config = FALSE
  /\ installed = [n \in Nodes |-> IF setup.docker THEN {"docker"} ELSE {}]
  /\ req = [r \in Requests |-> Idle]
  /\ faults = MaxFaults

Works       == faults' = faults
Fails(what) == what \in Faulty /\ faults > 0 /\ faults' = faults - 1

At(r, pc) == req[r].pc = pc
Ended(r)  == req[r].pc \in {"done", "failed"}
InFlight  == {r \in Requests : ~At(r, "idle") /\ ~Ended(r)}

Step(r)       == Head(req[r].steps)
Doing(r, op)  == At(r, "work") /\ req[r].steps # << >> /\ Step(r)[1] = op
NextStep(r)   == [req[r] EXCEPT !.pc = "work", !.steps = Tail(@)]

(* The next product of the chain, or the answer.                            *)
NextProduct(r) ==
  IF Len(req[r].list) = 1 THEN [Idle EXCEPT !.pc = "done"]
  ELSE [Idle EXCEPT !.pc = "read", !.list = Tail(req[r].list)]

(* The chain of the VDC manager drops the error of "hosts".                 *)
IsChain(r) == Len(Wanted[r]) > 1

AfterErrorDropped(r) ==  \* mutant: the chain drops every error
  IF IsChain(r) THEN NextProduct(r) ELSE [Idle EXCEPT !.pc = "failed"]

AfterError(r) ==
  IF IsChain(r) /\ Head(req[r].list) = "hosts" THEN NextProduct(r)
  ELSE [Idle EXCEPT !.pc = "failed"]

Becomes(r, state) == req' = [req EXCEPT ![r] = state]

-----------------------------------------------------------------------------
Begin(r) ==
  /\ At(r, "idle")
  /\ Cardinality(InFlight) < MaxInFlight
  /\ Becomes(r, [Idle EXCEPT !.pc = "read", !.list = Wanted[r]])
  /\ UNCHANGED <<setup, doc, inventory, config, installed, faults>>

(* FindInfrastructure: the rest works on this copy.                         *)
Read(r) ==
  /\ At(r, "read")
  /\ \/ Works /\ Becomes(r, [req[r] EXCEPT !.pc = "work", !.copy = doc,
                                           !.steps = Steps(Head(req[r].list))])
     \/ Fails("store") /\ Becomes(r, AfterError(r))
  /\ UNCHANGED <<setup, doc, inventory, config, installed>>

(* WriteInventory looks for the file and takes it as it is.                 *)
FindInventory(r) ==
  /\ Doing(r, "write")
  /\ Becomes(r, IF inventory[Step(r)[2]] # Missing THEN NextStep(r)
                ELSE [req[r] EXCEPT !.pc = "create"])
  /\ UNCHANGED <<setup, doc, inventory, config, installed, faults>>

(* os.Create empties a file that another request has created meanwhile.      *)
CreateInventoryGrouped(r) ==  \* mutant: every product gets the inventory of Kubernetes
  LET product == Step(r)[2] IN
  /\ At(r, "create")
  /\ Works
  /\ inventory' = [inventory EXCEPT ![product] = {}]
  /\ Becomes(r, [req[r] EXCEPT !.pc = "lines", !.left = Nodes \union {Groups}])
  /\ UNCHANGED <<setup, doc, config, installed>>

CreateInventory(r) ==
  LET product == Step(r)[2] IN
  /\ At(r, "create")
  /\ \/ /\ Works
        /\ inventory' = [inventory EXCEPT ![product] = {}]
        /\ Becomes(r, [req[r] EXCEPT !.pc = "lines", !.left = Lines(product)])
     \/ Fails("disk") /\ inventory' = inventory /\ Becomes(r, AfterError(r))
  /\ UNCHANGED <<setup, doc, config, installed>>

(* The hosts in the order of a Go map, then the groups. An error leaves the   *)
(* file as far as it was written.                                           *)
WriteLine(r) ==
  LET product == Step(r)[2] IN
  /\ At(r, "lines")
  /\ \/ \E line \in req[r].left :
          /\ line = Groups => req[r].left = {Groups}
          /\ Works
          /\ inventory' = [inventory EXCEPT ![product] = @ \union {line}]
          /\ Becomes(r, IF req[r].left = {line} THEN [NextStep(r) EXCEPT !.left = {}]
                        ELSE [req[r] EXCEPT !.left = @ \ {line}])
     \/ Fails("disk") /\ inventory' = inventory /\ Becomes(r, AfterError(r))
  /\ UNCHANGED <<setup, doc, config, installed>>

(* The hosts a failing playbook may be through with: the master comes first   *)
(* where the others join it.                                                *)
Parts(book, hosts) ==
  {some \in SUBSET hosts : book \in Cluster /\ some # {} => Master \in some}

(* A playbook ran on hosts; the configuration file is fetched from the master. *)
RanOn(book, hosts) ==
  /\ installed' = [n \in Nodes |-> installed[n] \union (IF n \in hosts THEN {book} ELSE {})]
  /\ config' = (config \/ (book \in {"get_config", "k3s"} /\ Master \in hosts))

(* ExecutePlaybook. Hosts nobody listed are not missed; a playbook that fails *)
(* may have done its work on some hosts.                                    *)
RunPlaybook(r) ==
  LET book  == Step(r)[2]
      lines == inventory[Step(r)[3]]
      hosts == Targets(book, lines)
  IN
  /\ Doing(r, "run")
  /\ \/ Works /\ Finds(book, hosts, lines) /\ RanOn(book, hosts) /\ Becomes(r, NextStep(r))
     \/ Works /\ ~Finds(book, hosts, lines) /\ RanOn(book, {}) /\ Becomes(r, AfterError(r))
     \/ /\ Fails("host") /\ Finds(book, hosts, lines)
        /\ \E some \in Parts(book, hosts) : RanOn(book, some)
        /\ Becomes(r, AfterError(r))
  /\ UNCHANGED <<setup, doc, inventory>>

(* "Kubernetes is not installed in infrastructure %s"                       *)
CheckKubernetes(r) ==
  /\ Doing(r, "check")
  /\ Becomes(r, IF "kubernetes" \in req[r].copy THEN NextStep(r) ELSE AfterError(r))
  /\ UNCHANGED <<setup, doc, inventory, config, installed, faults>>

RecordProduct(r) ==
  /\ Doing(r, "record")
  /\ Becomes(r, [NextStep(r) EXCEPT !.copy = Recorded(@, Step(r)[2])])
  /\ UNCHANGED <<setup, doc, inventory, config, installed, faults>>

(* UpdateInfrastructure; the answer of the store may be lost.                *)
Save(r) ==
  /\ At(r, "work") /\ req[r].steps = << >>
  /\ \/ Works /\ doc' = req[r].copy /\ Becomes(r, NextProduct(r))
     \/ Fails("store") /\ doc' \in {doc, req[r].copy} /\ Becomes(r, AfterError(r))
  /\ UNCHANGED <<setup, inventory, config, installed>>

-----------------------------------------------------------------------------
Work(r) ==
  \/ Read(r) \/ FindInventory(r) \/ CreateInventory(r) \/ WriteLine(r)
  \/ RunPlaybook(r) \/ CheckKubernetes(r) \/ RecordProduct(r) \/ Save(r)

Next == \E r \in Requests : Begin(r) \/ Work(r)

Spec == Init /\ [][Next]_vars

(* A goroutine that can run runs; a client need not send its request.       *)
FairSpec == Spec /\ \A r \in Requests : WF_vars(Work(r))

-----------------------------------------------------------------------------
(* The types of the variables.                                              *)
TypeOK ==
  /\ doc \subseteq {"kubernetes", "managed", "secret", "helm"}
  /\ \A p \in Products : inventory[p] = Missing \/ inventory[p] \subseteq Lines(p)
  /\ config \in BOOLEAN
  /\ \A r \in Requests : At(r, "lines") => req[r].left # {} /\ req[r].left \subseteq Lines(Step(r)[2])
  /\ faults \in 0..MaxFaults

(* No inventory is left without some of its lines, as an error of the disk    *)
(* leaves it: nothing ever completes it, and every later request takes the    *)
(* hosts that are missing in it for done.                                    *)
Whole == \A p \in Products : inventory[p] \in {Missing, Lines(p)}

Everywhere(some) == \A n \in Nodes : Has(n, some)

(* "The product has been successfully deployed" (restfrontend.go:252): the    *)
(* products of a request that was answered so are on the machines they are    *)
(* for, with what they build on, although earlier attempts failed half-way.  *)
(* Left out of it: the chain goes on after "hosts" failed, and k3s, whose     *)
(* workers are sought in a group of another name, comes to the master only.  *)
Deployed(product) ==
  CASE product = "hosts"              -> Everywhere({"hosts"})
    [] product = "docker"             -> Everywhere({"docker"})
    [] product = "kubernetes"         -> Everywhere({"docker"}) /\ Everywhere({"kubernetes", "kubeadm"})
    [] product = "private_registries" -> setup.repos => Everywhere({"docker_repository"}) /\ Has(Master, {"secret"})
    [] product = "gluster-kubernetes" -> Everywhere({"gluster"})
    [] OTHER                          -> Has(Master, {product})
DoneIsDeployed ==
  Whole => \A r \in Requests : At(r, "done") =>
    \A i \in 1..Len(Wanted[r]) :
      ~(IsChain(r) /\ Wanted[r][i] = "hosts") => Deployed(Wanted[r][i])

(* What the document records is there: the configuration file it names and a  *)
(* cluster behind it, on every machine when the engine manages it, the secret *)
(* of the registries when there are any, and helm (kubernetes_provisioner.go: *)
(* 108-111, registry_provisioner.go:94, helm_provisioner.go:43).             *)
RecordedIsThere ==
  Whole =>
    /\ "kubernetes" \in doc => config /\ Has(Master, Cluster)
    /\ "managed" \in doc => Everywhere({"kubernetes", "kubeadm"})
    /\ "secret" \in doc /\ setup.repos => Has(Master, {"secret"})
    /\ "helm" \in doc => Has(Master, {"helm"})

(* A client that repeats a failed installation of Kubernetes gets it once      *)
(* nothing fails any more, unless k3s is there, or an attempt ran              *)
(* "kubeadm init" or created the secret of the registries, which cannot be     *)
(* done twice.                                                              *)
RetryInstalls ==
  \A r \in Requests :
    /\ At(r, "read") /\ Wanted[r] = <<"kubernetes">> /\ faults = 0 /\ Whole
    /\ ~Has(Master, {"secret", "k3s"}) /\ \A n \in Nodes : ~Has(n, {"kubeadm"})
    ~> At(r, "done")
=============================================================================
