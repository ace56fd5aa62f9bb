----------------------------- MODULE VDCManager -----------------------------
(***************************************************************************)
(* The VDC manager (ditas/vdcmanager.go): the requests of the DITAS front   *)
(* end about one abstract blueprint. A request reads the document of the    *)
(* blueprint from the collection "vdcs", creates infrastructures, provisions *)
(* the VDM or a VDC in one of them through ProvisionerController.Provision, *)
(* and writes its whole copy of the document back.                          *)
(*                                                                         *)
(* Infrastructures are created in one step here (Deployments has the        *)
(* details), and so is a resource of a cluster (Provisioning has them). An   *)
(* infrastructure of the provider "kubernetes" is a cluster that exists and  *)
(* is not the engine's own ("managed" is false): nothing is installed in it, *)
(* and its NodePorts are those of whatever runs there, of which the engine   *)
(* sees those of the Services of type NodePort.                             *)
(***************************************************************************)
EXTENDS PortAllocator, FiniteSets, TLC

CONSTANTS
  Infras,       \* the infrastructures all blueprint requests ask for
  Default,      \* those with the property ditas_default
  Existing,     \* those of the provider "kubernetes"
  Foreign,      \* the NodePorts other software uses in each of these
  Hidden,       \* those of its Services of type LoadBalancer, which use some too
  Dals,         \* the DALs of the blueprint
  WithAddress,  \* those it gives an address for an infrastructure
  VdmPorts,     \* the NodePorts the VDM asks for (30003 and 30006)
  Requests,     \* the requests the clients will send
  Job,          \* what each request asks for
  MaxInFlight,  \* requests the clients have in flight at once
  Faulty,       \* the parties whose calls may fail, with or without an effect
  MaxFaults,    \* bound: calls that fail
  NoInfra,      \* no infrastructure
  NotThere,     \* the repository has no document for an infrastructure
  Bare          \* an infrastructure without Kubernetes

(* A blueprint lists infrastructures of the data administrator and of the   *)
(* application developer; the other requests name a VDC and an              *)
(* infrastructure, a datasource its id and a DAL, which the blueprint need   *)
(* not know, its new address.                                               *)
ASSUME JobAssumption == \A r \in Requests :
  \/ /\ Job[r].kind = "blueprint"
     /\ Job[r].owners \in (SUBSET Infras) \ {{}} /\ Job[r].apps \in SUBSET Infras
  \/ /\ Job[r].kind \in {"copy", "datasource", "dal", "newdal"}
     /\ Job[r].vdc \in Nat /\ Job[r].infra \in Infras
ASSUME FreshAssumption ==  \* the identifier of an infrastructure is new
  \A r1, r2 \in Requests :
    /\ Job[r1].kind = "blueprint" /\ Job[r2].kind = "blueprint"
    => /\ Job[r1].owners \intersect Job[r2].apps = {}
       /\ r1 # r2 => (Job[r1].owners \intersect Job[r2].owners) \union
                      (Job[r1].apps \intersect Job[r2].apps) = {}
ASSUME InfrasAssumption == IsFiniteSet(Infras)
ASSUME VdmAssumption == VdmPorts \in Seq(Nat) /\ Len(VdmPorts) = 2 /\ Default \subseteq Infras
ASSUME ExistingAssumption ==
  /\ Existing \subseteq Infras /\ Foreign \subseteq Nat /\ Hidden \subseteq Nat
  /\ Foreign \intersect Hidden = {}
ASSUME DalAssumption == WithAddress \in [Infras -> SUBSET Dals]
ASSUME MarkAssumption == NotThere \notin Seq(Nat) /\ Bare \notin Seq(Nat)
ASSUME BoundAssumption == {MaxInFlight, MaxFaults} \subseteq Nat
ASSUME FaultyAssumption == Faulty \subseteq {"cluster", "store", "provider"}

VARIABLES
  info,      \* the document of the blueprint
  used,      \* the document of each infrastructure: its UsedPorts
  pods,      \* the Deployments of each cluster: name -> what it was given
  services,  \* the Services of each cluster: name -> its NodePorts
  req,       \* the state of each request
  faults     \* failing calls left

vars == <<info, used, pods, services, req, faults>>

(* VDCs are numbered; the VDM has a name of its own.                        *)
VdcName(n) == <<"vdc", n>>
VdmName    == <<"vdm", 0>>
Other      == <<"other", 0>>  \* what else runs in an existing cluster
Balancer   == <<"balancer", 0>>  \* of it, the Services of type LoadBalancer

Original == "original"  \* the address of a DAL in the blueprint

NewInfo == [owners |-> << >>, vdm |-> NoInfra, num |-> 0, vdcs |-> << >>]

(* No document is in the collection: one that is names an infrastructure.    *)
NoInfo == NewInfo

Idle == [pc |-> "idle", doc |-> NewInfo, product |-> "", infra |-> NoInfra,
         used |-> << >>, ports |-> << >>, apps |-> << >>, vdc |-> 0]

Init ==
  /\ info = NoInfo
  /\ used = [i \in Infras |-> NotThere]
  /\ pods = [i \in Infras |-> << >>]
  /\ services = [i \in Infras |->
       IF i \in Existing THEN [m \in {Other, Balancer} |-> IF m = Other THEN Foreign ELSE Hidden]
       ELSE << >>]
  /\ req = [r \in Requests |-> Idle]
  /\ faults = MaxFaults

(* A call that fails has no effect, or only its answer is lost.             *)
Works        == faults' = faults
Fails(party) == party \in Faulty /\ faults > 0 /\ faults' = faults - 1
Loses(party) == Fails(party)

At(r, pc)   == req[r].pc = pc
Goto(r, pc) == req' = [req EXCEPT ![r].pc = pc]
Ended(r)    == req[r].pc \in {"done", "failed", "running"}
InFlight    == {r \in Requests : ~At(r, "idle") /\ ~Ended(r)}

(* The answer; of what the request knew only which VDC it was about stays.   *)
Answer(r, pc) ==
  req' = [req EXCEPT ![r] = [Idle EXCEPT !.pc = pc, !.infra = req[r].infra, !.vdc = req[r].vdc]]

(* findDefaultInfra: the first with the property, else the last.            *)
DefaultInfra(list) ==
  LET flagged == {j \in 1..Len(list) : list[j] \in Default} IN
    list[IF flagged # {} THEN Min(flagged) ELSE Len(list)]

Put(f, key, value) ==
  [k \in DOMAIN f \union {key} |-> IF k = key THEN value ELSE f[k]]
Without(f, key)    == [k \in DOMAIN f \ {key} |-> f[k]]

(* The elements of a set of numbers, the least first.                        *)
Sorted(set) ==
  [i \in 1..Cardinality(set) |->
     CHOOSE p \in set : Cardinality({x \in set : x < p}) = i - 1]

(* The call of ProvisionerController.Provision a request makes next.        *)
Provision(r, product, infra) ==
  [req[r] EXCEPT !.pc = "read", !.product = product, !.infra = infra]

-----------------------------------------------------------------------------
(* DeployBlueprint. After the data administrator's infrastructures are known *)
(* comes the VDM, unless the document says where it is, and then those of    *)
(* the application developer.                                               *)
AfterOwners(state) ==
  IF state.doc.vdm = NoInfra
    THEN [state EXCEPT !.pc = "read", !.product = "vdm", !.infra = DefaultInfra(state.doc.owners)]
    ELSE [state EXCEPT !.pc = "apps"]

(* Any error of FindOne is taken for a blueprint that is new.               *)
FirstTime(r) ==
  /\ (info = NoInfo /\ Works) \/ Fails("store")
  /\ Goto(r, "owners")

(* The document is there; its infrastructures are read, and must all be found. *)
NextTime(r) ==
  LET found == \A i \in ToSet(info.owners) : used[i] # NotThere IN
  /\ info # NoInfo
  /\ \/ Works /\ found /\ req' = [req EXCEPT ![r] = AfterOwners([Idle EXCEPT !.doc = info])]
     \/ Works /\ ~found /\ Answer(r, "failed")
     \/ Fails("store") /\ Answer(r, "failed")

BeginBlueprint(r) ==
  /\ Job[r].kind = "blueprint"
  /\ FirstTime(r) \/ NextTime(r)

(* A document that cannot be stored (those of "missing") is only logged; then *)
(* Kubernetes is installed at once in all that are not a cluster yet, which   *)
(* finds their documents first. When that fails in some (those of "bad"), all *)
(* of them stay. Ports are reserved in the range of all the others.          *)
Provisioned(infras, missing, bad) ==
  [i \in Infras |-> IF i \notin infras THEN used[i]
                   ELSE IF i \in missing THEN NotThere
                   ELSE IF i \in bad THEN Bare ELSE << >>]

(* createDeployment: the infrastructures come in the order in which Kubernetes *)
(* is ready; when one cannot be created those that were are deleted. Nobody    *)
(* looks for the document of an existing cluster.                            *)
CreateInfras(infras, order) ==
  \/ Fails("provider") /\ order = << >> /\ used' = used
  \/ \E missing \in SUBSET infras, bad \in SUBSET (infras \ Existing) :
       LET failing == Cardinality(missing \union bad) IN
       /\ missing # {} => "store" \in Faulty
       /\ bad # {} => "provider" \in Faulty
       /\ failing <= faults /\ faults' = faults - failing
       /\ used' = Provisioned(infras, missing, bad)
       /\ IF bad \union (missing \ Existing) = {} THEN order \in SetToSeqs(infras)
                                                  ELSE order = << >>

Orders(infras) == SetToSeqs(infras) \union {<< >>}

CreateOwners(r) ==
  /\ At(r, "owners")
  /\ \E order \in Orders(Job[r].owners) :
       /\ CreateInfras(Job[r].owners, order)
       /\ IF order = << >> THEN Answer(r, "failed")
          ELSE req' = [req EXCEPT ![r].pc = "insert", ![r].doc.owners = order]
  /\ UNCHANGED <<info, pods, services>>

InsertedOver(doc) == doc  \* mutant: an upsert

(* InsertOne refuses an identifier that exists.                             *)
Inserted(doc) == IF info = NoInfo THEN doc ELSE info

Insert(r) ==
  /\ At(r, "insert")
  /\ \/ /\ Works
        /\ info' = Inserted(req[r].doc)
        /\ IF info = NoInfo THEN req' = [req EXCEPT ![r] = AfterOwners(@)]
                             ELSE Answer(r, "failed")
     \/ Fails("store") /\ info' = info /\ Answer(r, "failed")
     \/ Loses("store") /\ info' = Inserted(req[r].doc) /\ Answer(r, "failed")
  /\ UNCHANGED <<used, pods, services>>

(* The new VDC goes to the default infrastructure of both deployments, under *)
(* the number the copy of the document gives.                               *)
DeployVDC(r, apps) ==
  req' = [req EXCEPT ![r] =
    [Provision(r, "vdc", DefaultInfra(req[r].doc.owners \o apps))
       EXCEPT !.apps = apps, !.vdc = req[r].doc.num]]

CreateApps(r) ==
  /\ At(r, "apps")
  /\ \/ Job[r].apps = {} /\ DeployVDC(r, << >>) /\ Works /\ used' = used
     \/ \E order \in Orders(Job[r].apps) :
          /\ Job[r].apps # {}
          /\ CreateInfras(Job[r].apps, order)
          /\ IF order = << >> THEN Answer(r, "failed") ELSE DeployVDC(r, order)
  /\ UNCHANGED <<info, pods, services>>

-----------------------------------------------------------------------------
(* CopyVDC, DeployDatasource, SetDALInUse and DeployDAL up to their call of  *)
(* Provision.                                                               *)
Vdc(r) == info.vdcs[Job[r].vdc]

Known(r) == info # NoInfo /\ Job[r].vdc \in DOMAIN info.vdcs

(* findVDCInfrastructure.                                                   *)
Reachable(r) ==
  /\ Job[r].infra \in ToSet(info.owners) \union ToSet(Vdc(r).apps)
  /\ used[Job[r].infra] # NotThere

(* "VDC %s is already running in infrastructure %s"                         *)
CopyThere(r) ==
  Job[r].kind = "copy" /\ Known(r) /\ Job[r].infra \in DOMAIN Vdc(r).infras

RefuseCopy(r) ==
  /\ CopyThere(r)
  /\ Works
  /\ req' = [req EXCEPT ![r].pc = "running", ![r].infra = Job[r].infra, ![r].vdc = Job[r].vdc]

Acceptable(r) ==
  /\ Known(r)
  /\ LET infras == Vdc(r).infras
         i      == Job[r].infra
     IN CASE Job[r].kind = "copy"       -> i \notin DOMAIN infras /\ Reachable(r)
          [] Job[r].kind = "datasource" -> /\ Reachable(r)
                                           /\ i \in DOMAIN infras => Job[r].id \notin infras[i].sources
          [] Job[r].kind = "dal"        -> i \in DOMAIN infras
          [] Job[r].kind = "newdal"     -> i \in DOMAIN infras /\ infras[i].sources # {}

AcceptVdcRequest(r) ==
  /\ Acceptable(r)
  /\ Works
  /\ req' = [req EXCEPT ![r] =
       [Provision(r, IF Job[r].kind = "copy" THEN "vdc" ELSE Job[r].kind, Job[r].infra)
          EXCEPT !.doc = info, !.vdc = Job[r].vdc]]

FailVdcRequest(r) ==
  /\ \/ Works /\ ~Acceptable(r) /\ ~CopyThere(r)
     \/ Fails("store")
  /\ Answer(r, "failed")

BeginVdcRequest(r) ==
  /\ Job[r].kind # "blueprint"
  /\ RefuseCopy(r) \/ AcceptVdcRequest(r) \/ FailVdcRequest(r)

Begin(r) ==
  /\ At(r, "idle")
  /\ Cardinality(InFlight) < MaxInFlight
  /\ BeginBlueprint(r) \/ BeginVdcRequest(r)
  /\ UNCHANGED <<info, used, pods, services>>

-----------------------------------------------------------------------------
(* ProvisionerController.Provision of "vdm", "vdc", a datasource, "vdc" in    *)
(* the mode "modify" ("dal" here) or "dal" ("newdal" here).                  *)
ServiceName(r) == IF req[r].product = "vdm" THEN VdmName ELSE VdcName(req[r].vdc)

AfterList(product) == IF product = "vdc" THEN "ports" ELSE "pod"

(* FindInfrastructure.                                                      *)
Read(r) ==
  LET lists == req[r].infra \in Existing /\ req[r].product \in {"vdc", "vdm"}
      there == used[req[r].infra] # NotThere
  IN
  /\ At(r, "read")
  /\ \/ /\ Works /\ there
        /\ req' = [req EXCEPT ![r].pc = IF lists THEN "list" ELSE AfterList(req[r].product),
                              ![r].used = used[req[r].infra]]
     \/ Works /\ ~there /\ Answer(r, "failed")
     \/ Fails("store") /\ Answer(r, "failed")
  /\ UNCHANGED <<info, used, pods, services>>

(* The NodePorts a listing of the Services shows.                            *)
Shown(i) == UNION {services[i][m] : m \in DOMAIN services[i] \ {Balancer}}

ListOnce(r) ==  \* mutant: only a first listing replaces what is recorded
  /\ At(r, "list")
  /\ LET found == Shown(req[r].infra)
         kept  == IF req[r].used = << >> THEN Sorted(found) ELSE req[r].used
     IN \/ /\ Works
           /\ req' = [req EXCEPT ![r].pc = AfterList(req[r].product), ![r].used = kept]
        \/ Fails("cluster") /\ Answer(r, "failed")
  /\ UNCHANGED <<info, used, pods, services>>

(* GetUsedNodePorts, SetUsedPorts: what the copy of an existing cluster had   *)
(* recorded is replaced by the NodePorts of its Services, those of a          *)
(* LoadBalancer excepted.                                                   *)
List(r) ==
  /\ At(r, "list")
  /\ \/ /\ Works
        /\ req' = [req EXCEPT ![r].pc = AfterList(req[r].product),
                              ![r].used = Sorted(Shown(req[r].infra))]
     \/ Fails("cluster") /\ Answer(r, "failed")
  /\ UNCHANGED <<info, used, pods, services>>

TakePortUnchecked(r) ==  \* mutant: -1 is taken for a port
  LET port == GetNewFreePort(req[r].used)
      last == Len(req[r].ports) = 2
  IN
  /\ At(r, "ports")
  /\ req' = [req EXCEPT ![r].ports = Append(@, port),
                        ![r].used = ClaimPort(@, port),
                        ![r].pc = IF last THEN "pod" ELSE "ports"]
  /\ Works
  /\ UNCHANGED <<info, used, pods, services>>

(* CreateVDC takes a port for the CAF, for tombstone and for the DUE on the  *)
(* copy that was read, and fails without one.                               *)
TakePort(r) ==
  LET port == GetNewFreePort(req[r].used)
      last == Len(req[r].ports) = 2
  IN
  /\ At(r, "ports")
  /\ IF port = NoPort THEN Answer(r, "failed")
     ELSE req' = [req EXCEPT ![r].ports = Append(@, port),
                             ![r].used = ClaimPort(@, port),
                             ![r].pc = IF last THEN "pod" ELSE "ports"]
  /\ Works
  /\ UNCHANGED <<info, used, pods, services>>

(* The DALs the pods of a VDC find by name: those with an address, which is   *)
(* the one in use or else that of the blueprint.                            *)
Aliases(i, inUse) ==
  [d \in WithAddress[i] \union (Dals \intersect DOMAIN inUse) |->
     IF d \in DOMAIN inUse THEN inUse[d] ELSE Original]

(* A new VDC has no DAL in use.                                             *)
GivenDals(r) ==
  Aliases(req[r].infra, IF Job[r].kind = "copy" THEN req[r].doc.vdcs[req[r].vdc].inUse ELSE << >>)

PodAnywhere(r) ==  \* mutant: the address is given where the VDM is
  [vdm |-> IF req[r].infra = req[r].doc.vdm THEN req[r].doc.vdm ELSE NoInfra, dals |-> GivenDals(r)]

PodAsFirst(r) ==  \* mutant: a copy is made from the blueprint like a new VDC
  [vdm |-> IF req[r].infra = req[r].doc.vdm THEN NoInfra ELSE req[r].doc.vdm,
   dals |-> Aliases(req[r].infra, << >>)]

(* A VDC outside the infrastructure of the VDM is told its address.          *)
Pod(r) ==
  [vdm |-> IF req[r].infra = req[r].doc.vdm THEN NoInfra ELSE req[r].doc.vdm, dals |-> GivenDals(r)]

NoHosts == [vdm |-> NoInfra, dals |-> << >>]

(* CreateOrUpdateDeployment; one that fails may have deleted what was there. *)
CreateOrUpdatePod(r, pod) ==
  LET i    == req[r].infra
      name == ServiceName(r)
      made == [pods EXCEPT ![i] = Put(@, name, pod)]
  IN
  /\ \/ Works /\ pods' = made /\ Goto(r, "service")
     \/ Fails("cluster") /\ pods' \in {pods, [pods EXCEPT ![i] = Without(@, name)]} /\ Answer(r, "failed")
     \/ Loses("cluster") /\ pods' = made /\ Answer(r, "failed")
  /\ UNCHANGED <<info, used, services>>

CreateVdcPod(r) ==
  /\ At(r, "pod") /\ req[r].product = "vdc"
  /\ CreateOrUpdatePod(r, Pod(r))

CreateVdmPod(r) ==
  /\ At(r, "pod") /\ req[r].product = "vdm"
  /\ CreateOrUpdatePod(r, NoHosts)

(* SetDALInUse: the DALs in use with this one.                               *)
InUse(r) == Put(req[r].doc.vdcs[req[r].vdc].inUse, Job[r].dal, Job[r].ip)

(* ModifyVDC changes the addresses of the DALs for which the Deployment it     *)
(* reads has one; for another, whether or not the blueprint knows it, nothing *)
(* changes and nothing fails.                                               *)
Readdressed(aliases, inUse) ==
  [d \in DOMAIN aliases |-> IF d \in DOMAIN inUse THEN inUse[d] ELSE aliases[d]]

ModifyPod(r) ==
  LET i    == req[r].infra
      name == ServiceName(r)
      made == [pods EXCEPT ![i][name].dals = Readdressed(@, InUse(r))]
  IN
  /\ At(r, "pod") /\ req[r].product = "dal"
  /\ \/ Works /\ name \in DOMAIN pods[i] /\ pods' = made /\ Goto(r, "save")
     \/ Works /\ name \notin DOMAIN pods[i] /\ pods' = pods /\ Answer(r, "failed")
     \/ Fails("cluster") /\ pods' = pods /\ Answer(r, "failed")
     \/ Loses("cluster") /\ name \in DOMAIN pods[i] /\ pods' = made /\ Answer(r, "failed")
  /\ UNCHANGED <<info, used, services>>

(* DatasourceProvisioner, of which nothing is seen here but its outcome.     *)
CreateSource(r) ==
  /\ At(r, "pod") /\ req[r].product = "datasource"
  /\ \/ Works /\ Goto(r, "save")
     \/ Fails("cluster") /\ Answer(r, "failed")
  /\ UNCHANGED <<info, used, pods, services>>

(* DALProvisioner takes the type its variables have for an error.            *)
RefuseDal(r) ==
  /\ At(r, "pod") /\ req[r].product = "newdal"
  /\ Works /\ Answer(r, "failed")
  /\ UNCHANGED <<info, used, pods, services>>

(* VDMProvisioner claims its ports on the copy it works on.                  *)
VdmClaimFails(slice) ==
  \/ ClaimFails(slice, VdmPorts[1])
  \/ ClaimFails(ClaimPort(slice, VdmPorts[1]), VdmPorts[2])

ClaimForVdm(r) ==
  /\ At(r, "service") /\ req[r].product = "vdm" /\ req[r].ports = << >>
  /\ Works
  /\ IF VdmClaimFails(req[r].used) THEN Answer(r, "failed")
     ELSE req' = [req EXCEPT ![r].ports = VdmPorts,
                   ![r].used = ClaimPort(ClaimPort(@, VdmPorts[1]), VdmPorts[2])]
  /\ UNCHANGED <<info, used, pods, services>>

(* CreateOrUpdateService: the API server refuses a NodePort of another one,  *)
(* when the old service of that name is gone already.                       *)
CreateService(r) ==
  LET i      == req[r].infra
      name   == ServiceName(r)
      ports  == ToSet(req[r].ports)
      others == Without(services[i], name)
      refused == \E m \in DOMAIN others : others[m] \intersect ports # {}
      made   == [services EXCEPT ![i] = Put(@, name, ports)]
      gone   == [services EXCEPT ![i] = others]
  IN
  /\ At(r, "service") /\ req[r].ports # << >>
  /\ \/ Works /\ ~refused /\ services' = made /\ Goto(r, "save")
     \/ Works /\ refused /\ services' = gone /\ Answer(r, "failed")
     \/ Fails("cluster") /\ services' \in {services, gone} /\ Answer(r, "failed")
     \/ Loses("cluster") /\ ~refused /\ services' = made /\ Answer(r, "failed")
  /\ UNCHANGED <<info, used, pods>>

(* UpdateInfrastructure replaces the document of the infrastructure.         *)
Save(r) ==
  LET saved == [used EXCEPT ![req[r].infra] = req[r].used] IN
  /\ At(r, "save")
  /\ \/ Works /\ used' = saved /\ Goto(r, "store")
     \/ Fails("store") /\ used' = used /\ Answer(r, "failed")
     \/ Loses("store") /\ used' = saved /\ Answer(r, "failed")
  /\ UNCHANGED <<info, pods, services>>

-----------------------------------------------------------------------------
(* What each request writes into its copy of the document. CreateVDC returns *)
(* the port of the CAF and of tombstone, the third is recorded nowhere.      *)
NewEntry(ports) == [ports |-> ports, sources |-> {}]

RecordedPorts(r) == {req[r].ports[1], req[r].ports[2]}

WithVdc(r) ==
  LET doc == req[r].doc IN
  [doc EXCEPT !.num = @ + 1,
     !.vdcs = Put(@, req[r].vdc,
       [infras |-> [i \in {req[r].infra} |-> NewEntry(RecordedPorts(r))], apps |-> req[r].apps, inUse |-> << >>])]

WithCopy(r) ==
  [req[r].doc EXCEPT !.vdcs[req[r].vdc].infras = Put(@, req[r].infra, NewEntry(RecordedPorts(r)))]

WithSourceFresh(r) ==  \* mutant: the entry is always a new one
  [req[r].doc EXCEPT !.vdcs[req[r].vdc].infras =
     Put(@, req[r].infra, [NewEntry({}) EXCEPT !.sources = {Job[r].id}])]

(* saveDatasourceInformation: an infrastructure the VDC does not run in gets *)
(* an entry without ports.                                                  *)
WithSource(r) ==
  LET infras == req[r].doc.vdcs[req[r].vdc].infras
      i      == req[r].infra
      entry  == IF i \in DOMAIN infras THEN infras[i] ELSE NewEntry({})
  IN [req[r].doc EXCEPT !.vdcs[req[r].vdc].infras =
        Put(@, i, [entry EXCEPT !.sources = @ \union {Job[r].id}])]

Result(r) ==
  CASE req[r].product = "vdm"        -> [req[r].doc EXCEPT !.vdm = req[r].infra]
    [] req[r].product = "datasource" -> WithSource(r)
    [] req[r].product = "dal"        -> [req[r].doc EXCEPT !.vdcs[req[r].vdc].inUse = InUse(r)]
    [] req[r].product = "vdc" /\ Job[r].kind = "copy" -> WithCopy(r)
    [] OTHER                         -> WithVdc(r)

(* ReplaceOne, FindOneAndReplace. With the VDM recorded DeployBlueprint      *)
(* goes on.                                                                 *)
Store(r) ==
  /\ At(r, "store")
  /\ \/ /\ Works
        /\ info' = Result(r)
        /\ IF req[r].product = "vdm"
             THEN req' = [req EXCEPT ![r] = AfterOwners([Idle EXCEPT !.doc = Result(r)])]
             ELSE Answer(r, "done")
     \/ Fails("store") /\ info' = info /\ Answer(r, "failed")
     \/ Loses("store") /\ info' = Result(r) /\ Answer(r, "failed")
  /\ UNCHANGED <<used, pods, services>>

-----------------------------------------------------------------------------
Work(r) ==
  \/ CreateOwners(r) \/ Insert(r) \/ CreateApps(r)
  \/ Read(r) \/ List(r) \/ TakePort(r)
  \/ CreateVdcPod(r) \/ CreateVdmPod(r) \/ ModifyPod(r) \/ CreateSource(r) \/ RefuseDal(r)
  \/ ClaimForVdm(r) \/ CreateService(r) \/ Save(r) \/ Store(r)

Next == \E r \in Requests : Begin(r) \/ Work(r)

Spec == Init /\ [][Next]_vars

(* A goroutine that can run runs; a client need not send its request.       *)
FairSpec == Spec /\ \A r \in Requests : WF_vars(Work(r))

-----------------------------------------------------------------------------
(* A request that came past FindInfrastructure works on an infrastructure that *)
(* has a document and Kubernetes, whatever other requests do meanwhile, and    *)
(* every port that is recorded, or that a request holds on its copy or is     *)
(* about to give to a Service, is in the range.                              *)
TypeOK ==
  /\ DOMAIN info = DOMAIN NewInfo /\ (info = NoInfo \/ info.owners # << >>)
  /\ \A i \in Infras : used[i] \in {NotThere, Bare} \/ PortsOf(used[i]) \subseteq PortStart..PortEnd
  /\ \A r \in Requests :
       /\ req[r].infra \in Infras \union {NoInfra}
       /\ ToSet(req[r].ports) \union PortsOf(req[r].used) \subseteq PortStart..PortEnd
       /\ req[r].pc \in {"list", "ports", "pod", "service", "save", "store"} =>
            req[r].infra \in Infras /\ used[req[r].infra] \notin {NotThere, Bare}
  /\ faults \in 0..MaxFaults

(* What the document of the blueprint says of a VDC is so in the cluster: its *)
(* Deployment and its Service run, the recorded ports are the Service's, the  *)
(* infrastructure records them as used, and its pods find the VDM             *)
(* (vdcmanager.go:317-362, 699-712). Requests come one at a time, any call    *)
(* may fail.                                                                *)
Runs(n, i) ==
  /\ VdcName(n) \in DOMAIN pods[i] \intersect DOMAIN services[i]
  /\ info.vdcs[n].infras[i].ports \subseteq services[i][VdcName(n)]
  /\ services[i][VdcName(n)] \subseteq PortsOf(used[i])
  /\ pods[i][VdcName(n)].vdm = IF i = info.vdm THEN NoInfra ELSE info.vdm
RecordedRuns ==
  info # NoInfo =>
    /\ info.vdm # NoInfra =>
         /\ VdmName \in DOMAIN pods[info.vdm] \intersect DOMAIN services[info.vdm]
         /\ ToSet(VdmPorts) \subseteq PortsOf(used[info.vdm])
    /\ \A n \in DOMAIN info.vdcs : \A i \in DOMAIN info.vdcs[n].infras :
         info.vdcs[n].infras[i].ports # {} => Runs(n, i)

(* What a client was told to be done stays in the document, whatever other    *)
(* requests succeed or fail later: the VDC and its copies with their ports,   *)
(* the datasource, and the address of the DAL, which the VDC also uses when   *)
(* its Deployment has one for that DAL (vdc_provisioner.go:367-374).         *)
Gives(addresses, job) == job.dal \in DOMAIN addresses /\ addresses[job.dal] = job.ip
Holds(r) ==
  LET entries == info.vdcs[req[r].vdc].infras
      i       == req[r].infra
  IN CASE Job[r].kind \in {"blueprint", "copy"} -> i \in DOMAIN entries /\ entries[i].ports # {}
       [] Job[r].kind = "datasource" -> i \in DOMAIN entries /\ Job[r].id \in entries[i].sources
       [] Job[r].kind = "dal" -> /\ Gives(info.vdcs[req[r].vdc].inUse, Job[r])
                                 /\ VdcName(req[r].vdc) \in DOMAIN pods[i]
                                 /\ LET aliases == pods[i][VdcName(req[r].vdc)].dals IN
                                    Job[r].dal \in WithAddress[i] \union DOMAIN aliases
                                      => Gives(aliases, Job[r])
AnswersHold ==
  \A r \in Requests : At(r, "done") =>
    info # NoInfo /\ req[r].vdc \in DOMAIN info.vdcs /\ Holds(r)

(* A copy that is answered as done uses every DAL of the blueprint at the      *)
(* address that is recorded as in use, also a DAL for which the blueprint     *)
(* gives no address and one whose address was set for the VDC in another      *)
(* infrastructure (vdcmanager.go:693, vdc_provisioner.go:236-254).           *)
CopyUsesDals ==
  [][\A r \in Requests : Job[r].kind = "copy" /\ ~At(r, "done") /\ At(r, "done")' =>
       LET inUse == info'.vdcs[req'[r].vdc].inUse
           pod   == pods'[req'[r].infra][VdcName(req'[r].vdc)]
       IN \A d \in Dals \intersect DOMAIN inUse : d \in DOMAIN pod.dals /\ pod.dals[d] = inUse[d]]_vars

(* A VDC can be added to a blueprint whose VDM is recorded once nothing fails *)
(* any more, whatever earlier attempts left in the clusters, as long as the   *)
(* ports of the Services they left in the engine's own clusters are recorded *)
(* as used: after a failure between the Service and UpdateInfrastructure     *)
(* they are not. Before the VDM is recorded it can be tried again only when   *)
(* its ports are free: an attempt that came to its Service (or, in a cluster *)
(* of the engine, to UpdateInfrastructure) is the last that can work. Every   *)
(* infrastructure of the data administrator must have its document, and none  *)
(* of the three least ports a listing of an existing cluster leaves free may  *)
(* be one of a LoadBalancer: neither is put right by trying again.           *)
PortsKnown ==
  \A i \in Infras \ Existing : \A name \in DOMAIN services[i] :
    services[i][name] \subseteq PortsOf(used[i])
VdmPortsFree(i) ==
  ToSet(VdmPorts) \intersect
    (UNION Range(services[i]) \union IF i \in Existing THEN {} ELSE PortsOf(used[i])) = {}
HiddenFar ==
  \A i \in Existing : \A p \in Hidden :
    Cardinality((PortStart..p-1) \ (UNION Range(services[i]) \union ToSet(VdmPorts))) >= 3
VdcSucceeds ==
  \A r \in {r \in Requests : Job[r].kind = "blueprint"} :
    /\ faults = 0 /\ PortsKnown /\ HiddenFar
    /\ \A i \in ToSet(req[r].doc.owners) : used[i] # NotThere
    /\ \/ At(r, "apps")
       \/ At(r, "read") /\ req[r].product = "vdm" /\ VdmPortsFree(req[r].infra)
    ~> At(r, "done")

(* Although requests overwrite each other's document, the infrastructures of  *)
(* the data administrator and the VDM never change once they are recorded     *)
(* (vdcmanager.go:255, 277-283): a second first deployment is refused, and    *)
(* every request writes them as it read them.                               *)
IdentityStays ==
  [][info # NoInfo =>
       /\ info'.owners = info.owners
       /\ info.vdm # NoInfra => info'.vdm = info.vdm]_vars

(* "VDC %s is already running in infrastructure %s" (vdcmanager.go:672).     *)
RefusedCopyRuns ==
  \A r \in Requests :
    At(r, "running") => VdcName(req[r].vdc) \in DOMAIN pods[req[r].infra]
=============================================================================
