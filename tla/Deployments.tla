---------------------------- MODULE Deployments -----------------------------
(***************************************************************************)
(* The deployment controller (infrastructure/deploymentcontroller.go) above *)
(* CloudsigmaDeployer: requests that create several infrastructures, each on *)
(* a goroutine that reports over a channel, requests that delete one, and    *)
(* the repository between them. VDCManager.createDeployment                 *)
(* (ditas/vdcmanager.go:180-208) is a client that deletes what a failed      *)
(* creation returned.                                                       *)
(***************************************************************************)
EXTENDS CloudSigma

CONSTANTS
  Infras,       \* the infrastructures of all requests
  NodesOf,      \* their nodes
  HasSecret,    \* those whose provider names a secret of the vault; the
                \* others carry their credentials in the request
  Creations,    \* requests that create infrastructures
  InfrasOf,     \* the infrastructures of a creation
  Cleaners,     \* creations made by VDCManager.createDeployment
  Target        \* the infrastructure a deletion is for

ASSUME ShapeAssumption ==
  /\ NodesOf \in [Infras -> SUBSET Nodes] /\ HasSecret \subseteq Infras
  /\ InfrasOf \in [Creations -> SUBSET Infras] /\ Cleaners \subseteq Creations
  /\ Target \in [Deletions -> Infras]
ASSUME OwnerAssumption ==  \* what a request creates has an identifier of its own
  /\ \A i, j \in Infras : i # j => NodesOf[i] \intersect NodesOf[j] = {}
  /\ \A b, c \in Creations : b # c => InfrasOf[b] \intersect InfrasOf[c] = {}
ASSUME CleanerAssumption ==  \* createDeployment deletes whatever was returned
  \A c \in Cleaners : \A i \in InfrasOf[c] : \E w \in Deletions : Target[w] = i

VARIABLES
  stored,  \* the infrastructures in the repository
  phase,   \* how far the creation of each infrastructure is
  answer,  \* how far each creation is
  todo,    \* the nodes a deletion has not come to
  trouble  \* a deletion met an error

vars == <<cloudVars, stored, phase, answer, todo, trouble>>
controllerVars == <<stored, phase, answer, todo, trouble>>

Init ==
  /\ CloudInit
  /\ stored = {}
  /\ phase = [i \in Infras |-> "idle"]
  /\ answer = [c \in Creations |-> "idle"]
  /\ todo = [w \in Deletions |-> {}]
  /\ trouble = [w \in Deletions |-> FALSE]

Phase(i, p) == phase' = [phase EXCEPT ![i] = p]

-----------------------------------------------------------------------------
(* CreateDeployment starts one goroutine per infrastructure.                *)
Submit(c) ==
  /\ answer[c] = "idle"
  /\ answer' = [answer EXCEPT ![c] = "collecting"]
  /\ phase' = [i \in Infras |-> IF i \in InfrasOf[c] THEN "asked" ELSE phase[i]]
  /\ UNCHANGED <<cloudVars, stored, todo, trouble>>

(* DeployInfrastructure of the provider, up to the nodes.                    *)
Deploy(i) ==
  /\ phase[i] = "asked"
  /\ \/ Launch(NodesOf[i]) /\ Phase(i, "creating")
     \/ /\ (Cardinality(FreeIps) < Cardinality(NodesOf[i]) /\ Works) \/ Fails("ips")
        /\ Phase(i, "error")
        /\ UNCHANGED <<drives, servers, address, disk, info, work>>
  /\ UNCHANGED <<stored, answer, todo, trouble>>

(* It takes the result of every node; one error fails the infrastructure.    *)
CollectNodesBlind(i) ==  \* mutant: the error of a node is only logged
  /\ phase[i] = "creating"
  /\ \A n \in NodesOf[i] : work[n].pc \in {"created", "deleted"}
  /\ Phase(i, "running")
  /\ UNCHANGED <<cloudVars, stored, answer, todo, trouble>>

CollectNodes(i) ==
  /\ phase[i] = "creating"
  /\ \A n \in NodesOf[i] : work[n].pc \in {"created", "deleted"}
  /\ Phase(i, IF \E n \in NodesOf[i] : At(n, "deleted") THEN "error" ELSE "running")
  /\ UNCHANGED <<cloudVars, stored, answer, todo, trouble>>

(* The loop of CreateDeployment. An error of AddInfrastructure is logged.    *)
ReceiveSuccess(i) ==  \* mutant: a goroutine that fails sends nothing
  /\ \/ phase[i] = "running" /\ Phase(i, "returned") /\ Works /\ stored' = stored \union {i}
     \/ phase[i] = "running" /\ Phase(i, "returned") /\ Fails("store") /\ stored' = stored
  /\ UNCHANGED <<drives, servers, address, disk, info, work, answer, todo, trouble>>

Receive(i) ==
  /\ \/ phase[i] = "error" /\ Phase(i, "dropped") /\ Works /\ stored' = stored
     \/ phase[i] = "running" /\ Phase(i, "returned") /\ Works /\ stored' = stored \union {i}
     \/ phase[i] = "running" /\ Phase(i, "returned") /\ Fails("store") /\ stored' = stored
  /\ UNCHANGED <<drives, servers, address, disk, info, work, answer, todo, trouble>>

RespondAny(c) ==  \* mutant: one infrastructure is enough
  /\ answer[c] = "collecting"
  /\ \A i \in InfrasOf[c] : phase[i] \in {"dropped", "returned"}
  /\ answer' = [answer EXCEPT ![c] =
       IF \E i \in InfrasOf[c] : phase[i] = "returned" THEN "done"
       ELSE IF c \in Cleaners THEN "cleaning" ELSE "failed"]
  /\ UNCHANGED <<cloudVars, stored, phase, todo, trouble>>

Respond(c) ==
  /\ answer[c] = "collecting"
  /\ \A i \in InfrasOf[c] : phase[i] \in {"dropped", "returned"}
  /\ answer' = [answer EXCEPT ![c] =
       IF \A i \in InfrasOf[c] : phase[i] = "returned" THEN "done"
       ELSE IF c \in Cleaners THEN "cleaning" ELSE "failed"]
  /\ UNCHANGED <<cloudVars, stored, phase, todo, trouble>>

-----------------------------------------------------------------------------
(* The deletions: those of the clients, who know an infrastructure from the  *)
(* answer to its creation, and the one createDeployment starts for each       *)
(* infrastructure a failed creation returned.                               *)
IsCleanup(w) == w = CHOOSE v \in Deletions : Target[v] = Target[w]

MayDelete(w) ==
  \E c \in Creations : /\ Target[w] \in InfrasOf[c]
                       /\ phase[Target[w]] = "returned"
                       /\ \/ answer[c] = "done"
                          \/ answer[c] = "cleaning" /\ IsCleanup(w)

(* DeleteInfrastructure: FindInfrastructure and findProvider. Credentials    *)
(* are not in the stored document.                                          *)
Find(w) ==
  /\ At(w, "idle")
  /\ MayDelete(w)
  /\ IF Target[w] \in stored /\ Target[w] \in HasSecret
       THEN Goto(w, "next") /\ todo' = [todo EXCEPT ![w] = NodesOf[Target[w]]]
       ELSE Goto(w, "failed") /\ todo' = todo
  /\ UNCHANGED <<drives, servers, address, disk, info, faults, lost>>
  /\ UNCHANGED <<stored, phase, answer, trouble>>

(* One host after the other, whatever became of the one before.              *)
NextHostBlind(w) ==  \* mutant: the error of a host is only logged
  /\ work[w].pc \in {"next", "deleted"}
  /\ \/ \E n \in todo[w] :
          /\ work' = [work EXCEPT ![w] = StartDelete(n)]
          /\ todo' = [todo EXCEPT ![w] = @ \ {n}]
     \/ todo[w] = {} /\ Goto(w, "remove") /\ todo' = todo
  /\ UNCHANGED <<drives, servers, address, disk, info, faults, lost>>
  /\ UNCHANGED <<stored, phase, answer, trouble>>

NextHost(w) ==
  /\ work[w].pc \in {"next", "deleted"}
  /\ trouble' = [trouble EXCEPT ![w] = @ \/ work[w].error]
  /\ \/ \E n \in todo[w] :
          /\ work' = [work EXCEPT ![w] = StartDelete(n)]
          /\ todo' = [todo EXCEPT ![w] = @ \ {n}]
     \/ /\ todo[w] = {}
        /\ Goto(w, IF trouble'[w] THEN "failed" ELSE "remove")
        /\ todo' = todo
  /\ UNCHANGED <<drives, servers, address, disk, info, faults, lost>>
  /\ UNCHANGED <<stored, phase, answer>>

(* MongoRepository.DeleteInfrastructure fails when another one was faster.   *)
Remove(w) ==
  LET i == Target[w] IN
    /\ At(w, "remove")
    /\ \/ i \in stored /\ Works /\ stored' = stored \ {i} /\ Goto(w, "done")
       \/ i \in stored /\ Loses("store") /\ stored' = stored \ {i} /\ Goto(w, "failed")
       \/ /\ (i \notin stored /\ Works) \/ Fails("store")
          /\ Goto(w, "failed") /\ stored' = stored
    /\ UNCHANGED <<drives, servers, address, disk, info, phase, answer, todo, trouble>>

(* createDeployment has deleted what was returned.                          *)
Cleaned(c) ==
  LET ours == {w \in Deletions : /\ Target[w] \in InfrasOf[c] /\ IsCleanup(w)
                                 /\ phase[Target[w]] = "returned"} IN
    /\ answer[c] = "cleaning"
    /\ \A w \in ours : work[w].pc \in {"done", "failed"}
    /\ answer' = [answer EXCEPT ![c] =
         IF \A w \in ours : At(w, "done") THEN "partial deployment deleted" ELSE "error cleaning"]
    /\ UNCHANGED <<cloudVars, stored, phase, todo, trouble>>

-----------------------------------------------------------------------------
Controller(i)  == Deploy(i) \/ CollectNodes(i) \/ Receive(i)
Creation(c)    == Respond(c) \/ Cleaned(c)
Cloud(w)       == Deleting(w) /\ UNCHANGED controllerVars
Node(n)        == Cloud(n) \/ (Creating(n) /\ UNCHANGED controllerVars)
Deletion(w)    == Cloud(w) \/ NextHost(w) \/ Remove(w)
CleaningOf(w)  == Find(w) /\ \E c \in Creations : answer[c] = "cleaning" /\ Target[w] \in InfrasOf[c]
ProviderOf(n)  == Settles(n) /\ UNCHANGED controllerVars

Next ==
  \/ \E c \in Creations : Submit(c) \/ Creation(c)
  \/ \E i \in Infras : Controller(i)
  \/ \E n \in Nodes : Node(n) \/ ProviderOf(n)
  \/ \E w \in Deletions : Find(w) \/ Deletion(w)

Spec == Init /\ [][Next]_vars

(* Goroutines run; nothing is asked of the provider, whose waits have a      *)
(* timeout, nor of the clients, but createDeployment does delete.            *)
FairSpec ==
  /\ Spec
  /\ \A c \in Creations : WF_vars(Creation(c))
  /\ \A i \in Infras : WF_vars(Controller(i))
  /\ \A n \in Nodes : WF_vars(Node(n))
  /\ \A w \in Deletions : WF_vars(Deletion(w)) /\ WF_vars(CleaningOf(w))

(* A provider that does what it was asked for in time.                      *)
ReliableSpec == FairSpec /\ \A n \in Nodes : WF_vars(ProviderOf(n))

-----------------------------------------------------------------------------
(* The documents of the repository name machines that exist: an infrastructure *)
(* that nobody has begun to delete is stored only with all its nodes          *)
(* complete, whatever its siblings and their goroutines met.                 *)
StoredIsComplete ==
  \A i \in stored : (\A w \in Deletions : Target[w] = i => At(w, "idle")) =>
    \A n \in NodesOf[i] :
      /\ At(n, "created")
      /\ servers[n] # "none" /\ info[n].server
      /\ \A d \in Disks : drives[n][d] = "unmounted"

(* "Removes an infrastructure in a deployment, clearing the resources such as *)
(* VMs and disks that were allocated" (doc/usage.md:25): when the deletion    *)
(* is reported done, also if another one raced it.                           *)
DeletedIsGone ==
  \A w \in Deletions : At(w, "done") =>
    /\ Target[w] \notin stored
    /\ \A n \in NodesOf[Target[w]] : ~Leftovers(n)

(* Lifecycle, implemented: an infrastructure is pending until the loop of     *)
(* CreateDeployment receives its result, and "deleting" once a deletion of it *)
(* was asked for; a creation stays open while createDeployment cleans up.    *)
LifeOf(i) ==
  CASE phase[i] = "idle"    -> "unknown"
    [] phase[i] = "dropped" -> "failed"
    [] phase[i] \notin {"idle", "dropped", "returned"} -> "pending"
    [] phase[i] = "returned" /\ i \notin stored -> "unlisted"
    [] OTHER -> IF \A w \in Deletions : Target[w] = i => At(w, "idle") THEN "listed" ELSE "deleting"

IsWhole(n) == servers[n] # "none" /\ \A d \in Disks : drives[n][d] = "unmounted"

MachinesOf(i) ==
  (IF \A n \in NodesOf[i] : IsWhole(n) THEN {"all"} ELSE {})
    \union (IF \E n \in NodesOf[i] : Leftovers(n) THEN {"some"} ELSE {})

ToldTo(c) ==
  CASE answer[c] \in {"collecting", "cleaning"} -> "open"
    [] answer[c] = "partial deployment deleted" -> "undone"
    [] answer[c] = "error cleaning" -> "failed"
    [] OTHER -> answer[c]

EndOf(w) == IF work[w].pc \in {"idle", "done", "failed"} THEN work[w].pc ELSE "open"

Life == INSTANCE Lifecycle WITH
  life     <- [i \in Infras |-> LifeOf(i)],
  machines <- [i \in Infras |-> MachinesOf(i)],
  told     <- [c \in Creations |-> ToldTo(c)],
  ended    <- [w \in Deletions |-> EndOf(w)]

(* The machines of an infrastructure change only while it is created and      *)
(* after its deletion was asked for, and then only go away; it is listed only *)
(* when complete and leaves the list only when nothing is left at the         *)
(* provider; a creation is reported done, or undone, and a deletion done, only *)
(* when that is so (deploymentcontroller.go:120-178, 206-243,                 *)
(* ditas/vdcmanager.go:180-208).                                            *)
FollowsLifecycle == Life!Spec

(* Every request is answered, however many goroutines fail: each of them      *)
(* sends exactly one result.                                                *)
EveryRequestIsAnswered ==
  /\ \A c \in Creations :
       answer[c] \in {"collecting", "cleaning"} ~> answer[c] \notin {"collecting", "cleaning"}
  /\ \A w \in Deletions : ~At(w, "idle") ~> work[w].pc \in {"done", "failed"}

(* A deletion of a stored infrastructure that meets no fault, after every     *)
(* other one has ended, does not fail (doc/usage.md:25,                      *)
(* deploymentcontroller.go:206).                                            *)
Undisturbed(w) ==
  /\ At(w, "idle") /\ Target[w] \in stored /\ faults = 0 /\ lost = 0
  /\ \A v \in Deletions \ {w} : work[v].pc \in {"done", "failed"}
DeletionSucceeds ==
  \A w \in Deletions : [](Undisturbed(w) => []~At(w, "failed"))
=============================================================================
