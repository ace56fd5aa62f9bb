------------------------- MODULE CloudSigmaProofs --------------------------
(***************************************************************************)
(* A node that is reported as created is complete, whatever fails; one whose *)
(* creation failed leaves nothing at the provider, as long as the deletion   *)
(* of what it had meets no fault of its own. The argument goes by node: what *)
(* the provider holds for it is tied to where its goroutine is, and only     *)
(* that goroutine and the deletions of a created node touch it.             *)
(***************************************************************************)
EXTENDS CloudSigma, TLAPS

Undoing    == {"status", "stop", "stopping", "delete", "drives", "deleted"}
NodePcs    == {"idle", "disks", "server", "start", "booting", "created",
               "status", "stop", "stopping", "delete", "drives", "deleted"}
RequestPcs == {"idle", "next", "status", "stop", "stopping", "delete", "deleted",
               "remove", "done", "failed"}
Pcs        == {"idle", "disks", "server", "start", "booting", "created",
               "status", "stop", "stopping", "delete", "drives", "deleted",
               "next", "remove", "done", "failed"}

DriveStates  == {"none", "busy", "unmounted", "unavailable"}
ServerStates == {"none", "stopped", "starting", "running", "stopping"}
DiskStates   == {"idle", "create", "wait", "ok", "failed"}
Jobs         == [pc : Pcs, host : Nodes \union {"none"}, left : SUBSET Disks, error : BOOLEAN]
Known        == [drives : SUBSET Disks, server : BOOLEAN]

CloudType ==
  /\ drives \in [Nodes -> [Disks -> DriveStates]]
  /\ servers \in [Nodes -> ServerStates]
  /\ disk \in [Nodes -> [Disks -> DiskStates]]
  /\ info \in [Nodes -> Known]
  /\ work \in [Workers -> Jobs]
  /\ faults \in Nat /\ lost \in Nat

Ready(n) == \A d \in Disks : drives[n][d] = "unmounted"
Whole(n) == servers[n] # "none" /\ Ready(n)

(* While the drives of a node are made, what its goroutine knows of each.     *)
DiskInv(n, d) ==
  /\ disk[n][d] # "idle"
  /\ disk[n][d] = "create" => drives[n][d] = "none"
  /\ disk[n][d] = "ok" => drives[n][d] = "unmounted" /\ d \in info[n].drives

(* The state of a node by the position of its goroutine.                     *)
NodeInv(n) ==
  /\ work[n].pc \in NodePcs
  /\ work[n].pc # "idle" => work[n].host = n
  /\ work[n].pc = "idle" => ~Leftovers(n) /\ \A d \in Disks : disk[n][d] = "idle"
  /\ work[n].pc = "disks" => \A d \in Disks : DiskInv(n, d)
  /\ work[n].pc \notin {"idle", "disks"} => \A d \in Disks : disk[n][d] \in {"ok", "failed"}
  /\ work[n].pc \in {"server", "start", "booting", "created"} => info[n].drives = Disks
  /\ work[n].pc \in {"idle", "disks", "server"} => servers[n] = "none" /\ ~info[n].server
  /\ work[n].pc \in {"start", "booting", "created"} => info[n].server
  /\ work[n].pc = "server" => Ready(n)
  /\ work[n].pc \in {"start", "booting"} => Whole(n)
  /\ work[n].pc = "created" => Whole(n) \/ ~Leftovers(n)
  /\ servers[n] # "none" => Ready(n)

(* A request works on nodes that were created, which have a server.           *)
RequestInv(w) ==
  /\ work[w].pc \in RequestPcs
  /\ work[w].pc \in Undoing => work[w].host \in Nodes /\ At(work[w].host, "created")

CloudInv ==
  /\ CloudType
  /\ \A n \in Nodes : NodeInv(n)
  /\ \A w \in Deletions : RequestInv(w)

-----------------------------------------------------------------------------
(* What an action leaves alone.                                             *)
SameNode(m) ==
  /\ drives'[m] = drives[m] /\ servers'[m] = servers[m] /\ disk'[m] = disk[m]
  /\ info'[m] = info[m] /\ work'[m] = work[m]

SameRequests == \A w \in Deletions : work'[w] = work[w]

-----------------------------------------------------------------------------
(* The steps of a goroutine: what each assignment to work makes of it.       *)
Others(w) == \A v \in Workers \ {w} : work'[v] = work[v]

LEMMA GotoEffect ==
  ASSUME CloudType, NEW w \in Workers, NEW pc \in Pcs, Goto(w, pc)
  PROVE  /\ work' \in [Workers -> Jobs] /\ Others(w)
         /\ work'[w].pc = pc /\ work'[w].host = work[w].host
         /\ work'[w].left = work[w].left /\ work'[w].error = work[w].error
  BY DEF CloudType, Goto, Jobs, Others

LEMMA EndDeleteEffect ==
  ASSUME CloudType, NEW w \in Workers, NEW e \in BOOLEAN, EndDelete(w, e)
  PROVE  /\ work' \in [Workers -> Jobs] /\ Others(w)
         /\ work'[w].pc = "deleted" /\ work'[w].host = work[w].host
         /\ work'[w].error = e
  BY DEF CloudType, EndDelete, Jobs, Pcs, Others

LEMMA StartDeleteEffect ==
  ASSUME CloudType, NEW w \in Workers, NEW h \in Nodes, work' = [work EXCEPT ![w] = StartDelete(h)]
  PROVE  /\ work' \in [Workers -> Jobs] /\ Others(w)
         /\ work'[w].host = h /\ work'[w].left = info[h].drives /\ work'[w].error = FALSE
         /\ info[h].server => work'[w].pc = "status"
         /\ ~info[h].server /\ info[h].drives # {} => work'[w].pc = "drives"
         /\ ~info[h].server /\ info[h].drives = {} => work'[w].pc = "deleted"
  BY DEF CloudType, StartDelete, Jobs, Known, Pcs, Others

LEMMA DriveDone ==
  ASSUME CloudType, NEW w \in Workers, NEW d \in Disks, NEW e \in BOOLEAN,
         work' = [work EXCEPT ![w].left = @ \ {d}, ![w].error = @ \/ e,
                    ![w].pc = IF work[w].left = {d} THEN "deleted" ELSE @]
  PROVE  /\ work' \in [Workers -> Jobs] /\ Others(w)
         /\ work'[w].pc = (IF work[w].left = {d} THEN "deleted" ELSE work[w].pc)
         /\ work'[w].host = work[w].host /\ work'[w].left = work[w].left \ {d}
  <1> DEFINE pc  == IF work[w].left = {d} THEN "deleted" ELSE work[w].pc
             err == work[w].error \/ e
             job == [work[w] EXCEPT !.left = @ \ {d}, !.error = err, !.pc = pc]
  <1>. work \in [Workers -> Jobs]
    BY DEF CloudType
  <1>1. pc \in Pcs
    BY DEF Jobs, Pcs
  <1>2. err \in BOOLEAN
    BY DEF Jobs
  <1>3. work' = [work EXCEPT ![w] = job]
    OBVIOUS
  <1> HIDE DEF pc, err
  <1>4. job \in Jobs
    BY <1>1, <1>2 DEF Jobs
  <1>5. job.pc = pc /\ job.host = work[w].host /\ job.left = work[w].left \ {d}
    BY DEF Jobs
  <1> HIDE DEF job
  <1>. QED  BY <1>3, <1>4, <1>5 DEF pc, Others

(* One drive, or what one goroutine of a drive is at, changes.               *)
LEMMA DriveChanges ==
  ASSUME CloudType, NEW n \in Nodes, NEW d \in Disks, NEW v \in DriveStates,
         drives' = [drives EXCEPT ![n][d] = v]
  PROVE  /\ drives' \in [Nodes -> [Disks -> DriveStates]]
         /\ \A m \in Nodes \ {n} : drives'[m] = drives[m]
         /\ \A e \in Disks \ {d} : drives'[n][e] = drives[n][e]
         /\ drives'[n][d] = v
  BY DEF CloudType

LEMMA DiskChanges ==
  ASSUME CloudType, NEW n \in Nodes, NEW d \in Disks, NEW v \in DiskStates,
         disk' = [disk EXCEPT ![n][d] = v]
  PROVE  /\ disk' \in [Nodes -> [Disks -> DiskStates]]
         /\ \A m \in Nodes \ {n} : disk'[m] = disk[m]
         /\ \A e \in Disks \ {d} : disk'[n][e] = disk[n][e]
         /\ disk'[n][d] = v
  BY DEF CloudType

LEMMA CountersStayNat ==
  ASSUME faults \in Nat, lost \in Nat, NEW what, Fails(what) \/ Loses(what) \/ Slow(what) \/ Works
  PROVE  faults' \in Nat /\ lost' \in Nat
  BY DEF Fails, Loses, Slow, Works

(* The state of a node that an action leaves alone still fits.               *)
LEMMA SameNodeKeeps ==
  ASSUME CloudInv, NEW m \in Nodes, SameNode(m)
  PROVE  NodeInv(m)'
  BY DEF CloudInv, SameNode, NodeInv, DiskInv, Leftovers, Ready, Whole

LEMMA RequestKeeps ==
  ASSUME CloudInv, NEW w \in Deletions, work'[w] = work[w],
         \A n \in Nodes : At(n, "created") => At(n, "created")'
  PROVE  RequestInv(w)'
  BY DEF CloudInv, RequestInv, At

-----------------------------------------------------------------------------
(* The goroutine of a node: every step keeps the invariant of its own node.   *)
StepOf(n) ==
  /\ CloudType'
  /\ \A m \in Nodes \ {n} : SameNode(m)
  /\ SameRequests
  /\ ~At(n, "created")
  /\ NodeInv(n)'
  /\ At(n, "created")' => Whole(n)'

LEMMA NodeIsWorker ==
  ASSUME NEW n \in Nodes
  PROVE  n \in Workers /\ n \notin Deletions
  BY WorkersAssumption DEF Workers

LEMMA CreateDiskStep ==
  ASSUME CloudInv, NEW n \in Nodes, NEW d \in Disks, CreateDisk(n, d)
  PROVE  StepOf(n)
  <1>. NodeInv(n) /\ CloudType
    BY DEF CloudInv
  <1>1. work' = work /\ servers' = servers /\ disk[n][d] = "create" /\ work[n].pc = "disks"
    BY DEF CreateDisk, NodeInv
  <1>2. drives' = drives \/ drives' = [drives EXCEPT ![n][d] = "busy"]
    BY DEF CreateDisk
  <1>3. /\ info' = info
        /\ disk' = [disk EXCEPT ![n][d] = "wait"] \/ disk' = [disk EXCEPT ![n][d] = "failed"]
    BY DEF CreateDisk, DiskResult
  <1>9. /\ drives' \in [Nodes -> [Disks -> DriveStates]]
        /\ \A m \in Nodes \ {n} : drives'[m] = drives[m]
        /\ \A e \in Disks \ {d} : drives'[n][e] = drives[n][e]
    <2>1. "busy" \in DriveStates
      BY DEF DriveStates
    <2>. QED  BY <1>2, <2>1, DriveChanges DEF CloudType
  <1>10. /\ disk' \in [Nodes -> [Disks -> DiskStates]]
         /\ \A m \in Nodes \ {n} : disk'[m] = disk[m]
         /\ \A e \in Disks \ {d} : disk'[n][e] = disk[n][e]
         /\ disk'[n][d] \in {"wait", "failed"}
    <2>1. {"wait", "failed"} \subseteq DiskStates
      BY DEF DiskStates
    <2>. QED  BY <1>3, <2>1, DiskChanges
  <1>4. faults' \in Nat /\ lost' \in Nat
    BY CountersStayNat DEF CreateDisk, CloudType
  <1>5. CloudType'
    BY <1>1, <1>3, <1>4, <1>9, <1>10 DEF CloudType
  <1>6. (\A m \in Nodes \ {n} : SameNode(m)) /\ SameRequests
    BY <1>1, <1>3, <1>9, <1>10 DEF SameNode, SameRequests
  <1>7. \A e \in Disks : DiskInv(n, e)'
    BY <1>1, <1>3, <1>9, <1>10 DEF NodeInv, DiskInv
  <1>8. NodeInv(n)'
    BY <1>1, <1>3, <1>7 DEF NodeInv, NodePcs
  <1>. QED  BY <1>1, <1>5, <1>6, <1>8 DEF StepOf, At

LEMMA AwaitDiskStep ==
  ASSUME CloudInv, NEW n \in Nodes, NEW d \in Disks, AwaitDisk(n, d)
  PROVE  StepOf(n)
  <1>. NodeInv(n) /\ CloudType
    BY DEF CloudInv
  <1>1. work' = work /\ servers' = servers /\ drives' = drives /\ disk[n][d] = "wait"
        /\ work[n].pc = "disks"
    BY DEF AwaitDisk, NodeInv
  <1>2. /\ info' = info \/ info' = [info EXCEPT ![n].drives = @ \union {d}]
        /\ \/ disk' = [disk EXCEPT ![n][d] = "failed"]
           \/ /\ disk' = [disk EXCEPT ![n][d] = "ok"] /\ drives[n][d] = "unmounted"
              /\ info' = [info EXCEPT ![n].drives = @ \union {d}]
    BY DEF AwaitDisk, DiskResult
  <1>3. /\ disk' \in [Nodes -> [Disks -> DiskStates]]
        /\ \A m \in Nodes \ {n} : disk'[m] = disk[m]
        /\ \A e \in Disks \ {d} : disk'[n][e] = disk[n][e]
        /\ disk'[n][d] \in {"ok", "failed"}
        /\ disk'[n][d] = "ok" =>
             drives[n][d] = "unmounted" /\ info' = [info EXCEPT ![n].drives = @ \union {d}]
    <2>1. {"ok", "failed"} \subseteq DiskStates
      BY DEF DiskStates
    <2>. QED  BY <1>2, <2>1, DiskChanges
  <1>4. /\ info' \in [Nodes -> Known]
        /\ \A m \in Nodes \ {n} : info'[m] = info[m]
        /\ info'[n].server = info[n].server
        /\ \A e \in info[n].drives : e \in info'[n].drives
    BY <1>2 DEF CloudType, Known
  <1>10. disk'[n][d] = "ok" => drives[n][d] = "unmounted" /\ d \in info'[n].drives
    BY <1>3 DEF CloudType, Known
  <1>5. faults' \in Nat /\ lost' \in Nat
    BY CountersStayNat DEF AwaitDisk, CloudType
  <1>6. CloudType'
    BY <1>1, <1>3, <1>4, <1>5 DEF CloudType
  <1>7. (\A m \in Nodes \ {n} : SameNode(m)) /\ SameRequests
    BY <1>1, <1>3, <1>4 DEF SameNode, SameRequests
  <1>8. \A e \in Disks : DiskInv(n, e)'
    BY <1>1, <1>3, <1>4, <1>10 DEF NodeInv, DiskInv
  <1>9. NodeInv(n)'
    BY <1>1, <1>4, <1>8 DEF NodeInv, NodePcs
  <1>. QED  BY <1>1, <1>6, <1>7, <1>9 DEF StepOf, At

(* A step that only moves the goroutine of the node, or begins to undo.       *)
LEMMA UndoStep ==
  ASSUME CloudInv, NEW n \in Nodes, Undo(n),
         work[n].pc \in {"disks", "server", "start", "booting"},
         \A d \in Disks : disk[n][d] \in {"ok", "failed"},
         drives' = drives, disk' = disk, info' = info,
         faults' \in Nat, lost' \in Nat,
         servers' \in [Nodes -> ServerStates],
         \A m \in Nodes \ {n} : servers'[m] = servers[m],
         servers'[n] # "none" => Ready(n)
  PROVE  StepOf(n)
  <1>. NodeInv(n) /\ CloudType /\ n \in Workers /\ n \notin Deletions
    BY NodeIsWorker DEF CloudInv
  <1>1. /\ work' \in [Workers -> Jobs] /\ Others(n)
        /\ work'[n].host = n /\ work'[n].pc \in {"status", "drives", "deleted"}
    BY StartDeleteEffect DEF Undo, CloudType, Known
  <1>2. CloudType'
    BY <1>1 DEF CloudType
  <1>3. (\A m \in Nodes \ {n} : SameNode(m)) /\ SameRequests
    BY <1>1 DEF SameNode, SameRequests, Others, Workers
  <1>4. NodeInv(n)'
    BY <1>1 DEF NodeInv, NodePcs, Ready, Leftovers
  <1>. QED  BY <1>1, <1>2, <1>3, <1>4 DEF StepOf, At

LEMMA CollectDisksStep ==
  ASSUME CloudInv, NEW n \in Nodes, CollectDisks(n)
  PROVE  StepOf(n)
  <1>. NodeInv(n) /\ CloudType /\ n \in Workers /\ n \notin Deletions
    BY NodeIsWorker DEF CloudInv
  <1>. /\ drives' = drives /\ servers' = servers /\ disk' = disk /\ info' = info
       /\ work[n].pc = "disks" /\ \A d \in Disks : disk[n][d] \in {"ok", "failed"}
       /\ faults' \in Nat /\ lost' \in Nat
    BY DEF CollectDisks, At, Works, CloudType
  <1>1. CASE \E d \in Disks : disk[n][d] = "failed"
    <2>. Undo(n)
      BY <1>1 DEF CollectDisks
    <2>. servers' \in [Nodes -> ServerStates] /\ (servers'[n] # "none" => Ready(n))
      BY DEF CloudType, NodeInv
    <2>. QED  BY UndoStep
  <1>2. CASE \A d \in Disks : disk[n][d] = "ok"
    <2>1. Goto(n, "server")
      BY <1>2 DEF CollectDisks
    <2>2. /\ work' \in [Workers -> Jobs] /\ Others(n)
          /\ work'[n].host = work[n].host /\ work'[n].pc = "server"
      BY <2>1, GotoEffect DEF Pcs
    <2>3. CloudType'
      BY <2>2 DEF CloudType
    <2>4. (\A m \in Nodes \ {n} : SameNode(m)) /\ SameRequests
      BY <2>2 DEF SameNode, SameRequests, Others, Workers
    <2>5. Ready(n) /\ info[n].drives = Disks
      BY <1>2 DEF NodeInv, DiskInv, Ready, CloudType, Known
    <2>6. NodeInv(n)'
      BY <2>2, <2>5 DEF NodeInv, NodePcs, Ready
    <2>. QED  BY <2>2, <2>3, <2>4, <2>6 DEF StepOf, At
  <1>. QED  BY <1>1, <1>2

LEMMA CreateServerStep ==
  ASSUME CloudInv, NEW n \in Nodes, CreateServer(n)
  PROVE  StepOf(n)
  <1>. NodeInv(n) /\ CloudType /\ n \in Workers /\ n \notin Deletions
    BY NodeIsWorker DEF CloudInv
  <1>. /\ drives' = drives /\ disk' = disk /\ work[n].pc = "server" /\ Ready(n)
       /\ \A d \in Disks : disk[n][d] \in {"ok", "failed"}
    BY DEF CreateServer, At, NodeInv
  <1>1. faults' \in Nat /\ lost' \in Nat
    BY CountersStayNat DEF CreateServer, CloudType
  <1>2. servers' = servers \/ servers' = [servers EXCEPT ![n] = "stopped"]
    BY DEF CreateServer
  <1>3. /\ servers' \in [Nodes -> ServerStates]
        /\ \A m \in Nodes \ {n} : servers'[m] = servers[m]
    BY <1>2 DEF CloudType, ServerStates
  <1>4. CASE Undo(n) /\ info' = info
    BY <1>1, <1>3, <1>4, UndoStep
  <1>5. CASE /\ servers' = [servers EXCEPT ![n] = "stopped"] /\ Goto(n, "start")
             /\ info' = [info EXCEPT ![n].server = TRUE]
    <2>1. /\ info' \in [Nodes -> Known] /\ \A m \in Nodes \ {n} : info'[m] = info[m]
          /\ info'[n].drives = info[n].drives /\ info'[n].server
      BY <1>5 DEF CloudType, Known
    <2>2. /\ work' \in [Workers -> Jobs] /\ Others(n)
          /\ work'[n].host = work[n].host /\ work'[n].pc = "start"
      BY <1>5, GotoEffect DEF Pcs
    <2>3. CloudType'
      BY <1>1, <1>3, <2>1, <2>2 DEF CloudType
    <2>4. (\A m \in Nodes \ {n} : SameNode(m)) /\ SameRequests
      BY <1>3, <2>1, <2>2 DEF SameNode, SameRequests, Others, Workers
    <2>5. servers'[n] = "stopped"
      BY <1>5 DEF CloudType
    <2>6. NodeInv(n)'
      BY <2>1, <2>2, <2>5 DEF NodeInv, NodePcs, Ready, Whole
    <2>. QED  BY <2>2, <2>3, <2>4, <2>6 DEF StepOf, At
  <1>. QED  BY <1>4, <1>5 DEF CreateServer

LEMMA StartServerStep ==
  ASSUME CloudInv, NEW n \in Nodes, StartServer(n)
  PROVE  StepOf(n)
  <1>. NodeInv(n) /\ CloudType /\ n \in Workers /\ n \notin Deletions
    BY NodeIsWorker DEF CloudInv
  <1>. /\ drives' = drives /\ disk' = disk /\ info' = info /\ work[n].pc = "start" /\ Ready(n)
       /\ \A d \in Disks : disk[n][d] \in {"ok", "failed"}
    BY DEF StartServer, OnlyServers, At, NodeInv, Whole
  <1>1. faults' \in Nat /\ lost' \in Nat
    BY CountersStayNat DEF StartServer, CloudType
  <1>2. servers' = servers \/ servers' = [servers EXCEPT ![n] = "starting"]
    BY DEF StartServer
  <1>3. /\ servers' \in [Nodes -> ServerStates]
        /\ \A m \in Nodes \ {n} : servers'[m] = servers[m]
    BY <1>2 DEF CloudType, ServerStates
  <1>4. CASE Undo(n)
    BY <1>1, <1>3, <1>4, UndoStep
  <1>5. CASE servers' = [servers EXCEPT ![n] = "starting"] /\ Goto(n, "booting")
    <2>2. /\ work' \in [Workers -> Jobs] /\ Others(n)
          /\ work'[n].host = work[n].host /\ work'[n].pc = "booting"
      BY <1>5, GotoEffect DEF Pcs
    <2>3. CloudType'
      BY <1>1, <1>3, <2>2 DEF CloudType
    <2>4. (\A m \in Nodes \ {n} : SameNode(m)) /\ SameRequests
      BY <1>3, <2>2 DEF SameNode, SameRequests, Others, Workers
    <2>5. servers'[n] = "starting"
      BY <1>5 DEF CloudType
    <2>6. NodeInv(n)'
      BY <2>2, <2>5 DEF NodeInv, NodePcs, Ready, Whole
    <2>. QED  BY <2>2, <2>3, <2>4, <2>6 DEF StepOf, At
  <1>. QED  BY <1>4, <1>5 DEF StartServer

LEMMA AwaitBootStep ==
  ASSUME CloudInv, NEW n \in Nodes, AwaitBoot(n)
  PROVE  StepOf(n)
  <1>. NodeInv(n) /\ CloudType /\ n \in Workers /\ n \notin Deletions
    BY NodeIsWorker DEF CloudInv
  <1>. /\ drives' = drives /\ disk' = disk /\ info' = info /\ servers' = servers
       /\ work[n].pc = "booting" /\ Whole(n) /\ \A d \in Disks : disk[n][d] \in {"ok", "failed"}
    BY DEF AwaitBoot, OnlyServers, At, NodeInv
  <1>1. faults' \in Nat /\ lost' \in Nat
    BY CountersStayNat DEF AwaitBoot, CloudType
  <1>2. CASE Undo(n)
    BY <1>1, <1>2, UndoStep DEF CloudType, Whole
  <1>3. CASE Goto(n, "created")
    <2>2. /\ work' \in [Workers -> Jobs] /\ Others(n)
          /\ work'[n].host = work[n].host /\ work'[n].pc = "created"
      BY <1>3, GotoEffect DEF Pcs
    <2>3. CloudType'
      BY <1>1, <2>2 DEF CloudType
    <2>4. (\A m \in Nodes \ {n} : SameNode(m)) /\ SameRequests
      BY <2>2 DEF SameNode, SameRequests, Others, Workers
    <2>6. NodeInv(n)'
      BY <2>2 DEF NodeInv, NodePcs, Ready, Whole
    <2>. QED  BY <2>3, <2>4, <2>6 DEF StepOf, At, Whole, Ready
  <1>. QED  BY <1>2, <1>3 DEF AwaitBoot

LEMMA CreatingStep ==
  ASSUME CloudInv, NEW n \in Nodes, Creating(n)
  PROVE  StepOf(n)
  BY CreateDiskStep, AwaitDiskStep, CollectDisksStep, CreateServerStep, StartServerStep,
     AwaitBootStep DEF Creating

-----------------------------------------------------------------------------
(* The provider: a server it settles stays a server, and a drive it settles   *)
(* is not one of a server.                                                  *)
ProviderStepOf(n) ==
  /\ CloudType' /\ NodeInv(n)'
  /\ work' = work /\ disk' = disk /\ info' = info
  /\ \A m \in Nodes \ {n} : SameNode(m)
  /\ servers'[n] # "none" <=> servers[n] # "none"
  /\ servers[n] = "stopped" => servers'[n] = "stopped"
  /\ \A d \in Disks : \/ drives'[n][d] = drives[n][d]
                      \/ drives[n][d] = "busy" /\ drives'[n][d] # "none" /\ servers[n] = "none"

LEMMA SettlesStep ==
  ASSUME CloudInv, NEW n \in Nodes, Settles(n)
  PROVE  ProviderStepOf(n)
  <1>. NodeInv(n) /\ CloudType
    BY DEF CloudInv
  <1>1. faults' \in Nat /\ lost' \in Nat
    BY CountersStayNat DEF Settles, ServerSettles, DriveSettles, CloudType
  <1>2. CASE ServerSettles(n)
    <2>. work' = work /\ disk' = disk /\ info' = info /\ drives' = drives
      BY <1>2 DEF ServerSettles, OnlyServers
    <2>1. /\ servers' \in [Nodes -> ServerStates]
          /\ \A m \in Nodes \ {n} : servers'[m] = servers[m]
          /\ servers[n] \in {"starting", "stopping"} /\ servers'[n] \in {"running", "stopped"}
      BY <1>2 DEF ServerSettles, CloudType, ServerStates
    <2>2. CloudType'
      BY <1>1, <2>1 DEF CloudType
    <2>3. NodeInv(n)'
      BY <2>1 DEF NodeInv, Ready, Whole, Leftovers, DiskInv
    <2>. QED  BY <2>1, <2>2, <2>3 DEF ProviderStepOf, SameNode
  <1>3. CASE \E d \in Disks : DriveSettles(n, d)
    <2>1. PICK d \in Disks : DriveSettles(n, d)
      BY <1>3
    <2>. work' = work /\ disk' = disk /\ info' = info /\ servers' = servers /\ drives[n][d] = "busy"
      BY <2>1 DEF DriveSettles
    <2>2. /\ drives' \in [Nodes -> [Disks -> DriveStates]]
          /\ \A m \in Nodes \ {n} : drives'[m] = drives[m]
          /\ \A e \in Disks \ {d} : drives'[n][e] = drives[n][e]
          /\ drives'[n][d] \in {"unmounted", "unavailable"}
      <3>1. {"unmounted", "unavailable"} \subseteq DriveStates
        BY DEF DriveStates
      <3>. QED  BY <2>1, <3>1, DriveChanges DEF DriveSettles
    <2>3. CloudType'
      BY <1>1, <2>2 DEF CloudType
    <2>4. ~Ready(n) /\ servers[n] = "none" /\ Leftovers(n)
      BY DEF NodeInv, Ready, Leftovers
    <2>5. work[n].pc = "disks" => \A e \in Disks : DiskInv(n, e)'
      BY <2>2 DEF NodeInv, DiskInv
    <2>6. NodeInv(n)'
      BY <2>4, <2>5 DEF NodeInv, Whole
    <2>. QED  BY <2>2, <2>3, <2>4, <2>6 DEF ProviderStepOf, SameNode
  <1>. QED  BY <1>2, <1>3 DEF Settles

-----------------------------------------------------------------------------
(* The goroutine of a deletion, or of a node that undoes its own creation,    *)
(* works on one node, and a node that was created stays complete or is gone.  *)
DeletionStepOf(w, h) ==
  /\ h = Host(w) /\ CloudType' /\ NodeInv(h)'
  /\ disk' = disk /\ info' = info /\ Others(w)
  /\ work'[w].pc \in Undoing /\ work'[w].host = h
  /\ w \in Deletions => work'[w].pc # "drives" /\ At(h, "created")
  /\ w \in Nodes => h = w /\ work[w].pc \in Undoing
  /\ \A m \in Nodes \ {h} : drives'[m] = drives[m] /\ servers'[m] = servers[m]
  /\ \/ drives'[h] = drives[h] /\ (servers'[h] # "none" <=> servers[h] # "none")
     \/ ~Leftovers(h)'
     \/ w \in Nodes
  /\ w \in Deletions /\ work'[w].pc = "deleted" /\ ~work'[w].error => ~Leftovers(h)'

(* Who works on which node.                                                 *)
LEMMA HostOfWorker ==
  ASSUME CloudInv, NEW w \in Workers, work[w].pc \in Undoing
  PROVE  /\ Host(w) \in Nodes
         /\ w \in Nodes => Host(w) = w
         /\ w \in Deletions => w \notin Nodes /\ At(Host(w), "created") /\ ~At(w, "drives")
  BY WorkersAssumption DEF CloudInv, NodeInv, RequestInv, Host, Workers, Undoing, RequestPcs, At

(* A step that only moves the goroutine, or changes the status of its server. *)
LEMMA ServerStep ==
  ASSUME CloudInv, NEW w \in Workers, NEW h \in Nodes, h = Host(w),
         work[w].pc \in Undoing, ~At(w, "drives"),
         drives' = drives, disk' = disk, info' = info, faults' \in Nat, lost' \in Nat,
         servers' \in [Nodes -> ServerStates],
         \A m \in Nodes \ {h} : servers'[m] = servers[m],
         servers'[h] # "none" <=> servers[h] # "none",
         work' \in [Workers -> Jobs], Others(w), work'[w].host = h,
         \/ work'[w].pc \in {"stop", "stopping", "delete"}
         \/ work'[w].pc = "deleted" /\ work'[w].error
  PROVE  DeletionStepOf(w, h)
  <1>. /\ NodeInv(h) /\ CloudType
       /\ w \in Nodes => h = w
       /\ w \in Deletions => w \notin Nodes /\ At(h, "created")
    BY HostOfWorker DEF CloudInv
  <1>1. CloudType'
    BY DEF CloudType
  <1>2. h \in Workers /\ w \in Nodes \union Deletions
    BY DEF Workers
  <1>3. NodeInv(h)'
    <2>1. CASE w = h
      BY <2>1 DEF NodeInv, NodePcs, Undoing, Leftovers, Ready, Whole
    <2>2. CASE w # h
      <3>1. work'[h] = work[h] /\ work[h].pc = "created"
        BY <1>2, <2>2 DEF Others, At
      <3>. QED  BY <3>1 DEF NodeInv, NodePcs, Leftovers, Ready, Whole
    <2>. QED  BY <2>1, <2>2
  <1>4. work'[w].pc \in Undoing /\ work'[w].pc # "drives"
    BY DEF Undoing
  <1>. QED  BY <1>1, <1>3, <1>4 DEF DeletionStepOf

LEMMA ReadStatusStep ==
  ASSUME CloudInv, NEW w \in Workers, ReadStatus(w)
  PROVE  \E h \in Nodes : DeletionStepOf(w, h)
  <1>. CloudType /\ work[w].pc \in Undoing /\ ~At(w, "drives")
    BY DEF CloudInv, ReadStatus, At, Undoing
  <1>0. PICK h \in Nodes : h = Host(w)
    BY HostOfWorker
  <1>1. /\ drives' = drives /\ disk' = disk /\ info' = info /\ servers' = servers
        /\ servers \in [Nodes -> ServerStates]
    BY DEF ReadStatus, OnlyServers, CloudType
  <1>2. faults' \in Nat /\ lost' \in Nat
    BY CountersStayNat DEF ReadStatus, CloudType
  <1>3. \E pc \in {"stop", "delete"} : Goto(w, pc)
    BY DEF ReadStatus
  <1>4. /\ work' \in [Workers -> Jobs] /\ Others(w) /\ work'[w].host = h
        /\ work'[w].pc \in {"stop", "delete"}
    BY <1>0, <1>3, GotoEffect DEF Pcs, Host
  <1>. QED  BY <1>0, <1>1, <1>2, <1>4, ServerStep

LEMMA StopStep ==
  ASSUME CloudInv, NEW w \in Workers, Stop(w)
  PROVE  \E h \in Nodes : DeletionStepOf(w, h)
  <1>. CloudType /\ work[w].pc \in Undoing /\ ~At(w, "drives")
    BY DEF CloudInv, Stop, At, Undoing
  <1>0. PICK h \in Nodes : h = Host(w)
    BY HostOfWorker
  <1>1. drives' = drives /\ disk' = disk /\ info' = info
    BY DEF Stop, OnlyServers
  <1>2. faults' \in Nat /\ lost' \in Nat
    BY CountersStayNat DEF Stop, CloudType
  <1>3. Goto(w, "stopping") \/ EndDelete(w, TRUE)
    BY DEF Stop
  <1>4. /\ work' \in [Workers -> Jobs] /\ Others(w) /\ work'[w].host = h
        /\ work'[w].pc = "stopping" \/ (work'[w].pc = "deleted" /\ work'[w].error)
    BY <1>0, <1>3, GotoEffect, EndDeleteEffect DEF Pcs, Host
  <1>5. \/ servers' = servers
        \/ servers[h] = "running" /\ servers' = [servers EXCEPT ![h] = "stopping"]
    BY <1>0 DEF Stop
  <1>7. /\ servers' \in [Nodes -> ServerStates]
        /\ \A m \in Nodes \ {h} : servers'[m] = servers[m]
        /\ servers'[h] # "none" <=> servers[h] # "none"
    BY <1>5, <1>0 DEF CloudType, ServerStates
  <1>. QED  BY <1>0, <1>1, <1>2, <1>4, <1>7, ServerStep

LEMMA AwaitStopStep ==
  ASSUME CloudInv, NEW w \in Workers, AwaitStop(w)
  PROVE  \E h \in Nodes : DeletionStepOf(w, h)
  <1>. CloudType /\ work[w].pc \in Undoing /\ ~At(w, "drives")
    BY DEF CloudInv, AwaitStop, At, Undoing
  <1>0. PICK h \in Nodes : h = Host(w)
    BY HostOfWorker
  <1>1. /\ drives' = drives /\ disk' = disk /\ info' = info /\ servers' = servers
        /\ servers \in [Nodes -> ServerStates]
    BY DEF AwaitStop, OnlyServers, CloudType
  <1>2. faults' \in Nat /\ lost' \in Nat
    BY CountersStayNat DEF AwaitStop, CloudType
  <1>3. Goto(w, "delete") \/ EndDelete(w, TRUE)
    BY DEF AwaitStop
  <1>4. /\ work' \in [Workers -> Jobs] /\ Others(w) /\ work'[w].host = h
        /\ work'[w].pc = "delete" \/ (work'[w].pc = "deleted" /\ work'[w].error)
    BY <1>0, <1>3, GotoEffect, EndDeleteEffect DEF Pcs, Host
  <1>. QED  BY <1>0, <1>1, <1>2, <1>4, ServerStep

LEMMA DeleteServerStep ==
  ASSUME CloudInv, NEW w \in Workers, DeleteServer(w)
  PROVE  \E h \in Nodes : DeletionStepOf(w, h)
  <1>. CloudType /\ work[w].pc \in Undoing /\ ~At(w, "drives")
    BY DEF CloudInv, DeleteServer, At, Undoing
  <1>0. PICK h \in Nodes : h = Host(w)
    BY HostOfWorker
  <1>. NodeInv(h)
    BY DEF CloudInv
  <1>1. disk' = disk /\ info' = info
    BY DEF DeleteServer
  <1>2. faults' \in Nat /\ lost' \in Nat
    BY CountersStayNat DEF DeleteServer, CloudType
  <1>3. CASE EndDelete(w, TRUE) /\ servers' = servers /\ drives' = drives
    <2>1. /\ work' \in [Workers -> Jobs] /\ Others(w) /\ work'[w].host = h
          /\ work'[w].pc = "deleted" /\ work'[w].error
      BY <1>0, <1>3, EndDeleteEffect DEF Host
    <2>. QED  BY <1>1, <1>2, <1>3, <1>0, <2>1, ServerStep DEF CloudType
  <1>4. CASE /\ servers' = [servers EXCEPT ![h] = "none"]
             /\ drives' = [drives EXCEPT ![h] = [d \in Disks |-> "none"]]
             /\ EndDelete(w, FALSE) \/ EndDelete(w, TRUE)
    <2>1. /\ work' \in [Workers -> Jobs] /\ Others(w) /\ work'[w].host = h
          /\ work'[w].pc = "deleted"
      BY <1>0, <1>4, EndDeleteEffect DEF Host
    <2>2. /\ servers' \in [Nodes -> ServerStates] /\ servers'[h] = "none"
          /\ drives' \in [Nodes -> [Disks -> DriveStates]] /\ \A d \in Disks : drives'[h][d] = "none"
          /\ \A m \in Nodes \ {h} : drives'[m] = drives[m] /\ servers'[m] = servers[m]
      BY <1>4 DEF CloudType, ServerStates, DriveStates
    <2>3. CloudType'
      BY <1>1, <1>2, <2>1, <2>2 DEF CloudType
    <2>4. ~Leftovers(h)'
      BY <2>2 DEF Leftovers
    <2>5. NodeInv(h)'
      <3>. /\ w \in Nodes => h = w
           /\ w \in Deletions => w \notin Nodes /\ At(h, "created")
           /\ w \in Nodes \union Deletions /\ h \in Workers
        BY <1>0, HostOfWorker DEF Workers
      <3>1. CASE w = h
        BY <1>1, <2>1, <2>2, <3>1 DEF NodeInv, NodePcs, Undoing
      <3>2. CASE w # h
        <4>1. work'[h] = work[h] /\ work[h].pc = "created"
          BY <2>1, <3>2 DEF Others, At
        <4>. QED  BY <1>1, <2>2, <2>4, <4>1 DEF NodeInv, NodePcs
      <3>. QED  BY <3>1, <3>2
    <2>. QED  BY <1>0, <1>1, <2>1, <2>2, <2>3, <2>4, <2>5, HostOfWorker DEF DeletionStepOf, Undoing
  <1>. QED  BY <1>0, <1>3, <1>4 DEF DeleteServer

LEMMA DeleteDriveStep ==
  ASSUME CloudInv, NEW w \in Workers, DeleteDrive(w)
  PROVE  \E h \in Nodes : DeletionStepOf(w, h)
  <1>. CloudType /\ work[w].pc = "drives"
    BY DEF CloudInv, DeleteDrive, At
  <1>. w \in Nodes /\ w \notin Deletions /\ Host(w) = w /\ NodeInv(w)
    BY HostOfWorker DEF CloudInv, At, Workers, Undoing
  <1>1. PICK d \in work[w].left, e \in BOOLEAN :
          /\ \/ drives' = drives
             \/ drives' = [drives EXCEPT ![w][d] = "none"] /\ servers[w] = "none"
          /\ work' = [work EXCEPT ![w].left = @ \ {d}, ![w].error = @ \/ e,
                        ![w].pc = IF work[w].left = {d} THEN "deleted" ELSE @]
    BY DEF DeleteDrive
  <1>2. d \in Disks
    BY DEF CloudType, Jobs
  <1>3. disk' = disk /\ info' = info /\ servers' = servers
    BY DEF DeleteDrive
  <1>4. faults' \in Nat /\ lost' \in Nat
    BY CountersStayNat DEF DeleteDrive, CloudType
  <1>5. /\ work' \in [Workers -> Jobs] /\ Others(w) /\ work'[w].host = w
        /\ work'[w].pc \in {"deleted", "drives"}
    <2>1. work' \in [Workers -> Jobs] /\ Others(w) /\ work'[w].host = work[w].host
          /\ work'[w].pc = (IF work[w].left = {d} THEN "deleted" ELSE work[w].pc)
      BY <1>1, <1>2, DriveDone
    <2>. QED  BY <2>1 DEF Host
  <1>6. /\ drives' \in [Nodes -> [Disks -> DriveStates]]
        /\ \A m \in Nodes \ {w} : drives'[m] = drives[m]
        /\ drives' = drives \/ servers[w] = "none"
    <2>1. "none" \in DriveStates
      BY DEF DriveStates
    <2>. QED  BY <1>1, <1>2, <2>1, DriveChanges DEF CloudType
  <1>7. CloudType'
    BY <1>3, <1>4, <1>5, <1>6 DEF CloudType
  <1>8. NodeInv(w)'
    BY <1>3, <1>5, <1>6 DEF NodeInv, NodePcs, Undoing, Ready
  <1>. QED  BY <1>3, <1>5, <1>6, <1>7, <1>8 DEF DeletionStepOf, Undoing

LEMMA DeletingStep ==
  ASSUME CloudInv, NEW w \in Workers, Deleting(w)
  PROVE  \E h \in Nodes : DeletionStepOf(w, h)
  BY ReadStatusStep, StopStep, AwaitStopStep, DeleteServerStep, DeleteDriveStep DEF Deleting

-----------------------------------------------------------------------------
(* The invariant, step by step.                                             *)
LEMMA CloudInvCreating ==
  ASSUME CloudInv, NEW n \in Nodes, Creating(n)
  PROVE  CloudInv'
  <1>1. StepOf(n)
    BY CreatingStep
  <1>2. \A m \in Nodes : NodeInv(m)'
    BY <1>1, SameNodeKeeps DEF StepOf
  <1>3. \A m \in Nodes : At(m, "created") => At(m, "created")'
    BY <1>1 DEF StepOf, SameNode, At
  <1>4. \A w \in Deletions : RequestInv(w)'
    BY <1>1, <1>3, RequestKeeps DEF StepOf, SameRequests
  <1>. QED  BY <1>1, <1>2, <1>4 DEF CloudInv, StepOf

LEMMA CloudInvSettles ==
  ASSUME CloudInv, NEW n \in Nodes, Settles(n)
  PROVE  CloudInv'
  <1>1. ProviderStepOf(n)
    BY SettlesStep
  <1>2. \A m \in Nodes : NodeInv(m)'
    BY <1>1, SameNodeKeeps DEF ProviderStepOf
  <1>3. \A w \in Deletions : RequestInv(w)'
    BY <1>1, RequestKeeps DEF ProviderStepOf, At
  <1>. QED  BY <1>1, <1>2, <1>3 DEF CloudInv, ProviderStepOf

LEMMA CloudInvDeleting ==
  ASSUME CloudInv, NEW w \in Workers, Deleting(w)
  PROVE  CloudInv' /\ \A m \in Nodes : At(m, "created") => At(m, "created")'
  <1>1. PICK h \in Nodes : DeletionStepOf(w, h)
    BY DeletingStep
  <1>. w \in Nodes \union Deletions /\ Nodes \intersect Deletions = {}
    BY WorkersAssumption DEF Workers
  <1>2. \A m \in Nodes \ {h} : SameNode(m)
    BY <1>1 DEF DeletionStepOf, SameNode, Others, Workers
  <1>3. \A m \in Nodes : NodeInv(m)'
    BY <1>1, <1>2, SameNodeKeeps DEF DeletionStepOf
  <1>4. \A m \in Nodes : At(m, "created") => At(m, "created")'
    BY <1>1, <1>2 DEF DeletionStepOf, SameNode, At, Others, Workers, Undoing
  <1>5. \A v \in Deletions : RequestInv(v)'
    <2>1. \A v \in Deletions \ {w} : RequestInv(v)'
      BY <1>1, <1>4, RequestKeeps DEF DeletionStepOf, Others, Workers
    <2>2. w \in Deletions => RequestInv(w)'
      BY <1>1, <1>4 DEF DeletionStepOf, RequestInv, RequestPcs, Undoing, At
    <2>. QED  BY <2>1, <2>2
  <1>. QED  BY <1>1, <1>3, <1>4, <1>5 DEF CloudInv, DeletionStepOf

LEMMA CloudInvLaunch ==
  ASSUME CloudInv, NEW infra \in SUBSET Nodes, \A n \in infra : At(n, "idle"), Launch(infra)
  PROVE  /\ CloudInv'
         /\ \A n \in infra : At(n, "disks")'
         /\ \A m \in Nodes \ infra : SameNode(m)
         /\ SameRequests /\ drives' = drives /\ servers' = servers
  <1>. CloudType
    BY DEF CloudInv
  <1>1. drives' = drives /\ servers' = servers /\ info' = info /\ faults' = faults /\ lost' = lost
    BY DEF Launch
  <1>2. work' = [w \in Workers |-> IF w \in infra THEN [Asleep EXCEPT !.pc = "disks", !.host = w]
                                   ELSE work[w]]
    BY DEF Launch
  <1>3. \A n \in infra : [Asleep EXCEPT !.pc = "disks", !.host = n] \in Jobs
    BY DEF Asleep, Jobs, Pcs
  <1>4. /\ work' \in [Workers -> Jobs]
        /\ \A n \in infra : work'[n].pc = "disks" /\ work'[n].host = n
        /\ \A w \in Workers \ infra : work'[w] = work[w]
    BY <1>2, <1>3 DEF CloudType, Asleep, Workers
  <1>5. disk' = [n \in Nodes |-> IF n \in infra THEN [d \in Disks |-> "create"] ELSE disk[n]]
    BY DEF Launch
  <1>6. /\ disk' \in [Nodes -> [Disks -> DiskStates]]
        /\ \A n \in infra : \A d \in Disks : disk'[n][d] = "create"
        /\ \A m \in Nodes \ infra : disk'[m] = disk[m]
    BY <1>5 DEF CloudType, DiskStates
  <1>7. CloudType'
    BY <1>1, <1>4, <1>6 DEF CloudType
  <1>8. (\A m \in Nodes \ infra : SameNode(m)) /\ SameRequests
    BY <1>1, <1>4, <1>6, WorkersAssumption DEF SameNode, SameRequests, Workers
  <1>9. ASSUME NEW n \in infra  PROVE NodeInv(n)'
    <2>. n \in Nodes /\ NodeInv(n) /\ work[n].pc = "idle"
      BY DEF CloudInv, At
    <2>. QED  BY <1>1, <1>4, <1>6 DEF NodeInv, NodePcs, DiskInv, Leftovers
  <1>10. \A m \in Nodes : NodeInv(m)'
    BY <1>8, <1>9, SameNodeKeeps
  <1>11. \A m \in Nodes : At(m, "created") => At(m, "created")'
    BY <1>8 DEF SameNode, At
  <1>12. \A w \in Deletions : RequestInv(w)'
    BY <1>8, <1>11, RequestKeeps DEF SameRequests
  <1>. QED  BY <1>1, <1>4, <1>7, <1>8, <1>10, <1>12 DEF CloudInv, At

(* A request begins with a node, or moves on between nodes.                  *)
LEMMA CloudInvRequest ==
  ASSUME CloudInv, NEW w \in Deletions,
         \/ \E n \in Nodes : At(n, "created") /\ work' = [work EXCEPT ![w] = StartDelete(n)]
         \/ \E pc \in {"idle", "next", "remove", "done", "failed"} : Goto(w, pc),
         faults' \in Nat, lost' \in Nat,
         drives' = drives, servers' = servers, disk' = disk, info' = info
  PROVE  /\ CloudInv' /\ \A m \in Nodes : SameNode(m)
         /\ Others(w)
  <1>. CloudType /\ w \in Workers
    BY DEF CloudInv, Workers
  <1>1. /\ work' \in [Workers -> Jobs] /\ Others(w)
        /\ \/ work'[w].pc = "status" /\ \E n \in Nodes : work'[w].host = n /\ At(n, "created")
           \/ work'[w].pc \in {"idle", "next", "remove", "done", "failed"}
    <2>1. CASE \E pc \in {"idle", "next", "remove", "done", "failed"} : Goto(w, pc)
      BY <2>1, GotoEffect DEF Pcs
    <2>2. ASSUME NEW n \in Nodes, At(n, "created"), work' = [work EXCEPT ![w] = StartDelete(n)]
          PROVE  work' \in [Workers -> Jobs] /\ Others(w) /\ work'[w].pc = "status" /\ work'[w].host = n
      <3>1. info[n].server
        BY <2>2 DEF CloudInv, NodeInv, At
      <3>. QED  BY <2>2, <3>1, StartDeleteEffect
    <2>. QED  BY <2>1, <2>2
  <1>2. CloudType'
    BY <1>1 DEF CloudType
  <1>3. \A m \in Nodes : SameNode(m)
    BY <1>1, WorkersAssumption DEF SameNode, Others, Workers
  <1>4. \A m \in Nodes : NodeInv(m)'
    BY <1>3, SameNodeKeeps
  <1>5. \A m \in Nodes : At(m, "created") => At(m, "created")'
    BY <1>3 DEF SameNode, At
  <1>6. \A v \in Deletions : RequestInv(v)'
    <2>1. \A v \in Deletions \ {w} : RequestInv(v)'
      BY <1>1, <1>5, RequestKeeps DEF Others, Workers
    <2>2. RequestInv(w)'
      BY <1>1, <1>5 DEF RequestInv, RequestPcs, Undoing, At
    <2>. QED  BY <2>1, <2>2
  <1>. QED  BY <1>1, <1>2, <1>3, <1>4, <1>6 DEF CloudInv

LEMMA CloudInvInit == CloudInit => CloudInv
  <1>. SUFFICES ASSUME CloudInit  PROVE CloudInv
    OBVIOUS
  <1>1. CloudType
    <2>1. faults \in Nat /\ lost \in Nat
      BY BoundAssumption DEF CloudInit
    <2>2. work \in [Workers -> Jobs]
      BY DEF CloudInit, Asleep, Jobs, Pcs
    <2>3. info \in [Nodes -> Known] /\ servers \in [Nodes -> ServerStates]
      BY DEF CloudInit, Known, ServerStates
    <2>4. drives \in [Nodes -> [Disks -> DriveStates]] /\ disk \in [Nodes -> [Disks -> DiskStates]]
      BY DEF CloudInit, DriveStates, DiskStates
    <2>. QED  BY <2>1, <2>2, <2>3, <2>4 DEF CloudType
  <1>2. \A n \in Nodes : NodeInv(n)
    BY DEF CloudInit, NodeInv, NodePcs, Asleep, Leftovers, Workers
  <1>3. \A w \in Deletions : RequestInv(w)
    BY DEF CloudInit, RequestInv, RequestPcs, Undoing, Asleep, Workers
  <1>. QED  BY <1>1, <1>2, <1>3 DEF CloudInv

LEMMA CloudInvDeleteNode ==
  ASSUME CloudInv, NEW w \in Deletions, DeleteNode(w)
  PROVE  CloudInv' /\ Others(w) /\ \A m \in Nodes : SameNode(m)
  <1>. faults' \in Nat /\ lost' \in Nat
    BY DEF DeleteNode, Works, CloudInv, CloudType
  <1>. QED  BY CloudInvRequest DEF DeleteNode, OnlyServers

(* The invariant holds for any number of nodes, drives, deletions and IPs,    *)
(* and for any number and kind of faults (deployer.go:60-590).               *)
THEOREM CloudInvariant == CloudSpec => []CloudInv
  <1>1. CloudInv /\ [CloudNext]_cloudVars => CloudInv'
    <2>. SUFFICES ASSUME CloudInv, [CloudNext]_cloudVars  PROVE CloudInv'
      OBVIOUS
    <2>1. CASE LaunchAll
      BY <2>1, CloudInvLaunch DEF LaunchAll
    <2>2. CASE \E n \in Nodes : Creating(n) \/ Settles(n)
      BY <2>2, CloudInvCreating, CloudInvSettles
    <2>3. CASE \E w \in Deletions : DeleteNode(w)
      BY <2>3, CloudInvDeleteNode
    <2>4. CASE \E w \in Workers : Deleting(w)
      BY <2>4, CloudInvDeleting
    <2>5. CASE UNCHANGED cloudVars
      BY <2>5 DEF cloudVars, CloudInv, CloudType, NodeInv, DiskInv, RequestInv, At, Leftovers,
                  Ready, Whole
    <2>. QED  BY <2>1, <2>2, <2>3, <2>4, <2>5 DEF CloudNext
  <1>. QED  BY <1>1, CloudInvInit, PTL DEF CloudSpec

-----------------------------------------------------------------------------
(* A node that was created stays whole until a deletion takes it as its host. *)
Kept(n) ==
  At(n, "created") /\ (\A w \in Deletions : At(w, "idle") \/ work[w].host # n) => Whole(n)

(* A node reported as created has its server and all of its drives ready     *)
(* until a deletion works on it, whatever fails and however many answers are  *)
(* lost (deployer.go:360-460).                                              *)
THEOREM CreatedNodesAreComplete == CloudSpec => []CreatedNodeIsComplete
  <1> DEFINE KeptInv == \A n \in Nodes : Kept(n)
  <1>1. CloudInit => KeptInv
    BY DEF CloudInit, Kept, At, Asleep, Workers
  <1>2. CloudInv /\ CloudInv' /\ KeptInv /\ [CloudNext]_cloudVars => KeptInv'
    <2>. SUFFICES ASSUME CloudInv, CloudInv', KeptInv, [CloudNext]_cloudVars, NEW m \in Nodes
                  PROVE  Kept(m)'
      OBVIOUS
    <2>1. ASSUME SameNode(m), SameRequests  PROVE Kept(m)'
      BY <2>1 DEF SameNode, SameRequests, Kept, At, Whole, Ready
    <2>2. CASE LaunchAll
      <3>1. SameRequests /\ At(m, "disks")'
        BY <2>2, CloudInvLaunch DEF LaunchAll
      <3>. QED  BY <3>1 DEF Kept, At
    <2>3. ASSUME NEW n \in Nodes, Creating(n)  PROVE Kept(m)'
      <3>1. StepOf(n)
        BY <2>3, CreatingStep
      <3>2. CASE m = n
        BY <3>1, <3>2 DEF StepOf, Kept
      <3>3. CASE m # n
        BY <2>1, <3>1, <3>3 DEF StepOf
      <3>. QED  BY <3>2, <3>3
    <2>4. ASSUME NEW n \in Nodes, Settles(n)  PROVE Kept(m)'
      <3>1. ProviderStepOf(n)
        BY <2>4, SettlesStep
      <3>2. CASE m = n
        BY <3>1, <3>2 DEF ProviderStepOf, Kept, At, Whole, Ready
      <3>3. CASE m # n
        BY <2>1, <3>1, <3>3 DEF ProviderStepOf, SameRequests
      <3>. QED  BY <3>2, <3>3
    <2>5. ASSUME NEW w \in Deletions, DeleteNode(w)  PROVE Kept(m)'
      <3>1. Others(w) /\ SameNode(m)
        BY <2>5, CloudInvDeleteNode
      <3>2. \A v \in Deletions : (At(v, "idle") \/ work[v].host # m)' => At(v, "idle") \/ work[v].host # m
        BY <2>5, <3>1 DEF DeleteNode, Others, At, Workers
      <3>. QED  BY <3>1, <3>2 DEF SameNode, Kept, At, Whole, Ready
    <2>6. ASSUME NEW w \in Workers, Deleting(w)  PROVE Kept(m)'
      <3>1. PICK h \in Nodes : DeletionStepOf(w, h)
        BY <2>6, DeletingStep
      <3>2. w \in Deletions => work[w].host = h /\ work'[w].host = h /\ work[w].pc # "idle" /\ work'[w].pc # "idle"
        BY <2>6, <3>1 DEF DeletionStepOf, Host, Undoing, Deleting, ReadStatus, Stop, AwaitStop,
                          DeleteServer, DeleteDrive, At
      <3>3. CASE m = h
        <4>1. CASE w \in Nodes
          BY <3>1, <3>3, <4>1 DEF DeletionStepOf, Kept, At, Undoing
        <4>2. CASE w \in Deletions
          BY <3>1, <3>2, <3>3, <4>2 DEF Kept, At
        <4>. QED  BY <4>1, <4>2 DEF Workers
      <3>4. CASE m # h
        <4>1. /\ SameNode(m)
              /\ \A v \in Deletions : (At(v, "idle") \/ work[v].host # m)' => At(v, "idle") \/ work[v].host # m
          BY <3>1, <3>2, <3>4, WorkersAssumption DEF DeletionStepOf, SameNode, Others, Workers, At
        <4>. QED  BY <4>1 DEF SameNode, Kept, At, Whole, Ready
      <3>. QED  BY <3>3, <3>4
    <2>7. CASE UNCHANGED cloudVars
      BY <2>1, <2>7 DEF cloudVars, SameNode, SameRequests
    <2>. QED  BY <2>2, <2>3, <2>4, <2>5, <2>6, <2>7 DEF CloudNext
  <1>3. CloudInv /\ KeptInv => CreatedNodeIsComplete
    BY DEF CloudInv, NodeInv, Kept, CreatedNodeIsComplete, At, Whole, Ready
  <1>. QED  BY <1>1, <1>2, <1>3, CloudInvariant, PTL DEF CloudSpec

-----------------------------------------------------------------------------
(* When no answer is lost and neither the polls, the boot nor the deletions   *)
(* fail, what a node has is known to its goroutine, so that it is deleted.    *)
NoFaultOfUndoing == MaxLost = 0 /\ Faulty \intersect {"poll", "slowBoot", "delete"} = {}

KnownDisk(n, d) ==
  /\ d \in info[n].drives <=> disk[n][d] \in {"ok", "failed"} /\ drives[n][d] # "none"
  /\ disk[n][d] = "wait" => drives[n][d] # "none"

KnownNode(n) ==
  /\ work[n].pc = "idle" => info[n].drives = {}
  /\ work[n].pc = "disks" => \A d \in Disks : KnownDisk(n, d)
  /\ work[n].pc \in {"start", "status", "delete"} => servers[n] = "stopped"
  /\ work[n].pc \notin {"stop", "stopping"}
  /\ work[n].pc = "drives" =>
       servers[n] = "none" /\ \A d \in Disks : d \in work[n].left <=> drives[n][d] # "none"
  /\ work[n].pc = "deleted" => ~Leftovers(n)

KnownInv == lost = 0 /\ \A n \in Nodes : KnownNode(n)

LEMMA NothingIsLost ==
  ASSUME lost = 0, NEW what, Fails(what) \/ Loses(what) \/ Slow(what) \/ Works
  PROVE  lost' = 0
  BY DEF Fails, Loses, Slow, Works

LEMMA SameNodeIsKnown ==
  ASSUME KnownInv, NEW m \in Nodes, SameNode(m)
  PROVE  KnownNode(m)'
  BY DEF KnownInv, SameNode, KnownNode, KnownDisk, Leftovers

LEMMA KnownCreateDisk ==
  ASSUME CloudInv, KnownInv, NoFaultOfUndoing, NEW n \in Nodes, NEW d \in Disks, CreateDisk(n, d)
  PROVE  KnownNode(n)'
  <1>. NodeInv(n) /\ CloudType /\ KnownNode(n) /\ lost = 0
    BY DEF CloudInv, KnownInv
  <1>1. /\ work' = work /\ servers' = servers /\ info' = info /\ disk[n][d] = "create"
        /\ work[n].pc = "disks" /\ drives[n][d] = "none"
    BY DEF CreateDisk, NodeInv, DiskInv, DiskResult
  <1>2. \/ drives' = [drives EXCEPT ![n][d] = "busy"] /\ disk' = [disk EXCEPT ![n][d] = "wait"]
        \/ drives' = drives /\ disk' = [disk EXCEPT ![n][d] = "failed"]
    BY DEF CreateDisk, DiskResult, Loses
  <1>3. /\ \/ drives'[n][d] = "busy" /\ disk'[n][d] = "wait"
           \/ drives'[n][d] = "none" /\ disk'[n][d] = "failed"
        /\ \A e \in Disks \ {d} : drives'[n][e] = drives[n][e] /\ disk'[n][e] = disk[n][e]
    <2>1. "busy" \in DriveStates /\ {"wait", "failed"} \subseteq DiskStates
      BY DEF DriveStates, DiskStates
    <2>. QED  BY <1>1, <1>2, <2>1, DriveChanges, DiskChanges
  <1>. QED  BY <1>1, <1>3 DEF KnownNode, KnownDisk

LEMMA KnownAwaitDisk ==
  ASSUME CloudInv, KnownInv, NoFaultOfUndoing, NEW n \in Nodes, NEW d \in Disks, AwaitDisk(n, d)
  PROVE  KnownNode(n)'
  <1>. NodeInv(n) /\ CloudType /\ KnownNode(n)
    BY DEF CloudInv, KnownInv
  <1>1. /\ work' = work /\ servers' = servers /\ drives' = drives /\ disk[n][d] = "wait"
        /\ work[n].pc = "disks"
    BY DEF AwaitDisk, NodeInv
  <1>2. /\ info' = [info EXCEPT ![n].drives = @ \union {d}]
        /\ disk' = [disk EXCEPT ![n][d] = "ok"] \/ disk' = [disk EXCEPT ![n][d] = "failed"]
    BY DEF AwaitDisk, DiskResult, Fails, NoFaultOfUndoing
  <1>3. /\ disk'[n][d] \in {"ok", "failed"} /\ \A e \in Disks \ {d} : disk'[n][e] = disk[n][e]
        /\ info'[n].drives = info[n].drives \union {d}
    <2>1. {"ok", "failed"} \subseteq DiskStates
      BY DEF DiskStates
    <2>2. info'[n].drives = info[n].drives \union {d}
      BY <1>2 DEF CloudType, Known
    <2>. QED  BY <1>2, <2>1, <2>2, DiskChanges
  <1>. QED  BY <1>1, <1>3 DEF KnownNode, KnownDisk

LEMMA KnownUndo ==
  ASSUME CloudInv, NEW n \in Nodes, Undo(n), servers' = servers, drives' = drives,
         \/ info[n].server /\ servers[n] = "stopped"
         \/ /\ ~info[n].server /\ servers[n] = "none"
            /\ \A d \in Disks : d \in info[n].drives <=> drives[n][d] # "none"
  PROVE  KnownNode(n)'
  <1>1. /\ work'[n].left = info[n].drives
        /\ info[n].server => work'[n].pc = "status"
        /\ ~info[n].server /\ info[n].drives # {} => work'[n].pc = "drives"
        /\ ~info[n].server /\ info[n].drives = {} => work'[n].pc = "deleted"
    BY NodeIsWorker, StartDeleteEffect DEF CloudInv, Undo
  <1>. QED  BY <1>1 DEF KnownNode, Leftovers

LEMMA KnownCreating ==
  ASSUME CloudInv, KnownInv, NoFaultOfUndoing, NEW n \in Nodes, Creating(n)
  PROVE  KnownNode(n)'
  <1>. NodeInv(n) /\ CloudType /\ KnownNode(n) /\ lost = 0 /\ n \in Workers
    BY NodeIsWorker DEF CloudInv, KnownInv
  <1>1. CASE \E d \in Disks : CreateDisk(n, d) \/ AwaitDisk(n, d)
    BY <1>1, KnownCreateDisk, KnownAwaitDisk
  <1>2. CASE CollectDisks(n)
    <2>1. /\ work[n].pc = "disks" /\ servers' = servers /\ drives' = drives
          /\ \A d \in Disks : disk[n][d] \in {"ok", "failed"}
          /\ Undo(n) \/ Goto(n, "server")
      BY <1>2 DEF CollectDisks, At
    <2>2. CASE Undo(n)
      BY <2>1, <2>2, KnownUndo DEF NodeInv, KnownNode, KnownDisk
    <2>3. CASE Goto(n, "server")
      <3>1. work'[n].pc = "server"
        BY <2>3, GotoEffect DEF Pcs
      <3>. QED  BY <3>1 DEF KnownNode
    <2>. QED  BY <2>1, <2>2, <2>3
  <1>3. CASE CreateServer(n)
    <2>1. work[n].pc = "server" /\ drives' = drives
      BY <1>3 DEF CreateServer, At
    <2>2. CASE Undo(n) /\ servers' = servers
      BY <2>1, <2>2, KnownUndo DEF NodeInv, Ready
    <2>3. CASE Goto(n, "start") /\ servers' = [servers EXCEPT ![n] = "stopped"]
      <3>1. work'[n].pc = "start" /\ servers'[n] = "stopped"
        BY <2>3, GotoEffect DEF Pcs, CloudType
      <3>. QED  BY <3>1 DEF KnownNode
    <2>. QED  BY <1>3, <2>2, <2>3 DEF CreateServer, Loses
  <1>4. CASE StartServer(n)
    <2>1. work[n].pc = "start" /\ drives' = drives
      BY <1>4 DEF StartServer, OnlyServers, At
    <2>2. CASE Undo(n) /\ servers' = servers
      BY <2>1, <2>2, KnownUndo DEF NodeInv, KnownNode
    <2>3. CASE Goto(n, "booting")
      <3>1. work'[n].pc = "booting"
        BY <2>3, GotoEffect DEF Pcs
      <3>. QED  BY <3>1 DEF KnownNode
    <2>. QED  BY <1>4, <2>2, <2>3 DEF StartServer, Loses
  <1>5. CASE AwaitBoot(n)
    <2>1. Goto(n, "created")
      BY <1>5 DEF AwaitBoot, Slow, Fails, NoFaultOfUndoing
    <2>2. work'[n].pc = "created"
      BY <2>1, GotoEffect DEF Pcs
    <2>. QED  BY <2>2 DEF KnownNode
  <1>. QED  BY <1>1, <1>2, <1>3, <1>4, <1>5 DEF Creating

LEMMA KnownDeleting ==
  ASSUME CloudInv, KnownInv, NoFaultOfUndoing, NEW n \in Nodes, Deleting(n)
  PROVE  KnownNode(n)'
  <1>. NodeInv(n) /\ CloudType /\ KnownNode(n) /\ lost = 0 /\ n \in Workers
    BY NodeIsWorker DEF CloudInv, KnownInv
  <1>1. CASE ReadStatus(n)
    <2>1. work[n].pc = "status" /\ Host(n) = n /\ servers' = servers
      BY <1>1, HostOfWorker DEF ReadStatus, At, Undoing
    <2>2. Goto(n, "delete")
      BY <1>1, <2>1 DEF ReadStatus, Fails, NoFaultOfUndoing, KnownNode
    <2>3. work'[n].pc = "delete"
      BY <2>2, GotoEffect DEF Pcs
    <2>. QED  BY <2>1, <2>3 DEF KnownNode
  <1>2. CASE Stop(n) \/ AwaitStop(n)
    BY <1>2 DEF Stop, AwaitStop, At, KnownNode
  <1>3. CASE DeleteServer(n)
    <2>1. work[n].pc = "delete" /\ Host(n) = n
      BY <1>3, HostOfWorker DEF DeleteServer, At, Undoing
    <2>2. /\ servers' = [servers EXCEPT ![n] = "none"]
          /\ drives' = [drives EXCEPT ![n] = [d \in Disks |-> "none"]]
          /\ EndDelete(n, FALSE)
      BY <1>3, <2>1 DEF DeleteServer, Fails, Loses, NoFaultOfUndoing, KnownNode
    <2>3. work'[n].pc = "deleted"
      BY <2>2, EndDeleteEffect
    <2>4. servers'[n] = "none" /\ \A d \in Disks : drives'[n][d] = "none"
      BY <2>2 DEF CloudType
    <2>. QED  BY <2>3, <2>4 DEF KnownNode, Leftovers
  <1>4. CASE DeleteDrive(n)
    <2>1. work[n].pc = "drives" /\ Host(n) = n /\ servers' = servers /\ servers[n] = "none"
      BY <1>4, HostOfWorker DEF DeleteDrive, At, Undoing, KnownNode
    <2>2. work[n].left \subseteq Disks
      BY DEF CloudType, Jobs
    <2>3. PICK d \in work[n].left :
            /\ drives' = [drives EXCEPT ![n][d] = "none"]
            /\ work' = [work EXCEPT ![n].left = @ \ {d}, ![n].error = @ \/ FALSE,
                          ![n].pc = IF work[n].left = {d} THEN "deleted" ELSE @]
      BY <1>4, <2>1, <2>2 DEF DeleteDrive, Fails, Loses, NoFaultOfUndoing, KnownNode
    <2>4. /\ work'[n].pc = (IF work[n].left = {d} THEN "deleted" ELSE work[n].pc)
          /\ work'[n].left = work[n].left \ {d}
      BY <2>2, <2>3, DriveDone
    <2>5. drives'[n][d] = "none" /\ \A e \in Disks \ {d} : drives'[n][e] = drives[n][e]
      <3>1. "none" \in DriveStates
        BY DEF DriveStates
      <3>. QED  BY <2>2, <2>3, <3>1, DriveChanges
    <2>. QED  BY <2>1, <2>2, <2>4, <2>5 DEF KnownNode, Leftovers
  <1>. QED  BY <1>1, <1>2, <1>3, <1>4 DEF Deleting

(* A node whose creation failed leaves nothing at the provider, whichever of  *)
(* its steps failed and however its drives raced: for any number of faults    *)
(* that do not hit the undoing itself (deployer.go:87-96, 360-387).           *)
THEOREM FailedNodesAreGone ==
  ASSUME NoFaultOfUndoing
  PROVE  CloudSpec => []FailedNodeIsGone
  <1>1. CloudInit => KnownInv
    BY DEF CloudInit, KnownInv, KnownNode, NoFaultOfUndoing, Asleep, Workers
  <1>2. CloudInv /\ KnownInv /\ [CloudNext]_cloudVars => KnownInv'
    <2>. SUFFICES ASSUME CloudInv, KnownInv, [CloudNext]_cloudVars  PROVE KnownInv'
      OBVIOUS
    <2>1. lost' = 0
      <3>. lost = 0
        BY DEF KnownInv
      <3>1. ASSUME NEW n \in Nodes, Creating(n)  PROVE lost' = 0
        <4>1. ASSUME NEW d \in Disks, CreateDisk(n, d) \/ AwaitDisk(n, d)  PROVE lost' = 0
          BY <4>1, NothingIsLost DEF CreateDisk, AwaitDisk
        <4>2. CollectDisks(n) \/ CreateServer(n) \/ StartServer(n) \/ AwaitBoot(n) => lost' = 0
          BY NothingIsLost DEF CollectDisks, CreateServer, StartServer, AwaitBoot
        <4>. QED  BY <3>1, <4>1, <4>2 DEF Creating
      <3>2. ASSUME NEW n \in Nodes, Settles(n)  PROVE lost' = 0
        BY <3>2, NothingIsLost DEF Settles, ServerSettles, DriveSettles
      <3>3. ASSUME NEW w \in Workers, Deleting(w)  PROVE lost' = 0
        <4>1. ReadStatus(w) \/ Stop(w) \/ AwaitStop(w) \/ DeleteServer(w) => lost' = 0
          BY NothingIsLost DEF ReadStatus, Stop, AwaitStop, DeleteServer
        <4>2. DeleteDrive(w) => lost' = 0
          BY NothingIsLost DEF DeleteDrive
        <4>. QED  BY <3>3, <4>1, <4>2 DEF Deleting
      <3>. QED  BY <3>1, <3>2, <3>3 DEF CloudNext, LaunchAll, Launch, DeleteNode, Works, cloudVars
    <2>2. SUFFICES ASSUME NEW m \in Nodes  PROVE KnownNode(m)'
      BY <2>1 DEF KnownInv
    <2>. KnownNode(m)
      BY DEF KnownInv
    <2>3. CASE LaunchAll
      <3>1. work'[m].pc = "disks" /\ info' = info /\ work[m].pc = "idle"
        BY <2>3, CloudInvLaunch DEF LaunchAll, Launch, At
      <3>2. disk' = [n \in Nodes |-> [d \in Disks |-> "create"]]
        BY <2>3 DEF LaunchAll, Launch
      <3>. QED  BY <3>1, <3>2 DEF KnownNode, KnownDisk
    <2>4. ASSUME NEW n \in Nodes, Creating(n)  PROVE KnownNode(m)'
      <3>1. m # n => SameNode(m)
        BY <2>4, CreatingStep DEF StepOf
      <3>. QED  BY <2>4, <3>1, KnownCreating, SameNodeIsKnown
    <2>5. ASSUME NEW n \in Nodes, Settles(n)  PROVE KnownNode(m)'
      <3>1. ProviderStepOf(n)
        BY <2>5, SettlesStep
      <3>2. CASE m = n
        BY <3>1, <3>2 DEF ProviderStepOf, KnownNode, KnownDisk, Leftovers
      <3>3. CASE m # n
        BY <3>1, <3>3, SameNodeIsKnown DEF ProviderStepOf
      <3>. QED  BY <3>2, <3>3
    <2>6. ASSUME NEW w \in Deletions, DeleteNode(w)  PROVE KnownNode(m)'
      BY <2>6, CloudInvDeleteNode, SameNodeIsKnown
    <2>7. ASSUME NEW w \in Workers, Deleting(w)  PROVE KnownNode(m)'
      <3>1. PICK h \in Nodes : DeletionStepOf(w, h)
        BY <2>7, DeletingStep
      <3>2. CASE w = m
        BY <2>7, <3>2, KnownDeleting
      <3>3. CASE w # m /\ m = h
        BY <3>1, <3>3, NodeIsWorker DEF DeletionStepOf, Others, KnownNode, At, Workers
      <3>4. CASE w # m /\ m # h
        BY <3>1, <3>4, NodeIsWorker, SameNodeIsKnown DEF DeletionStepOf, SameNode, Others
      <3>. QED  BY <3>2, <3>3, <3>4
    <2>8. CASE UNCHANGED cloudVars
      BY <2>8, SameNodeIsKnown DEF cloudVars, SameNode
    <2>. QED  BY <2>3, <2>4, <2>5, <2>6, <2>7, <2>8 DEF CloudNext
  <1>3. KnownInv => FailedNodeIsGone
    BY DEF KnownInv, KnownNode, FailedNodeIsGone
  <1>. QED  BY <1>1, <1>2, <1>3, CloudInvariant, PTL DEF CloudSpec
=============================================================================
