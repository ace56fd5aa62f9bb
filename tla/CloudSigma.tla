----------------------------- MODULE CloudSigma -----------------------------
(***************************************************************************)
(* The goroutines of CloudsigmaDeployer (infrastructure/cloudsigma/          *)
(* deployer.go): one per node creates its drives, each on a goroutine of     *)
(* its own, then the server, then boots it, and undoes what it did when a   *)
(* step fails; others delete the nodes of an infrastructure. The provider   *)
(* acts on its own between their requests, refuses some, and may lose an    *)
(* answer.                                                                  *)
(***************************************************************************)
EXTENDS Naturals, FiniteSets

CONSTANTS
  Nodes,      \* the nodes of the blueprints
  DataDrives, \* the data drives of every node
  Deletions,  \* requests that delete infrastructures
  Ips,        \* the IPs of the account
  Faulty,     \* what may go wrong, see Fails
  MaxFaults,  \* bound: requests that fail without an effect, bad statuses
  MaxLost     \* bound: requests that take effect though their answer is lost

ASSUME WorkersAssumption == Nodes \intersect Deletions = {}
ASSUME BoundAssumption == {MaxFaults, MaxLost} \subseteq Nat

Boot    == "boot"
Disks   == {Boot} \union DataDrives
Workers == Nodes \union Deletions

VARIABLES
  drives,   \* the drives at the provider
  servers,  \* the servers at the provider, their drives attached
  address,  \* the static IP of each node, or none yet
  disk,     \* the goroutines that create the drives
  info,     \* NodeInfo: the UUIDs of drives and server the deployer knows
  work,     \* the goroutines of the nodes and of the deletions
  faults,   \* faults left
  lost      \* lost answers left

cloudVars == <<drives, servers, address, disk, info, work, faults, lost>>

NoIp   == "none"
Asleep == [pc |-> "idle", host |-> "none", left |-> {}, error |-> FALSE]

CloudInit ==
  /\ drives = [n \in Nodes |-> [d \in Disks |-> "none"]]
  /\ servers = [n \in Nodes |-> "none"]
  /\ address = [n \in Nodes |-> NoIp]
  /\ disk = [n \in Nodes |-> [d \in Disks |-> "idle"]]
  /\ info = [n \in Nodes |-> [drives |-> {}, server |-> FALSE]]
  /\ work = [w \in Workers |-> Asleep]
  /\ faults = MaxFaults
  /\ lost = MaxLost

Fails(what) == what \in Faulty /\ faults > 0 /\ faults' = faults - 1 /\ lost' = lost
Loses(what) == what \in Faulty /\ lost > 0 /\ lost' = lost - 1 /\ faults' = faults
Slow(what)  == what \in Faulty /\ UNCHANGED <<faults, lost>>  \* a timeout
Works       == UNCHANGED <<faults, lost>>

Host(w)  == work[w].host
At(w, pc) == work[w].pc = pc
Goto(w, pc) == work' = [work EXCEPT ![w].pc = pc]

(***************************************************************************)
(* deleteHost: with the UUID of the server, stop it and delete it with its  *)
(* drives; without, delete the drives that are known, the boot drive last.  *)
(***************************************************************************)
StartDelete(h) ==
  [pc   |-> IF info[h].server THEN "status"
            ELSE IF info[h].drives # {} THEN "drives" ELSE "deleted",
   host |-> h, left |-> info[h].drives, error |-> FALSE]

EndDelete(w, error) ==
  work' = [work EXCEPT ![w].pc = "deleted", ![w].error = error]

OnlyServers == UNCHANGED <<drives, address, disk, info>>

(* A status that cannot be read is taken for "running".                     *)
ReadStatus(w) ==
  /\ At(w, "status")
  /\ \/ Works /\ Goto(w, IF servers[Host(w)] \in {"none", "running"} THEN "stop" ELSE "delete")
     \/ Fails("poll") /\ Goto(w, "stop")
  /\ UNCHANGED servers /\ OnlyServers

Stop(w) ==
  LET h == Host(w) IN
    /\ At(w, "stop")
    /\ \/ /\ servers[h] = "running"
          /\ servers' = [servers EXCEPT ![h] = "stopping"]
          /\ (Works /\ Goto(w, "stopping")) \/ (Loses("action") /\ EndDelete(w, TRUE))
       \/ servers[h] # "running" /\ Works /\ EndDelete(w, TRUE) /\ UNCHANGED servers
       \/ Fails("action") /\ EndDelete(w, TRUE) /\ UNCHANGED servers
    /\ OnlyServers

AwaitStop(w) ==
  /\ At(w, "stopping")
  /\ \/ servers[Host(w)] = "stopped" /\ Works /\ Goto(w, "delete")
     \/ servers[Host(w)] \notin {"stopping", "stopped"} /\ Works /\ EndDelete(w, TRUE)
     \/ (Fails("poll") \/ Slow("slowStop")) /\ EndDelete(w, TRUE)
  /\ UNCHANGED servers /\ OnlyServers

(* DeleteServerWithDrives; the provider only deletes a stopped server.       *)
DeleteServer(w) ==
  LET h == Host(w) IN
    /\ At(w, "delete")
    /\ \/ /\ servers[h] = "stopped"
          /\ servers' = [servers EXCEPT ![h] = "none"]
          /\ drives' = [drives EXCEPT ![h] = [d \in Disks |-> "none"]]
          /\ (Works /\ EndDelete(w, FALSE)) \/ (Loses("delete") /\ EndDelete(w, TRUE))
       \/ /\ (servers[h] # "stopped" /\ Works) \/ Fails("delete")
          /\ EndDelete(w, TRUE) /\ UNCHANGED <<servers, drives>>
    /\ UNCHANGED <<address, disk, info>>

(* A drive of a server cannot be deleted; the loop goes on after an error.   *)
DeleteDrive(w) ==
  LET h == Host(w) IN
    /\ At(w, "drives")
    /\ \E d \in work[w].left :
         LET done(error) ==
               work' = [work EXCEPT ![w].left = @ \ {d}, ![w].error = @ \/ error,
                          ![w].pc = IF work[w].left = {d} THEN "deleted" ELSE @]
             deletable == drives[h][d] # "none" /\ servers[h] = "none"
         IN /\ d = Boot => work[w].left = {Boot}
            /\ \/ /\ deletable /\ drives' = [drives EXCEPT ![h][d] = "none"]
                  /\ (Works /\ done(FALSE)) \/ (Loses("delete") /\ done(TRUE))
               \/ /\ (~deletable /\ Works) \/ Fails("delete")
                  /\ done(TRUE) /\ UNCHANGED drives
    /\ UNCHANGED <<servers, address, disk, info>>

Deleting(w) ==
  ReadStatus(w) \/ Stop(w) \/ AwaitStop(w) \/ DeleteServer(w) \/ DeleteDrive(w)
-----------------------------------------------------------------------------
(***************************************************************************)
(* CreateServer: the goroutine of a node.                                   *)
(***************************************************************************)
FreeIps == {ip \in Ips : \A m \in Nodes : servers[m] = "none" \/ address[m] # ip}

(* DeployInfrastructure lists the IPs without a server and starts every node *)
(* of the infrastructure with one of them.                                  *)
Launch(infra) ==
  \E ips \in [infra -> FreeIps] :
    /\ \A n, m \in infra : ips[n] = ips[m] => n = m
    /\ work' = [w \in Workers |->
                 IF w \in infra THEN [Asleep EXCEPT !.pc = "disks", !.host = w] ELSE work[w]]
    /\ disk' = [n \in Nodes |->
                 IF n \in infra THEN [d \in Disks |-> "create"] ELSE disk[n]]
    /\ address' = [n \in Nodes |-> IF n \in infra THEN ips[n] ELSE address[n]]
    /\ UNCHANGED <<drives, servers, info, faults, lost>>

(* cloneDisk and createDataDisk send their result once; createHostDrives     *)
(* keeps the UUID when the result holds one.                                *)
DiskResultGood(n, d, result, known) ==  \* mutant: failed drives are forgotten
  /\ disk' = [disk EXCEPT ![n][d] = result]
  /\ info' = IF result = "ok" THEN [info EXCEPT ![n].drives = @ \union {d}] ELSE info

DiskResult(n, d, result, known) ==
  /\ disk' = [disk EXCEPT ![n][d] = result]
  /\ info' = IF known THEN [info EXCEPT ![n].drives = @ \union {d}] ELSE info

CreateDisk(n, d) ==
  /\ disk[n][d] = "create"
  /\ \/ /\ drives' = [drives EXCEPT ![n][d] = "busy"]
        /\ (Works /\ disk' = [disk EXCEPT ![n][d] = "wait"] /\ UNCHANGED info)
              \/ (Loses("create") /\ DiskResult(n, d, "failed", FALSE))
     \/ Fails("create") /\ DiskResult(n, d, "failed", FALSE) /\ UNCHANGED drives
  /\ UNCHANGED <<servers, address, work>>

(* waitForDiskReady: a drive whose last poll failed comes without its UUID.  *)
AwaitDisk(n, d) ==
  /\ disk[n][d] = "wait"
  /\ \/ drives[n][d] = "unmounted" /\ Works /\ DiskResult(n, d, "ok", TRUE)
     \/ drives[n][d] = "unavailable" /\ Works /\ DiskResult(n, d, "failed", TRUE)
     \/ Slow("slowDrive") /\ DiskResult(n, d, "failed", TRUE)
     \/ Fails("poll") /\ DiskResult(n, d, "failed", FALSE)
  /\ UNCHANGED <<drives, servers, address, work>>

(* returnError: what exists is deleted before the result is sent.           *)
Undo(n) == work' = [work EXCEPT ![n] = StartDelete(n)]

CollectDisksEarly(n) ==  \* mutant: one result too few is taken
  /\ At(n, "disks")
  /\ \E d \in Disks : disk[n][d] \in {"ok", "failed"}
  /\ IF \E d \in Disks : disk[n][d] = "failed" THEN Undo(n) ELSE Goto(n, "server")
  /\ Works
  /\ UNCHANGED <<drives, servers, address, disk, info>>

CollectDisks(n) ==
  /\ At(n, "disks")
  /\ \A d \in Disks : disk[n][d] \in {"ok", "failed"}
  /\ IF \E d \in Disks : disk[n][d] = "failed" THEN Undo(n) ELSE Goto(n, "server")
  /\ Works
  /\ UNCHANGED <<drives, servers, address, disk, info>>

IpTaken(n) == \E m \in Nodes : servers[m] # "none" /\ address[m] = address[n]

(* The provider refuses an IP that another server has.                      *)
CreateServer(n) ==
  /\ At(n, "server")
  /\ \/ /\ ~IpTaken(n)
        /\ servers' = [servers EXCEPT ![n] = "stopped"]
        /\ \/ /\ Works /\ Goto(n, "start")
              /\ info' = [info EXCEPT ![n].server = TRUE]
           \/ Loses("create") /\ Undo(n) /\ UNCHANGED info
     \/ /\ (IpTaken(n) /\ Works) \/ Fails("create")
        /\ Undo(n) /\ UNCHANGED <<servers, info>>
  /\ UNCHANGED <<drives, address, disk>>

StartServer(n) ==
  /\ At(n, "start")
  /\ \/ /\ servers' = [servers EXCEPT ![n] = "starting"]
        /\ (Works /\ Goto(n, "booting")) \/ (Loses("action") /\ Undo(n))
     \/ Fails("action") /\ Undo(n) /\ UNCHANGED servers
  /\ OnlyServers

(* Any status but "starting" ends the wait, and the node is created.         *)
AwaitBoot(n) ==
  /\ At(n, "booting")
  /\ \/ servers[n] # "starting" /\ Works /\ Goto(n, "created")
     \/ (Slow("slowBoot") \/ Fails("poll")) /\ Undo(n)
  /\ UNCHANGED servers /\ OnlyServers

Creating(n) ==
  \/ \E d \in Disks : CreateDisk(n, d) \/ AwaitDisk(n, d)
  \/ CollectDisks(n) \/ CreateServer(n) \/ StartServer(n) \/ AwaitBoot(n)

-----------------------------------------------------------------------------
(* The provider finishes what it was asked for, well or badly.              *)
DriveSettles(n, d) ==
  /\ drives[n][d] = "busy"
  /\ \/ Works /\ drives' = [drives EXCEPT ![n][d] = "unmounted"]
     \/ Fails("drive") /\ drives' = [drives EXCEPT ![n][d] = "unavailable"]
  /\ UNCHANGED <<servers, address, disk, info, work>>

ServerSettles(n) ==
  /\ \/ servers[n] = "starting" /\ Works /\ servers' = [servers EXCEPT ![n] = "running"]
     \/ servers[n] = "starting" /\ Fails("boot") /\ servers' = [servers EXCEPT ![n] = "stopped"]
     \/ servers[n] = "stopping" /\ Works /\ servers' = [servers EXCEPT ![n] = "stopped"]
  /\ UNCHANGED work /\ OnlyServers

Settles(n) == ServerSettles(n) \/ \E d \in Disks : DriveSettles(n, d)

-----------------------------------------------------------------------------
(* One infrastructure of all nodes, what its goroutines do, and requests to  *)
(* delete nodes that were created.                                          *)
LaunchAll == (\A n \in Nodes : At(n, "idle")) /\ Launch(Nodes)

DeleteNode(w) ==
  /\ At(w, "idle")
  /\ \E n \in Nodes : At(n, "created") /\ work' = [work EXCEPT ![w] = StartDelete(n)]
  /\ Works
  /\ UNCHANGED servers /\ OnlyServers

CloudNext ==
  \/ LaunchAll
  \/ \E n \in Nodes : Creating(n) \/ Settles(n)
  \/ \E w \in Deletions : DeleteNode(w)
  \/ \E w \in Workers : Deleting(w)

CloudSpec == CloudInit /\ [][CloudNext]_cloudVars

(* A node whose creation failed leaves nothing at the provider, however its   *)
(* drives raced with the failure of another drive, of the creation of the     *)
(* server or of its start (deployer.go:87-96, 360-387). The wait for the boot *)
(* is not among these steps: it fails only when the server is slow to boot or  *)
(* a poll fails ("slowBoot", "poll"), and then, as after a lost answer or a   *)
(* failed poll of a drive, something does stay.                             *)
Leftovers(n) == servers[n] # "none" \/ \E d \in Disks : drives[n][d] # "none"
FailedNodeIsGone == \A n \in Nodes : work[n].pc = "deleted" => ~Leftovers(n)

(* A node reported as created has its server, with every drive of the        *)
(* blueprint ready, until a deletion works on it.                           *)
CreatedNodeIsComplete ==
  \A n \in Nodes :
    work[n].pc = "created" /\ (\A w \in Deletions : work[w].host # n) =>
      /\ servers[n] # "none"
      /\ info[n].server /\ info[n].drives = Disks
      /\ \A d \in Disks : drives[n][d] = "unmounted"
=============================================================================
