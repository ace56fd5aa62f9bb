----------------------------- MODULE NodePorts ------------------------------
(***************************************************************************)
(* The NodePort allocator of one infrastructure under any sequence of the   *)
(* calls the provisioners make on it, for a cluster the engine installed    *)
(* itself ("managed"): UsedPorts starts empty and only GetNewFreePort,       *)
(* ClaimPort and LiberatePort change it.                                    *)
(***************************************************************************)
EXTENDS PortAllocator

CONSTANT CallPorts  \* the port numbers the callers pass to ClaimPort and
                    \* LiberatePort; a blueprint may ask for any number

ASSUME CallPortsAssumption == CallPorts \subseteq Int

(* Only a cluster of somebody else has a range of its own                   *)
(* (infrastructure/kubernetes/deployer.go:151-174), the others have the     *)
(* default one.                                                             *)
ASSUME NonEmptyRange == PortStart <= PortEnd

VARIABLES usedPorts,  \* KubernetesConfiguration.UsedPorts
          reply,      \* the port of the last call that granted one, or NoPort
          granted     \* history: the ports granted and not liberated since

vars == <<usedPorts, reply, granted>>

Init ==
  /\ usedPorts = << >>
  /\ reply = NoPort
  /\ granted = {}

(* GetNewFreePort as its callers see it: any number that is not negative is *)
(* taken for a reserved port.                                               *)
TakeFreePort ==
  LET port == GetNewFreePort(usedPorts) IN
    /\ usedPorts' = AfterNewFreePort(usedPorts)
    /\ reply' = port
    /\ granted' = IF port = NoPort THEN granted ELSE granted \union {port}

Claim(port) ==
  /\ usedPorts' = ClaimPort(usedPorts, port)
  /\ IF ClaimFails(usedPorts, port)
       THEN reply' = NoPort /\ granted' = granted
       ELSE reply' = port /\ granted' = granted \union {port}

Liberate(port) ==
  /\ usedPorts' = LiberatePort(usedPorts, port)
  /\ reply' = NoPort
  /\ granted' = granted \ {port}

Next ==
  \/ TakeFreePort
  \/ \E port \in CallPorts : Claim(port) \/ Liberate(port)

Spec == Init /\ [][Next]_vars

-----------------------------------------------------------------------------
(* Every recorded port lies in the range.                                   *)
TypeOK ==
  /\ usedPorts \in Seq(PortStart..PortEnd)
  /\ reply \in Int
  /\ granted \subseteq Int

(* Binary search and the gap scan are only right on a strictly increasing   *)
(* slice: inserting at the wrong place breaks every later call              *)
(* (kubernetes_controller.go:111-137).                                      *)
PortsSorted == StrictlyIncreasing(usedPorts)

(* The slice records exactly the ports that were granted and not given      *)
(* back: no call loses a reservation or leaves one behind.                  *)
NothingLost == PortsOf(usedPorts) = granted

(* The allocator implements the pool it promises to be: a granted port is in *)
(* nobody's hands ("gets a port which hasn't been used in this kubernetes   *)
(* installation", kubernetes_controller.go:59), and -1 is only returned     *)
(* when every port of the range is taken, however full of holes the slice.  *)
Pool == INSTANCE PortPool WITH Ports <- PortStart..PortEnd,
                               Requests <- CallPorts, held <- granted
ImplementsPool == Pool!Spec
=============================================================================
