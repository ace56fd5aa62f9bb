--------------------------- MODULE PortAllocator ---------------------------
(***************************************************************************)
(* The NodePort bookkeeping of a KubernetesConfiguration, as operators on   *)
(* the sorted slice UsedPorts it keeps                                      *)
(* (provision/kubernetes/kubernetes_controller.go).                         *)
(***************************************************************************)
EXTENDS Integers, SequencesExt

CONSTANTS
  RangeStart,     \* PortRange.PortStart as configured, 0 when it is not
  RangeEnd,       \* PortRange.PortEnd as configured, 0 when it is not
  NodePortStart,  \* first NodePort of a cluster (30000)
  NodePortEnd     \* last NodePort of a cluster (32767)

ASSUME RangeAssumption ==
  /\ {RangeStart, RangeEnd} \subseteq Nat
  /\ {NodePortStart, NodePortEnd} \subseteq Nat \ {0}

(***************************************************************************)
(* initPortRange replaces a bound that is 0 by the limit of the cluster.    *)
(***************************************************************************)
PortStart == IF RangeStart = 0 THEN NodePortStart ELSE RangeStart
PortEnd   == IF RangeEnd = 0 THEN NodePortEnd ELSE RangeEnd

PortInRange(port) == port \in PortStart..PortEnd

(* The ports a slice records.                                               *)
PortsOf(used) == {used[i] : i \in 1..Len(used)}

StrictlyIncreasing(used) ==
  \A i, j \in 1..Len(used) : i < j => used[i] < used[j]

(* What sort.IntSlice.Sort leaves of a listing.                              *)
NonDecreasing(used) ==
  \A i, j \in 1..Len(used) : i < j => used[i] <= used[j]

(* sort.IntSlice.Search: the first position whose element is not below port, *)
(* the position after the last one when there is none.                      *)
Search(used, port) ==
  CHOOSE i \in 1..Len(used) + 1 :
    /\ \A j \in 1..i - 1 : used[j] < port
    /\ i <= Len(used) => used[i] >= port

Found(used, port) ==
  LET i == Search(used, port) IN i <= Len(used) /\ used[i] = port

ClaimFailsUnranged(used, port) == Found(used, port)  \* mutant: no range check

(* The error result of ClaimPort.                                           *)
ClaimFails(used, port) == ~PortInRange(port) \/ Found(used, port)

ClaimPortAppend(used, port) ==  \* mutant: inserted at the end
  IF ClaimFails(used, port) THEN used ELSE Append(used, port)

(* UsedPorts after ClaimPort: a failing claim leaves it alone.              *)
ClaimPort(used, port) ==
  IF ClaimFails(used, port) THEN used
                            ELSE InsertAt(used, Search(used, port), port)

LiberatePortUnchecked(used, port) ==  \* mutant: removes what the search hits
  IF Search(used, port) <= Len(used) THEN RemoveAt(used, Search(used, port)) ELSE used

(* UsedPorts after LiberatePort.                                            *)
LiberatePort(used, port) ==
  IF Found(used, port) THEN RemoveAt(used, Search(used, port)) ELSE used

(* What GetNewFreePort returns when it finds no port.                       *)
NoPort == -1

(* The positions that are followed by a hole whose first port is in range.  *)
Gaps(used) ==
  {i \in 1..Len(used) - 1 :
     used[i + 1] - used[i] > 1 /\ PortInRange(used[i] + 1)}

FirstGap(used) ==
  CHOOSE i \in Gaps(used) : \A j \in Gaps(used) : i <= j

GetNewFreePortBeyond(used) ==  \* mutant: off by one at the end of the range
  IF used = << >> \/ used[1] > PortStart THEN PortStart
  ELSE IF used = <<PortStart>> /\ PortInRange(PortStart + 1) THEN PortStart + 1
  ELSE IF Gaps(used) # {} THEN used[FirstGap(used)] + 1
  ELSE IF used[Len(used)] <= PortEnd THEN used[Len(used)] + 1
  ELSE NoPort

(***************************************************************************)
(* The port GetNewFreePort returns.                                         *)
(***************************************************************************)
GetNewFreePort(used) ==
  IF used = << >> \/ used[1] > PortStart THEN PortStart
  ELSE IF used = <<PortStart>> /\ PortInRange(PortStart + 1) THEN PortStart + 1
  ELSE IF Gaps(used) # {} THEN used[FirstGap(used)] + 1
  ELSE IF used[Len(used)] < PortEnd THEN used[Len(used)] + 1
  ELSE NoPort

(* UsedPorts after GetNewFreePort: its deferred call claims the result and  *)
(* drops the error of the claim.                                            *)
AfterNewFreePort(used) == ClaimPort(used, GetNewFreePort(used))
=============================================================================
