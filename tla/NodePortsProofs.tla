-------------------------- MODULE NodePortsProofs --------------------------
(***************************************************************************)
(* The allocator of a managed cluster never hands a port out twice and only *)
(* refuses when the range is full, for every range and every set of ports   *)
(* its callers ask for.                                                     *)
(***************************************************************************)
EXTENDS NodePorts, PortAllocatorTheorems

(* What every step needs and keeps: the slice is a strictly increasing list *)
(* of exactly the granted ports.                                            *)
SliceInv == TypeOK /\ PortsSorted /\ NothingLost

(* GetNewFreePort claims the port it returns.                               *)
LEMMA AfterNewFreePortProperties ==
  ASSUME NEW used \in Seq(PortStart..PortEnd), StrictlyIncreasing(used)
  PROVE  /\ AfterNewFreePort(used) \in Seq(PortStart..PortEnd)
         /\ StrictlyIncreasing(AfterNewFreePort(used))
         /\ PortsOf(AfterNewFreePort(used)) =
              IF GetNewFreePort(used) = NoPort
                THEN PortsOf(used)
                ELSE PortsOf(used) \union {GetNewFreePort(used)}
<1> DEFINE port == GetNewFreePort(used)
<1>1. /\ PortStart \in Nat /\ PortEnd \in Nat /\ PortStart <= PortEnd
      /\ NoPort \in Int /\ NoPort \notin PortStart..PortEnd
  BY RangeIsNatural, NonEmptyRange DEF NoPort
<1>2. \/ port \in (PortStart..PortEnd) \ PortsOf(used)
      \/ port = NoPort /\ PortStart..PortEnd \subseteq PortsOf(used)
  BY <1>1, GetNewFreePortProperties
<1> HIDE DEF port
<1>3. port \in Int
  BY <1>1, <1>2
<1>4. /\ ClaimFails(used, port) <=> port \notin (PortStart..PortEnd) \ PortsOf(used)
      /\ ClaimPort(used, port) \in Seq(PortStart..PortEnd)
      /\ StrictlyIncreasing(ClaimPort(used, port))
      /\ PortsOf(ClaimPort(used, port)) =
           IF ClaimFails(used, port) THEN PortsOf(used)
                                     ELSE PortsOf(used) \union {port}
  BY <1>3, ClaimPortProperties
<1>5. AfterNewFreePort(used) = ClaimPort(used, port)
  BY DEF AfterNewFreePort, port
<1>6. QED
  BY <1>1, <1>2, <1>4, <1>5 DEF port

LEMMA InitSlice == Init => SliceInv
<1> SUFFICES ASSUME Init PROVE SliceInv
  OBVIOUS
<1>1. usedPorts \in Seq(PortStart..PortEnd) /\ Len(usedPorts) = 0
  BY EmptySeq DEF Init
<1>2. PortsOf(usedPorts) = {}
  BY <1>1 DEF PortsOf
<1>3. QED
  BY <1>1, <1>2 DEF Init, SliceInv, TypeOK, PortsSorted, NothingLost,
                    StrictlyIncreasing, NoPort

LEMMA NextSlice == SliceInv /\ [Next]_vars => SliceInv'
<1> SUFFICES ASSUME SliceInv, [Next]_vars PROVE SliceInv'
  OBVIOUS
<1> USE DEF SliceInv, TypeOK, PortsSorted, NothingLost
<1>2. CASE TakeFreePort
  <2>1. GetNewFreePort(usedPorts) \in Int
    BY RangeIsNatural, NonEmptyRange, GetNewFreePortProperties DEF NoPort
  <2>2. QED
    BY <1>2, <2>1, AfterNewFreePortProperties DEF TakeFreePort
<1>3. ASSUME NEW port \in CallPorts, Claim(port) PROVE SliceInv'
  <2>1. port \in Int
    BY CallPortsAssumption
  <2>2. /\ ClaimPort(usedPorts, port) \in Seq(PortStart..PortEnd)
        /\ StrictlyIncreasing(ClaimPort(usedPorts, port))
        /\ PortsOf(ClaimPort(usedPorts, port)) =
             IF ClaimFails(usedPorts, port) THEN PortsOf(usedPorts)
                                            ELSE PortsOf(usedPorts) \union {port}
    BY <2>1, ClaimPortProperties
  <2>3. CASE ClaimFails(usedPorts, port)
    <3>1. reply' = NoPort /\ granted' = granted
      BY <1>3, <2>3 DEF Claim
    <3>2. usedPorts' = ClaimPort(usedPorts, port)
      BY <1>3 DEF Claim
    <3>3. PortsOf(ClaimPort(usedPorts, port)) = PortsOf(usedPorts)
      BY <2>2, <2>3
    <3>4. QED
      BY <2>2, <3>1, <3>2, <3>3 DEF NoPort
  <2>4. CASE ~ ClaimFails(usedPorts, port)
    BY <1>3, <2>1, <2>2, <2>4 DEF Claim
  <2>5. QED
    BY <2>3, <2>4
<1>4. ASSUME NEW port \in CallPorts, Liberate(port) PROVE SliceInv'
  <2>1. port \in Int
    BY CallPortsAssumption
  <2>2. /\ LiberatePort(usedPorts, port) \in Seq(PortStart..PortEnd)
        /\ StrictlyIncreasing(LiberatePort(usedPorts, port))
        /\ PortsOf(LiberatePort(usedPorts, port)) = PortsOf(usedPorts) \ {port}
    BY <2>1, LiberatePortProperties
  <2>3. QED
    BY <1>4, <2>1, <2>2 DEF Liberate, NoPort
<1>5. CASE UNCHANGED vars
  BY <1>5 DEF vars
<1>6. QED
  BY <1>2, <1>3, <1>4, <1>5 DEF Next

(* The slice stays within the range, in order and complete.                 *)
THEOREM SliceCorrect == Spec => [](TypeOK /\ PortsSorted /\ NothingLost)
<1>1. SliceInv => TypeOK /\ PortsSorted /\ NothingLost
  BY DEF SliceInv
<1>2. QED
  BY <1>1, InitSlice, NextSlice, PTL DEF Spec

(* Each of the three on its own: ports lie in the range, ...                 *)
THEOREM TypeCorrect == Spec => []TypeOK
  BY SliceCorrect, PTL

(* ... in the order that binary search and the gap scan need                 *)
(* (kubernetes_controller.go:60-90, 111-137).                                *)
THEOREM SliceIsSorted == Spec => []PortsSorted
  BY SliceCorrect, PTL

(* The allocator implements the pool: no port is granted while somebody     *)
(* holds it, and -1 is only returned when every port is held.               *)
THEOREM AllocatorImplementsPool == Spec => ImplementsPool
<1>1. Init => Pool!Init
  BY DEF Init, Pool!Init
<1>2. SliceInv /\ [Next]_vars => [Pool!Next]_(Pool!vars)
  <2> SUFFICES ASSUME SliceInv, [Next]_vars PROVE [Pool!Next]_(Pool!vars)
    OBVIOUS
  <2> USE DEF SliceInv, TypeOK, PortsSorted, NothingLost
  <2>1. /\ PortStart \in Nat /\ PortEnd \in Nat /\ PortStart <= PortEnd
        /\ NoPort \notin PortStart..PortEnd
    BY RangeIsNatural, NonEmptyRange DEF NoPort
  <2>2. CASE TakeFreePort
    <3>1. \/ GetNewFreePort(usedPorts) \in (PortStart..PortEnd) \ granted
          \/ /\ GetNewFreePort(usedPorts) = NoPort
             /\ PortStart..PortEnd \subseteq granted
      BY <2>1, GetNewFreePortProperties
    <3>2. QED
      BY <2>1, <2>2, <3>1 DEF TakeFreePort, Pool!Next, Pool!Acquire
  <2>3. ASSUME NEW port \in CallPorts, Claim(port) PROVE Pool!Claim(port)
    <3>1. port \in Int
      BY CallPortsAssumption
    <3>2. ClaimFails(usedPorts, port) <=> port \notin (PortStart..PortEnd) \ granted
      BY <3>1, ClaimPortProperties
    <3>3. QED
      BY <2>3, <3>2 DEF Claim, Pool!Claim
  <2>4. ASSUME NEW port \in CallPorts, Liberate(port) PROVE Pool!Release(port)
    BY <2>4 DEF Liberate, Pool!Release
  <2>5. CASE UNCHANGED vars
    BY <2>5 DEF vars, Pool!vars
  <2>6. QED
    BY <2>2, <2>3, <2>4, <2>5 DEF Next, Pool!Next
<1>3. QED
  BY <1>1, <1>2, InitSlice, NextSlice, PTL DEF Spec, ImplementsPool, Pool!Spec
=============================================================================
