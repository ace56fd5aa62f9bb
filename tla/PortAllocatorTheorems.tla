----------------------- MODULE PortAllocatorTheorems ------------------------
(***************************************************************************)
(* What the operators of PortAllocator return on a slice that is strictly   *)
(* increasing, for every range of ports.                                    *)
(***************************************************************************)
EXTENDS PortAllocator, SequenceTheorems, NaturalsInduction,
        WellFoundedInduction, TLAPS

(* Every nonempty set of naturals has a least element.                      *)
LEMMA LeastNatural ==
  ASSUME NEW T, T \subseteq Nat, T # {}
  PROVE  \E x \in T : \A y \in T : x <= y
<1>1. \E x \in T : \A y \in T : ~ (<<y, x>> \in OpToRel(<, Nat))
  BY NatLessThanWellFounded, WFMin
<1>2. PICK x \in T : \A y \in T : ~ (<<y, x>> \in OpToRel(<, Nat))
  BY <1>1
<1>3. \A y \in T : ~ (y < x)
  BY <1>2 DEF OpToRel
<1>4. \A y \in T : x <= y
  BY <1>3
<1>5. QED
  BY <1>4

(* InsertAt shifts the tail by one position.                                *)
LEMMA InsertAtElements ==
  ASSUME NEW S, NEW s \in Seq(S), NEW i \in 1..Len(s) + 1, NEW e \in S
  PROVE  /\ InsertAt(s, i, e) \in Seq(S)
         /\ Len(InsertAt(s, i, e)) = Len(s) + 1
         /\ \A j \in 1..i - 1 : InsertAt(s, i, e)[j] = s[j]
         /\ InsertAt(s, i, e)[i] = e
         /\ \A j \in i + 1..Len(s) + 1 : InsertAt(s, i, e)[j] = s[j - 1]
<1> DEFINE before == SubSeq(s, 1, i - 1)
           after  == SubSeq(s, i, Len(s))
           front  == before \o <<e>>
<1>1. Len(s) \in Nat /\ \A j \in 1..Len(s) : s[j] \in S
  BY LenProperties, ElementOfSeq
<1>2. /\ before \in Seq(S)
      /\ Len(before) = i - 1
      /\ \A j \in 1..i - 1 : before[j] = s[j]
  <2>1. \A j \in 1..i - 1 : s[j] \in S
    BY <1>1
  <2> QED
    BY <1>1, <2>1, SubSeqProperties
<1>3. /\ after \in Seq(S)
      /\ Len(after) = Len(s) - i + 1
      /\ \A j \in 1..Len(s) - i + 1 : after[j] = s[i + j - 1]
  <2>1. \A j \in i..Len(s) : s[j] \in S
    BY <1>1
  <2> QED
    BY <1>1, <2>1, SubSeqProperties
<1>4. <<e>> \in Seq(S) /\ Len(<<e>>) = 1 /\ <<e>>[1] = e
  OBVIOUS
<1>5. /\ front \in Seq(S)
      /\ Len(front) = i
      /\ \A j \in 1..i : front[j] = IF j < i THEN s[j] ELSE e
  <2>1. /\ front \in Seq(S)
        /\ Len(front) = Len(before) + Len(<<e>>)
        /\ \A j \in 1..Len(before) + Len(<<e>>) :
             front[j] = IF j <= Len(before) THEN before[j]
                        ELSE <<e>>[j - Len(before)]
    BY <1>2, <1>4, ConcatProperties
  <2> QED
    BY <2>1, <1>1, <1>2, <1>4
<1>6. /\ front \o after \in Seq(S)
      /\ Len(front \o after) = Len(front) + Len(after)
      /\ \A j \in 1..Len(front) + Len(after) :
           (front \o after)[j] = IF j <= Len(front) THEN front[j]
                                 ELSE after[j - Len(front)]
  BY <1>3, <1>5, ConcatProperties
<1>7. InsertAt(s, i, e) = front \o after
  BY DEF InsertAt
<1> HIDE DEF front, after, before
<1>8. QED
  BY <1>1, <1>3, <1>5, <1>6, <1>7

(* RemoveAt pulls the tail back by one position.                            *)
LEMMA RemoveAtElements ==
  ASSUME NEW S, NEW s \in Seq(S), NEW i \in 1..Len(s)
  PROVE  /\ RemoveAt(s, i) \in Seq(S)
         /\ Len(RemoveAt(s, i)) = Len(s) - 1
         /\ \A j \in 1..i - 1 : RemoveAt(s, i)[j] = s[j]
         /\ \A j \in i..Len(s) - 1 : RemoveAt(s, i)[j] = s[j + 1]
<1> DEFINE before == SubSeq(s, 1, i - 1)
           after  == SubSeq(s, i + 1, Len(s))
<1>1. Len(s) \in Nat /\ \A j \in 1..Len(s) : s[j] \in S
  BY LenProperties, ElementOfSeq
<1>2. /\ before \in Seq(S)
      /\ Len(before) = i - 1
      /\ \A j \in 1..i - 1 : before[j] = s[j]
  <2>1. \A j \in 1..i - 1 : s[j] \in S
    BY <1>1
  <2> QED
    BY <1>1, <2>1, SubSeqProperties
<1>3. /\ after \in Seq(S)
      /\ Len(after) = Len(s) - i
      /\ \A j \in 1..Len(s) - i : after[j] = s[i + j]
  <2>1. \A j \in i + 1..Len(s) : s[j] \in S
    BY <1>1
  <2> QED
    BY <1>1, <2>1, SubSeqProperties
<1>4. /\ before \o after \in Seq(S)
      /\ Len(before \o after) = Len(before) + Len(after)
      /\ \A j \in 1..Len(before) + Len(after) :
           (before \o after)[j] = IF j <= Len(before) THEN before[j]
                                  ELSE after[j - Len(before)]
  BY <1>2, <1>3, ConcatProperties
<1>5. RemoveAt(s, i) = before \o after
  BY DEF RemoveAt
<1> HIDE DEF before, after
<1>6. Len(before) + Len(after) = Len(s) - 1
  BY <1>1, <1>2, <1>3
<1>7. ASSUME NEW j \in 1..Len(s) - 1
      PROVE  (before \o after)[j] = IF j < i THEN s[j] ELSE s[j + 1]
  <2>1. CASE j < i
    BY <1>1, <1>2, <1>4, <1>6, <2>1
  <2>2. CASE ~ (j < i)
    <3>1. j - Len(before) = j - i + 1 /\ j - i + 1 \in 1..Len(s) - i
      BY <1>1, <1>2, <2>2
    <3>2. after[j - i + 1] = s[j + 1]
      BY <1>1, <1>3, <3>1
    <3> QED
      BY <1>1, <1>2, <1>4, <1>6, <2>2, <3>1, <3>2
  <2> QED
    BY <2>1, <2>2
<1>8. /\ \A j \in 1..i - 1 : (before \o after)[j] = s[j]
      /\ \A j \in i..Len(s) - 1 : (before \o after)[j] = s[j + 1]
  <2>1. ASSUME NEW j \in 1..i - 1 PROVE (before \o after)[j] = s[j]
    <3>1. j \in 1..Len(s) - 1 /\ j < i
      BY <1>1
    <3> QED
      BY <1>7, <3>1
  <2>2. ASSUME NEW j \in i..Len(s) - 1 PROVE (before \o after)[j] = s[j + 1]
    <3>1. j \in 1..Len(s) - 1 /\ ~ (j < i)
      BY <1>1
    <3> QED
      BY <1>7, <3>1
  <2> QED
    BY <2>1, <2>2
<1>9. QED
  BY <1>4, <1>5, <1>6, <1>8

IntFunction(f, n) == \A j \in 1..n : f[j] \in Int
Increasing(f, n) == \A j, k \in 1..n : j < k => f[j] < f[k]
Values(f, n) == {f[j] : j \in 1..n}

(* p lies between the values before position i and those from there on.     *)
Fits(f, n, i, p) ==
  /\ \A j \in 1..i - 1 : f[j] < p
  /\ \A j \in i..n : p < f[j]

(* g is f with p put at position i.                                         *)
PutAt(f, g, n, i, p) ==
  /\ \A j \in 1..i - 1 : g[j] = f[j]
  /\ g[i] = p
  /\ \A j \in i + 1..n + 1 : g[j] = f[j - 1]

(* g is f without its position i.                                           *)
TakenOut(f, g, n, i) ==
  /\ \A j \in 1..i - 1 : g[j] = f[j]
  /\ \A j \in i..n - 1 : g[j] = f[j + 1]

(* Putting p where it fits keeps an increasing function increasing and adds  *)
(* p to its values.                                                         *)
LEMMA ShiftUp ==
  ASSUME NEW n \in Nat, NEW f, IntFunction(f, n), Increasing(f, n),
         NEW i \in 1..n + 1, NEW p \in Int,
         Fits(f, n, i, p), NEW g, PutAt(f, g, n, i, p)
  PROVE  Increasing(g, n + 1) /\ Values(g, n + 1) = Values(f, n) \union {p}
<1> USE DEF IntFunction, Increasing, Values, Fits, PutAt
<1>1. ASSUME NEW j \in 1..n + 1, NEW k \in 1..n + 1, j < k
      PROVE  g[j] < g[k]
  <2>1. CASE k < i
    BY <1>1, <2>1
  <2>2. CASE k = i
    BY <1>1, <2>2
  <2>3. CASE k > i /\ j < i
    BY <2>3
  <2>4. CASE k > i /\ j = i
    BY <2>4
  <2>5. CASE k > i /\ j > i
    BY <1>1, <2>5
  <2> QED
    BY <2>1, <2>2, <2>3, <2>4, <2>5
<1>2. ASSUME NEW j \in 1..n + 1
      PROVE  g[j] \in Values(f, n) \union {p}
  <2>1. j < i => j \in 1..n /\ g[j] = f[j]
    OBVIOUS
  <2>2. j > i => j - 1 \in 1..n /\ g[j] = f[j - 1]
    OBVIOUS
  <2> QED
    BY <2>1, <2>2
<1>3. ASSUME NEW j \in 1..n
      PROVE  f[j] \in Values(g, n + 1)
  <2>1. CASE j < i
    BY <2>1
  <2>2. CASE ~ (j < i)
    <3>1. j + 1 \in i + 1..n + 1 /\ j + 1 \in 1..n + 1
      BY <2>2
    <3>2. g[j + 1] = f[j + 1 - 1] /\ j + 1 - 1 = j
      BY <3>1
    <3> QED
      BY <3>1, <3>2
  <2> QED
    BY <2>1, <2>2
<1>4. p \in Values(g, n + 1)
  OBVIOUS
<1>5. Increasing(g, n + 1)
  BY <1>1
<1>6. Values(g, n + 1) = Values(f, n) \union {p}
  BY <1>2, <1>3, <1>4
<1>7. QED
  BY <1>5, <1>6

(* Taking position i out of an increasing function keeps it increasing and   *)
(* removes exactly that value.                                              *)
LEMMA ShiftDown ==
  ASSUME NEW n \in Nat, NEW f, IntFunction(f, n), Increasing(f, n),
         NEW i \in 1..n, NEW g, TakenOut(f, g, n, i)
  PROVE  Increasing(g, n - 1) /\ Values(g, n - 1) = Values(f, n) \ {f[i]}
<1> USE DEF IntFunction, Increasing, Values, TakenOut
<1>1. ASSUME NEW j \in 1..n - 1, NEW k \in 1..n - 1, j < k
      PROVE  g[j] < g[k]
  <2>1. CASE k < i
    BY <1>1, <2>1
  <2>2. CASE ~ (k < i) /\ j < i
    BY <1>1, <2>2
  <2>3. CASE ~ (k < i) /\ ~ (j < i)
    BY <1>1, <2>3
  <2> QED
    BY <2>1, <2>2, <2>3
<1>2. ASSUME NEW j \in 1..n - 1
      PROVE  g[j] \in Values(f, n) \ {f[i]}
  <2>1. CASE j < i
    BY <2>1
  <2>2. CASE ~ (j < i)
    <3>1. j + 1 \in 1..n /\ g[j] = f[j + 1] /\ f[i] < f[j + 1]
      BY <2>2
    <3> QED
      BY <3>1
  <2> QED
    BY <2>1, <2>2
<1>3. ASSUME NEW j \in 1..n, f[j] # f[i]
      PROVE  f[j] \in Values(g, n - 1)
  <2>1. CASE j < i
    BY <2>1
  <2>2. CASE j > i
    <3>1. j - 1 \in i..n - 1 /\ j - 1 \in 1..n - 1
      BY <2>2
    <3>2. g[j - 1] = f[j - 1 + 1] /\ j - 1 + 1 = j
      BY <3>1
    <3> QED
      BY <3>1, <3>2
  <2> QED
    BY <1>3, <2>1, <2>2
<1>4. Increasing(g, n - 1)
  BY <1>1
<1>5. Values(g, n - 1) = Values(f, n) \ {f[i]}
  BY <1>2, <1>3
<1>6. QED
  BY <1>4, <1>5

-----------------------------------------------------------------------------
LEMMA RangeIsNatural == PortStart \in Nat /\ PortEnd \in Nat
  BY RangeAssumption DEF PortStart, PortEnd

(* Search returns a position that splits the slice.                         *)
LEMMA SearchSplits ==
  ASSUME NEW used \in Seq(Int), NEW port \in Int
  PROVE  /\ Search(used, port) \in 1..Len(used) + 1
         /\ \A j \in 1..Search(used, port) - 1 : used[j] < port
         /\ Search(used, port) <= Len(used) => used[Search(used, port)] >= port
<1> DEFINE Splits(i) == /\ \A j \in 1..i - 1 : used[j] < port
                        /\ i <= Len(used) => used[i] >= port
           above == {i \in 1..Len(used) : used[i] >= port}
<1>1. Len(used) \in Nat /\ \A j \in 1..Len(used) : used[j] \in Int
  BY LenProperties, ElementOfSeq
<1>2. \E i \in 1..Len(used) + 1 : Splits(i)
  <2>1. CASE above = {}
    <3>1. \A j \in 1..Len(used) : used[j] < port
      BY <1>1, <2>1
    <3>2. Splits(Len(used) + 1)
      BY <1>1, <3>1
    <3> QED
      BY <1>1, <3>2
  <2>2. CASE above # {}
    <3>0. above \subseteq Nat
      BY <1>1
    <3>1. PICK i \in above : \A j \in above : i <= j
      <4> HIDE DEF above
      <4> QED BY <3>0, <2>2, LeastNatural
    <3>2. \A j \in 1..i - 1 : used[j] < port
      BY <1>1, <3>1
    <3> QED
      BY <1>1, <3>1, <3>2
  <2> QED
    BY <2>1, <2>2
<1>3. Search(used, port) = CHOOSE i \in 1..Len(used) + 1 : Splits(i)
  BY DEF Search
<1> HIDE DEF Splits
<1>4. Search(used, port) \in 1..Len(used) + 1 /\ Splits(Search(used, port))
  BY <1>2, <1>3
<1> QED
  BY <1>4 DEF Splits

(* A port is found exactly when the slice records it.                       *)
LEMMA FoundIffRecorded ==
  ASSUME NEW used \in Seq(Int), StrictlyIncreasing(used), NEW port \in Int
  PROVE  Found(used, port) <=> port \in PortsOf(used)
<1> DEFINE i == Search(used, port)
<1>1. Len(used) \in Nat /\ \A j \in 1..Len(used) : used[j] \in Int
  BY LenProperties, ElementOfSeq
<1>2. /\ i \in 1..Len(used) + 1
      /\ \A j \in 1..i - 1 : used[j] < port
      /\ i <= Len(used) => used[i] >= port
  BY SearchSplits
<1> HIDE DEF i
<1>3. ASSUME NEW j \in 1..Len(used), used[j] = port
      PROVE  i <= Len(used) /\ used[i] = port
  <2>1. i <= j
    BY <1>1, <1>2, <1>3
  <2>2. i < j => used[i] < used[j]
    BY <1>1, <1>2, <2>1 DEF StrictlyIncreasing
  <2> QED
    BY <1>1, <1>2, <1>3, <2>1, <2>2
<1>4. i <= Len(used) /\ used[i] = port => port \in PortsOf(used)
  BY <1>1, <1>2 DEF PortsOf
<1>5. QED
  BY <1>3, <1>4 DEF Found, i, PortsOf

(* A successful claim adds one port and keeps the slice in order.           *)
LEMMA ClaimPortProperties ==
  ASSUME NEW used \in Seq(PortStart..PortEnd), StrictlyIncreasing(used),
         NEW port \in Int
  PROVE  /\ ClaimFails(used, port) <=> port \notin (PortStart..PortEnd) \ PortsOf(used)
         /\ ClaimPort(used, port) \in Seq(PortStart..PortEnd)
         /\ StrictlyIncreasing(ClaimPort(used, port))
         /\ PortsOf(ClaimPort(used, port)) =
              IF ClaimFails(used, port) THEN PortsOf(used)
                                        ELSE PortsOf(used) \union {port}
<1> DEFINE i == Search(used, port)
           new == InsertAt(used, i, port)
<1>0. PortStart \in Int /\ PortEnd \in Int
  BY RangeIsNatural
<1>1. used \in Seq(Int)
  BY <1>0, SeqMonotonic
<1>2. Len(used) \in Nat /\ \A j \in 1..Len(used) : used[j] \in PortStart..PortEnd
  BY LenProperties, ElementOfSeq
<1>3. ClaimFails(used, port) <=> port \notin (PortStart..PortEnd) \ PortsOf(used)
  BY <1>1, FoundIffRecorded DEF ClaimFails, PortInRange
<1>4. CASE ClaimFails(used, port)
  BY <1>3, <1>4 DEF ClaimPort
<1>5. CASE ~ ClaimFails(used, port)
  <2>1. port \in PortStart..PortEnd /\ port \notin PortsOf(used)
    BY <1>3, <1>5
  <2>2. /\ i \in 1..Len(used) + 1
        /\ \A j \in 1..i - 1 : used[j] < port
        /\ i <= Len(used) => used[i] >= port
    BY <1>1, SearchSplits
  <2>3. /\ new \in Seq(PortStart..PortEnd)
        /\ Len(new) = Len(used) + 1
        /\ \A j \in 1..i - 1 : new[j] = used[j]
        /\ new[i] = port
        /\ \A j \in i + 1..Len(used) + 1 : new[j] = used[j - 1]
    <3> HIDE DEF i
    <3> QED BY <1>0, <1>2, <2>1, <2>2, InsertAtElements
  <2>4. ClaimPort(used, port) = new
    BY <1>5 DEF ClaimPort
  <2> HIDE DEF i, new
  <2>5. \A j \in i..Len(used) : port < used[j]
    <3>1. i <= Len(used) => port < used[i]
      BY <1>0, <1>2, <2>1, <2>2 DEF PortsOf
    <3>2. \A j \in i + 1..Len(used) : used[i] < used[j]
      BY <1>2, <2>2 DEF StrictlyIncreasing
    <3> QED
      BY <1>2, <2>1, <2>2, <3>1, <3>2
  <2>6. /\ IntFunction(used, Len(used)) /\ Increasing(used, Len(used))
        /\ Fits(used, Len(used), i, port) /\ PutAt(used, new, Len(used), i, port)
    BY <1>0, <1>2, <2>2, <2>3, <2>5 DEF IntFunction, Increasing, Fits, PutAt, StrictlyIncreasing
  <2>7. /\ Increasing(new, Len(used) + 1)
        /\ Values(new, Len(used) + 1) = Values(used, Len(used)) \union {port}
    BY <1>2, <2>2, <2>6, ShiftUp
  <2>8. StrictlyIncreasing(new) /\ PortsOf(new) = PortsOf(used) \union {port}
    BY <2>3, <2>7 DEF StrictlyIncreasing, PortsOf, Increasing, Values
  <2> QED
    BY <1>3, <1>5, <2>3, <2>4, <2>8
<1>6. QED
  BY <1>4, <1>5

(* Liberating a port removes it and nothing else.                           *)
LEMMA LiberatePortProperties ==
  ASSUME NEW used \in Seq(PortStart..PortEnd), StrictlyIncreasing(used),
         NEW port \in Int
  PROVE  /\ LiberatePort(used, port) \in Seq(PortStart..PortEnd)
         /\ StrictlyIncreasing(LiberatePort(used, port))
         /\ PortsOf(LiberatePort(used, port)) = PortsOf(used) \ {port}
<1> DEFINE i == Search(used, port)
           new == RemoveAt(used, i)
<1>0. PortStart \in Int /\ PortEnd \in Int
  BY RangeIsNatural
<1>1. used \in Seq(Int)
  BY <1>0, SeqMonotonic
<1>2. Len(used) \in Nat /\ \A j \in 1..Len(used) : used[j] \in PortStart..PortEnd
  BY LenProperties, ElementOfSeq
<1>3. Found(used, port) <=> port \in PortsOf(used)
  BY <1>1, FoundIffRecorded
<1>4. CASE ~ Found(used, port)
  BY <1>3, <1>4 DEF LiberatePort
<1>5. CASE Found(used, port)
  <2>1. i \in 1..Len(used) /\ used[i] = port
    <3>1. i \in 1..Len(used) + 1
      BY <1>1, SearchSplits
    <3> QED
      BY <1>2, <1>5, <3>1 DEF Found
  <2> HIDE DEF i
  <2>2. /\ new \in Seq(PortStart..PortEnd)
        /\ Len(new) = Len(used) - 1
        /\ \A j \in 1..i - 1 : new[j] = used[j]
        /\ \A j \in i..Len(used) - 1 : new[j] = used[j + 1]
    BY <2>1, RemoveAtElements
  <2>3. LiberatePort(used, port) = new
    BY <1>5 DEF LiberatePort, i
  <2> HIDE DEF new
  <2>4. /\ IntFunction(used, Len(used)) /\ Increasing(used, Len(used))
        /\ TakenOut(used, new, Len(used), i)
    BY <1>0, <1>2, <2>2 DEF IntFunction, Increasing, TakenOut, StrictlyIncreasing
  <2>5. /\ Increasing(new, Len(used) - 1)
        /\ Values(new, Len(used) - 1) = Values(used, Len(used)) \ {used[i]}
    BY <1>2, <2>1, <2>4, ShiftDown
  <2>6. StrictlyIncreasing(new) /\ PortsOf(new) = PortsOf(used) \ {port}
    BY <2>1, <2>2, <2>5 DEF StrictlyIncreasing, PortsOf, Increasing, Values
  <2> QED
    BY <2>2, <2>3, <2>6
<1>6. QED
  BY <1>4, <1>5

(* The slice of an existing cluster is the sorted listing of the NodePorts   *)
(* of its Services (SetUsedPorts): a number may be there twice, and it may lie *)
(* outside the range reserved for the infrastructure. What GetNewFreePort     *)
(* returns is never one of them. It lies in the range when a listed port      *)
(* reaches the range, and -1 means a full range when none lies below it.      *)
THEOREM NewFreePortOfListing ==
  ASSUME NEW used \in Seq(Nat), NonDecreasing(used), PortStart <= PortEnd
  PROVE  /\ GetNewFreePort(used) \notin PortsOf(used)
         /\ used # << >> /\ used[Len(used)] >= PortStart - 1 =>
              GetNewFreePort(used) \in (PortStart..PortEnd) \union {NoPort}
         /\ (\A i \in 1..Len(used) : used[i] >= PortStart) =>
              \/ GetNewFreePort(used) \in PortStart..PortEnd
              \/ /\ GetNewFreePort(used) = NoPort
                 /\ PortStart..PortEnd \subseteq PortsOf(used)
<1> DEFINE n == Len(used)
           get == GetNewFreePort(used)
           above == \A j \in 1..n : used[j] >= PortStart
<1>1. n \in Nat /\ \A j \in 1..n : used[j] \in Nat
  BY LenProperties, ElementOfSeq
<1>2. \A j, k \in 1..n : j < k => used[j] <= used[k]
  BY DEF NonDecreasing
<1>3. PortsOf(used) = {used[j] : j \in 1..n}
  BY DEF PortsOf
<1>4. used = << >> <=> n = 0
  BY EmptySeq
<1>5. SUFFICES /\ \A j \in 1..n : used[j] # get
               /\ n # 0 /\ used[n] >= PortStart - 1 =>
                    get \in (PortStart..PortEnd) \union {NoPort}
               /\ above => \/ get \in PortStart..PortEnd
                           \/ get = NoPort /\ PortStart..PortEnd \subseteq PortsOf(used)
  BY <1>3, <1>4
<1> HIDE DEF n
<1> USE RangeIsNatural
<1>6. CASE used = << >> \/ used[1] > PortStart
  <2>1. get = PortStart
    BY <1>6 DEF GetNewFreePort
  <2>2. \A j \in 1..n : used[j] # PortStart
    BY <1>1, <1>2, <1>4, <1>6
  <2> QED
    BY <2>1, <2>2
<1>7. CASE ~ (used = << >> \/ used[1] > PortStart)
  <2>1. n >= 1 /\ used[1] <= PortStart
    BY <1>1, <1>4, <1>7
  <2>2. CASE used = <<PortStart>> /\ PortInRange(PortStart + 1)
    <3>1. get = PortStart + 1
      BY <1>7, <2>2 DEF GetNewFreePort
    <3>2. \A j \in 1..n : used[j] = PortStart
      BY <2>2 DEF n
    <3> QED
      BY <2>2, <3>1, <3>2 DEF PortInRange
  <2>3. CASE ~ (used = <<PortStart>> /\ PortInRange(PortStart + 1)) /\ Gaps(used) # {}
    <3>1. get = used[FirstGap(used)] + 1
      BY <1>7, <2>3 DEF GetNewFreePort
    <3>2. Gaps(used) \subseteq 1..n - 1
      BY DEF Gaps, n
    <3>3. FirstGap(used) \in Gaps(used)
      <4>1. \E i \in Gaps(used) : \A j \in Gaps(used) : i <= j
        BY <1>1, <2>3, <3>2, LeastNatural
      <4> QED
        BY <4>1 DEF FirstGap
    <3>4. PICK i \in 1..n - 1 : /\ i = FirstGap(used)
                                /\ used[i + 1] - used[i] > 1
                                /\ PortInRange(used[i] + 1)
      BY <3>2, <3>3 DEF Gaps
    <3>5. \A j \in 1..n : used[j] # used[i] + 1
      <4> SUFFICES ASSUME NEW j \in 1..n PROVE used[j] # used[i] + 1
        OBVIOUS
      <4>1. i \in 1..n /\ i + 1 \in 1..n
        BY <1>1
      <4>2. CASE j < i
        BY <1>1, <1>2, <4>1, <4>2
      <4>3. CASE j = i
        BY <1>1, <4>1, <4>3
      <4>4. CASE j = i + 1
        BY <1>1, <3>4, <4>1, <4>4
      <4>5. CASE j > i + 1
        BY <1>1, <1>2, <3>4, <4>1, <4>5
      <4> QED
        BY <1>1, <4>2, <4>3, <4>4, <4>5
    <3> QED
      BY <3>1, <3>4, <3>5 DEF PortInRange
  <2>4. CASE /\ ~ (used = <<PortStart>> /\ PortInRange(PortStart + 1))
             /\ Gaps(used) = {}
             /\ used[n] < PortEnd
    <3>1. get = used[n] + 1
      BY <1>7, <2>4 DEF GetNewFreePort, n
    <3>2. \A j \in 1..n : used[j] <= used[n]
      BY <1>1, <1>2, <2>1
    <3>3. used[n] \in Nat
      BY <1>1, <2>1
    <3>4. used[n] >= PortStart - 1 => used[n] + 1 \in PortStart..PortEnd
      BY <2>4, <3>3
    <3>5. \A j \in 1..n : used[j] # used[n] + 1
      BY <1>1, <3>2, <3>3
    <3>6. above => used[n] >= PortStart - 1
      BY <1>1, <2>1, <3>3
    <3> QED
      BY <3>1, <3>4, <3>5, <3>6
  <2>5. CASE /\ ~ (used = <<PortStart>> /\ PortInRange(PortStart + 1))
             /\ Gaps(used) = {}
             /\ ~ (used[n] < PortEnd)
    <3>1. get = NoPort
      BY <1>7, <2>5 DEF GetNewFreePort, n
    <3>2. used[n] >= PortEnd
      BY <1>1, <2>1, <2>5
    <3>3. ASSUME NEW p \in PortStart..PortEnd, p \notin PortsOf(used), above
          PROVE  FALSE
      <4> DEFINE reach == {j \in 1..n : used[j] >= p}
      <4>1. n \in reach
        BY <1>1, <2>1, <3>2
      <4>2. reach \subseteq Nat
        BY <1>1
      <4>3. PICK m \in reach : \A j \in reach : m <= j
        <5> HIDE DEF reach
        <5> QED BY <4>1, <4>2, LeastNatural
      <4>4. m \in 1..n /\ used[m] > p
        BY <1>1, <1>3, <3>3
      <4>5. m # 1
        BY <1>1, <2>1, <4>4
      <4>6. m - 1 \in 1..n - 1 /\ m - 1 \in 1..n /\ m - 1 + 1 = m
        BY <1>1, <4>4, <4>5
      <4>7. used[m - 1] < p
        BY <1>1, <4>3, <4>6
      <4>8. used[m - 1] \in Nat /\ used[m - 1] >= PortStart /\ used[m] \in Nat
        BY <1>1, <3>3, <4>4, <4>6
      <4>9. used[m] - used[m - 1] > 1 /\ PortInRange(used[m - 1] + 1)
        BY <4>4, <4>7, <4>8 DEF PortInRange
      <4>10. m - 1 \in Gaps(used)
        BY <4>6, <4>9 DEF Gaps, n
      <4> QED
        BY <2>5, <4>10
    <3>4. \A j \in 1..n : used[j] # NoPort
      BY <1>1 DEF NoPort
    <3> QED
      BY <3>1, <3>3, <3>4
  <2> QED
    BY <2>2, <2>3, <2>4, <2>5
<1>8. QED
  BY <1>6, <1>7

(* In the slice of a cluster of the engine, GetNewFreePort finds a free port  *)
(* of the range whenever there is one.                                       *)
LEMMA GetNewFreePortProperties ==
  ASSUME NEW used \in Seq(PortStart..PortEnd), StrictlyIncreasing(used),
         PortStart <= PortEnd
  PROVE  \/ GetNewFreePort(used) \in (PortStart..PortEnd) \ PortsOf(used)
         \/ /\ GetNewFreePort(used) = NoPort
            /\ PortStart..PortEnd \subseteq PortsOf(used)
<1>1. used \in Seq(Nat)
  BY RangeIsNatural
<1>2. Len(used) \in Nat /\ \A i \in 1..Len(used) : used[i] \in PortStart..PortEnd
  BY LenProperties, ElementOfSeq
<1>3. NonDecreasing(used)
  BY <1>2, RangeIsNatural DEF StrictlyIncreasing, NonDecreasing
<1>4. \A i \in 1..Len(used) : used[i] >= PortStart
  BY <1>2, RangeIsNatural
<1>5. QED
  BY <1>1, <1>3, <1>4, NewFreePortOfListing
=============================================================================
