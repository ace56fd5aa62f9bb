------------------------- MODULE ProvisioningProofs -------------------------
(***************************************************************************)
(* The provisioner controller, for every set of requests, every job and      *)
(* every fault. With any number of requests in flight: what the deletion of  *)
(* an infrastructure guarantees, the ports of every copy of the configuration, *)
(* and that a request which was answered as deployed has its own resources in *)
(* the cluster. With requests one at a time: what the document lists runs.    *)
(***************************************************************************)
EXTENDS Provisioning, PortAllocatorTheorems, FiniteSetTheorems, TLAPS

Deletes(r) == Job[r].kind = "delete"

(* A deletion takes no step but its own, it comes to the document only after  *)
(* the machines, and nobody brings back either.                             *)
DeletionInvariant ==
  /\ DOMAIN req = Requests
  /\ \A r \in Requests : Deletes(r) =>
       /\ "pc" \in DOMAIN req[r]
       /\ req[r].pc \in {"idle", "teardown", "remove", "done", "failed"}
       /\ req[r].pc = "remove" => ~up
       /\ req[r].pc = "done" => doc = Absent /\ ~up

(* What a step may do as far as deletions are concerned: it is the step of    *)
(* one request, which leaves the others alone.                              *)
OnlyOf(r) ==
  /\ DOMAIN req' = Requests
  /\ \A q \in Requests \ {r} : req'[q] = req[q]

(* The document does not come back, nor do the machines.                     *)
StaysAway ==
  /\ doc = Absent => doc' = Absent
  /\ ~up => ~up'

(* The step of a request that does not delete.                              *)
Harmless(r) == ~Deletes(r) /\ OnlyOf(r) /\ StaysAway

LEMMA InitEstablishesDeletionInvariant == Init => DeletionInvariant
BY DEF Init, DeletionInvariant, Idle

LEMMA HarmlessKeepsDeletionInvariant ==
  ASSUME NEW r \in Requests, DeletionInvariant, Harmless(r)
  PROVE  DeletionInvariant'
BY DEF DeletionInvariant, Harmless, OnlyOf, StaysAway, Deletes

(* The first step of a deletion reads the document.                          *)
LEMMA BeginKeepsDeletionInvariant ==
  ASSUME NEW r \in Requests, DeletionInvariant, Begin(r)
  PROVE  DeletionInvariant'
<1>1. DOMAIN req = Requests /\ UNCHANGED <<doc, up>>
  BY DEF DeletionInvariant, Begin
<1>2. OnlyOf(r)
  BY <1>1 DEF Begin, BeginAbsent, BeginTooSoon, BeginDuplicate, BeginDelete, BeginInstall,
              BeginRegistries, BeginService, BeginDatasource, BeginScripted, End, Goto, OnlyOf
<1>3. CASE ~Deletes(r)
  BY <1>1, <1>2, <1>3, HarmlessKeepsDeletionInvariant DEF Harmless, StaysAway
<1>4. CASE Deletes(r)
  <2>1. \/ BeginAbsent(r)
        \/ BeginDelete(r)
    BY <1>4 DEF Begin, Deletes, BeginTooSoon, BeginDuplicate, BeginInstall, BeginRegistries,
                BeginService, BeginDatasource, BeginScripted, Scripted
  <2>2. "pc" \in DOMAIN req'[r] /\ req'[r].pc \in {"teardown", "failed"}
    BY <1>1, <1>4, <2>1
       DEF BeginAbsent, BeginDelete, End, Goto, Idle, DeletionInvariant
  <2> QED
    BY <1>1, <1>2, <2>2 DEF DeletionInvariant, OnlyOf, Deletes
<1> QED
  BY <1>3, <1>4

(* The steps of other requests: only Save writes the document, and it does    *)
(* not insert one.                                                          *)
LEMMA ClusterStepIsHarmless ==
  ASSUME NEW r \in Requests, DeletionInvariant,
         \/ Get(r) \/ Delete(r) \/ Wait(r) \/ WaitTimeout(r) \/ Create(r)
         \/ ApiFails(r) \/ CreateLost(r) \/ Script(r) \/ Ready(r) \/ Undo(r)
         \/ Playbook(r) \/ Save(r)
  PROVE  Harmless(r)
<1> USE DEF DeletionInvariant, AfterFailure, NextStep, End, Goto
<1>1. ~Deletes(r)
  BY DEF Get, Delete, Wait, WaitTimeout, Create, ApiFails, CreateLost, Script, Ready, Undo,
         Playbook, Save
<1>2. OnlyOf(r)
  <2>1. CASE Get(r) \/ Delete(r) \/ Wait(r)
    BY <2>1 DEF Get, Delete, Wait, OnlyOf
  <2>2. CASE WaitTimeout(r) \/ ApiFails(r) \/ CreateLost(r)
    BY <2>2 DEF WaitTimeout, ApiFails, CreateLost, OnlyOf
  <2>3. CASE Create(r) \/ Ready(r) \/ Undo(r)
    BY <2>3 DEF Create, Ready, Undo, OnlyOf
  <2>4. CASE Script(r)
    BY <2>4 DEF Script, AfterScript, OnlyOf
  <2>5. CASE Playbook(r) \/ Save(r)
    BY <2>5 DEF Playbook, Save, StoreCall, OnlyOf
  <2> QED
    BY <2>1, <2>2, <2>3, <2>4, <2>5
<1>3. StaysAway
  BY DEF Get, Delete, Wait, WaitTimeout, Create, ApiFails, CreateLost, Script, Ready, Undo,
         Playbook, Save, StoreCall, Replaced, StaysAway
<1> QED
  BY <1>1, <1>2, <1>3 DEF Harmless

LEMMA TeardownKeepsDeletionInvariant ==
  ASSUME NEW r \in Requests, DeletionInvariant, Teardown(r)
  PROVE  DeletionInvariant'
<1>1. OnlyOf(r)
  BY DEF Teardown, Goto, End, OnlyOf, DeletionInvariant
<1>2. doc' = doc /\ (~up => ~up')
  BY DEF Teardown
<1>3. CASE ~Deletes(r)
  BY <1>1, <1>2, <1>3, HarmlessKeepsDeletionInvariant DEF Harmless, StaysAway
<1>4. CASE Deletes(r)
  <2>1. /\ "pc" \in DOMAIN req'[r]
        /\ \/ req'[r].pc = "remove" /\ ~up'
           \/ req'[r].pc = "failed"
    BY <1>4 DEF Teardown, Goto, End, Idle, DeletionInvariant
  <2> QED
    BY <1>1, <1>2, <2>1 DEF DeletionInvariant, OnlyOf, Deletes
<1> QED
  BY <1>3, <1>4

LEMMA RemoveDocumentKeepsDeletionInvariant ==
  ASSUME NEW r \in Requests, DeletionInvariant, RemoveDocument(r)
  PROVE  DeletionInvariant'
<1>1. OnlyOf(r)
  BY DEF RemoveDocument, StoreCall, End, OnlyOf, DeletionInvariant
<1>2. up' = up /\ (doc = Absent => doc' = Absent)
  BY DEF RemoveDocument, StoreCall
<1>3. CASE ~Deletes(r)
  BY <1>1, <1>2, <1>3, HarmlessKeepsDeletionInvariant DEF Harmless, StaysAway
<1>4. CASE Deletes(r)
  <2>1. ~up
    BY <1>4 DEF RemoveDocument, DeletionInvariant
  <2>2. /\ "pc" \in DOMAIN req'[r]
        /\ \/ req'[r].pc = "done" /\ doc' = Absent
           \/ req'[r].pc = "failed"
    BY DEF RemoveDocument, StoreCall, End, Idle, DeletionInvariant
  <2> QED
    BY <1>1, <1>2, <2>1, <2>2 DEF DeletionInvariant, OnlyOf, Deletes
<1> QED
  BY <1>3, <1>4

LEMMA NextKeepsDeletionInvariant ==
  DeletionInvariant /\ [Next]_vars => DeletionInvariant'
<1> SUFFICES ASSUME DeletionInvariant, [Next]_vars PROVE DeletionInvariant'
  OBVIOUS
<1>1. CASE UNCHANGED vars
  BY <1>1 DEF vars, DeletionInvariant, Deletes
<1>2. CASE Next
  <2>1. PICK r \in Requests : Begin(r) \/ Work(r)
    BY <1>2 DEF Next
  <2>2. CASE Begin(r)
    BY <2>2, BeginKeepsDeletionInvariant
  <2>3. CASE Teardown(r)
    BY <2>3, TeardownKeepsDeletionInvariant
  <2>4. CASE RemoveDocument(r)
    BY <2>4, RemoveDocumentKeepsDeletionInvariant
  <2>5. CASE Work(r) /\ ~Teardown(r) /\ ~RemoveDocument(r)
    BY <2>5, ClusterStepIsHarmless, HarmlessKeepsDeletionInvariant DEF Work
  <2> QED
    BY <2>1, <2>2, <2>3, <2>4, <2>5
<1> QED
  BY <1>1, <1>2

(* A deletion that was answered "done" left neither document nor machines,    *)
(* and no request that read the document before writes it again              *)
(* (deploymentcontroller.go:206-243, mongorepository.go:105-107).            *)
THEOREM DeletionIsForGood == Spec => []DeletedForGood
<1>1. DeletionInvariant => DeletedForGood
  BY DEF DeletionInvariant, DeletedForGood, Deletes
<1> QED
  BY <1>1, InitEstablishesDeletionInvariant, NextKeepsDeletionInvariant, PTL DEF Spec

-----------------------------------------------------------------------------
(* The types, for any number of requests in flight. A step is the step of one  *)
(* request: what it becomes is a state of its own.                           *)
Pcs == {"idle", "get", "delete", "wait", "create", "undo",
        "playbook", "save", "teardown", "remove", "done", "failed"}
Configs == {k \in [used : Seq(PortStart..PortEnd), services : SUBSET STRING, instances : Nat] :
              StrictlyIncreasing(k.used)}
States == [pc : Pcs, kube : Configs, index : Nat, port : Int, step : Nat]

Kind(r) == Job[r].kind
InSteps == {"get", "delete", "wait", "create", "undo"}
Resourceful == Scripted \union {"services", "mysql"}

(* The number of steps of a plan.                                           *)
Count(r) ==
  IF Kind(r) = "mysql" THEN 3 ELSE IF Kind(r) \in {"services", "traefik"} THEN 2
  ELSE IF Kind(r) = "rook" THEN 5 ELSE 1

(* The port a request asks for is recorded in its own copy.                  *)
OwnPort(s) ==
  PortStart <= PortEnd => s.port \in PortsOf(s.kube.used) \union {NotNodePort, NoPort}

(* What a request may be at, by what it asks for.                            *)
StateType(r, s) ==
  /\ s.step \in 1..Count(r)
  /\ Kind(r) # "mysql" => s.index = 0
  /\ s.pc = "idle" => s = Idle
  /\ s.pc \in InSteps => Kind(r) \in Resourceful
  /\ s.pc = "undo" => Kind(r) = "mysql"
  /\ s.pc \in {"delete", "wait", "create"} => Kind(r) = "mysql" \/ Kind(r) = "services"
                                              \/ (Kind(r) = "traefik" /\ s.step = 2)
  /\ s.pc = "playbook" => Kind(r) \in {"kubernetes", "registries"} /\ s.port = NotNodePort
  /\ s.pc \in {"teardown", "remove"} => Kind(r) = "delete"
  /\ s.pc = "save" => Kind(r) # "delete"
  /\ OwnPort(s)

TypeInv ==
  /\ doc \in {Absent, Bare} \union Configs
  /\ up \in BOOLEAN
  /\ req \in [Requests -> States]
  /\ \A r \in Requests : StateType(r, req[r])
  /\ faults \in 0..MaxFaults

LEMMA PlanOf ==
  ASSUME NEW r \in Requests
  PROVE  LET key(kind) == <<kind, Job[r].name, req[r].index>> IN
         /\ Kind(r) \in Kinds /\ Len(Plan(r)) = Count(r) /\ Count(r) \in 1..5
         /\ Kind(r) = "mysql" => /\ Plan(r)[1] = key("Secret") /\ Plan(r)[2] = key("StatefulSet")
                                 /\ Plan(r)[3] = key("Service")
         /\ Kind(r) = "services" => Plan(r)[1] = key("Deployment") /\ Plan(r)[2] = key("Service")
         /\ Kind(r) = "traefik" => Plan(r)[1] = key("Script") /\ Plan(r)[2] = key("Service")
         /\ Kind(r) = "rook" => /\ Plan(r)[1] = <<"Script", "operator", 0>> /\ Plan(r)[2] = <<"Await", "operator", 0>>
                                /\ Plan(r)[3] = <<"Script", "cluster", 0>> /\ Plan(r)[4] = <<"Script", "storage", 0>>
                                /\ Plan(r)[5] = <<"Await", "cluster", 0>>
         /\ Kind(r) \notin {"mysql", "services", "traefik", "rook"} => Plan(r)[1] = key("Script")
  <1>1. Kind(r) \in Kinds
    BY JobAssumption DEF Kind
  <1>2. CASE Kind(r) = "mysql"
    BY <1>1, <1>2 DEF Plan, Count, Kind
  <1>3. CASE Kind(r) = "services"
    BY <1>1, <1>3 DEF Plan, Count, Kind
  <1>4. CASE Kind(r) = "traefik"
    BY <1>1, <1>4 DEF Plan, Count, Kind
  <1>5. CASE Kind(r) = "rook"
    BY <1>1, <1>5 DEF Plan, Count, Kind
  <1>6. CASE Kind(r) \notin {"mysql", "services", "traefik", "rook"}
    BY <1>1, <1>6 DEF Plan, Count, Kind
  <1>. QED  BY <1>2, <1>3, <1>4, <1>5, <1>6

(* The state a request goes to after a failure, and after a step.            *)
Failed(r) ==
  IF Kind(r) = "mysql" /\ req[r].step > 1 THEN [req[r] EXCEPT !.pc = "undo", !.step = @ - 1]
  ELSE [Idle EXCEPT !.pc = "failed"]
Stepped(r) ==
  IF req[r].step < Count(r) THEN [req[r] EXCEPT !.pc = "get", !.step = @ + 1]
  ELSE [req[r] EXCEPT !.pc = "save"]
Scripted2(r) ==
  [Stepped(r) EXCEPT !.port = TraefikPort,
                     !.kube = [req[r].kube EXCEPT !.used = ClaimPort(req[r].kube.used, TraefikPort)]]

LEMMA Outcomes ==
  ASSUME NEW r \in Requests, req \in [Requests -> States]
  PROVE  /\ AfterFailure(r) = [req EXCEPT ![r] = Failed(r)]
         /\ NextStep(r) = [req EXCEPT ![r] = Stepped(r)]
         /\ AfterScript(r) \in {[req EXCEPT ![r] = Stepped(r)], [req EXCEPT ![r] = Failed(r)],
                                [req EXCEPT ![r] = Scripted2(r)]}
         /\ \/ AfterScript(r) \in {[req EXCEPT ![r] = Stepped(r)], [req EXCEPT ![r] = Failed(r)]}
            \/ ~ClaimFails(req[r].kube.used, TraefikPort)
  <1>1. AfterFailure(r) = [req EXCEPT ![r] = Failed(r)]
    BY DEF AfterFailure, Failed, Kind, States
  <1>2. NextStep(r) = [req EXCEPT ![r] = Stepped(r)]
    BY PlanOf DEF NextStep, Stepped, States
  <1>3. [NextStep(r) EXCEPT ![r].port = TraefikPort, ![r].kube.used = ClaimPort(req[r].kube.used, TraefikPort)]
          = [req EXCEPT ![r] = Scripted2(r)]
    <2>1. Stepped(r) \in States /\ Stepped(r).kube = req[r].kube
      <3>1. /\ req[r] \in [pc : Pcs, kube : Configs, index : Nat, port : Int, step : Nat]
            /\ req[r].step + 1 \in Nat /\ "get" \in Pcs /\ "save" \in Pcs
        BY DEF States, Pcs
      <3>2. /\ [req[r] EXCEPT !.pc = "get", !.step = @ + 1] \in States
            /\ [req[r] EXCEPT !.pc = "save"] \in States
        BY <3>1 DEF States
      <3>. QED  BY <3>1, <3>2 DEF Stepped
    <2>2. PICK used : used = ClaimPort(req[r].kube.used, TraefikPort)
      OBVIOUS
    <2>3. PICK s : s = Stepped(r)
      OBVIOUS
    <2>4. [[req EXCEPT ![r] = s] EXCEPT ![r].port = TraefikPort, ![r].kube.used = used]
            = [req EXCEPT ![r] = [s EXCEPT !.port = TraefikPort, !.kube = [s.kube EXCEPT !.used = used]]]
      BY <2>1, <2>3 DEF States
    <2>. QED  BY <1>2, <2>1, <2>2, <2>3, <2>4 DEF Scripted2
  <1>. QED  BY <1>1, <1>2, <1>3 DEF AfterScript

LEMMA IdleState ==
  /\ FreshKube \in Configs /\ Idle \in States
  /\ \A pc \in Pcs : [Idle EXCEPT !.pc = pc] \in States /\ [Idle EXCEPT !.pc = pc].pc = pc
  /\ \A pc : OwnPort([Idle EXCEPT !.pc = pc])
  /\ OwnPort(Idle)
  <1>1. << >> \in Seq(PortStart..PortEnd) /\ StrictlyIncreasing(<< >>)
    BY DEF StrictlyIncreasing
  <1>2. FreshKube \in Configs
    BY <1>1 DEF FreshKube, Configs
  <1>3. Idle \in States
    BY <1>2 DEF Idle, States, Pcs, NotNodePort
  <1>4. OwnPort(Idle) /\ \A pc : OwnPort([Idle EXCEPT !.pc = pc])
    BY DEF OwnPort, Idle
  <1>. QED  BY <1>2, <1>3, <1>4 DEF States

(* The ports of a configuration and the one that is taken next.               *)
LEMMA NewPort ==
  ASSUME NEW used \in Seq(PortStart..PortEnd), StrictlyIncreasing(used)
  PROVE  /\ GetNewFreePort(used) \in Int
         /\ AfterNewFreePort(used) \in Seq(PortStart..PortEnd) /\ StrictlyIncreasing(AfterNewFreePort(used))
         /\ PortsOf(used) \subseteq PortsOf(AfterNewFreePort(used))
         /\ PortStart <= PortEnd => \/ GetNewFreePort(used) = NoPort
                                    \/ GetNewFreePort(used) \in PortsOf(AfterNewFreePort(used))
  <1>0. PortStart \in Nat /\ PortEnd \in Nat
    BY RangeIsNatural
  <1>1. GetNewFreePort(used) \in Int
    <2>1. CASE PortStart <= PortEnd
      BY <1>0, <2>1, GetNewFreePortProperties DEF NoPort
    <2>2. CASE ~(PortStart <= PortEnd)
      <3>1. PortStart..PortEnd = {}
        BY <1>0, <2>2
      <3>2. used = << >>
        <4>1. Len(used) \in Nat /\ \A i \in 1..Len(used) : used[i] \in PortStart..PortEnd
          BY ElementOfSeq, LenProperties
        <4>2. Len(used) = 0
          BY <3>1, <4>1
        <4>. QED  BY <4>2, EmptySeq
      <3>. QED  BY <1>0, <3>2 DEF GetNewFreePort
    <2>. QED  BY <2>1, <2>2
  <1>2. /\ AfterNewFreePort(used) \in Seq(PortStart..PortEnd) /\ StrictlyIncreasing(AfterNewFreePort(used))
        /\ PortsOf(used) \subseteq PortsOf(AfterNewFreePort(used))
    BY <1>1, ClaimPortProperties DEF AfterNewFreePort
  <1>3. ASSUME PortStart <= PortEnd
        PROVE  GetNewFreePort(used) = NoPort \/ GetNewFreePort(used) \in PortsOf(AfterNewFreePort(used))
    <2>1. CASE GetNewFreePort(used) \in (PortStart..PortEnd) \ PortsOf(used)
      <3>1. ~ClaimFails(used, GetNewFreePort(used))
        BY <1>1, <2>1, ClaimPortProperties
      <3>. QED  BY <1>1, <3>1, ClaimPortProperties DEF AfterNewFreePort
    <2>. QED  BY <1>3, <2>1, GetNewFreePortProperties
  <1>. QED  BY <1>1, <1>2, <1>3

LEMMA OutcomeTypes ==
  ASSUME TypeInv, NEW r \in Requests
  PROVE  /\ req[r] \in States /\ StateType(r, req[r])
         /\ \A pc \in {"done", "failed"} : StateType(r, [Idle EXCEPT !.pc = pc])
         /\ req[r].pc \in {"get", "wait", "create"} =>
              /\ Failed(r) \in States /\ StateType(r, Failed(r))
              /\ Stepped(r) \in States /\ StateType(r, Stepped(r))
              /\ Scripted2(r) \in States
              /\ ~ClaimFails(req[r].kube.used, TraefikPort) => StateType(r, Scripted2(r))
  <1>1. req[r] \in States /\ StateType(r, req[r])
    BY DEF TypeInv
  <1>2. \A pc \in {"done", "failed"} : StateType(r, [Idle EXCEPT !.pc = pc])
    BY PlanOf, IdleState DEF StateType, Idle, InSteps
  <1>. DEFINE s == req[r]
  <1>3. ASSUME s.pc \in {"get", "wait", "create"}
        PROVE  /\ Failed(r) \in States /\ StateType(r, Failed(r))
               /\ Stepped(r) \in States /\ StateType(r, Stepped(r))
               /\ Scripted2(r) \in States
               /\ ~ClaimFails(s.kube.used, TraefikPort) => StateType(r, Scripted2(r))
    <2>0. /\ s \in States /\ s.step \in 1..Count(r) /\ Kind(r) \in Resourceful /\ Count(r) \in 1..5
          /\ s.step + 1 \in Nat /\ (s.step > 1 => s.step - 1 \in 1..Count(r))
          /\ (s.step < Count(r) => s.step + 1 \in 1..Count(r))
          /\ Kind(r) # "mysql" => s.index = 0
          /\ OwnPort(s)
      BY <1>1, <1>3, PlanOf DEF StateType, InSteps, States
    <2>1. Failed(r) \in States /\ StateType(r, Failed(r))
      <3>1. CASE Kind(r) = "mysql" /\ s.step > 1
        <4>. DEFINE t == [s EXCEPT !.pc = "undo", !.step = @ - 1]
        <4>1. t \in States /\ t.pc = "undo" /\ t.step = s.step - 1 /\ t.port = s.port /\ t.kube = s.kube
          <5>1. s.step - 1 \in Nat /\ "undo" \in Pcs
            BY <2>0, <3>1 DEF Pcs
          <5>. QED  BY <2>0, <5>1 DEF States
        <4>2. Failed(r) = t
          BY <3>1 DEF Failed
        <4>. HIDE DEF t
        <4>3. OwnPort(t)
          BY <2>0, <4>1 DEF OwnPort
        <4>. QED  BY <2>0, <3>1, <4>1, <4>2, <4>3 DEF StateType, InSteps, Resourceful
      <3>2. CASE ~(Kind(r) = "mysql" /\ s.step > 1)
        <4>1. Failed(r) = [Idle EXCEPT !.pc = "failed"]
          BY <3>2 DEF Failed
        <4>. QED  BY <1>2, <4>1, IdleState DEF Pcs
      <3>. QED  BY <3>1, <3>2
    <2>2. Stepped(r) \in States /\ StateType(r, Stepped(r)) /\ Stepped(r).kube = s.kube
          /\ Stepped(r).pc \in {"get", "save"} /\ Stepped(r).index = s.index /\ Stepped(r).port = s.port
      <3>1. CASE s.step < Count(r)
        <4>. DEFINE t == [s EXCEPT !.pc = "get", !.step = @ + 1]
        <4>1. t \in States /\ t.pc = "get" /\ t.step = s.step + 1 /\ t.index = s.index /\ t.kube = s.kube
              /\ t.port = s.port
          BY <2>0, <3>1 DEF States, Pcs
        <4>2. Stepped(r) = t
          BY <3>1 DEF Stepped
        <4>. HIDE DEF t
        <4>3. OwnPort(t)
          BY <2>0, <4>1 DEF OwnPort
        <4>. QED  BY <2>0, <3>1, <4>1, <4>2, <4>3 DEF StateType, InSteps
      <3>2. CASE ~(s.step < Count(r))
        <4>. DEFINE t == [s EXCEPT !.pc = "save"]
        <4>1. t \in States /\ t.pc = "save" /\ t.step = s.step /\ t.index = s.index /\ t.kube = s.kube
              /\ t.port = s.port
          BY <2>0, <3>2 DEF States, Pcs
        <4>2. Stepped(r) = t
          BY <3>2 DEF Stepped
        <4>. HIDE DEF t
        <4>3. OwnPort(t)
          BY <2>0, <4>1 DEF OwnPort
        <4>. QED  BY <2>0, <3>2, <4>1, <4>2, <4>3 DEF StateType, InSteps, Resourceful, Scripted
      <3>. QED  BY <3>1, <3>2
    <2>3. /\ Scripted2(r) \in States
          /\ ~ClaimFails(s.kube.used, TraefikPort) => StateType(r, Scripted2(r))
      <3>1. /\ s.kube \in Configs /\ s.kube.used \in Seq(PortStart..PortEnd) /\ StrictlyIncreasing(s.kube.used)
        BY <2>0 DEF States, Configs
      <3>2. TraefikPort \in Int
        BY TraefikAssumption
      <3>3. PICK used : used = ClaimPort(s.kube.used, TraefikPort)
        OBVIOUS
      <3>4. used \in Seq(PortStart..PortEnd) /\ StrictlyIncreasing(used)
        BY <3>1, <3>2, <3>3, ClaimPortProperties
      <3>5. [s.kube EXCEPT !.used = used] \in Configs
        BY <3>1, <3>4 DEF Configs
      <3>6. PICK kube : kube = [s.kube EXCEPT !.used = used]
        OBVIOUS
      <3>7. Scripted2(r) = [Stepped(r) EXCEPT !.port = TraefikPort, !.kube = kube]
        BY <3>3, <3>6 DEF Scripted2
      <3>8. /\ Scripted2(r) \in States /\ Scripted2(r).pc = Stepped(r).pc /\ Scripted2(r).step = Stepped(r).step
            /\ Scripted2(r).index = Stepped(r).index /\ Scripted2(r).port = TraefikPort
            /\ Scripted2(r).kube = kube
        BY <2>2, <3>2, <3>5, <3>6, <3>7 DEF States
      <3>9. ASSUME ~ClaimFails(s.kube.used, TraefikPort)  PROVE StateType(r, Scripted2(r))
        <4>1. TraefikPort \in PortsOf(used) /\ kube.used = used
          BY <3>1, <3>2, <3>3, <3>5, <3>6, <3>9, ClaimPortProperties DEF Configs
        <4>2. OwnPort(Scripted2(r))
          BY <3>8, <4>1 DEF OwnPort
        <4>. QED  BY <2>2, <3>8, <4>2 DEF StateType, InSteps
      <3>. QED  BY <3>8, <3>9
    <2>. QED  BY <2>1, <2>2, <2>3
  <1>. QED  BY <1>1, <1>2, <1>3

LEMMA GotoState ==
  ASSUME TypeInv, NEW r \in Requests, NEW pc \in Pcs, Goto(r, pc), NEW s, s = [req[r] EXCEPT !.pc = pc]
  PROVE  /\ req' = [req EXCEPT ![r] = s] /\ s \in States /\ s.pc = pc /\ s.step = req[r].step
         /\ s.kube = req[r].kube /\ s.index = req[r].index /\ s.port = req[r].port
  BY DEF Goto, TypeInv, States

LEMMA FaultsType ==
  ASSUME TypeInv, faults' = faults \/ \E party \in Faulty : Fails(party)
  PROVE  faults' \in 0..MaxFaults
  <1>1. faults \in Nat /\ faults <= MaxFaults /\ MaxFaults \in Nat
    BY BoundAssumption DEF TypeInv
  <1>2. faults' = faults \/ (faults > 0 /\ faults' = faults - 1)
    BY DEF Fails
  <1>. QED  BY <1>1, <1>2

(* What the first step of a request computes on its copy of the document.     *)
LEMMA BeginState ==
  ASSUME TypeInv, NEW r \in Requests, Begin(r)
  PROVE  \E s \in States :
           /\ req' = [req EXCEPT ![r] = s] /\ StateType(r, s)
           /\ s.step = 1 /\ s.pc \in {"failed", "playbook", "teardown", "get"}
           /\ s.pc = "get" => /\ Installed /\ Kind(r) \in Resourceful
                              /\ Kind(r) = "services" => BeginService(r)
                              /\ Kind(r) = "mysql" => BeginDatasource(r)
                              /\ Kind(r) \in Scripted => s.kube = doc
  <1>0. /\ req[r] = Idle /\ Kind(r) \in Kinds /\ 1 \in 1..Count(r)
        /\ Idle.step = 1 /\ Idle.index = 0 /\ Idle.port = NotNodePort
    BY PlanOf DEF Begin, TypeInv, StateType, Idle
  <1>1. CASE BeginAbsent(r) \/ BeginTooSoon(r) \/ BeginDuplicate(r)
    <2>1. req' = [req EXCEPT ![r] = [Idle EXCEPT !.pc = "failed"]]
      BY <1>1 DEF BeginAbsent, BeginTooSoon, BeginDuplicate, End
    <2>2. StateType(r, [Idle EXCEPT !.pc = "failed"]) /\ [Idle EXCEPT !.pc = "failed"].step = 1
      BY OutcomeTypes DEF Idle
    <2>. QED  BY <2>1, <2>2, IdleState DEF Pcs
  <1>2. ASSUME NEW pc \in {"playbook", "teardown"}, Goto(r, pc),
               pc = "playbook" => Kind(r) \in {"kubernetes", "registries"}, pc = "teardown" => Kind(r) = "delete"
        PROVE  \E s \in States : /\ req' = [req EXCEPT ![r] = s] /\ StateType(r, s) /\ s.step = 1 /\ s.pc = pc
    <2>1. PICK s : s = [req[r] EXCEPT !.pc = pc]
      OBVIOUS
    <2>2. /\ req' = [req EXCEPT ![r] = s] /\ s \in States /\ s.pc = pc /\ s.step = req[r].step
          /\ s.index = req[r].index /\ s.port = req[r].port
      <3>1. pc \in Pcs
        BY DEF Pcs
      <3>. QED  BY <1>2, <2>1, <3>1, GotoState
    <2>3. StateType(r, s)
      BY <1>0, <1>2, <2>2 DEF StateType, InSteps, OwnPort
    <2>. QED  BY <1>0, <2>2, <2>3
  <1>3. CASE BeginDelete(r)
    BY <1>2, <1>3 DEF BeginDelete, Kind
  <1>4. CASE BeginInstall(r) \/ BeginRegistries(r)
    BY <1>2, <1>4 DEF BeginInstall, BeginRegistries, Kind
  <1>5. ASSUME Installed
        PROVE  /\ doc \in Configs /\ doc \in [used : Seq(PortStart..PortEnd), services : SUBSET STRING, instances : Nat]
               /\ doc.used \in Seq(PortStart..PortEnd) /\ StrictlyIncreasing(doc.used)
    BY <1>5 DEF Installed, TypeInv, Configs
  <1>6. CASE BeginService(r)
    <2>1. PICK kube : kube = [doc EXCEPT !.used = AfterNewFreePort(doc.used),
                                         !.services = doc.services \union {Job[r].name}]
      OBVIOUS
    <2>2. PICK port : port = GetNewFreePort(doc.used)
      OBVIOUS
    <2>3. PICK s : s = [Idle EXCEPT !.pc = "get", !.port = port, !.kube = kube]
      OBVIOUS
    <2>4. kube \in Configs /\ port \in Int
      <3>1. Installed
        BY <1>6 DEF BeginService
      <3>2. /\ AfterNewFreePort(doc.used) \in Seq(PortStart..PortEnd) /\ StrictlyIncreasing(AfterNewFreePort(doc.used))
            /\ GetNewFreePort(doc.used) \in Int
        BY <1>5, <3>1, NewPort
      <3>3. Job[r].name \in STRING
        BY JobAssumption
      <3>4. PICK used : used = AfterNewFreePort(doc.used)
        OBVIOUS
      <3>5. kube = [used |-> used, services |-> doc.services \union {Job[r].name}, instances |-> doc.instances]
        BY <1>5, <2>1, <3>1, <3>4
      <3>. QED  BY <1>5, <2>2, <3>1, <3>2, <3>3, <3>4, <3>5 DEF Configs
    <2>5. s \in States /\ s.pc = "get" /\ s.step = 1 /\ s.index = 0 /\ s.port = port /\ s.kube = kube
      BY <2>3, <2>4, IdleState DEF Idle, States, Pcs
    <2>6. req' = [req EXCEPT ![r] = s]
      BY <1>6, <2>1, <2>2, <2>3 DEF BeginService
    <2>7. Kind(r) = "services"
      BY <1>6 DEF BeginService, Kind
    <2>9. OwnPort(s)
      <3>1. Installed
        BY <1>6 DEF BeginService
      <3>2. /\ kube.used = AfterNewFreePort(doc.used)
            /\ PortStart <= PortEnd => port = NoPort \/ port \in PortsOf(AfterNewFreePort(doc.used))
        BY <1>5, <2>1, <2>2, <3>1, NewPort
      <3>. QED  BY <2>5, <3>2 DEF OwnPort
    <2>8. StateType(r, s)
      BY <1>0, <2>5, <2>7, <2>9 DEF StateType, InSteps, Resourceful
    <2>. QED  BY <1>6, <2>5, <2>6, <2>7, <2>8 DEF Resourceful, Scripted, BeginService
  <1>7. CASE BeginDatasource(r)
    <2>1. PICK kube : kube = [doc EXCEPT !.instances = doc.instances + 1]
      OBVIOUS
    <2>2. PICK s : s = [Idle EXCEPT !.pc = "get", !.index = doc.instances, !.kube = kube]
      OBVIOUS
    <2>3. Installed
      BY <1>7 DEF BeginDatasource
    <2>4. kube \in Configs /\ doc.instances \in Nat
      BY <1>5, <2>1, <2>3 DEF Configs
    <2>5. s \in States /\ s.pc = "get" /\ s.step = 1 /\ OwnPort(s)
      BY <2>2, <2>4, IdleState DEF Idle, States, Pcs, OwnPort
    <2>6. req' = [req EXCEPT ![r] = s]
      BY <1>7, <2>1, <2>2 DEF BeginDatasource
    <2>7. Kind(r) = "mysql"
      BY <1>7 DEF BeginDatasource, Kind
    <2>8. StateType(r, s)
      BY <1>0, <2>5, <2>7 DEF StateType, InSteps, Resourceful
    <2>. QED  BY <1>7, <2>3, <2>5, <2>6, <2>7, <2>8 DEF Resourceful, Scripted
  <1>8. CASE BeginScripted(r)
    <2>1. PICK s : s = [Idle EXCEPT !.pc = "get", !.kube = doc]
      OBVIOUS
    <2>2. Installed /\ Kind(r) \in Scripted
      BY <1>8 DEF BeginScripted, Kind
    <2>3. s \in States /\ s.pc = "get" /\ s.step = 1 /\ s.index = 0 /\ s.kube = doc /\ OwnPort(s)
      BY <1>5, <2>1, <2>2, IdleState DEF Idle, States, Pcs, OwnPort
    <2>4. req' = [req EXCEPT ![r] = s]
      BY <1>8, <2>1 DEF BeginScripted
    <2>5. StateType(r, s)
      BY <1>0, <2>2, <2>3 DEF StateType, InSteps, Resourceful
    <2>. QED  BY <2>2, <2>3, <2>4, <2>5 DEF Resourceful, Scripted
  <1>. QED  BY <1>1, <1>2, <1>3, <1>4, <1>6, <1>7, <1>8 DEF Begin

(* Only these resources are replaced; those of scripts are not.              *)
LEMMA ReplacedKeys ==
  ASSUME TypeInv, NEW r \in Requests, Kind(r) \in Resourceful
  PROVE  /\ ~IsScript(r) /\ ~IsAwait(r) <=>
              Kind(r) \in {"mysql", "services"} \/ (Kind(r) = "traefik" /\ req[r].step = 2)
         /\ Key(r)[1] \in {"Script", "Await", "Secret", "StatefulSet", "Service", "Deployment"}
  <1>1. /\ req[r].step \in 1..Count(r) /\ Len(Plan(r)) = Count(r)
    BY PlanOf DEF TypeInv, StateType
  <1>2. CASE Kind(r) = "mysql"
    <2>1. req[r].step \in {1, 2, 3}
      BY <1>1, <1>2 DEF Count
    <2>. QED  BY <1>2, <2>1, PlanOf DEF Key, IsScript, IsAwait
  <1>3. CASE Kind(r) \in {"services", "traefik"}
    <2>1. req[r].step \in {1, 2}
      BY <1>1, <1>3 DEF Count
    <2>. QED  BY <1>3, <2>1, PlanOf DEF Key, IsScript, IsAwait
  <1>4. CASE Kind(r) = "rook"
    <2>1. req[r].step \in {1, 2, 3, 4, 5}
      BY <1>1, <1>4 DEF Count
    <2>. QED  BY <1>4, <2>1, PlanOf DEF Key, IsScript, IsAwait
  <1>5. CASE Kind(r) \notin {"mysql", "services", "traefik", "rook"}
    <2>1. req[r].step = 1
      BY <1>1, <1>5 DEF Count
    <2>. QED  BY <1>5, <2>1, PlanOf DEF Key, IsScript, IsAwait
  <1>. QED  BY <1>2, <1>3, <1>4, <1>5

LEMMA WorkState ==
  ASSUME TypeInv, NEW r \in Requests, Work(r)
  PROVE  \E s \in States : req' = [req EXCEPT ![r] = s] /\ StateType(r, s)
  <1>0. req[r] \in States /\ StateType(r, req[r]) /\ req \in [Requests -> States]
    BY DEF TypeInv
  <1>. DEFINE Fine == \E s \in States : req' = [req EXCEPT ![r] = s] /\ StateType(r, s)
  <1>1. ASSUME req[r].pc \in {"get", "wait", "create"},
               req' \in {AfterFailure(r), NextStep(r), AfterScript(r)}
        PROVE  Fine
    <2>1. \/ req' = [req EXCEPT ![r] = Failed(r)] \/ req' = [req EXCEPT ![r] = Stepped(r)]
          \/ req' = [req EXCEPT ![r] = Scripted2(r)]
      BY <1>0, <1>1, Outcomes
    <2>2. \/ req' \in {[req EXCEPT ![r] = Failed(r)], [req EXCEPT ![r] = Stepped(r)]}
          \/ ~ClaimFails(req[r].kube.used, TraefikPort)
      BY <1>0, <1>1, Outcomes
    <2>. QED  BY <1>1, <2>1, <2>2, OutcomeTypes
  <1>2. ASSUME NEW pc \in {"done", "failed"}, End(r, pc)  PROVE Fine
    <2>1. pc \in Pcs
      BY DEF Pcs
    <2>. QED  BY <1>2, <2>1, OutcomeTypes, IdleState DEF End
  <1>3. ASSUME NEW pc \in Pcs, Goto(r, pc), req[r].pc # "idle", pc # "idle",
               pc \in InSteps => /\ Kind(r) \in Resourceful /\ pc # "undo"
                                 /\ Kind(r) = "mysql" \/ Kind(r) = "services"
                                    \/ (Kind(r) = "traefik" /\ req[r].step = 2),
               pc # "playbook",
               pc \in {"teardown", "remove"} => Kind(r) = "delete", pc = "save" => Kind(r) # "delete"
        PROVE  Fine
    <2>1. PICK s : s = [req[r] EXCEPT !.pc = pc]
      OBVIOUS
    <2>2. /\ req' = [req EXCEPT ![r] = s] /\ s \in States /\ s.pc = pc /\ s.step = req[r].step
          /\ s.index = req[r].index /\ s.port = req[r].port /\ s.kube = req[r].kube
      BY <1>3, <2>1, GotoState
    <2>3. OwnPort(s)
      BY <1>0, <2>2 DEF StateType, OwnPort
    <2>4. StateType(r, s)
      BY <1>0, <1>3, <2>2, <2>3 DEF StateType, InSteps
    <2>. QED  BY <2>2, <2>4
  <1>4. CASE Get(r)
    <2>1. req[r].pc = "get" /\ Kind(r) \in Resourceful /\ ~IsScript(r) /\ ~IsAwait(r)
      BY <1>0, <1>4 DEF Get, StateType, InSteps
    <2>2. Kind(r) \in {"mysql", "services"} \/ (Kind(r) = "traefik" /\ req[r].step = 2)
      BY <2>1, ReplacedKeys
    <2>3. Goto(r, "delete") \/ Goto(r, "create")
      BY <1>4 DEF Get
    <2>4. {"delete", "create"} \subseteq Pcs
      BY DEF Pcs
    <2>. QED  BY <1>3, <2>1, <2>2, <2>3, <2>4 DEF InSteps
  <1>5. CASE Delete(r) \/ Wait(r)
    <2>1. req[r].pc \in {"delete", "wait"} /\ (Goto(r, "wait") \/ Goto(r, "create"))
      BY <1>5 DEF Delete, Wait
    <2>2. {"wait", "create"} \subseteq Pcs
      BY DEF Pcs
    <2>3. /\ Kind(r) \in Resourceful
          /\ Kind(r) = "mysql" \/ Kind(r) = "services" \/ (Kind(r) = "traefik" /\ req[r].step = 2)
      BY <1>0, <2>1 DEF StateType, InSteps
    <2>. QED  BY <1>3, <2>1, <2>2, <2>3 DEF InSteps
  <1>6. CASE WaitTimeout(r) \/ Create(r) \/ ApiFails(r) \/ CreateLost(r) \/ Script(r) \/ Ready(r)
    BY <1>1, <1>6 DEF WaitTimeout, Create, ApiFails, CreateLost, Script, Ready
  <1>7. CASE Undo(r)
    <2>1. CASE req' = [req EXCEPT ![r] = [Idle EXCEPT !.pc = "failed"]]
      BY <1>2, <2>1 DEF End
    <2>2. CASE req[r].step # 1 /\ req' = [req EXCEPT ![r].step = @ - 1]
      <3>1. PICK s : s = [req[r] EXCEPT !.step = @ - 1]
        OBVIOUS
      <3>2. /\ req[r].step \in 1..Count(r) /\ Count(r) \in 1..5 /\ req[r].step - 1 \in 1..Count(r)
            /\ req[r].pc = "undo"
        BY <1>0, <1>7, <2>2, PlanOf DEF Undo, StateType
      <3>3. /\ s \in States /\ s.pc = "undo" /\ s.step = req[r].step - 1 /\ s.index = req[r].index
            /\ s.port = req[r].port /\ s.kube = req[r].kube
        BY <1>0, <3>1, <3>2 DEF States
      <3>4. StateType(r, s)
        BY <1>0, <3>2, <3>3 DEF StateType, InSteps, OwnPort
      <3>5. req' = [req EXCEPT ![r] = s]
        BY <1>0, <2>2, <3>1
      <3>. QED  BY <3>3, <3>4, <3>5
    <2>. QED  BY <1>7, <2>1, <2>2 DEF Undo
  <1>8. CASE Playbook(r)
    <2>1. CASE req' = [req EXCEPT ![r].pc = "save", ![r].kube = FreshKube]
      <3>1. PICK s : s = [req[r] EXCEPT !.pc = "save", !.kube = FreshKube]
        OBVIOUS
      <3>2. /\ s \in States /\ s.pc = "save" /\ s.step = req[r].step /\ s.index = req[r].index
            /\ s.port = req[r].port
        BY <1>0, <3>1, IdleState DEF States, Pcs
      <3>3. StateType(r, s)
        BY <1>0, <1>8, <3>2 DEF Playbook, StateType, InSteps, OwnPort
      <3>4. req' = [req EXCEPT ![r] = s]
        BY <1>0, <2>1, <3>1 DEF States
      <3>. QED  BY <3>2, <3>3, <3>4
    <2>. QED  BY <1>2, <1>8, <2>1 DEF Playbook
  <1>9. CASE Save(r) \/ RemoveDocument(r)
    BY <1>2, <1>9 DEF Save, RemoveDocument, StoreCall
  <1>10. CASE Teardown(r)
    <2>1. CASE Goto(r, "remove")
      <3>1. req[r].pc = "teardown" /\ Kind(r) = "delete" /\ "remove" \in Pcs
        BY <1>0, <1>10 DEF Teardown, StateType, Pcs
      <3>. QED  BY <1>3, <2>1, <3>1 DEF InSteps
    <2>. QED  BY <1>2, <1>10, <2>1 DEF Teardown
  <1>. QED  BY <1>4, <1>5, <1>6, <1>7, <1>8, <1>9, <1>10 DEF Work

LEMMA StepKeepsType ==
  ASSUME TypeInv, NEW r \in Requests, Begin(r) \/ Work(r)
  PROVE  /\ TypeInv' /\ OnlyOf(r)
         /\ \E s \in States : req' = [req EXCEPT ![r] = s] /\ req'[r] = s /\ StateType(r, s)
  <1>1. PICK s \in States : req' = [req EXCEPT ![r] = s] /\ StateType(r, s)
    BY BeginState, WorkState
  <1>2. req'[r] = s /\ OnlyOf(r)
    BY <1>1 DEF TypeInv, OnlyOf
  <1>3. req' \in [Requests -> States]
    BY <1>1 DEF TypeInv
  <1>4. \A q \in Requests : StateType(q, req[q])'
    <2>1. \A q \in Requests : StateType(q, req'[q])
      BY <1>1, <1>2 DEF TypeInv, OnlyOf
    <2>. QED  BY <2>1 DEF StateType, Count, Kind, OwnPort
  <1>5. doc' \in {Absent, Bare} \union Configs
    <2>1. req[r].kube \in Configs /\ doc \in {Absent, Bare} \union Configs
      BY DEF TypeInv, States
    <2>2. doc' \in {doc, req[r].kube, Absent}
      BY DEF Begin, Work, Get, Delete, Wait, WaitTimeout, Create, ApiFails, CreateLost, Script, Ready,
             Undo, Playbook, Save, Teardown, RemoveDocument, StoreCall, Replaced
    <2>. QED  BY <2>1, <2>2
  <1>6. up' \in BOOLEAN
    BY DEF TypeInv, Begin, Work, Get, Delete, Wait, WaitTimeout, Create, ApiFails, CreateLost, Script, Ready,
           Undo, Playbook, Save, Teardown, RemoveDocument
  <1>7. faults' \in 0..MaxFaults
    <2>1. faults' = faults \/ \E party \in Faulty : Fails(party)
      BY DEF Begin, Work, Get, Delete, Wait, WaitTimeout, Create, ApiFails, CreateLost, Script, Ready,
             Undo, Playbook, Save, Teardown, RemoveDocument, StoreCall, DeleteByName, Fails, Loses
    <2>. QED  BY <2>1, FaultsType
  <1>8. TypeInv'
    BY <1>3, <1>4, <1>5, <1>6, <1>7 DEF TypeInv
  <1>. QED  BY <1>1, <1>2, <1>8

LEMMA InitEstablishesTypeInv == Init => TypeInv
  <1>. SUFFICES ASSUME Init PROVE TypeInv
    OBVIOUS
  <1>1. faults \in 0..MaxFaults
    BY BoundAssumption DEF Init
  <1>2. \A r \in Requests : StateType(r, Idle)
    BY PlanOf, IdleState DEF StateType, Idle, InSteps
  <1>. QED  BY <1>1, <1>2, IdleState DEF Init, TypeInv

LEMMA NextKeepsTypeInv == TypeInv /\ [Next]_vars => TypeInv'
  <1>. SUFFICES ASSUME TypeInv, [Next]_vars PROVE TypeInv'
    OBVIOUS
  <1>1. CASE Next
    BY <1>1, StepKeepsType DEF Next
  <1>2. CASE UNCHANGED vars
    BY <1>2 DEF vars, TypeInv, StateType, Count, Kind, OwnPort
  <1>. QED  BY <1>1, <1>2

(* For any jobs, faults and number of requests in flight: however the copies of  *)
(* the configuration were made, handed over and written back, each has its ports *)
(* sorted, without a double and in the range, counts its datasources with a      *)
(* natural number, and records the port its request asks for                     *)
(* (kubernetes_controller.go:60-110, generic_service_provisioner.go:94,          *)
(* traefik_provisioner.go:132). Of a range without a port the allocator gives    *)
(* out the first one unclaimed, hence the assumption.                            *)
THEOREM CopiesStaySound == ASSUME PortStart <= PortEnd PROVE Spec => []CopiesAreSound
  <1>1. TypeInv => CopiesAreSound
    <2>. SUFFICES ASSUME TypeInv PROVE CopiesAreSound
      OBVIOUS
    <2>1. Copies \subseteq Configs
      BY DEF TypeInv, States, Copies
    <2>2. ASSUME NEW kube \in Configs
          PROVE  /\ StrictlyIncreasing(kube.used) /\ kube.instances \in Nat
                 /\ PortsOf(kube.used) \subseteq PortStart..PortEnd
      <3>1. kube.used \in Seq(PortStart..PortEnd) /\ StrictlyIncreasing(kube.used) /\ kube.instances \in Nat
        BY DEF Configs
      <3>. QED  BY <3>1, ElementOfSeq DEF PortsOf
    <2>3. \A r \in Requests : OwnPort(req[r])
      BY DEF TypeInv, StateType
    <2>. QED  BY <2>1, <2>2, <2>3 DEF CopiesAreSound, OwnPort
  <1>. QED  BY <1>1, InitEstablishesTypeInv, NextKeepsTypeInv, PTL DEF Spec

-----------------------------------------------------------------------------
(* What a step may do to the resources of the cluster.                        *)
Drops(r)   == req[r].pc \in {"delete", "undo"} /\ up /\ cluster' = Dropped(Key(r))
Creates(r) ==
  /\ (req[r].pc = "get" /\ IsScript(r)) \/ (req[r].pc = "create" /\ ~CreateRefused(r))
  /\ up /\ ~Exists(r)
  /\ cluster' = Added(Key(r), Resource(r))

LEMMA ClusterStep ==
  ASSUME NEW r \in Requests, Begin(r) \/ Work(r)
  PROVE  /\ up' => up
         /\ cluster' = cluster \/ Drops(r) \/ Creates(r) \/ ~up'
  <1>1. CASE Begin(r)
    BY <1>1 DEF Begin
  <1>2. CASE Delete(r) \/ Undo(r)
    BY <1>2 DEF Delete, Undo, DeleteByName, Drops
  <1>3. CASE Create(r) \/ CreateLost(r) \/ Script(r)
    BY <1>3 DEF Create, CreateLost, Script, Creates, CreateRefused
  <1>4. CASE Teardown(r)
    BY <1>4 DEF Teardown
  <1>5. CASE \/ Get(r) \/ Wait(r) \/ WaitTimeout(r) \/ ApiFails(r) \/ Ready(r)
             \/ Playbook(r) \/ Save(r) \/ RemoveDocument(r)
    BY <1>5 DEF Get, Wait, WaitTimeout, ApiFails, Ready, Playbook, Save, RemoveDocument
  <1>. QED  BY <1>1, <1>2, <1>3, <1>4, <1>5 DEF Work

(* Requests for a service have a name of their own, and a datasource is not    *)
(* called like Traefik: no two of them ask for the same Service.             *)
NamesApart ==
  \A r, q \in Requests :
    r # q /\ (Kind(r) = "services" \/ (Kind(r) = "traefik" /\ Kind(q) = "mysql"))
      /\ Kind(q) \in {"services", "traefik", "mysql"} => Job[r].name # Job[q].name

Served == Scripted \union {"services"}
Mine(r, key) == key[1] # "Await" => key \in DOMAIN cluster /\ cluster[key].by = r

(* The steps of the plan that are done.                                      *)
Behind(r, s) ==
  IF s.pc \in {"get", "delete", "wait", "create"} THEN 1..s.step - 1
  ELSE IF s.pc \in {"save", "done"} THEN 1..Count(r) ELSE {}

ServedInv ==
  \A r \in Requests : up /\ Kind(r) \in Served =>
    \A i \in Behind(r, req[r]) : Mine(r, Plan(r)[i])

(* Only named resources are dropped, never those of a script.                *)
LEMMA DroppedKey ==
  ASSUME TypeInv, NEW q \in Requests, Drops(q)
  PROVE  /\ Count(q) \in 1..5 /\ req[q].step \in 1..Count(q)
         /\ Kind(q) \in {"mysql", "services"} \/ (Kind(q) = "traefik" /\ req[q].step = 2)
         /\ Kind(q) # "mysql" => req[q].pc = "delete"
         /\ ~IsScript(q) /\ Key(q) = <<Key(q)[1], Job[q].name, req[q].index>>
  <1>1. /\ Count(q) \in 1..5 /\ req[q].step \in 1..Count(q) /\ Kind(q) \in Resourceful
        /\ Kind(q) \in {"mysql", "services"} \/ (Kind(q) = "traefik" /\ req[q].step = 2)
        /\ Kind(q) # "mysql" => req[q].pc = "delete"
    BY PlanOf DEF TypeInv, StateType, Drops, InSteps
  <1>2. ~IsScript(q) /\ Key(q) = <<Key(q)[1], Job[q].name, req[q].index>>
    <2>1. ~IsScript(q)
      BY <1>1, ReplacedKeys
    <2>2. CASE Kind(q) = "mysql"
      <3>1. req[q].step \in {1, 2, 3}
        BY <1>1, <2>2 DEF Count
      <3>. QED  BY <2>1, <2>2, <3>1, PlanOf DEF Key
    <2>3. CASE Kind(q) = "services"
      <3>1. req[q].step \in {1, 2}
        BY <1>1, <2>3 DEF Count
      <3>. QED  BY <2>1, <2>3, <3>1, PlanOf DEF Key
    <2>4. CASE Kind(q) = "traefik" /\ req[q].step = 2
      BY <2>1, <2>4, PlanOf DEF Key
    <2>. QED  BY <1>1, <2>2, <2>3, <2>4
  <1>. QED  BY <1>1, <1>2

(* What one request drops is not what another one has created.               *)
LEMMA DropsItsOwn ==
  ASSUME TypeInv, ServedInv, NamesApart, NEW r \in Requests, Kind(r) \in Served, up,
         NEW i \in Behind(r, req[r]), Plan(r)[i][1] # "Await",
         NEW q \in Requests, Drops(q)
  PROVE  Plan(r)[i] # Key(q)
  <1>1. /\ Count(r) \in 1..5 /\ req[r].step \in 1..Count(r) /\ i \in 1..Count(r)
        /\ req[r].index = 0 /\ req[r].pc # "undo" /\ Kind(r) # "mysql"
    BY PlanOf DEF TypeInv, StateType, Behind, Served, Scripted
  <1>2. /\ Count(q) \in 1..5 /\ req[q].step \in 1..Count(q)
        /\ Kind(q) \in {"mysql", "services"} \/ (Kind(q) = "traefik" /\ req[q].step = 2)
        /\ Kind(q) # "mysql" => req[q].pc = "delete"
    BY DroppedKey
  <1>3. ~IsScript(q) /\ Key(q) = <<Key(q)[1], Job[q].name, req[q].index>>
    BY DroppedKey
  <1>4. CASE q = r
    <2>1. i < req[r].step
      BY <1>1, <1>2, <1>4 DEF Behind, Drops
    <2>2. i = 1 /\ req[r].step = 2
      <3>1. Count(r) = 2
        BY <1>1, <1>2, <1>4 DEF Count
      <3>. QED  BY <1>1, <2>1, <3>1
    <2>. QED  BY <1>1, <1>2, <1>4, <2>2, PlanOf DEF Key
  <1>5. CASE q # r /\ Kind(r) = "services"
    <2>1. i \in {1, 2}
      BY <1>1, <1>5 DEF Count
    <2>2. Plan(r)[i][2] = Job[r].name
      BY <1>5, <2>1, PlanOf
    <2>. QED  BY <1>2, <1>3, <1>5, <2>2 DEF NamesApart
  <1>6. CASE q # r /\ Kind(r) = "traefik"
    <2>1. i \in {1, 2}
      BY <1>1, <1>6 DEF Count
    <2>2. CASE i = 1
      BY <1>3, <1>6, <2>2, PlanOf DEF IsScript
    <2>3. CASE i = 2 /\ Kind(q) # "traefik"
      <3>1. Plan(r)[2][2] = Job[r].name
        BY <1>6, PlanOf
      <3>2. Job[r].name # Job[q].name
        BY <1>2, <1>6, <2>3 DEF NamesApart
      <3>. QED  BY <1>3, <2>3, <3>1, <3>2
    <2>4. CASE i = 2 /\ Kind(q) = "traefik"
      <3>1. ASSUME Job[q].name = Job[r].name  PROVE FALSE
        <4>0. req[q].index = 0 /\ (Kind(r) # "mysql" => req[r].index = 0)
          BY <2>4 DEF TypeInv, StateType
        <4>1. Plan(q)[1] = Plan(r)[1] /\ Plan(q)[1][1] = "Script"
          BY <1>1, <1>6, <2>4, <3>1, <4>0, PlanOf
        <4>2. 1 \in Behind(q, req[q]) /\ 1 \in Behind(r, req[r])
          BY <1>1, <1>2, <2>4 DEF Behind, Drops
        <4>3. Mine(q, Plan(q)[1]) /\ Mine(r, Plan(r)[1])
          BY <1>6, <2>4, <4>2 DEF ServedInv, Served, Scripted
        <4>. QED  BY <1>6, <4>1, <4>3 DEF Mine
      <3>2. Plan(r)[2][2] = Job[r].name
        BY <1>6, PlanOf
      <3>. QED  BY <1>3, <2>4, <3>1, <3>2
    <2>. QED  BY <2>1, <2>2, <2>3, <2>4
  <1>7. CASE q # r /\ Kind(r) = "rook"
    <2>1. i \in {1, 2, 3, 4, 5}
      BY <1>1
    <2>2. Plan(r)[i][1] = "Script"
      BY <1>7, <2>1, PlanOf
    <2>. QED  BY <1>3, <2>2 DEF IsScript
  <1>8. CASE q # r /\ Kind(r) \notin {"services", "traefik", "rook"}
    <2>1. i = 1
      BY <1>1, <1>8 DEF Count
    <2>2. Plan(r)[i][1] = "Script"
      BY <1>1, <1>8, <2>1, PlanOf
    <2>. QED  BY <1>3, <2>2 DEF IsScript
  <1>. QED  BY <1>4, <1>5, <1>6, <1>7, <1>8

LEMMA PlanStays ==
  ASSUME TypeInv, TypeInv', NEW r \in Requests, Kind(r) \in Served
  PROVE  Plan(r)' = Plan(r)
  <1>1. req[r].index = 0 /\ req'[r].index = 0
    <2>1. /\ Kind(r)' = Kind(r)
          /\ Kind(r) # "mysql"
      BY DEF Served, Scripted, Kind
    <2>. QED  BY <2>1 DEF TypeInv, StateType
  <1>. QED  BY <1>1 DEF Plan

(* A resource stays unless it is the one that a step drops.                   *)
LEMMA ClusterKeeps ==
  ASSUME NEW q \in Requests, Begin(q) \/ Work(q), up',
         NEW k \in DOMAIN cluster, Drops(q) => k # Key(q)
  PROVE  k \in DOMAIN cluster' /\ cluster'[k] = cluster[k]
  <1>1. PICK key, value : key = Key(q) /\ value = Resource(q)
    OBVIOUS
  <1>2. CASE cluster' = cluster
    BY <1>2
  <1>3. CASE Drops(q)
    <2>1. cluster' = Dropped(key) /\ k # key
      BY <1>1, <1>3 DEF Drops
    <2>. QED  BY <2>1 DEF Dropped
  <1>4. CASE Creates(q)
    <2>1. cluster' = Added(key, value) /\ k # key
      BY <1>1, <1>4 DEF Creates, Exists
    <2>. QED  BY <2>1 DEF Added
  <1>. QED  BY <1>2, <1>3, <1>4, ClusterStep

(* What was there for a request stays, whoever takes a step.                 *)
LEMMA ServedStays ==
  ASSUME TypeInv, ServedInv, NamesApart, NEW q \in Requests, Begin(q) \/ Work(q), up',
         NEW r \in Requests, Kind(r) \in Served, NEW i \in Behind(r, req[r])
  PROVE  Plan(r)[i][1] # "Await" => /\ Plan(r)[i] \in DOMAIN cluster'
                                    /\ cluster'[Plan(r)[i]].by = r
  <1>. SUFFICES ASSUME Plan(r)[i][1] # "Await"
                PROVE  Plan(r)[i] \in DOMAIN cluster' /\ cluster'[Plan(r)[i]].by = r
    OBVIOUS
  <1>1. up
    BY ClusterStep
  <1>2. Plan(r)[i] \in DOMAIN cluster /\ cluster[Plan(r)[i]].by = r
    BY <1>1 DEF ServedInv, Mine
  <1>3. Drops(q) => Plan(r)[i] # Key(q)
    BY <1>1, DropsItsOwn
  <1>. QED  BY <1>2, <1>3, ClusterKeeps

(* A request comes further in its plan only by what it creates, or by what it *)
(* has awaited.                                                             *)
LEMMA Advances ==
  ASSUME TypeInv, NEW r \in Requests, Kind(r) \in Resourceful, Begin(r) \/ Work(r)
  PROVE  \/ Behind(r, req'[r]) \subseteq Behind(r, req[r])
         \/ /\ Behind(r, req'[r]) \subseteq Behind(r, req[r]) \union {req[r].step}
            /\ req[r].pc \in {"get", "create"} /\ (IsAwait(r) \/ Creates(r))
  <1>0. /\ req \in [Requests -> States] /\ req[r] \in States /\ StateType(r, req[r])
        /\ Count(r) \in 1..5 /\ req[r].step \in 1..Count(r)
    BY PlanOf DEF TypeInv, StateType
  <1>1. ASSUME NEW pc \in Pcs, Goto(r, pc), {pc, req[r].pc} \subseteq {"get", "delete", "wait", "create"}
        PROVE  Behind(r, req'[r]) = Behind(r, req[r])
    <2>1. req'[r].pc = pc /\ req'[r].step = req[r].step
      BY <1>0, <1>1 DEF Goto, States
    <2>. QED  BY <1>1, <2>1 DEF Behind
  <1>2. ASSUME req' = [req EXCEPT ![r] = [Idle EXCEPT !.pc = "failed"]]
        PROVE  Behind(r, req'[r]) = {}
    BY <1>0, <1>2, IdleState DEF Behind, Pcs
  <1>3. ASSUME req' = AfterFailure(r)  PROVE Behind(r, req'[r]) = {}
    <2>1. req'[r] = Failed(r)
      BY <1>0, <1>3, Outcomes
    <2>2. CASE Kind(r) = "mysql" /\ req[r].step > 1
      <3>1. Failed(r).pc = "undo"
        BY <1>0, <2>2 DEF Failed, States
      <3>. QED  BY <2>1, <3>1 DEF Behind
    <2>3. CASE ~(Kind(r) = "mysql" /\ req[r].step > 1)
      BY <1>0, <1>2, <1>3, <2>3, Outcomes DEF Failed
    <2>. QED  BY <2>2, <2>3
  <1>4. ASSUME req[r].pc \in {"get", "create"}, req' \in {NextStep(r), AfterScript(r)}
        PROVE  Behind(r, req'[r]) \subseteq Behind(r, req[r]) \union {req[r].step}
    <2>1. \/ req'[r] = Stepped(r)
          \/ req'[r] = Failed(r) /\ req' = AfterFailure(r)
          \/ req'[r] = Scripted2(r)
      BY <1>0, <1>4, Outcomes
    <2>2. /\ Stepped(r).pc = Scripted2(r).pc /\ Stepped(r).step = Scripted2(r).step
          /\ req[r].step < Count(r) => Stepped(r).pc = "get" /\ Stepped(r).step = req[r].step + 1
          /\ ~(req[r].step < Count(r)) => Stepped(r).pc = "save"
      <3>1. Stepped(r) \in States
        BY <1>4, OutcomeTypes
      <3>2. Stepped(r).pc = Scripted2(r).pc /\ Stepped(r).step = Scripted2(r).step
        BY <3>1 DEF Scripted2, States
      <3>. QED  BY <1>0, <3>2 DEF Stepped, States
    <2>3. CASE req'[r] = Stepped(r) \/ req'[r] = Scripted2(r)
      <3>1. CASE req[r].step < Count(r)
        BY <1>0, <1>4, <2>2, <2>3, <3>1 DEF Behind
      <3>2. CASE ~(req[r].step < Count(r))
        BY <1>0, <1>4, <2>2, <2>3, <3>2 DEF Behind
      <3>. QED  BY <3>1, <3>2
    <2>. QED  BY <1>3, <2>1, <2>3
  <1>5. CASE Begin(r)
    <2>1. PICK s \in States : /\ req' = [req EXCEPT ![r] = s]
                              /\ s.step = 1 /\ s.pc \in {"failed", "playbook", "teardown", "get"}
      BY <1>5, BeginState
    <2>. QED  BY <1>0, <2>1 DEF Behind
  <1>6. CASE Get(r) \/ Delete(r) \/ Wait(r)
    <2>1. {"delete", "create", "wait"} \subseteq Pcs
      BY DEF Pcs
    <2>2. \E pc \in {"delete", "create", "wait"} : Goto(r, pc) /\ req[r].pc \in {"get", "delete", "wait"}
      BY <1>6 DEF Get, Delete, Wait
    <2>. QED  BY <1>1, <2>1, <2>2
  <1>7. CASE WaitTimeout(r) \/ ApiFails(r) \/ CreateLost(r)
    BY <1>3, <1>7 DEF WaitTimeout, ApiFails, CreateLost
  <1>8. CASE Create(r) \/ Script(r) \/ Ready(r)
    BY <1>3, <1>4, <1>8 DEF Create, Script, Ready, Creates, CreateRefused
  <1>9. CASE Save(r)
    <2>1. \/ req' = [req EXCEPT ![r] = [Idle EXCEPT !.pc = "done"]]
          \/ req' = [req EXCEPT ![r] = [Idle EXCEPT !.pc = "failed"]]
      BY <1>9 DEF Save, StoreCall, End
    <2>2. req'[r].pc \in {"done", "failed"} /\ req[r].pc = "save"
      BY <1>0, <1>9, <2>1, IdleState DEF Save, Pcs
    <2>. QED  BY <2>2 DEF Behind
  <1>10. CASE Undo(r)
    <2>1. CASE req' = [req EXCEPT ![r] = [Idle EXCEPT !.pc = "failed"]]
      BY <1>2, <2>1
    <2>2. CASE req' = [req EXCEPT ![r].step = @ - 1]
      <3>1. req'[r].pc = "undo"
        BY <1>0, <1>10, <2>2 DEF Undo, States
      <3>. QED  BY <3>1 DEF Behind
    <2>. QED  BY <1>10, <2>1, <2>2 DEF Undo
  <1>11. ~(Playbook(r) \/ Teardown(r) \/ RemoveDocument(r))
    BY <1>0 DEF Playbook, Teardown, RemoveDocument, StateType, Resourceful, Scripted
  <1>. QED  BY <1>5, <1>6, <1>7, <1>8, <1>9, <1>10, <1>11 DEF Work

LEMMA StepKeepsServed ==
  ASSUME TypeInv, ServedInv, NamesApart, NEW q \in Requests, Begin(q) \/ Work(q)
  PROVE  ServedInv'
  <1>. SUFFICES ASSUME NEW r \in Requests, up', Kind(r) \in Served, NEW i \in Behind(r, req'[r])
                PROVE  Plan(r)'[i][1] # "Await" => /\ Plan(r)'[i] \in DOMAIN cluster'
                                                   /\ cluster'[Plan(r)'[i]].by = r
    BY DEF ServedInv, Mine, Behind, Count, Kind
  <1>1. TypeInv' /\ OnlyOf(q) /\ Plan(r)' = Plan(r)
    BY StepKeepsType, PlanStays
  <1>2. CASE i \in Behind(r, req[r])
    BY <1>1, <1>2, ServedStays
  <1>3. CASE i \notin Behind(r, req[r])
    <2>1. q = r
      BY <1>1, <1>3 DEF OnlyOf
    <2>2. i = req[r].step /\ (IsAwait(r) \/ cluster' = Added(Key(r), Resource(r)))
      BY <1>3, <2>1, Advances DEF Served, Resourceful, Creates
    <2>3. Key(r) = Plan(r)[i] /\ Resource(r).by = r
      BY <2>2 DEF Key, Resource
    <2>4. PICK key, value : key = Key(r) /\ value = Resource(r)
      OBVIOUS
    <2>5. CASE IsAwait(r)
      BY <1>1, <2>3, <2>5 DEF IsAwait
    <2>6. CASE cluster' = Added(key, value)
      <3>1. key \in DOMAIN cluster' /\ cluster'[key] = value
        BY <2>6 DEF Added
      <3>. QED  BY <1>1, <2>3, <2>4, <3>1
    <2>. QED  BY <2>2, <2>4, <2>5, <2>6
  <1>. QED  BY <1>2, <1>3

(* A request that was answered "successfully deployed" has its resources,      *)
(* whatever other requests do (restfrontend/restfrontend.go:252), as long as  *)
(* no two ask for the same Service.                                          *)
THEOREM ServicesAreDeployed ==
  ASSUME NamesApart
  PROVE  Spec => []ServiceDeployed
  <1>1. Init => TypeInv /\ ServedInv
    <2>1. Init => ServedInv
      BY DEF Init, ServedInv, Behind, Idle
    <2>. QED  BY <2>1, InitEstablishesTypeInv
  <1>2. TypeInv /\ ServedInv /\ [Next]_vars => (TypeInv /\ ServedInv)'
    <2>. SUFFICES ASSUME TypeInv, ServedInv, [Next]_vars PROVE TypeInv' /\ ServedInv'
      OBVIOUS
    <2>1. CASE Next
      BY <2>1, StepKeepsType, StepKeepsServed DEF Next
    <2>2. CASE UNCHANGED vars
      <3>1. ServedInv'
        <4>1. \A r \in Requests : Plan(r)' = Plan(r)
          BY <2>2 DEF vars, Plan
        <4>. QED  BY <2>2, <4>1 DEF vars, ServedInv, Mine, Behind, Count, Kind
      <3>. QED  BY <2>2, <3>1, NextKeepsTypeInv
    <2>. QED  BY <2>1, <2>2
  <1>3. TypeInv /\ ServedInv => ServiceDeployed
    <2>. SUFFICES ASSUME TypeInv, ServedInv, NEW r \in Requests, up, Kind(r) \in Served, req[r].pc = "done"
                  PROVE  Deployed(r)
      BY DEF ServiceDeployed, Kind, Served
    <2>1. Behind(r, req[r]) = 1..Len(Plan(r))
      BY PlanOf DEF Behind
    <2>. QED  BY <2>1 DEF Deployed, ServedInv, Mine
  <1>. QED  BY <1>1, <1>2, <1>3, PTL DEF Spec

-----------------------------------------------------------------------------
(* What the document lists runs, with one request in flight at a time (of two  *)
(* that overlap, the one that ends last writes the document it read before), *)
(* a port range that is not empty, and names that tell services, instances   *)
(* and Traefik apart: the Service of the one is not the Service of the other. *)
OneRequestAtATime == MaxInFlight <= 1
NamesOfKinds ==
  \A r, q \in Requests :
    /\ Kind(r) = "mysql" => Job[r].name = "mysql"
    /\ Kind(r) \in {"services", "traefik"} => Job[r].name # "mysql"
    /\ Kind(r) = "services" /\ Kind(q) = "traefik" => Job[r].name # Job[q].name

ServiceNames == {Job[r].name : r \in {q \in Requests : Kind(q) = "services"}}
Parts == {"Secret", "StatefulSet", "Service"}

ServiceRuns(name, used) ==
  /\ <<"Deployment", name, 0>> \in DOMAIN cluster
  /\ <<"Service", name, 0>> \in DOMAIN cluster
  /\ cluster[<<"Service", name, 0>>].port \in PortsOf(used)

Lists(kube) ==
  /\ kube.services \subseteq ServiceNames
  /\ \A name \in kube.services : ServiceRuns(name, kube.used)
  /\ \A i \in 0..kube.instances - 1, part \in Parts : <<part, "mysql", i>> \in DOMAIN cluster

Busy(r)    == req[r].pc \notin {"idle", "done", "failed"}
Working(r) == req[r].pc \in InSteps \union {"save"}
OneAtATime == \A r, q \in Requests : Busy(r) /\ Busy(q) => r = q

(* The copy of a request is the document, which stays what it was when the     *)
(* request read it, with the one item that the request asks for.             *)
IsCopy(r, s) ==
  /\ Installed
  /\ PortsOf(doc.used) \subseteq PortsOf(s.kube.used)
  /\ s.kube.services = doc.services \union (IF Kind(r) = "services" THEN {Job[r].name} ELSE {})
  /\ s.kube.instances = doc.instances + (IF Kind(r) = "mysql" THEN 1 ELSE 0)
  /\ Kind(r) = "services" => /\ Job[r].name \notin doc.services
                             /\ s.port \in PortsOf(s.kube.used) \union {NoPort}
  /\ Kind(r) = "mysql" => s.index = doc.instances

(* The resources that the steps behind it have created.                      *)
OwnRuns(r) ==
  Kind(r) \in {"services", "mysql"} =>
    \A i \in Behind(r, req[r]) :
      /\ Plan(r)[i] \in DOMAIN cluster
      /\ Kind(r) = "services" /\ i = 2 => cluster[Plan(r)[i]].port \in PortsOf(req[r].kube.used)

(* What a request that works on its copy knows of it; the copy of a playbook's *)
(* request is a new one.                                                    *)
Progress(r) ==
  IF Kind(r) \in Resourceful THEN IsCopy(r, req[r]) /\ OwnRuns(r)
  ELSE req[r].kube = FreshKube

ListedInv ==
  /\ OneAtATime
  /\ up => /\ Installed => Lists(doc)
           /\ \A r \in Requests : Working(r) => Progress(r)

LEMMA OnlyOne ==
  ASSUME TypeInv, OneAtATime, OneRequestAtATime, NEW r \in Requests, Begin(r) \/ Work(r)
  PROVE  \A q \in Requests \ {r} : ~Busy(q) /\ req'[q] = req[q]
  <1>1. Work(r) => Busy(r)
    BY DEF Work, Get, Delete, Wait, WaitTimeout, Create, ApiFails, CreateLost, Script, Ready, Undo,
           Playbook, Save, Teardown, RemoveDocument, Busy
  <1>2. InFlight = {q \in Requests : Busy(q)}
    BY DEF InFlight, Busy, Ended
  <1>3. Begin(r) => InFlight = {}
    <2>. SUFFICES ASSUME Begin(r), InFlight # {} PROVE FALSE
      OBVIOUS
    <2>1. PICK q : q \in InFlight
      OBVIOUS
    <2>2. InFlight = {q}
      BY <1>2, <2>1 DEF OneAtATime
    <2>3. Cardinality(InFlight) = 1
      BY <2>2, FS_Singleton
    <2>. QED  BY <2>3, BoundAssumption DEF Begin, OneRequestAtATime
  <1>4. \A q \in Requests \ {r} : ~Busy(q)
    BY <1>1, <1>2, <1>3 DEF OneAtATime
  <1>. QED  BY <1>4, StepKeepsType DEF OnlyOf

(* What a request drops is not in the document.                              *)
LEMMA DropsUnlisted ==
  ASSUME TypeInv, ListedInv, NamesOfKinds, NEW r \in Requests, Drops(r),
         NEW kube \in Configs, kube = doc
  PROVE  /\ \A name \in kube.services : Key(r) \notin {<<"Deployment", name, 0>>, <<"Service", name, 0>>}
         /\ \A i \in 0..kube.instances - 1, part \in Parts : Key(r) # <<part, "mysql", i>>
  <1>1. /\ Kind(r) \in {"mysql", "services", "traefik"} /\ Key(r) = <<Key(r)[1], Job[r].name, req[r].index>>
        /\ req[r].pc \in InSteps /\ up
    BY DroppedKey DEF Drops, InSteps
  <1>2. IsCopy(r, req[r]) /\ Lists(kube)
    <2>1. Progress(r)
      BY <1>1 DEF ListedInv, Working
    <2>2. IsCopy(r, req[r])
      BY <1>1, <2>1 DEF Progress, Resourceful, Scripted
    <2>. QED  BY <1>1, <2>2 DEF ListedInv, IsCopy
  <1>3. \A name \in kube.services : \E q \in Requests : Kind(q) = "services" /\ name = Job[q].name
    BY <1>2 DEF Lists, ServiceNames
  <1>4. kube.instances \in Nat
    BY DEF Configs
  <1>5. CASE Kind(r) = "services"
    BY <1>1, <1>2, <1>5 DEF IsCopy, NamesOfKinds
  <1>6. CASE Kind(r) = "traefik"
    BY <1>1, <1>3, <1>6 DEF NamesOfKinds
  <1>7. CASE Kind(r) = "mysql"
    <2>1. Job[r].name = "mysql" /\ req[r].index = kube.instances
      BY <1>2, <1>7 DEF IsCopy, NamesOfKinds
    <2>2. \A name \in kube.services : name # "mysql"
      BY <1>3 DEF NamesOfKinds
    <2>. QED  BY <1>1, <1>4, <2>1, <2>2
  <1>. QED  BY <1>1, <1>5, <1>6, <1>7

LEMMA ListsKept ==
  ASSUME TypeInv, ListedInv, NamesOfKinds, NEW r \in Requests, Begin(r) \/ Work(r), up',
         NEW kube \in Configs, kube = doc, Lists(kube)
  PROVE  Lists(kube)'
  <1>1. ASSUME NEW name \in kube.services  PROVE ServiceRuns(name, kube.used)'
    <2>1. Drops(r) => Key(r) \notin {<<"Deployment", name, 0>>, <<"Service", name, 0>>}
      BY DropsUnlisted
    <2>2. ServiceRuns(name, kube.used)
      BY DEF Lists
    <2>3. /\ <<"Deployment", name, 0>> \in DOMAIN cluster' /\ <<"Service", name, 0>> \in DOMAIN cluster'
          /\ cluster'[<<"Service", name, 0>>] = cluster[<<"Service", name, 0>>]
      BY <2>1, <2>2, ClusterKeeps DEF ServiceRuns
    <2>. QED  BY <2>2, <2>3 DEF ServiceRuns
  <1>2. ASSUME NEW i \in 0..kube.instances - 1, NEW part \in Parts
        PROVE  <<part, "mysql", i>> \in DOMAIN cluster'
    <2>1. Drops(r) => Key(r) # <<part, "mysql", i>>
      BY DropsUnlisted
    <2>. QED  BY <2>1, ClusterKeeps DEF Lists
  <1>. QED  BY <1>1, <1>2 DEF Lists, ServiceNames, Kind

(* The first step of a request that will work on a copy of the document makes  *)
(* that copy.                                                               *)
LEMMA BeginCopies ==
  ASSUME TypeInv, PortStart <= PortEnd, NEW r \in Requests, Begin(r), Working(r)'
  PROVE  /\ Kind(r) \in Resourceful /\ IsCopy(r, req[r])' /\ Behind(r, req'[r]) = {}
  <1>1. PICK s \in States :
           /\ req' = [req EXCEPT ![r] = s] /\ s.step = 1 /\ s.pc \in {"failed", "playbook", "teardown", "get"}
           /\ s.pc = "get" => /\ Installed /\ Kind(r) \in Resourceful
                              /\ Kind(r) = "services" => BeginService(r)
                              /\ Kind(r) = "mysql" => BeginDatasource(r)
                              /\ Kind(r) \in Scripted => s.kube = doc
    BY BeginState
  <1>2. req'[r] = s /\ s.pc = "get" /\ Installed /\ Kind(r) \in Resourceful /\ doc' = doc
    BY <1>1 DEF TypeInv, Working, InSteps, Begin
  <1>3. PICK d : d = doc
    OBVIOUS
  <1>4. d \in Configs /\ d.instances \in Nat /\ d.used \in Seq(PortStart..PortEnd) /\ StrictlyIncreasing(d.used)
    BY <1>2, <1>3 DEF TypeInv, Installed, Configs
  <1>5. IsCopy(r, s)
    <2>1. CASE Kind(r) = "services"
      <3>1. PICK used, port : used = AfterNewFreePort(d.used) /\ port = GetNewFreePort(d.used)
        OBVIOUS
      <3>2. /\ s = [Idle EXCEPT !.pc = "get", !.port = port,
                      !.kube = [d EXCEPT !.used = used, !.services = d.services \union {Job[r].name}]]
            /\ Job[r].name \notin d.services
        BY <1>1, <1>2, <1>3, <2>1, <3>1 DEF BeginService, TypeInv
      <3>3. PortsOf(d.used) \subseteq PortsOf(used) /\ port \in PortsOf(used) \union {NoPort}
        BY <1>4, <3>1, NewPort
      <3>4. /\ s.kube = [d EXCEPT !.used = used, !.services = d.services \union {Job[r].name}]
            /\ s.port = port
        BY <3>2 DEF Idle
      <3>5. /\ s.kube.used = used /\ s.kube.services = d.services \union {Job[r].name}
            /\ s.kube.instances = d.instances
        BY <1>4, <3>4 DEF Configs
      <3>. QED  BY <1>2, <1>3, <1>4, <2>1, <3>2, <3>3, <3>4, <3>5 DEF IsCopy
    <2>2. CASE Kind(r) = "mysql"
      <3>1. s = [Idle EXCEPT !.pc = "get", !.index = d.instances,
                   !.kube = [d EXCEPT !.instances = d.instances + 1]]
        BY <1>1, <1>2, <1>3, <2>2 DEF BeginDatasource, TypeInv
      <3>2. s.kube = [d EXCEPT !.instances = d.instances + 1] /\ s.index = d.instances
        BY <3>1 DEF Idle
      <3>3. s.kube.used = d.used /\ s.kube.services = d.services /\ s.kube.instances = d.instances + 1
        BY <1>4, <3>2 DEF Configs
      <3>. QED  BY <1>2, <1>3, <2>2, <3>2, <3>3 DEF IsCopy
    <2>3. CASE Kind(r) \in Scripted
      <3>1. s.kube = d
        BY <1>1, <1>2, <1>3, <2>3
      <3>. QED  BY <1>2, <1>3, <1>4, <2>3, <3>1 DEF IsCopy, Scripted
    <2>. QED  BY <1>2, <2>1, <2>2, <2>3 DEF Resourceful
  <1>6. IsCopy(r, req[r])'
    BY <1>2, <1>5 DEF IsCopy, Installed, Kind
  <1>. QED  BY <1>1, <1>2, <1>6 DEF Behind

(* While it works, a request keeps its copy; Traefik alone adds a port.       *)
LEMMA CopyKept ==
  ASSUME TypeInv, NEW r \in Requests, Kind(r) \in Resourceful, Work(r), Working(r)'
  PROVE  /\ Working(r) /\ doc' = doc
         /\ req'[r].index = req[r].index
         /\ req'[r].kube.services = req[r].kube.services
         /\ req'[r].kube.instances = req[r].kube.instances
         /\ PortsOf(req[r].kube.used) \subseteq PortsOf(req'[r].kube.used)
         /\ Kind(r) # "traefik" => req'[r].kube = req[r].kube /\ req'[r].port = req[r].port
  <1>0. /\ req \in [Requests -> States] /\ req[r] \in States /\ StateType(r, req[r])
        /\ req[r].kube \in Configs
    BY DEF TypeInv, States
  <1>. DEFINE Kept(s) == /\ s.index = req[r].index
                         /\ s.kube.services = req[r].kube.services
                         /\ s.kube.instances = req[r].kube.instances
                         /\ PortsOf(req[r].kube.used) \subseteq PortsOf(s.kube.used)
                         /\ Kind(r) # "traefik" => s.kube = req[r].kube /\ s.port = req[r].port
  <1>1. ~(Playbook(r) \/ Teardown(r) \/ RemoveDocument(r) \/ Save(r))
    <2>1. ~(Playbook(r) \/ Teardown(r) \/ RemoveDocument(r))
      BY <1>0 DEF Playbook, Teardown, RemoveDocument, StateType, Resourceful, Scripted
    <2>2. ASSUME Save(r)  PROVE FALSE
      <3>1. \/ req' = [req EXCEPT ![r] = [Idle EXCEPT !.pc = "done"]]
            \/ req' = [req EXCEPT ![r] = [Idle EXCEPT !.pc = "failed"]]
        BY <2>2 DEF Save, StoreCall, End
      <3>2. req'[r].pc \in {"done", "failed"}
        BY <1>0, <3>1, IdleState DEF Pcs
      <3>. QED  BY <3>2 DEF Working, InSteps
    <2>. QED  BY <2>1, <2>2
  <1>2. Working(r) /\ doc' = doc
    BY <1>1 DEF Work, Get, Delete, Wait, WaitTimeout, Create, ApiFails, CreateLost, Script, Ready, Undo,
                Working, InSteps
  <1>3. ASSUME NEW pc \in Pcs, Goto(r, pc)  PROVE Kept(req'[r])
    <2>1. req'[r] = [req[r] EXCEPT !.pc = pc]
      BY <1>0, <1>3 DEF Goto
    <2>. QED  BY <1>0, <2>1 DEF States
  <1>4. req'[r] # [Idle EXCEPT !.pc = "failed"]
    BY IdleState DEF Working, InSteps, Pcs
  <1>5. Failed(r) # [Idle EXCEPT !.pc = "failed"] => Kept(Failed(r))
    BY <1>0 DEF Failed, States
  <1>6. Kept(Stepped(r))
    BY <1>0 DEF Stepped, States
  <1>7. ASSUME Kind(r) = "traefik", req[r].pc \in {"get", "wait", "create"}  PROVE Kept(Scripted2(r))
    <2>1. PICK used, kube : /\ used = ClaimPort(req[r].kube.used, TraefikPort)
                            /\ kube = [req[r].kube EXCEPT !.used = used]
      OBVIOUS
    <2>2. req[r].kube.used \in Seq(PortStart..PortEnd) /\ StrictlyIncreasing(req[r].kube.used)
      BY <1>0 DEF Configs
    <2>3. PortsOf(req[r].kube.used) \subseteq PortsOf(used)
      BY <2>1, <2>2, ClaimPortProperties, TraefikAssumption
    <2>4. kube.used = used /\ kube.services = req[r].kube.services /\ kube.instances = req[r].kube.instances
      BY <1>0, <2>1 DEF Configs
    <2>5. Scripted2(r) = [Stepped(r) EXCEPT !.port = TraefikPort, !.kube = kube]
      BY <2>1 DEF Scripted2
    <2>6. Stepped(r) \in States
      BY <1>7, OutcomeTypes
    <2>7. Scripted2(r).kube = kube /\ Scripted2(r).index = Stepped(r).index
      BY <2>5, <2>6 DEF States
    <2>. QED  BY <1>6, <1>7, <2>3, <2>4, <2>7
  <1>8. ASSUME req' \in {AfterFailure(r), NextStep(r)}  PROVE Kept(req'[r])
    <2>1. req'[r] \in {Failed(r), Stepped(r)}
      BY <1>0, <1>8, Outcomes
    <2>. QED  BY <1>4, <1>5, <1>6, <2>1
  <1>9. ASSUME req' = AfterScript(r), req[r].pc = "get"  PROVE Kept(req'[r])
    <2>1. CASE Kind(r) # "traefik"
      <3>1. req' = NextStep(r)
        BY <1>9, <2>1 DEF AfterScript, Kind
      <3>. QED  BY <1>8, <3>1
    <2>2. CASE Kind(r) = "traefik"
      <3>1. req'[r] \in {Failed(r), Stepped(r), Scripted2(r)}
        BY <1>0, <1>9, Outcomes
      <3>. QED  BY <1>4, <1>5, <1>6, <1>7, <1>9, <2>2, <3>1
    <2>. QED  BY <2>1, <2>2
  <1>10. Kept(req'[r])
    <2>1. CASE Get(r) \/ Delete(r) \/ Wait(r)
      <3>1. {"delete", "create", "wait"} \subseteq Pcs
        BY DEF Pcs
      <3>2. \E pc \in {"delete", "create", "wait"} : Goto(r, pc)
        BY <2>1 DEF Get, Delete, Wait
      <3>. QED  BY <1>3, <3>1, <3>2
    <2>2. CASE WaitTimeout(r) \/ ApiFails(r) \/ CreateLost(r) \/ Create(r) \/ Script(r) \/ Ready(r)
      BY <1>8, <1>9, <2>2 DEF WaitTimeout, ApiFails, CreateLost, Create, Script, Ready
    <2>3. CASE Undo(r)
      <3>1. \/ req' = [req EXCEPT ![r] = [Idle EXCEPT !.pc = "failed"]]
            \/ req' = [req EXCEPT ![r].step = @ - 1]
        BY <2>3 DEF Undo
      <3>2. req' = [req EXCEPT ![r].step = @ - 1]
        BY <1>0, <1>4, <3>1
      <3>. QED  BY <1>0, <3>2 DEF States
    <2>. QED  BY <1>1, <2>1, <2>2, <2>3 DEF Work
  <1>. QED  BY <1>2, <1>10

(* The resources of the steps behind a request stay, and a step forward adds   *)
(* one: a Service with the port that the request holds, which is recorded in  *)
(* its copy, as the API server refuses NoPort.                              *)
LEMMA OwnKept ==
  ASSUME TypeInv, NEW r \in Requests, Kind(r) \in {"services", "mysql"}, Work(r), Working(r)', up',
         IsCopy(r, req[r]), OwnRuns(r)
  PROVE  OwnRuns(r)'
  <1>1. /\ Kind(r) \in Resourceful /\ Count(r) \in {2, 3} /\ req[r].step \in 1..Count(r)
        /\ Kind(r) = "services" => Count(r) = 2
    BY DEF Resourceful, Count, TypeInv, StateType
  <1>2. /\ Working(r) /\ doc' = doc /\ req'[r].index = req[r].index
        /\ req'[r].kube = req[r].kube /\ req'[r].port = req[r].port
    BY <1>1, CopyKept
  <1>3. Plan(r)' = Plan(r)
    BY <1>2 DEF Plan
  <1>4. Behind(r, req[r]) \subseteq 1..Count(r)
    BY <1>1 DEF Behind
  <1>5. \A i, j \in 1..Count(r) : i # j => Plan(r)[i] # Plan(r)[j]
    <2>1. CASE Kind(r) = "services"
      <3>1. Plan(r)[1] # Plan(r)[2]
        BY <2>1, PlanOf
      <3>. QED  BY <1>1, <2>1, <3>1
    <2>2. CASE Kind(r) = "mysql"
      <3>1. Count(r) = 3
        BY <2>2 DEF Count
      <3>2. Plan(r)[1] # Plan(r)[2] /\ Plan(r)[1] # Plan(r)[3] /\ Plan(r)[2] # Plan(r)[3]
        BY <2>2, PlanOf
      <3>. QED  BY <3>1, <3>2
    <2>. QED  BY <2>1, <2>2
  <1>6. ASSUME NEW i \in Behind(r, req[r])
        PROVE  /\ Plan(r)[i] \in DOMAIN cluster' /\ Plan(r)[i] \in DOMAIN cluster
               /\ cluster'[Plan(r)[i]] = cluster[Plan(r)[i]]
    <2>1. Drops(r) => i < req[r].step
      BY <1>1 DEF Drops, Behind
    <2>2. Drops(r) => Plan(r)[i] # Key(r)
      BY <1>1, <1>4, <1>5, <2>1 DEF Key
    <2>3. Plan(r)[i] \in DOMAIN cluster
      BY DEF OwnRuns
    <2>. QED  BY <2>2, <2>3, ClusterKeeps
  <1>7. ASSUME NEW i \in Behind(r, req'[r]), i \notin Behind(r, req[r])
        PROVE  /\ Plan(r)[i] \in DOMAIN cluster'
               /\ Kind(r) = "services" /\ i = 2 => cluster'[Plan(r)[i]].port \in PortsOf(req[r].kube.used)
    <2>1. i = req[r].step /\ (IsAwait(r) \/ Creates(r))
      BY <1>1, <1>7, Advances
    <2>2. ~IsScript(r) /\ ~IsAwait(r)
      BY <1>1, ReplacedKeys
    <2>3. PICK key, value : key = Key(r) /\ value = Resource(r)
      OBVIOUS
    <2>4. cluster' = Added(key, value) /\ ~CreateRefused(r) /\ key = Plan(r)[i]
      BY <2>1, <2>2, <2>3 DEF Creates, Key
    <2>5. key \in DOMAIN cluster' /\ cluster'[key] = value
      BY <2>4 DEF Added
    <2>6. ASSUME Kind(r) = "services", i = 2  PROVE value.port \in PortsOf(req[r].kube.used)
      <3>1. value.port = req[r].port
        BY <2>3, <2>4, <2>6, PlanOf DEF Resource
      <3>2. req[r].port # NoPort
        BY <2>3, <2>4, <3>1, RangeAssumption DEF CreateRefused, NoPort, NotNodePort
      <3>. QED  BY <2>6, <3>1, <3>2 DEF IsCopy
    <2>. QED  BY <2>4, <2>5, <2>6
  <1>8. \A i \in Behind(r, req'[r]) :
           /\ Plan(r)[i] \in DOMAIN cluster'
           /\ Kind(r) = "services" /\ i = 2 => cluster'[Plan(r)[i]].port \in PortsOf(req[r].kube.used)
    BY <1>6, <1>7 DEF OwnRuns
  <1>. QED  BY <1>2, <1>3, <1>8 DEF OwnRuns, Behind, Count, Kind

(* What a request saves is a listing of what runs.                           *)
LEMMA SavedLists ==
  ASSUME TypeInv, NamesOfKinds, NEW r \in Requests, req[r].pc = "save", Progress(r), Installed => Lists(doc),
         NEW kube, kube = req[r].kube
  PROVE  Lists(kube)
  <1>1. kube \in Configs /\ kube.instances \in Nat
    BY DEF TypeInv, States, Configs
  <1>2. CASE Kind(r) \notin Resourceful
    BY <1>2 DEF Progress, FreshKube, Lists
  <1>3. CASE Kind(r) \in Resourceful
    <2>1. PICK d : d = doc
      OBVIOUS
    <2>2. IsCopy(r, req[r]) /\ OwnRuns(r) /\ Lists(d)
      BY <1>3, <2>1 DEF Progress, IsCopy
    <2>3. d \in Configs /\ d.instances \in Nat
      BY <2>1, <2>2 DEF IsCopy, Installed, TypeInv, Configs
    <2>4. \A name \in d.services : name \in ServiceNames /\ ServiceRuns(name, kube.used)
      BY <2>1, <2>2 DEF Lists, ServiceRuns, IsCopy
    <2>5. Behind(r, req[r]) = 1..Count(r)
      BY DEF Behind
    <2>6. CASE Kind(r) = "services"
      <3>1. 1 \in Behind(r, req[r]) /\ 2 \in Behind(r, req[r]) /\ req[r].index = 0
        BY <2>5, <2>6 DEF Count, TypeInv, StateType
      <3>2. Plan(r)[1] = <<"Deployment", Job[r].name, 0>> /\ Plan(r)[2] = <<"Service", Job[r].name, 0>>
        BY <2>6, <3>1, PlanOf
      <3>3. ServiceRuns(Job[r].name, kube.used)
        BY <2>2, <2>6, <3>1, <3>2 DEF OwnRuns, ServiceRuns
      <3>4. kube.services = d.services \union {Job[r].name} /\ kube.instances = d.instances
        BY <2>1, <2>2, <2>3, <2>6 DEF IsCopy
      <3>. QED  BY <2>2, <2>4, <2>6, <3>3, <3>4 DEF Lists, ServiceNames
    <2>7. CASE Kind(r) = "mysql"
      <3>1. {1, 2, 3} \subseteq Behind(r, req[r])
        BY <2>5, <2>7 DEF Count
      <3>2. \A part \in Parts : <<part, Job[r].name, req[r].index>> \in DOMAIN cluster
        BY <2>2, <2>7, <3>1, PlanOf DEF OwnRuns, Parts
      <3>3. kube.services = d.services /\ kube.instances = d.instances + 1 /\ req[r].index = d.instances
        BY <2>1, <2>2, <2>3, <2>7 DEF IsCopy
      <3>4. \A i \in 0..kube.instances - 1 : i \in 0..d.instances - 1 \/ i = d.instances
        BY <2>3, <3>3
      <3>5. \A part \in Parts : <<part, "mysql", d.instances>> \in DOMAIN cluster
        BY <2>7, <3>2, <3>3 DEF NamesOfKinds
      <3>. QED  BY <2>2, <2>4, <3>3, <3>4, <3>5 DEF Lists
    <2>8. CASE Kind(r) \notin {"services", "mysql"}
      <3>1. kube.services = d.services /\ kube.instances = d.instances
        BY <2>1, <2>2, <2>3, <2>8 DEF IsCopy
      <3>. QED  BY <2>2, <2>4, <3>1 DEF Lists
    <2>. QED  BY <2>6, <2>7, <2>8
  <1>. QED  BY <1>2, <1>3

LEMMA StepKeepsListed ==
  ASSUME TypeInv, ListedInv, OneRequestAtATime, NamesOfKinds, PortStart <= PortEnd,
         NEW r \in Requests, Begin(r) \/ Work(r)
  PROVE  ListedInv'
  <1>1. TypeInv' /\ \A q \in Requests \ {r} : ~Busy(q) /\ req'[q] = req[q]
    BY StepKeepsType, OnlyOne DEF ListedInv
  <1>2. \A q \in Requests \ {r} : ~Busy(q)' /\ ~Working(q)'
    BY <1>1 DEF Busy, Working, InSteps
  <1>3. OneAtATime'
    BY <1>2 DEF OneAtATime
  <1>. SUFFICES ASSUME up'  PROVE (Installed => Lists(doc))' /\ (Working(r)' => Progress(r)')
    BY <1>2, <1>3 DEF ListedInv
  <1>4. up /\ (Installed => Lists(doc)) /\ (Working(r) => Progress(r))
    BY ClusterStep DEF ListedInv
  <1>5. \/ doc' = doc
        \/ doc' = Absent
        \/ Save(r) /\ doc' = req[r].kube
    BY DEF Begin, Work, Get, Delete, Wait, WaitTimeout, Create, ApiFails, CreateLost, Script, Ready,
           Undo, Playbook, Save, Teardown, RemoveDocument, StoreCall, Replaced
  <1>6. (Installed => Lists(doc))'
    <2>1. CASE doc' = Absent
      BY <2>1 DEF Installed
    <2>2. ASSUME doc' = doc, Installed  PROVE Lists(doc)'
      <3>1. PICK kube \in Configs : kube = doc
        BY <2>2 DEF TypeInv, Installed
      <3>2. Lists(kube)'
        BY <1>4, <2>2, <3>1, ListsKept
      <3>. QED  BY <2>2, <3>1, <3>2
    <2>3. CASE Save(r) /\ doc' = req[r].kube
      <3>1. PICK kube \in Configs : kube = req[r].kube
        BY DEF TypeInv, States
      <3>2. Lists(kube) /\ cluster' = cluster
        BY <1>4, <2>3, <3>1, SavedLists DEF Save, Working
      <3>3. Lists(kube)'
        BY <3>2 DEF Lists, ServiceRuns, ServiceNames, Kind
      <3>. QED  BY <2>3, <3>1, <3>3
    <2>. QED  BY <1>5, <2>1, <2>2, <2>3 DEF Installed
  <1>7. ASSUME Working(r)'  PROVE Progress(r)'
    <2>1. CASE Begin(r)
      <3>1. Kind(r) \in Resourceful /\ IsCopy(r, req[r])' /\ Behind(r, req'[r]) = {}
        BY <1>7, <2>1, BeginCopies
      <3>2. OwnRuns(r)'
        BY <3>1 DEF OwnRuns, Behind, Count, Kind
      <3>. QED  BY <3>1, <3>2 DEF Progress, Kind
    <2>2. CASE Work(r) /\ Kind(r) \in Resourceful
      <3>1. /\ Working(r) /\ doc' = doc
            /\ req'[r].index = req[r].index
            /\ req'[r].kube.services = req[r].kube.services
            /\ req'[r].kube.instances = req[r].kube.instances
            /\ PortsOf(req[r].kube.used) \subseteq PortsOf(req'[r].kube.used)
            /\ Kind(r) # "traefik" => req'[r].kube = req[r].kube /\ req'[r].port = req[r].port
        BY <1>7, <2>2, CopyKept
      <3>2. IsCopy(r, req[r]) /\ OwnRuns(r)
        BY <1>4, <2>2, <3>1 DEF Progress
      <3>3. IsCopy(r, req[r])'
        BY <3>1, <3>2 DEF IsCopy, Installed, Kind
      <3>4. OwnRuns(r)'
        <4>1. CASE Kind(r) \in {"services", "mysql"}
          BY <1>7, <2>2, <3>2, <4>1, OwnKept
        <4>2. CASE Kind(r) \notin {"services", "mysql"}
          BY <4>2 DEF OwnRuns, Kind
        <4>. QED  BY <4>1, <4>2
      <3>. QED  BY <2>2, <3>3, <3>4 DEF Progress, Kind
    <2>3. CASE Work(r) /\ Kind(r) \notin Resourceful
      <3>0. req \in [Requests -> States] /\ req[r] \in States /\ StateType(r, req[r])
        BY DEF TypeInv
      <3>1. Playbook(r) \/ Save(r) \/ Teardown(r) \/ RemoveDocument(r)
        BY <2>3, <3>0 DEF Work, Get, Delete, Wait, WaitTimeout, Create, ApiFails, CreateLost, Script, Ready, Undo,
                         StateType, InSteps
      <3>2. req'[r].pc \notin {"done", "failed", "remove"}
        BY <1>7 DEF Working, InSteps
      <3>3. req' = [req EXCEPT ![r].pc = "save", ![r].kube = FreshKube]
        BY <3>0, <3>1, <3>2, IdleState DEF Playbook, Save, Teardown, RemoveDocument, StoreCall, End, Goto, States, Pcs
      <3>4. req'[r].kube = FreshKube
        BY <3>0, <3>3 DEF States
      <3>. QED  BY <2>3, <3>4 DEF Progress, Kind
    <2>. QED  BY <2>1, <2>2, <2>3
  <1>. QED  BY <1>6, <1>7

(* What the document lists runs, for any services and datasources, ports,       *)
(* failures and lost answers (kubernetes_controller.go:252-291,               *)
(* service_provisioner.go:43-140, datasource_provisioner.go:121-201).        *)
THEOREM ListedIsRunning ==
  ASSUME OneRequestAtATime, NamesOfKinds, PortStart <= PortEnd
  PROVE  Spec => []ListedRuns
  <1>1. Init => TypeInv /\ ListedInv
    <2>. SUFFICES ASSUME Init PROVE TypeInv /\ ListedInv
      OBVIOUS
    <2>1. \A r \in Requests : req[r].pc = "idle"
      BY DEF Init, Idle
    <2>2. OneAtATime /\ \A r \in Requests : ~Working(r)
      BY <2>1 DEF OneAtATime, Busy, Working, InSteps
    <2>3. Installed => doc = FreshKube
      BY DEF Init, Installed
    <2>4. Lists(FreshKube)
      BY DEF Lists, FreshKube
    <2>. QED  BY <2>2, <2>3, <2>4, InitEstablishesTypeInv DEF ListedInv
  <1>2. TypeInv /\ ListedInv /\ [Next]_vars => (TypeInv /\ ListedInv)'
    <2>. SUFFICES ASSUME TypeInv, ListedInv, [Next]_vars PROVE TypeInv' /\ ListedInv'
      OBVIOUS
    <2>1. CASE Next
      BY <2>1, StepKeepsType, StepKeepsListed DEF Next
    <2>2. CASE UNCHANGED vars
      <3>1. (\A r \in Requests : Plan(r)' = Plan(r))
        BY <2>2 DEF vars, Plan
      <3>2. ListedInv'
        BY <2>2, <3>1 DEF vars, ListedInv, OneAtATime, Busy, Working, Installed, Lists, ServiceRuns, ServiceNames,
                   Progress, IsCopy, OwnRuns, Behind, Count, Kind
      <3>. QED  BY <2>2, <3>2, NextKeepsTypeInv
    <2>. QED  BY <2>1, <2>2
  <1>3. TypeInv /\ ListedInv => ListedRuns
    BY DEF ListedInv, Lists, ServiceRuns, ListedRuns, Parts
  <1>. QED  BY <1>1, <1>2, <1>3, PTL DEF Spec
=============================================================================
