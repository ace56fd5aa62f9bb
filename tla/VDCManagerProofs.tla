-------------------------- MODULE VDCManagerProofs --------------------------
(***************************************************************************)
(* The VDC manager, for every set of blueprints and requests and every fault. *)
(* With any number of requests in flight: the identity of a blueprint's       *)
(* deployment (the infrastructures of the data administrator and the place   *)
(* of the VDM are the only parts of the document that requests which         *)
(* overwrite each other cannot change) and the types of the variables. With   *)
(* requests one at a time: what the document says of a VDC is so in the       *)
(* cluster, and what a client was told to be done stays.                     *)
(***************************************************************************)
EXTENDS VDCManager, PortAllocatorTheorems, FiniteSetTheorems, TLAPS

(* Where a request has a copy of the document that it may write.             *)
Calling == {"read", "list", "ports", "pod", "service", "save", "store"}

Answers == {"done", "failed", "running"}

(* The document is inserted once, and the VDM goes where the list of owners   *)
(* says; no VDC is there before it.                                         *)
InfoInvariant ==
  /\ DOMAIN info = DOMAIN NewInfo
  /\ info # NoInfo => info.owners # << >>
  /\ info.vdm # NoInfra => info.vdm = DefaultInfra(info.owners)
  /\ info.vdm = NoInfra => info.vdcs = << >>

(* A copy to be inserted names owners only; one to be written back has the    *)
(* owners of the document, and either its VDM or, when this request is to     *)
(* record the VDM, none yet and no VDC.                                     *)
CopyInvariant(r) ==
  LET doc == req[r].doc
      vdm == req[r].pc \in Calling /\ req[r].product = "vdm"
  IN
  /\ DOMAIN req[r] = DOMAIN Idle /\ DOMAIN doc = DOMAIN NewInfo
  /\ req[r].pc \in {"idle", "owners"} => doc = NewInfo
  /\ req[r].pc = "insert" => doc.owners # << >> /\ doc.vdm = NoInfra /\ doc.vdcs = << >>
  /\ req[r].pc \in Calling \union {"apps"} => doc.owners = info.owners /\ info # NoInfo
  /\ vdm => doc.vdcs = << >> /\ req[r].infra = DefaultInfra(doc.owners)
  /\ req[r].pc \in Calling \union {"apps"} /\ ~vdm => doc.vdm = info.vdm /\ doc.vdm # NoInfra

IdentityInvariant ==
  /\ InfoInvariant
  /\ DOMAIN req = Requests
  /\ \A r \in Requests : CopyInvariant(r)

Identity ==
  info # NoInfo =>
    /\ info'.owners = info.owners
    /\ info.vdm # NoInfra => info'.vdm = info.vdm

OnlyOf(r) ==
  /\ DOMAIN req' = Requests
  /\ \A q \in Requests \ {r} : req'[q] = req[q]

LEMMA Shapes ==
  /\ DOMAIN NewInfo = {"owners", "vdm", "num", "vdcs"}
  /\ DOMAIN Idle = {"pc", "doc", "product", "infra", "used", "ports", "apps", "vdc"}
BY DEF NewInfo, Idle

LEMMA InitEstablishesIdentityInvariant == Init => IdentityInvariant
<1> SUFFICES ASSUME Init PROVE IdentityInvariant
  OBVIOUS
<1>1. InfoInvariant
  BY DEF Init, InfoInvariant, NoInfo, NewInfo
<1>2. ASSUME NEW r \in Requests PROVE CopyInvariant(r)
  BY DEF Init, CopyInvariant, Idle, Calling
<1> QED
  BY <1>1, <1>2 DEF Init, IdentityInvariant

(* A step that leaves the document alone keeps the copies of the others.     *)
LEMMA WithoutWriting ==
  ASSUME NEW r \in Requests, IdentityInvariant, info' = info, OnlyOf(r),
         CopyInvariant(r)'
  PROVE  IdentityInvariant' /\ Identity
<1>1. ASSUME NEW q \in Requests, q # r PROVE CopyInvariant(q)'
  BY <1>1 DEF CopyInvariant, IdentityInvariant, OnlyOf
<1> QED
  BY <1>1 DEF IdentityInvariant, InfoInvariant, OnlyOf, Identity

(* The end of a request.                                                    *)
LEMMA AnswerKeepsAnyCopy ==
  ASSUME NEW r \in Requests, NEW pc \in Answers, DOMAIN req = Requests, Answer(r, pc)
  PROVE  OnlyOf(r) /\ CopyInvariant(r)'
BY Shapes DEF Answer, Answers, OnlyOf, CopyInvariant, Calling, Idle, NewInfo

(* Going on with a call of Provision.                                       *)
LEMMA GoingOnKeepsCopy ==
  ASSUME NEW r \in Requests, IdentityInvariant, info' = info, OnlyOf(r),
         req[r].pc \in Calling, req'[r].pc \in Calling,
         DOMAIN req'[r] = DOMAIN req[r],
         req'[r].doc = req[r].doc, req'[r].product = req[r].product,
         req'[r].infra = req[r].infra
  PROVE  CopyInvariant(r)'
BY DEF IdentityInvariant, CopyInvariant, Calling

(* A request that was answered is not the writer of anything.                *)
LEMMA AnsweredStep ==
  ASSUME NEW r \in Requests, NEW pc \in Answers, IdentityInvariant, info' = info, Answer(r, pc)
  PROVE  IdentityInvariant' /\ Identity
BY AnswerKeepsAnyCopy, WithoutWriting DEF IdentityInvariant

(* The calls of the cluster and the saving of the infrastructure.            *)
LEMMA CallStep ==
  ASSUME NEW r \in Requests, IdentityInvariant,
         \/ Read(r) \/ List(r) \/ TakePort(r) \/ CreateVdcPod(r) \/ CreateVdmPod(r)
         \/ ModifyPod(r) \/ CreateSource(r) \/ RefuseDal(r) \/ ClaimForVdm(r)
         \/ CreateService(r) \/ Save(r)
  PROVE  IdentityInvariant' /\ Identity
<1> DEFINE GoesOn ==
             /\ OnlyOf(r) /\ req[r].pc \in Calling /\ req'[r].pc \in Calling
             /\ DOMAIN req'[r] = DOMAIN req[r] /\ req'[r].doc = req[r].doc
             /\ req'[r].product = req[r].product /\ req'[r].infra = req[r].infra
<1>1. info' = info
  BY DEF Read, List, TakePort, CreateVdcPod, CreateVdmPod, CreateOrUpdatePod, ModifyPod,
         CreateSource, RefuseDal, ClaimForVdm, CreateService, Save
<1>2. DOMAIN req = Requests /\ DOMAIN req[r] = DOMAIN Idle
  BY DEF IdentityInvariant, CopyInvariant
<1>3. GoesOn \/ \E pc \in Answers : Answer(r, pc)
  <2> USE <1>2, Shapes DEF OnlyOf, Calling, Answers, At, Goto
  <2>1. CASE Read(r)
    BY <2>1 DEF Read, AfterList
  <2>2. CASE List(r)
    <3> DEFINE slice == Sorted(Shown(req[r].infra))
               pc    == AfterList(req[r].product)
    <3>1. CASE req' = [req EXCEPT ![r].pc = pc, ![r].used = slice]
      <4>1. pc \in Calling /\ At(r, "list")
        BY <2>2 DEF List, AfterList
      <4> HIDE DEF slice, pc
      <4> QED
        BY <3>1, <4>1
    <3>2. CASE Answer(r, "failed")
      BY <3>2
    <3> QED
      BY <2>2, <3>1, <3>2 DEF List
  <2>3. CASE TakePort(r)
    <3>1. CASE GetNewFreePort(req[r].used) = NoPort
      BY <2>3, <3>1 DEF TakePort
    <3>2. CASE GetNewFreePort(req[r].used) # NoPort
      <4> DEFINE port  == GetNewFreePort(req[r].used)
                 ports == Append(req[r].ports, port)
                 slice == ClaimPort(req[r].used, port)
                 pc    == IF Len(req[r].ports) = 2 THEN "pod" ELSE "ports"
      <4>1. req' = [req EXCEPT ![r].ports = ports, ![r].used = slice, ![r].pc = pc]
        BY <2>3, <3>2 DEF TakePort
      <4>2. pc \in {"pod", "ports"} /\ At(r, "ports")
        BY <2>3 DEF TakePort
      <4> HIDE DEF ports, slice, pc
      <4> QED
        BY <4>1, <4>2
    <3> QED
      BY <3>1, <3>2
  <2>4. CASE CreateVdcPod(r) \/ CreateVdmPod(r)
    BY <2>4 DEF CreateVdcPod, CreateVdmPod, CreateOrUpdatePod
  <2>5. CASE ModifyPod(r) \/ CreateSource(r) \/ RefuseDal(r)
    BY <2>5 DEF ModifyPod, CreateSource, RefuseDal
  <2>6. CASE ClaimForVdm(r)
    BY <2>6 DEF ClaimForVdm
  <2>7. CASE CreateService(r) \/ Save(r)
    BY <2>7 DEF CreateService, Save
  <2> QED
    BY <2>1, <2>2, <2>3, <2>4, <2>5, <2>6, <2>7
<1>4. CASE GoesOn
  BY <1>1, <1>4, GoingOnKeepsCopy, WithoutWriting
<1>5. CASE \E pc \in Answers : Answer(r, pc)
  BY <1>1, <1>5, AnsweredStep
<1> QED
  BY <1>3, <1>4, <1>5

(* A document as it is read is a copy that may be written.                   *)
LEMMA AfterOwnersKeepsCopy ==
  ASSUME NEW r \in Requests, NEW state, DOMAIN req = Requests,
         InfoInvariant', info' # NoInfo,
         DOMAIN state = DOMAIN Idle, state.doc = info',
         req' = [req EXCEPT ![r] = AfterOwners(state)]
  PROVE  OnlyOf(r) /\ CopyInvariant(r)'
<1>1. OnlyOf(r) /\ req'[r] = AfterOwners(state)
  BY DEF OnlyOf
<1>2. CASE state.doc.vdm = NoInfra
  <2>1. /\ req'[r].pc = "read" /\ req'[r].product = "vdm"
        /\ req'[r].infra = DefaultInfra(state.doc.owners) /\ req'[r].doc = info'
        /\ DOMAIN req'[r] = DOMAIN Idle
    BY <1>1, <1>2, Shapes DEF AfterOwners
  <2> QED
    BY <1>1, <1>2, <2>1 DEF CopyInvariant, InfoInvariant, Calling
<1>3. CASE state.doc.vdm # NoInfra
  <2>1. /\ req'[r].pc = "apps" /\ req'[r].doc = info' /\ DOMAIN req'[r] = DOMAIN Idle
    BY <1>1, <1>3, Shapes DEF AfterOwners
  <2> QED
    BY <1>1, <1>3, <2>1 DEF CopyInvariant, InfoInvariant, Calling
<1> QED
  BY <1>2, <1>3

(* The first step: the document is read, or taken for missing.               *)
LEMMA BeginStep ==
  ASSUME NEW r \in Requests, IdentityInvariant, Begin(r)
  PROVE  IdentityInvariant' /\ Identity
<1>1. info' = info /\ InfoInvariant' /\ DOMAIN req = Requests /\ At(r, "idle")
  BY DEF Begin, IdentityInvariant, InfoInvariant
<1>2. CASE \E pc \in Answers : Answer(r, pc)
  BY <1>1, <1>2, AnsweredStep
<1>3. CASE Goto(r, "owners") /\ req[r].doc = NewInfo
  <2>1. OnlyOf(r) /\ CopyInvariant(r)'
    BY <1>1, <1>3, Shapes DEF Goto, OnlyOf, IdentityInvariant, CopyInvariant, Calling
  <2> QED
    BY <1>1, <2>1, WithoutWriting
<1>4. CASE info # NoInfo /\ req' = [req EXCEPT ![r] = AfterOwners([Idle EXCEPT !.doc = info])]
  <2> DEFINE state == [Idle EXCEPT !.doc = info]
  <2>1. DOMAIN state = DOMAIN Idle /\ state.doc = info' /\ info' # NoInfo
    BY <1>1, <1>4, Shapes DEF NoInfo, NewInfo
  <2>2. req' = [req EXCEPT ![r] = AfterOwners(state)]
    BY <1>4
  <2> HIDE DEF state
  <2>3. OnlyOf(r) /\ CopyInvariant(r)'
    BY <1>1, <2>1, <2>2, AfterOwnersKeepsCopy
  <2> QED
    BY <1>1, <2>3, WithoutWriting
<1>5. CASE RefuseCopy(r)
  <2>1. OnlyOf(r) /\ CopyInvariant(r)'
    BY <1>1, <1>5, Shapes DEF RefuseCopy, OnlyOf, IdentityInvariant, CopyInvariant, Calling
  <2> QED
    BY <1>1, <2>1, WithoutWriting
<1>6. CASE AcceptVdcRequest(r) /\ Job[r].kind # "blueprint"
  <2>1. info # NoInfo /\ info.vdcs # << >>
    BY <1>6 DEF AcceptVdcRequest, Acceptable, Known
  <2>2. info.vdm # NoInfra
    BY <2>1 DEF IdentityInvariant, InfoInvariant
  <2>3. Job[r].kind \in {"copy", "datasource", "dal", "newdal"}
    BY <1>6, JobAssumption
  <2>4. /\ OnlyOf(r) /\ req'[r].pc = "read" /\ req'[r].product # "vdm"
        /\ req'[r].doc = info /\ DOMAIN req'[r] = DOMAIN Idle
    BY <1>1, <1>6, <2>3, Shapes
       DEF AcceptVdcRequest, Provision, OnlyOf, IdentityInvariant, CopyInvariant
  <2>5. CopyInvariant(r)'
    BY <1>1, <2>1, <2>2, <2>4 DEF CopyInvariant, Calling, InfoInvariant
  <2> QED
    BY <1>1, <2>4, <2>5, WithoutWriting
<1>7. req[r].doc = NewInfo
  BY <1>1 DEF IdentityInvariant, CopyInvariant, At
<1> QED
  BY <1>2, <1>3, <1>4, <1>5, <1>6, <1>7
     DEF Begin, BeginBlueprint, FirstTime, NextTime, BeginVdcRequest, FailVdcRequest, Answers

(* The infrastructures of the blueprint.                                     *)
LEMMA InfrasStep ==
  ASSUME NEW r \in Requests, IdentityInvariant, CreateOwners(r) \/ CreateApps(r)
  PROVE  IdentityInvariant' /\ Identity
<1> USE DEF At
<1>1. info' = info /\ DOMAIN req = Requests /\ CopyInvariant(r)
  BY DEF CreateOwners, CreateApps, IdentityInvariant
<1>2. CASE Answer(r, "failed")
  BY <1>1, <1>2, AnsweredStep DEF Answers
<1>3. CASE CreateOwners(r) /\ ~Answer(r, "failed")
  <2>1. PICK order : order # << >> /\ req' = [req EXCEPT ![r].pc = "insert", ![r].doc.owners = order]
    BY <1>3 DEF CreateOwners
  <2>2. req[r].doc = NewInfo /\ DOMAIN req[r] = DOMAIN Idle
    BY <1>1, <1>3 DEF CreateOwners, CopyInvariant
  <2>3. /\ DOMAIN req'[r] = DOMAIN Idle /\ req'[r].pc = "insert"
        /\ req'[r].doc = [NewInfo EXCEPT !.owners = order]
    BY <1>1, <2>1, <2>2, Shapes
  <2>4. OnlyOf(r)
    BY <1>1, <2>1 DEF OnlyOf
  <2>5. /\ DOMAIN req'[r].doc = DOMAIN NewInfo /\ req'[r].doc.owners = order
        /\ req'[r].doc.vdm = NoInfra /\ req'[r].doc.vdcs = << >>
    BY <2>3 DEF NewInfo
  <2>6. CopyInvariant(r)'
    BY <2>1, <2>3, <2>5 DEF CopyInvariant, Calling
  <2> QED
    BY <1>1, <2>4, <2>6, WithoutWriting
<1>4. CASE CreateApps(r) /\ ~Answer(r, "failed")
  <2>1. PICK apps : DeployVDC(r, apps)
    BY <1>4 DEF CreateApps
  <2>2. req[r].pc = "apps" /\ DOMAIN req[r] = DOMAIN Idle
    BY <1>1, <1>4 DEF CreateApps, CopyInvariant
  <2>3. /\ OnlyOf(r)
        /\ DOMAIN req'[r] = DOMAIN Idle /\ req'[r].pc = "read"
        /\ req'[r].product = "vdc" /\ req'[r].doc = req[r].doc
    BY <1>1, <2>1, <2>2, Shapes DEF DeployVDC, Provision, OnlyOf
  <2>4. CopyInvariant(r)'
    BY <1>1, <2>2, <2>3 DEF CopyInvariant, Calling
  <2> QED
    BY <1>1, <2>3, <2>4, WithoutWriting
<1> QED
  BY <1>2, <1>3, <1>4

(* Only a document that is new is inserted, and then no other request has a   *)
(* copy to write.                                                           *)
LEMMA InsertStep ==
  ASSUME NEW r \in Requests, IdentityInvariant, Insert(r)
  PROVE  IdentityInvariant' /\ Identity
<1>1. DOMAIN req = Requests /\ CopyInvariant(r) /\ At(r, "insert")
  BY DEF Insert, IdentityInvariant
<1>2. CASE info' = info /\ Answer(r, "failed")
  BY <1>2, AnsweredStep DEF Answers
<1>3. CASE info = NoInfo /\ info' = req[r].doc
  <2>1. /\ DOMAIN info' = DOMAIN NewInfo /\ info'.owners # << >>
        /\ info'.vdm = NoInfra /\ info'.vdcs = << >>
    BY <1>1, <1>3 DEF CopyInvariant, At
  <2>2. InfoInvariant' /\ info' # NoInfo
    BY <2>1 DEF InfoInvariant, NoInfo, NewInfo
  <2>3. ASSUME NEW q \in Requests PROVE req[q].pc \notin Calling \union {"apps"}
    BY <1>3 DEF IdentityInvariant, CopyInvariant
  <2>4. OnlyOf(r) /\ CopyInvariant(r)'
    <3>1. CASE Answer(r, "failed")
      BY <3>1, AnswerKeepsAnyCopy, <1>1 DEF Answers
    <3>2. CASE req' = [req EXCEPT ![r] = AfterOwners(req[r])]
      BY <1>1, <1>3, <2>2, <3>2, AfterOwnersKeepsCopy DEF CopyInvariant
    <3> QED
      BY <3>1, <3>2 DEF Insert
  <2>5. ASSUME NEW q \in Requests, q # r PROVE CopyInvariant(q)'
    BY <2>3, <2>4, <2>5 DEF CopyInvariant, IdentityInvariant, OnlyOf
  <2>6. IdentityInvariant'
    BY <2>2, <2>4, <2>5 DEF IdentityInvariant, OnlyOf
  <2> QED
    BY <1>3, <2>6 DEF Identity
<1> QED
  BY <1>2, <1>3 DEF Insert, Inserted

(* What a request writes back has the owners it read, and the VDM it read     *)
(* unless it brings the VDM.                                                *)
LEMMA ResultKeepsIdentity ==
  ASSUME NEW r \in Requests, DOMAIN req[r].doc = DOMAIN NewInfo
  PROVE  /\ DOMAIN Result(r) = DOMAIN NewInfo /\ Result(r).owners = req[r].doc.owners
         /\ IF req[r].product = "vdm"
              THEN Result(r).vdm = req[r].infra /\ Result(r).vdcs = req[r].doc.vdcs
              ELSE Result(r).vdm = req[r].doc.vdm
<1> DEFINE doc == req[r].doc
<1>1. CASE req[r].product = "vdm"
  <2>1. Result(r) = [doc EXCEPT !.vdm = req[r].infra]
    BY <1>1 DEF Result
  <2> QED
    BY <1>1, <2>1, Shapes
<1>2. CASE req[r].product = "dal"
  <2> DEFINE new == InUse(r)
  <2>1. Result(r) = [doc EXCEPT !.vdcs[req[r].vdc].inUse = new]
    BY <1>2 DEF Result
  <2> HIDE DEF new
  <2> QED
    BY <1>2, <2>1, Shapes
<1>3. CASE req[r].product = "datasource"
  <2> DEFINE infras == doc.vdcs[req[r].vdc].infras
             i      == req[r].infra
             entry  == IF i \in DOMAIN infras THEN infras[i] ELSE NewEntry({})
             new    == Put(infras, i, [entry EXCEPT !.sources = @ \union {Job[r].id}])
  <2>1. Result(r) = [doc EXCEPT !.vdcs[req[r].vdc].infras = new]
    BY <1>3 DEF Result, WithSource
  <2> HIDE DEF new
  <2> QED
    BY <1>3, <2>1, Shapes
<1>4. CASE req[r].product = "vdc" /\ Job[r].kind = "copy"
  <2> DEFINE new == Put(doc.vdcs[req[r].vdc].infras, req[r].infra, NewEntry(RecordedPorts(r)))
  <2>1. Result(r) = [doc EXCEPT !.vdcs[req[r].vdc].infras = new]
    BY <1>4 DEF Result, WithCopy
  <2> HIDE DEF new
  <2> QED
    BY <1>4, <2>1, Shapes
<1>5. CASE /\ req[r].product \notin {"vdm", "dal", "datasource"}
           /\ ~ (req[r].product = "vdc" /\ Job[r].kind = "copy")
  <2> DEFINE entry == [infras |-> [i \in {req[r].infra} |-> NewEntry(RecordedPorts(r))],
                       apps |-> req[r].apps, inUse |-> << >>]
             new   == Put(doc.vdcs, req[r].vdc, entry)
             num   == doc.num + 1
  <2>1. Result(r) = [doc EXCEPT !.num = num, !.vdcs = new]
    BY <1>5 DEF Result, WithVdc
  <2> HIDE DEF new, num
  <2> QED
    BY <1>5, <2>1, Shapes
<1> QED
  BY <1>1, <1>2, <1>3, <1>4, <1>5

LEMMA StoreStep ==
  ASSUME NEW r \in Requests, IdentityInvariant, Store(r)
  PROVE  IdentityInvariant' /\ Identity
<1> DEFINE doc == req[r].doc
<1>1. DOMAIN req = Requests /\ CopyInvariant(r) /\ req[r].pc = "store" /\ InfoInvariant
  BY DEF Store, IdentityInvariant, At
<1>2. /\ DOMAIN req[r] = DOMAIN Idle /\ DOMAIN doc = DOMAIN NewInfo
      /\ doc.owners = info.owners /\ info # NoInfo
      /\ req[r].product = "vdm" => doc.vdcs = << >> /\ req[r].infra = DefaultInfra(doc.owners)
      /\ req[r].product # "vdm" => doc.vdm = info.vdm /\ doc.vdm # NoInfra
  BY <1>1 DEF CopyInvariant, Calling
<1>3. CASE info' = info /\ Answer(r, "failed")
  BY <1>3, AnsweredStep DEF Answers
<1>4. CASE info' = Result(r)
  <2>1. DOMAIN info' = DOMAIN NewInfo /\ info'.owners = info.owners /\ info'.owners # << >>
    BY <1>1, <1>2, <1>4, ResultKeepsIdentity DEF InfoInvariant
  <2>2. IF req[r].product = "vdm"
          THEN info'.vdm = DefaultInfra(info.owners) /\ info'.vdcs = << >>
          ELSE info'.vdm = info.vdm /\ info'.vdm # NoInfra
    BY <1>2, <1>4, ResultKeepsIdentity
  <2>3. info.vdm # NoInfra => info'.vdm = info.vdm
    BY <1>1, <2>2 DEF InfoInvariant
  <2>4. InfoInvariant' /\ info' # NoInfo
    BY <1>1, <2>1, <2>2 DEF InfoInvariant, NoInfo, NewInfo
  <2>5. OnlyOf(r) /\ CopyInvariant(r)'
    <3>1. CASE \E pc \in Answers : Answer(r, pc)
      BY <1>1, <3>1, AnswerKeepsAnyCopy
    <3>2. CASE req' = [req EXCEPT ![r] = AfterOwners([Idle EXCEPT !.doc = Result(r)])]
      <4> DEFINE state == [Idle EXCEPT !.doc = Result(r)]
      <4>1. DOMAIN state = DOMAIN Idle /\ state.doc = info'
        BY <1>4, Shapes
      <4>2. req' = [req EXCEPT ![r] = AfterOwners(state)]
        BY <3>2
      <4> HIDE DEF state
      <4> QED
        BY <1>1, <2>4, <4>1, <4>2, AfterOwnersKeepsCopy
    <3> QED
      BY <3>1, <3>2 DEF Store, Answers
  <2>6. ASSUME NEW q \in Requests, q # r PROVE CopyInvariant(q)'
    <3>1. req'[q] = req[q] /\ CopyInvariant(q)
      BY <2>5, <2>6 DEF OnlyOf, IdentityInvariant
    <3> QED
      BY <2>1, <2>3, <2>4, <3>1 DEF CopyInvariant
  <2>7. IdentityInvariant'
    BY <2>4, <2>5, <2>6 DEF IdentityInvariant, OnlyOf
  <2> QED
    BY <2>1, <2>3, <2>7 DEF Identity
<1> QED
  BY <1>3, <1>4 DEF Store

LEMMA StepKeepsIdentity ==
  IdentityInvariant /\ [Next]_vars => IdentityInvariant' /\ Identity
<1> SUFFICES ASSUME IdentityInvariant, [Next]_vars PROVE IdentityInvariant' /\ Identity
  OBVIOUS
<1>1. CASE UNCHANGED vars
  BY <1>1 DEF vars, IdentityInvariant, InfoInvariant, CopyInvariant, Identity
<1>2. CASE Next
  <2>1. PICK r \in Requests : Begin(r) \/ Work(r)
    BY <1>2 DEF Next
  <2>2. CASE Begin(r)
    BY <2>2, BeginStep
  <2>3. CASE CreateOwners(r) \/ CreateApps(r)
    BY <2>3, InfrasStep
  <2>4. CASE Insert(r)
    BY <2>4, InsertStep
  <2>5. CASE Store(r)
    BY <2>5, StoreStep
  <2> QED
    BY <2>1, <2>2, <2>3, <2>4, <2>5, CallStep DEF Work
<1> QED
  BY <1>1, <1>2

(* The owners' infrastructures and the VDM of a blueprint never change once   *)
(* they are recorded (ditas/vdcmanager.go:255, 277-283).                      *)
THEOREM BlueprintKeepsIdentity == Spec => IdentityStays
<1>1. IdentityInvariant /\ [Next]_vars => [Identity]_vars
  BY StepKeepsIdentity
<1> QED
  BY <1>1, InitEstablishesIdentityInvariant, StepKeepsIdentity, PTL
     DEF Spec, IdentityStays, Identity

-----------------------------------------------------------------------------
(* The types, for any number of requests in flight. The ports of a cluster     *)
(* lie in the range that is reserved in it: by default the range is that of   *)
(* all NodePorts (provision/kubernetes/kubernetes_controller.go:37-47).       *)
PortsInRange == PortStart <= PortEnd /\ Foreign \union Hidden \subseteq PortStart..PortEnd

Slices == {s \in Seq(PortStart..PortEnd) : StrictlyIncreasing(s)}

Pcs == Calling \union Answers \union {"idle", "owners", "insert", "apps"}

ForBlueprint(r) == Job[r].kind = "blueprint"
ForVdm(r)       == req[r].pc \in Calling /\ req[r].product = "vdm"

(* The infrastructures that a request has not created yet.                   *)
Fresh(r) ==
  IF ~ForBlueprint(r) THEN {}
  ELSE IF req[r].pc \in {"idle", "owners"} THEN Job[r].owners \union Job[r].apps
  ELSE IF req[r].pc \in {"insert", "apps"} \/ ForVdm(r) THEN Job[r].apps
  ELSE {}

(* Those with Kubernetes, or without a document, which nobody will create     *)
(* again.                                                                   *)
Ready ==
  {i \in Infras : used[i] \in Slices \union {NotThere} /\ \A q \in Requests : i \notin Fresh(q)}

(* What nobody takes from them.                                              *)
UsedStays ==
  \A i \in Ready : /\ used'[i] \in Slices \union {NotThere}
                   /\ used[i] \in Slices => used'[i] \in Slices

(* A document of the blueprint that names infrastructures of S only.         *)
VdcType(vdc, S) ==
  /\ DOMAIN vdc = {"infras", "apps", "inUse"} /\ vdc.apps \in Seq(S)
  /\ DOMAIN vdc.infras \subseteq S
  /\ \A i \in DOMAIN vdc.infras : DOMAIN vdc.infras[i] = {"ports", "sources"}
DocType(doc, S) ==
  /\ DOMAIN doc = DOMAIN NewInfo /\ doc.owners \in Seq(S) /\ doc.num \in Nat
  /\ DOMAIN doc.vdcs \subseteq Nat
  /\ \A n \in DOMAIN doc.vdcs : VdcType(doc.vdcs[n], S)

(* What a call of Provision is about.                                        *)
CallType(r) ==
  /\ req[r].infra \in Ready /\ req[r].doc.owners # << >>
  /\ req[r].pc # "read" => used[req[r].infra] \in Slices
  /\ req[r].product \in {"vdm", "vdc", "datasource", "dal", "newdal"}
  /\ req[r].product = "vdm" => ForBlueprint(r)
  /\ req[r].product = "vdc" => ForBlueprint(r) \/ Job[r].kind = "copy"
  /\ req[r].product \notin {"vdm", "vdc"} => req[r].product = Job[r].kind
  /\ req[r].product # "vdm" /\ ~ForBlueprint(r) => req[r].vdc \in DOMAIN req[r].doc.vdcs
  /\ req[r].pc = "list" => req[r].product \in {"vdc", "vdm"}
  /\ req[r].pc = "ports" => req[r].product = "vdc"
  /\ req[r].pc = "service" => req[r].product \in {"vdc", "vdm"}
  /\ req[r].product = "newdal" => req[r].pc \in {"read", "pod"}

RequestType(r) ==
  /\ DOMAIN req[r] = DOMAIN Idle /\ req[r].pc \in Pcs
  /\ DocType(req[r].doc, Ready)
  /\ req[r].infra \in Infras \union {NoInfra}
  /\ req[r].used \in Slices
  /\ req[r].ports \in Seq(PortStart..PortEnd)
  /\ req[r].apps \in Seq(Ready)
  /\ req[r].vdc \in Nat
  /\ req[r].pc \in {"owners", "insert", "apps"} => ForBlueprint(r)
  /\ req[r].pc = "apps" => req[r].doc.owners # << >>
  /\ req[r].pc \in Calling => CallType(r)

(* A Deployment of a VDC names at least the DALs that have an address.        *)
PodType(i, name, pod) ==
  DOMAIN pod = {"vdm", "dals"} /\ (name # VdmName => WithAddress[i] \subseteq DOMAIN pod.dals)

ClusterType ==
  /\ DOMAIN services = Infras /\ DOMAIN pods = Infras
  /\ \A i \in Infras : \A m \in DOMAIN services[i] : services[i][m] \subseteq PortStart..PortEnd
  /\ \A i \in Infras : \A m \in DOMAIN pods[i] : PodType(i, m, pods[i][m])

UsedType == DOMAIN used = Infras /\ \A i \in Infras : used[i] \in {NotThere, Bare} \union Slices

TypeInv ==
  /\ DocType(info, Ready) /\ (info = NoInfo \/ info.owners # << >>)
  /\ UsedType /\ ClusterType
  /\ DOMAIN req = Requests /\ \A r \in Requests : RequestType(r)
  /\ faults \in 0..MaxFaults

(* The ports of a listing, sorted, are a slice: the rank of a port among them *)
(* is its position.                                                         *)
LEMMA SortedIsSlice ==
  ASSUME NEW S \in SUBSET (PortStart..PortEnd)
  PROVE  Sorted(S) \in Slices /\ PortsOf(Sorted(S)) = S
<1> DEFINE Below(p) == {x \in S : x < p}
           rank == [p \in S |-> Cardinality(Below(p))]
           N    == Cardinality(S)
           s    == Sorted(S)
<1>1. PortStart \in Int /\ PortEnd \in Int
  BY RangeIsNatural
<1>2. IsFiniteSet(S) /\ N \in Nat /\ N = Cardinality(S)
  BY <1>1, FS_Interval, FS_Subset, FS_CardinalityType
<1>3. ASSUME NEW p \in S
      PROVE  IsFiniteSet(Below(p)) /\ rank[p] = Cardinality(Below(p)) /\ rank[p] \in 0..N - 1
  <2>1. IsFiniteSet(S \ {p}) /\ Cardinality(S \ {p}) = N - 1
    BY <1>2, FS_RemoveElement
  <2>2. Below(p) \in SUBSET (S \ {p})
    BY <1>1
  <2>3. IsFiniteSet(Below(p)) /\ Cardinality(Below(p)) <= N - 1
    BY <2>1, <2>2, FS_Subset
  <2>4. Cardinality(Below(p)) \in Nat
    BY <2>3, FS_CardinalityType
  <2> QED
    BY <1>2, <2>3, <2>4
<1>4. rank \in [S -> 0..N - 1] /\ \A p \in S : p \in Int /\ rank[p] \in Int
  BY <1>1, <1>2, <1>3
<1>5. ASSUME NEW i \in 1..N, NEW p \in S, rank[p] = i - 1
      PROVE  s[i] \in S /\ rank[s[i]] = i - 1
  <2>1. s[i] = CHOOSE q \in S : Cardinality(Below(q)) = i - 1
    BY DEF Sorted
  <2>2. Cardinality(Below(p)) = i - 1
    BY <1>3, <1>5
  <2>3. s[i] \in S /\ Cardinality(Below(s[i])) = i - 1
    BY <2>1, <2>2
  <2> QED
    BY <1>3, <2>3
<1>6. s \in [1..N -> S] <=> \A i \in 1..N : s[i] \in S
  BY DEF Sorted
<1>7. ASSUME NEW p \in S, NEW q \in S, p < q PROVE rank[p] < rank[q]
  <2> DEFINE B == Below(q)
             T == B \ {p}
  <2>1. IsFiniteSet(B)
    BY <1>3
  <2>2. p \in B
    BY <1>7
  <2>3. ASSUME NEW x \in Below(p) PROVE x \in T
    <3>1. x \in S /\ x < p
      OBVIOUS
    <3>2. x \in Int /\ p \in Int /\ q \in Int
      BY <1>4, <3>1
    <3>3. x < q /\ x # p
      BY <1>7, <3>1, <3>2
    <3> QED
      BY <3>1, <3>3
  <2> HIDE DEF B
  <2>4. IsFiniteSet(T) /\ Cardinality(T) = Cardinality(B) - 1
    BY <2>1, <2>2, FS_RemoveElement
  <2> HIDE DEF T
  <2>5. Cardinality(Below(p)) <= Cardinality(T)
    <3>1. Below(p) \in SUBSET T
      BY <2>3
    <3> QED
      BY <2>4, <3>1, FS_Subset
  <2>6. rank[p] <= rank[q] - 1
    BY <1>3, <2>4, <2>5 DEF B
  <2> QED
    BY <1>4, <2>6
<1> HIDE DEF rank, s, N, Below
<1>8. ASSUME NEW p \in S, NEW q \in S, rank[p] = rank[q] PROVE p = q
  <2>1. ~ (p < q) /\ ~ (q < p)
    BY <1>4, <1>7, <1>8
  <2> QED
    BY <1>4, <2>1
<1>9. rank \in Surjection(S, 0..N - 1)
  <2>1. rank \in Injection(S, 0..N - 1)
    BY <1>4, <1>8 DEF Injection, IsInjective
  <2>2. IsFiniteSet(0..N - 1) /\ Cardinality(0..N - 1) = N
    <3>1. 0 \in Int /\ N - 1 \in Int
      BY <1>2
    <3>2. /\ IsFiniteSet(0..N - 1)
          /\ Cardinality(0..N - 1) = IF 0 > N - 1 THEN 0 ELSE (N - 1) - 0 + 1
      BY <3>1, FS_Interval
    <3> QED
      BY <1>2, <3>2
  <2> QED
    BY <1>2, <2>1, <2>2, FS_Injection
<1>10. ASSUME NEW i \in 1..N PROVE s[i] \in S /\ rank[s[i]] = i - 1
  <2>1. i - 1 \in 0..N - 1
    BY <1>2
  <2>2. PICK p \in S : rank[p] = i - 1
    BY <1>9, <2>1 DEF Surjection
  <2> QED
    BY <1>5, <2>2
<1>11. s \in [1..N -> S]
  BY <1>6, <1>10
<1>12. s \in Seq(S) /\ Len(s) = N
  BY <1>2, <1>11
<1>13. s \in Seq(PortStart..PortEnd)
  BY <1>12, SeqMonotonic
<1>14. ASSUME NEW i \in 1..N, NEW j \in 1..N, i < j PROVE s[i] < s[j]
  <2>1. s[i] \in S /\ s[j] \in S /\ rank[s[i]] = i - 1 /\ rank[s[j]] = j - 1
    BY <1>10
  <2>2. i \in Int /\ j \in Int
    BY <1>2
  <2>3. ~ (rank[s[j]] < rank[s[i]]) /\ rank[s[i]] # rank[s[j]]
    BY <1>14, <2>1, <2>2
  <2>4. ~ (s[j] < s[i]) /\ s[i] # s[j]
    BY <1>7, <2>1, <2>3
  <2>5. s[i] \in Int /\ s[j] \in Int
    BY <1>4, <2>1
  <2> QED
    BY <2>4, <2>5
<1>15. ASSUME NEW p \in S PROVE p \in PortsOf(s)
  <2>1. PICK i \in 1..N : rank[p] = i - 1
    <3>1. rank[p] \in 0..N - 1
      BY <1>4
    <3>2. rank[p] + 1 \in 1..N /\ rank[p] = (rank[p] + 1) - 1
      BY <1>2, <3>1
    <3> QED
      BY <3>2
  <2>2. s[i] = p
    BY <1>8, <1>10, <2>1
  <2> QED
    BY <1>12, <2>2 DEF PortsOf
<1>16. PortsOf(s) \subseteq S
  BY <1>10, <1>12 DEF PortsOf
<1> QED
  BY <1>12, <1>13, <1>14, <1>15, <1>16 DEF Slices, StrictlyIncreasing, s

(* The infrastructure a VDM or VDC goes to is one of the list.               *)
LEMMA DefaultIsListed ==
  ASSUME NEW S, NEW list \in Seq(S), list # << >>
  PROVE  DefaultInfra(list) \in S
<1> DEFINE flagged == {j \in 1..Len(list) : list[j] \in Default}
           pick    == IF flagged # {} THEN Min(flagged) ELSE Len(list)
<1>1. Len(list) \in Nat \ {0}
  BY EmptySeq
<1>2. pick \in 1..Len(list)
  <2>1. CASE flagged = {}
    BY <1>1, <2>1
  <2>2. CASE flagged # {}
    <3>1. flagged \subseteq Nat
      BY <1>1
    <3>2. \E x \in flagged : \A y \in flagged : x <= y
      BY <2>2, <3>1, LeastNatural
    <3>3. Min(flagged) \in flagged
      BY <3>2 DEF Min
    <3> QED
      BY <2>2, <3>3
  <2> QED
    BY <2>1, <2>2
<1>3. DefaultInfra(list) = list[pick]
  BY DEF DefaultInfra
<1> QED
  BY <1>2, <1>3, ElementOfSeq

LEMMA OrderIsSequence ==
  ASSUME NEW infras \in SUBSET Infras, NEW order \in SetToSeqs(infras)
  PROVE  order \in Seq(infras)
<1>1. Cardinality(infras) \in Nat
  BY InfrasAssumption, FS_Subset, FS_CardinalityType
<1>2. order \in [1..Cardinality(infras) -> infras]
  BY DEF SetToSeqs
<1> QED
  BY <1>1, <1>2

(* What names infrastructures of a set names infrastructures of a larger one. *)
LEMMA DocGrows ==
  ASSUME NEW doc, NEW S, NEW T, S \subseteq T, DocType(doc, S)
  PROVE  DocType(doc, T)
<1>1. doc.owners \in Seq(T)
  BY SeqMonotonic DEF DocType
<1>2. ASSUME NEW n \in DOMAIN doc.vdcs PROVE VdcType(doc.vdcs[n], T)
  <2>1. VdcType(doc.vdcs[n], S)
    BY <1>2 DEF DocType
  <2>2. doc.vdcs[n].apps \in Seq(T)
    BY <2>1, SeqMonotonic DEF VdcType
  <2> QED
    BY <2>1, <2>2 DEF VdcType
<1> QED
  BY <1>1, <1>2 DEF DocType

LEMMA NewInfoHasType == \A S : DocType(NewInfo, S)
<1> SUFFICES ASSUME NEW S PROVE DocType(NewInfo, S)
  OBVIOUS
<1>1. << >> \in Seq(S) /\ DOMAIN << >> = {}
  BY EmptySeq
<1> QED
  BY <1>1 DEF DocType, NewInfo

(* What a step of one request leaves of the types of the others, if it takes   *)
(* no infrastructure away.                                                   *)
Frame(r) ==
  /\ OnlyOf(r) /\ Fresh(r)' \subseteq Fresh(r)
  /\ UsedType' /\ UsedStays
  /\ ClusterType'
  /\ DocType(info', Ready) /\ (info' = NoInfo \/ info'.owners # << >>)
  /\ faults' \in 0..MaxFaults

LEMMA ReadyGrows ==
  ASSUME NEW r \in Requests, TypeInv, Frame(r)
  PROVE  Ready \subseteq Ready'
<1>1. ASSUME NEW q \in Requests PROVE Fresh(q)' \subseteq Fresh(q)
  <2>1. CASE q = r
    BY <2>1 DEF Frame
  <2>2. CASE q # r
    BY <2>2 DEF Frame, OnlyOf, Fresh, ForVdm
  <2> QED
    BY <2>1, <2>2
<1> QED
  BY <1>1 DEF Ready, Frame, UsedStays

LEMMA OthersKeepTypes ==
  ASSUME NEW q \in Requests, RequestType(q), req'[q] = req[q], Ready \subseteq Ready', UsedStays
  PROVE  RequestType(q)'
<1>1. DocType(req[q].doc, Ready')
  BY DocGrows DEF RequestType
<1>2. req[q].apps \in Seq(Ready')
  BY SeqMonotonic DEF RequestType
<1> QED
  BY <1>1, <1>2 DEF RequestType, CallType, UsedStays

LEMMA FrameKeepsTypes ==
  ASSUME NEW r \in Requests, TypeInv, Frame(r),
         Ready \subseteq Ready' => RequestType(r)'
  PROVE  TypeInv'
<1>1. Ready \subseteq Ready'
  BY ReadyGrows
<1>2. ASSUME NEW q \in Requests PROVE RequestType(q)'
  <2>1. CASE q = r
    BY <1>1, <2>1
  <2>2. CASE q # r
    BY <1>1, <2>2, OthersKeepTypes DEF Frame, OnlyOf, TypeInv
  <2> QED
    BY <2>1, <2>2
<1>3. DocType(info', Ready')
  BY <1>1, DocGrows DEF Frame
<1> QED
  BY <1>2, <1>3 DEF TypeInv, Frame, OnlyOf

(* A request that is answered knows no more than where it was.               *)
LEMMA AnswerHasType ==
  ASSUME NEW r \in Requests, NEW pc \in Answers, TypeInv, Answer(r, pc)
  PROVE  /\ OnlyOf(r) /\ Fresh(r)' = {} /\ RequestType(r)'
         /\ req'[r].pc = pc /\ req'[r].infra = req[r].infra /\ req'[r].vdc = req[r].vdc
<1>1. DOMAIN req = Requests /\ RequestType(r)
  BY DEF TypeInv
<1>2. req'[r] = [Idle EXCEPT !.pc = pc, !.infra = req[r].infra, !.vdc = req[r].vdc]
  BY <1>1 DEF Answer
<1>3. OnlyOf(r)
  BY <1>1 DEF Answer, OnlyOf
<1>4. /\ DOMAIN req'[r] = DOMAIN Idle /\ req'[r].pc = pc /\ req'[r].infra = req[r].infra
      /\ req'[r].vdc = req[r].vdc /\ req'[r].doc = NewInfo /\ req'[r].used = << >>
      /\ req'[r].ports = << >> /\ req'[r].apps = << >>
  BY <1>2, Shapes DEF Idle
<1>5. << >> \in Slices /\ << >> \in Seq(PortStart..PortEnd) /\ << >> \in Seq(Ready')
  BY EmptySeq DEF Slices, StrictlyIncreasing
<1>6. pc \in Pcs /\ pc \notin Calling \union {"idle", "owners", "insert", "apps"}
  BY DEF Pcs, Answers, Calling
<1>7. Fresh(r)' = {}
  BY <1>4, <1>6 DEF Fresh, ForVdm
<1>8. DocType(req'[r].doc, Ready')
  BY <1>4, NewInfoHasType
<1>9. RequestType(r)'
  BY <1>1, <1>4, <1>5, <1>6, <1>8 DEF RequestType
<1> QED
  BY <1>3, <1>4, <1>7, <1>9

LEMMA FaultsStayBounded ==
  ASSUME faults \in 0..MaxFaults,
         \/ Works \/ Fails("store") \/ Fails("cluster") \/ Fails("provider")
         \/ Loses("store") \/ Loses("cluster")
  PROVE  faults' \in 0..MaxFaults
BY BoundAssumption DEF Works, Fails, Loses

(* A call of Provision that goes on.                                         *)
Continues(r) ==
  /\ OnlyOf(r) /\ req[r].pc \in Calling /\ req'[r].pc \in Calling
  /\ DOMAIN req'[r] = DOMAIN req[r] /\ req'[r].doc = req[r].doc
  /\ req'[r].product = req[r].product /\ req'[r].infra = req[r].infra
  /\ req'[r].apps = req[r].apps /\ req'[r].vdc = req[r].vdc
  /\ req'[r].used \in Slices /\ req'[r].ports \in Seq(PortStart..PortEnd)
  /\ req'[r].pc = "list" => req[r].product \in {"vdc", "vdm"}
  /\ req'[r].pc = "ports" => req[r].product = "vdc"
  /\ req'[r].pc = "service" => req[r].product \in {"vdc", "vdm"}
  /\ req[r].product = "newdal" => req'[r].pc = "pod"
  /\ used[req[r].infra] \in Slices

LEMMA CallKeepsTypes ==
  ASSUME NEW r \in Requests, TypeInv,
         Continues(r) \/ \E pc \in Answers : Answer(r, pc),
         UsedType', UsedStays, ClusterType',
         DocType(info', Ready), info' = NoInfo \/ info'.owners # << >>,
         faults' \in 0..MaxFaults
  PROVE  TypeInv'
<1>1. CASE Continues(r)
  <2>1. RequestType(r) /\ Fresh(r)' = Fresh(r)
    BY <1>1 DEF TypeInv, Continues, Fresh, ForVdm, Calling
  <2>2. Frame(r)
    BY <1>1, <2>1 DEF Frame, Continues
  <2>3. ASSUME Ready \subseteq Ready' PROVE RequestType(r)'
    <3>1. DocType(req'[r].doc, Ready')
      BY <1>1, <2>1, <2>3, DocGrows DEF RequestType, Continues
    <3>2. req'[r].apps \in Seq(Ready')
      BY <1>1, <2>1, <2>3, SeqMonotonic DEF RequestType, Continues
    <3>3. CallType(r)'
      BY <1>1, <2>1, <2>3 DEF RequestType, CallType, Continues, UsedStays
    <3>4. req'[r].pc \in Pcs /\ req'[r].pc \notin {"owners", "insert", "apps"}
      BY <1>1 DEF Continues, Calling, Pcs
    <3> QED
      BY <1>1, <2>1, <3>1, <3>2, <3>3, <3>4 DEF RequestType, Continues
  <2> QED
    BY <2>2, <2>3, FrameKeepsTypes
<1>2. CASE \E pc \in Answers : Answer(r, pc)
  <2>1. OnlyOf(r) /\ Fresh(r)' = {} /\ RequestType(r)'
    BY <1>2, AnswerHasType
  <2>2. Frame(r)
    BY <2>1 DEF Frame
  <2> QED
    BY <2>1, <2>2, FrameKeepsTypes
<1> QED
  BY <1>1, <1>2

(* The infrastructure is read, its Services listed, and ports are taken.     *)
LEMMA ReadContinues ==
  ASSUME NEW r \in Requests, TypeInv, Read(r)
  PROVE  Continues(r) \/ Answer(r, "failed")
<1> DEFINE pc == IF req[r].infra \in Existing /\ req[r].product \in {"vdc", "vdm"}
                   THEN "list" ELSE AfterList(req[r].product)
<1>1. RequestType(r) /\ DOMAIN req = Requests /\ req[r].pc = "read" /\ CallType(r)
  BY DEF TypeInv, RequestType, Read, At, Calling
<1>2. /\ pc \in {"list", "ports", "pod"}
      /\ pc = "list" => req[r].product \in {"vdc", "vdm"}
      /\ pc = "ports" => req[r].product = "vdc"
  BY DEF AfterList
<1>3. used[req[r].infra] # NotThere => used[req[r].infra] \in Slices
  BY <1>1 DEF CallType, Ready
<1>4. CASE /\ req' = [req EXCEPT ![r].pc = pc, ![r].used = used[req[r].infra]]
           /\ used[req[r].infra] # NotThere
  <2> HIDE DEF pc
  <2> QED
    BY <1>1, <1>2, <1>3, <1>4, Shapes DEF Continues, OnlyOf, RequestType, CallType, Calling
<1> QED
  BY <1>4 DEF Read

LEMMA ListContinues ==
  ASSUME NEW r \in Requests, TypeInv, List(r)
  PROVE  Continues(r) \/ Answer(r, "failed")
<1> DEFINE pc   == AfterList(req[r].product)
           list == Shown(req[r].infra)
           slice == Sorted(list)
<1>1. RequestType(r) /\ DOMAIN req = Requests /\ req[r].pc = "list" /\ CallType(r)
  BY DEF TypeInv, RequestType, List, At, Calling
<1>2. pc \in {"ports", "pod"} /\ (pc = "ports" => req[r].product = "vdc")
  BY DEF AfterList
<1>3. list \in SUBSET (PortStart..PortEnd)
  BY <1>1 DEF TypeInv, ClusterType, CallType, Ready, Shown
<1>4. slice \in Slices
  <2> HIDE DEF list
  <2> QED
    BY <1>3, SortedIsSlice
<1>5. CASE req' = [req EXCEPT ![r].pc = pc, ![r].used = slice]
  <2> HIDE DEF pc, slice
  <2> QED
    BY <1>1, <1>2, <1>4, <1>5, Shapes DEF Continues, OnlyOf, RequestType, CallType, Calling
<1> QED
  BY <1>5 DEF List

LEMMA TakePortContinues ==
  ASSUME NEW r \in Requests, TypeInv, TakePort(r), PortsInRange
  PROVE  Continues(r) \/ Answer(r, "failed")
<1> DEFINE slice == req[r].used
           port  == GetNewFreePort(slice)
           taken == ClaimPort(slice, port)
           ports == Append(req[r].ports, port)
           pc    == IF Len(req[r].ports) = 2 THEN "pod" ELSE "ports"
<1>1. RequestType(r) /\ DOMAIN req = Requests /\ req[r].pc = "ports" /\ CallType(r)
  BY DEF TypeInv, RequestType, TakePort, At, Calling
<1>2. pc \in {"ports", "pod"} /\ req[r].product = "vdc"
  BY <1>1 DEF CallType
<1>3. slice \in Seq(PortStart..PortEnd) /\ StrictlyIncreasing(slice)
  BY <1>1 DEF RequestType, Slices
<1>4. CASE port # NoPort /\ req' = [req EXCEPT ![r].ports = ports, ![r].used = taken, ![r].pc = pc]
  <2>1. port \in PortStart..PortEnd /\ port \in Int
    BY <1>3, <1>4, GetNewFreePortProperties, RangeIsNatural DEF PortsInRange
  <2>2. taken \in Slices
    BY <1>3, <2>1, ClaimPortProperties DEF Slices
  <2>3. ports \in Seq(PortStart..PortEnd)
    BY <1>1, <2>1 DEF RequestType
  <2> HIDE DEF taken, ports, pc
  <2> QED
    BY <1>1, <1>2, <1>4, <2>2, <2>3, Shapes DEF Continues, OnlyOf, RequestType, CallType, Calling
<1> QED
  BY <1>4 DEF TakePort

LEMMA ClaimForVdmContinues ==
  ASSUME NEW r \in Requests, TypeInv, ClaimForVdm(r)
  PROVE  Continues(r) \/ Answer(r, "failed")
<1> DEFINE slice == req[r].used
           one   == ClaimPort(slice, VdmPorts[1])
           both  == ClaimPort(one, VdmPorts[2])
<1>1. /\ RequestType(r) /\ DOMAIN req = Requests
      /\ req[r].pc = "service" /\ req[r].product = "vdm"
  BY DEF TypeInv, RequestType, ClaimForVdm, At
<1>2. slice \in Seq(PortStart..PortEnd) /\ StrictlyIncreasing(slice)
  BY <1>1 DEF RequestType, Slices
<1>3. VdmPorts \in [1..2 -> Nat] /\ VdmPorts[1] \in Int /\ VdmPorts[2] \in Int
  <2>1. VdmPorts \in [1..2 -> Nat]
    BY VdmAssumption, LenProperties
  <2> QED
    BY <2>1
<1>4. one \in Seq(PortStart..PortEnd) /\ StrictlyIncreasing(one)
  BY <1>2, <1>3, ClaimPortProperties
<1>5. both \in Slices
  <2> HIDE DEF one
  <2> QED
    BY <1>3, <1>4, ClaimPortProperties DEF Slices
<1>6. CASE /\ ~ VdmClaimFails(slice)
           /\ req' = [req EXCEPT ![r].ports = VdmPorts, ![r].used = both]
  <2>1. VdmPorts[1] \in PortStart..PortEnd /\ VdmPorts[2] \in PortStart..PortEnd
    BY <1>6 DEF VdmClaimFails, ClaimFails, PortInRange
  <2>2. VdmPorts \in Seq(PortStart..PortEnd)
    <3>1. \A j \in 1..2 : j = 1 \/ j = 2
      OBVIOUS
    <3>2. VdmPorts \in [1..2 -> PortStart..PortEnd]
      BY <1>3, <2>1, <3>1
    <3> QED
      BY <3>2, SeqDef
  <2> HIDE DEF both
  <2> QED
    BY <1>1, <1>5, <1>6, <2>2, Shapes DEF Continues, OnlyOf, RequestType, CallType, Calling
<1> QED
  BY <1>6 DEF ClaimForVdm

LEMMA PutAndWithout ==
  ASSUME NEW f, NEW key, NEW value
  PROVE  /\ DOMAIN Put(f, key, value) = DOMAIN f \union {key}
         /\ Put(f, key, value)[key] = value
         /\ \A k \in DOMAIN f \ {key} : Put(f, key, value)[k] = f[k]
         /\ DOMAIN Without(f, key) = DOMAIN f \ {key}
         /\ \A k \in DOMAIN f \ {key} : Without(f, key)[k] = f[k]
BY DEF Put, Without

(* A call that only moves its request on.                                    *)
LEMMA QuietCallKeepsTypes ==
  ASSUME NEW r \in Requests, TypeInv, Continues(r) \/ \E pc \in Answers : Answer(r, pc),
         UNCHANGED <<info, used, pods, services>>, faults' \in 0..MaxFaults
  PROVE  TypeInv'
<1>1. UsedType' /\ ClusterType' /\ DocType(info', Ready) /\ (info' = NoInfo \/ info'.owners # << >>)
  BY DEF TypeInv, UsedType, ClusterType
<1>2. UsedStays
  BY DEF Ready, UsedStays
<1> QED
  BY <1>1, <1>2, CallKeepsTypes

LEMMA GotoContinues ==
  ASSUME NEW r \in Requests, TypeInv, req[r].pc \in Calling \ {"read"},
         NEW pc \in {"service", "save", "store"}, Goto(r, pc),
         req[r].product # "newdal", pc = "service" => req[r].product \in {"vdc", "vdm"}
  PROVE  Continues(r)
<1>1. /\ RequestType(r) /\ DOMAIN req = Requests
      /\ req[r].pc \in Calling /\ used[req[r].infra] \in Slices
  BY DEF TypeInv, RequestType, CallType
<1> QED
  BY <1>1, Shapes DEF Goto, Continues, OnlyOf, RequestType, Calling

(* The Deployment of a VDC or the VDM is made, changed or deleted.            *)
LEMMA PodCallKeepsTypes ==
  ASSUME NEW r \in Requests, TypeInv, Continues(r) \/ \E pc \in Answers : Answer(r, pc),
         UNCHANGED <<info, used, services>>, faults' \in 0..MaxFaults,
         DOMAIN pods' = Infras,
         \A i \in Infras : \A m \in DOMAIN pods'[i] : PodType(i, m, pods'[i][m])
  PROVE  TypeInv'
<1>1. UsedType' /\ ClusterType' /\ DocType(info', Ready) /\ (info' = NoInfo \/ info'.owners # << >>)
  BY DEF TypeInv, UsedType, ClusterType
<1>2. UsedStays
  BY DEF Ready, UsedStays
<1> QED
  BY <1>1, <1>2, CallKeepsTypes

LEMMA CreatePodKeepsTypes ==
  ASSUME NEW r \in Requests, TypeInv, NEW pod, PodType(req[r].infra, ServiceName(r), pod),
         At(r, "pod"), req[r].product \in {"vdc", "vdm"}, CreateOrUpdatePod(r, pod)
  PROVE  TypeInv'
<1> DEFINE i    == req[r].infra
           name == ServiceName(r)
           put  == Put(pods[i], name, pod)
           rest == Without(pods[i], name)
<1>1. /\ req[r].pc \in Calling \ {"read"} /\ i \in Infras /\ DOMAIN pods = Infras
      /\ \A j \in Infras : \A m \in DOMAIN pods[j] : PodType(j, m, pods[j][m])
  BY DEF TypeInv, RequestType, CallType, Ready, ClusterType, Calling, At
<1>2. Continues(r) \/ \E pc \in Answers : Answer(r, pc)
  BY <1>1, GotoContinues DEF CreateOrUpdatePod, Answers
<1>3. faults' \in 0..MaxFaults
  BY FaultsStayBounded DEF TypeInv, CreateOrUpdatePod
<1>4. \A m \in DOMAIN put : PodType(i, m, put[m])
  <2> HIDE DEF name
  <2>1. /\ DOMAIN put = DOMAIN pods[i] \union {name} /\ put[name] = pod
        /\ \A m \in DOMAIN pods[i] \ {name} : put[m] = pods[i][m]
    BY DEF Put
  <2>2. PodType(i, name, pod)
    BY DEF name
  <2> HIDE DEF put
  <2> QED
    BY <1>1, <2>1, <2>2
<1>5. \A m \in DOMAIN rest : PodType(i, m, rest[m])
  <2> HIDE DEF name
  <2>1. /\ DOMAIN rest = DOMAIN pods[i] \ {name}
        /\ \A m \in DOMAIN pods[i] \ {name} : rest[m] = pods[i][m]
    BY PutAndWithout
  <2> HIDE DEF rest
  <2> QED
    BY <1>1, <2>1
<1>6. pods' = pods \/ pods' = [pods EXCEPT ![i] = put] \/ pods' = [pods EXCEPT ![i] = rest]
  BY DEF CreateOrUpdatePod
<1>7. DOMAIN pods' = Infras
  BY <1>1, <1>6
<1>8. ASSUME NEW j \in Infras, NEW m \in DOMAIN pods'[j] PROVE PodType(j, m, pods'[j][m])
  <2>1. pods'[j] = pods[j] \/ (j = i /\ pods'[j] \in {put, rest})
    <3> HIDE DEF put, rest
    <3> QED
      BY <1>1, <1>6
  <2> HIDE DEF put, rest
  <2> QED
    BY <1>1, <1>4, <1>5, <1>8, <2>1
<1> QED
  BY <1>2, <1>3, <1>7, <1>8, PodCallKeepsTypes DEF CreateOrUpdatePod

LEMMA ModifyPodKeepsTypes ==
  ASSUME NEW r \in Requests, TypeInv, ModifyPod(r)
  PROVE  TypeInv'
<1> DEFINE i    == req[r].infra
           name == ServiceName(r)
<1>1. /\ req[r].pc \in Calling \ {"read"} /\ i \in Infras /\ DOMAIN pods = Infras
      /\ \A j \in Infras : \A m \in DOMAIN pods[j] : PodType(j, m, pods[j][m])
  BY DEF TypeInv, RequestType, CallType, Ready, ClusterType, Calling, At, ModifyPod
<1>2. Continues(r) \/ \E pc \in Answers : Answer(r, pc)
  BY <1>1, GotoContinues DEF ModifyPod, Answers
<1>3. faults' \in 0..MaxFaults
  BY FaultsStayBounded DEF TypeInv, ModifyPod
<1>4. pods' = pods \/ pods' = [pods EXCEPT ![i][name].dals = Readdressed(@, InUse(r))]
  BY DEF ModifyPod
<1>5. ASSUME NEW dals, DOMAIN dals = DOMAIN pods[i][name].dals,
             pods' = [pods EXCEPT ![i][name].dals = dals],
             NEW j \in Infras, NEW m \in DOMAIN pods'[j]
      PROVE  PodType(j, m, pods'[j][m])
  <2> HIDE DEF name
  <2>1. PodType(j, m, pods[j][m]) /\ DOMAIN pods'[j] = DOMAIN pods[j]
    BY <1>1, <1>5
  <2>2. CASE j = i /\ m = name
    <3>1. pods'[j][m] = [pods[j][m] EXCEPT !.dals = dals]
      BY <1>1, <1>5, <2>1, <2>2
    <3> QED
      BY <1>5, <2>1, <2>2, <3>1 DEF PodType
  <2>3. CASE ~ (j = i /\ m = name)
    BY <1>1, <1>5, <2>1, <2>3
  <2> QED
    BY <2>2, <2>3
<1>6. DOMAIN pods' = Infras
  BY <1>1, <1>4
<1>7. ASSUME NEW j \in Infras, NEW m \in DOMAIN pods'[j] PROVE PodType(j, m, pods'[j][m])
  <2> DEFINE dals == Readdressed(pods[i][name].dals, InUse(r))
  <2>1. DOMAIN dals = DOMAIN pods[i][name].dals
    BY DEF Readdressed
  <2>2. pods' = pods \/ pods' = [pods EXCEPT ![i][name].dals = dals]
    BY <1>4
  <2> HIDE DEF name, dals
  <2> QED
    BY <1>1, <1>5, <1>7, <2>1, <2>2
<1> QED
  BY <1>2, <1>3, <1>6, <1>7, PodCallKeepsTypes DEF ModifyPod

(* The Service of a VDC or the VDM.                                          *)
LEMMA CreateServiceKeepsTypes ==
  ASSUME NEW r \in Requests, TypeInv, CreateService(r)
  PROVE  TypeInv'
<1> DEFINE i    == req[r].infra
           name == ServiceName(r)
           ports == ToSet(req[r].ports)
           put  == Put(services[i], name, ports)
           rest == Without(services[i], name)
<1>1. /\ req[r].pc \in Calling \ {"read"} /\ i \in Infras /\ DOMAIN services = Infras /\ RequestType(r)
      /\ req[r].product \in {"vdc", "vdm"}
      /\ \A j \in Infras : \A m \in DOMAIN services[j] : services[j][m] \subseteq PortStart..PortEnd
  BY DEF TypeInv, RequestType, CallType, Ready, ClusterType, Calling, At, CreateService
<1>2. Continues(r) \/ \E pc \in Answers : Answer(r, pc)
  BY <1>1, GotoContinues DEF CreateService, Answers
<1>3. faults' \in 0..MaxFaults
  BY FaultsStayBounded DEF TypeInv, CreateService
<1>4. ports \subseteq PortStart..PortEnd
  <2>1. req[r].ports \in Seq(PortStart..PortEnd)
    BY <1>1 DEF RequestType
  <2>2. req[r].ports \in [1..Len(req[r].ports) -> PortStart..PortEnd]
    BY <2>1, LenProperties
  <2> QED
    BY <2>2 DEF ToSet
<1>5. \A m \in DOMAIN put : put[m] \subseteq PortStart..PortEnd
  <2> HIDE DEF name, ports
  <2>1. /\ DOMAIN put = DOMAIN services[i] \union {name} /\ put[name] = ports
        /\ \A m \in DOMAIN services[i] \ {name} : put[m] = services[i][m]
    BY DEF Put
  <2> HIDE DEF put
  <2> QED
    BY <1>1, <1>4, <2>1
<1>6. \A m \in DOMAIN rest : rest[m] \subseteq PortStart..PortEnd
  <2> HIDE DEF name
  <2>1. /\ DOMAIN rest = DOMAIN services[i] \ {name}
        /\ \A m \in DOMAIN services[i] \ {name} : rest[m] = services[i][m]
    BY PutAndWithout
  <2> HIDE DEF rest
  <2> QED
    BY <1>1, <2>1
<1>7. \/ services' = services \/ services' = [services EXCEPT ![i] = put]
      \/ services' = [services EXCEPT ![i] = rest]
  BY DEF CreateService
<1>8. DOMAIN services' = Infras
  BY <1>1, <1>7
<1>9. ASSUME NEW j \in Infras, NEW m \in DOMAIN services'[j]
      PROVE  services'[j][m] \subseteq PortStart..PortEnd
  <2>1. services'[j] \in {services[j], put, rest}
    <3> HIDE DEF put, rest
    <3> QED
      BY <1>1, <1>7
  <2> HIDE DEF put, rest
  <2> QED
    BY <1>1, <1>5, <1>6, <1>9, <2>1
<1>10. ClusterType'
  BY <1>8, <1>9 DEF CreateService, ClusterType, TypeInv
<1>11. UsedType' /\ DocType(info', Ready) /\ (info' = NoInfo \/ info'.owners # << >>)
  BY DEF TypeInv, UsedType, CreateService
<1>12. UsedStays
  BY DEF Ready, UsedStays, CreateService
<1> QED
  BY <1>2, <1>3, <1>10, <1>11, <1>12, CallKeepsTypes

LEMMA SaveKeepsTypes ==
  ASSUME NEW r \in Requests, TypeInv, Save(r)
  PROVE  TypeInv'
<1>1. /\ req[r].pc \in Calling \ {"read"} /\ req[r].infra \in Infras /\ DOMAIN used = Infras
      /\ req[r].used \in Slices /\ req[r].product # "newdal"
  BY DEF TypeInv, RequestType, CallType, Ready, UsedType, Calling, At, Save
<1>2. Continues(r) \/ \E pc \in Answers : Answer(r, pc)
  BY <1>1, GotoContinues DEF Save, Answers
<1>3. faults' \in 0..MaxFaults
  BY FaultsStayBounded DEF TypeInv, Save
<1>4. used' = used \/ used' = [used EXCEPT ![req[r].infra] = req[r].used]
  BY DEF Save
<1>5. UsedType'
  BY <1>1, <1>4 DEF UsedType, TypeInv
<1>6. UsedStays
  BY <1>1, <1>4 DEF Ready, UsedStays
<1>7. ClusterType' /\ DocType(info', Ready) /\ (info' = NoInfo \/ info'.owners # << >>)
  BY DEF TypeInv, ClusterType, Save
<1> QED
  BY <1>2, <1>3, <1>5, <1>6, <1>7, CallKeepsTypes

LEMMA CallStepKeepsTypes ==
  ASSUME NEW r \in Requests, TypeInv, PortsInRange,
         \/ Read(r) \/ List(r) \/ TakePort(r) \/ CreateVdcPod(r) \/ CreateVdmPod(r)
         \/ ModifyPod(r) \/ CreateSource(r) \/ RefuseDal(r) \/ ClaimForVdm(r)
         \/ CreateService(r) \/ Save(r)
  PROVE  TypeInv'
<1>1. "failed" \in Answers
  BY DEF Answers
<1>2. faults \in 0..MaxFaults
  BY DEF TypeInv
<1>3. CASE Read(r)
  BY <1>1, <1>2, <1>3, ReadContinues, QuietCallKeepsTypes, FaultsStayBounded DEF Read
<1>4. CASE List(r)
  BY <1>1, <1>2, <1>4, ListContinues, QuietCallKeepsTypes, FaultsStayBounded DEF List
<1>5. CASE TakePort(r)
  BY <1>1, <1>2, <1>5, TakePortContinues, QuietCallKeepsTypes, FaultsStayBounded DEF TakePort
<1>6. CASE ClaimForVdm(r)
  BY <1>1, <1>2, <1>6, ClaimForVdmContinues, QuietCallKeepsTypes, FaultsStayBounded
     DEF ClaimForVdm
<1>7. CASE CreateSource(r) \/ RefuseDal(r)
  <2>1. req[r].pc \in Calling \ {"read"}
    BY <1>7 DEF CreateSource, RefuseDal, At, Calling
  <2>2. Continues(r) \/ Answer(r, "failed")
    BY <1>7, <2>1, GotoContinues DEF CreateSource, RefuseDal
  <2> QED
    BY <1>1, <1>2, <1>7, <2>2, QuietCallKeepsTypes, FaultsStayBounded DEF CreateSource, RefuseDal
<1>8. CASE CreateVdcPod(r)
  <2>1. PodType(req[r].infra, ServiceName(r), Pod(r))
    BY DEF PodType, Pod, GivenDals, Aliases
  <2> QED
    BY <1>8, <2>1, CreatePodKeepsTypes DEF CreateVdcPod
<1>9. CASE CreateVdmPod(r)
  <2>1. PodType(req[r].infra, ServiceName(r), NoHosts)
    BY <1>9 DEF PodType, NoHosts, CreateVdmPod, ServiceName
  <2> QED
    BY <1>9, <2>1, CreatePodKeepsTypes DEF CreateVdmPod
<1> QED
  BY <1>3, <1>4, <1>5, <1>6, <1>7, <1>8, <1>9, ModifyPodKeepsTypes, CreateServiceKeepsTypes,
     SaveKeepsTypes

(* What deploys the blueprint next: the VDM, in one of the owners'            *)
(* infrastructures, or the VDC.                                             *)
LEMMA AfterOwnersHasType ==
  ASSUME NEW r \in Requests, TypeInv, ForBlueprint(r), NEW state,
         DOMAIN state = DOMAIN Idle, DocType(state.doc, Ready), state.doc.owners # << >>,
         state.infra \in Infras \union {NoInfra}, state.used \in Slices,
         state.ports \in Seq(PortStart..PortEnd), state.apps \in Seq(Ready), state.vdc \in Nat,
         req' = [req EXCEPT ![r] = AfterOwners(state)]
  PROVE  /\ OnlyOf(r) /\ Fresh(r)' = Job[r].apps
         /\ Ready \subseteq Ready' => RequestType(r)'
<1>1. OnlyOf(r) /\ req'[r] = AfterOwners(state)
  BY DEF OnlyOf, TypeInv
<1>2. DefaultInfra(state.doc.owners) \in Ready
  BY DefaultIsListed DEF DocType
<1>3. /\ DOMAIN req'[r] = DOMAIN Idle /\ req'[r].doc = state.doc /\ req'[r].used = state.used
      /\ req'[r].ports = state.ports /\ req'[r].apps = state.apps /\ req'[r].vdc = state.vdc
      /\ \/ /\ req'[r].pc = "read" /\ req'[r].product = "vdm"
            /\ req'[r].infra = DefaultInfra(state.doc.owners)
         \/ req'[r].pc = "apps" /\ req'[r].infra = state.infra
  <2>1. CASE state.doc.vdm = NoInfra
    <3> DEFINE infra == DefaultInfra(state.doc.owners)
    <3>1. req'[r] = [state EXCEPT !.pc = "read", !.product = "vdm", !.infra = infra]
      BY <1>1, <2>1 DEF AfterOwners
    <3> HIDE DEF infra
    <3>2. /\ DOMAIN req'[r] = DOMAIN state /\ req'[r].pc = "read" /\ req'[r].product = "vdm"
          /\ req'[r].infra = infra
      BY <3>1, Shapes
    <3>3. \A k \in DOMAIN state \ {"pc", "product", "infra"} : req'[r][k] = state[k]
      BY <3>1
    <3>4. /\ req'[r].doc = state.doc /\ req'[r].used = state.used /\ req'[r].ports = state.ports
          /\ req'[r].apps = state.apps /\ req'[r].vdc = state.vdc
      BY <3>3, Shapes
    <3> QED
      BY <3>2, <3>3, <3>4 DEF infra
  <2>2. CASE state.doc.vdm # NoInfra
    BY <1>1, <2>2, Shapes DEF AfterOwners
  <2> QED
    BY <2>1, <2>2
<1>4. Fresh(r)' = Job[r].apps
  BY <1>3 DEF Fresh, ForBlueprint, ForVdm, Calling
<1>5. ASSUME Ready \subseteq Ready' PROVE RequestType(r)'
  <2>1. DocType(req'[r].doc, Ready')
    BY <1>3, <1>5, DocGrows
  <2>2. req'[r].apps \in Seq(Ready')
    BY <1>3, <1>5, SeqMonotonic
  <2>3. req'[r].infra \in Infras \union {NoInfra}
    BY <1>2, <1>3 DEF Ready
  <2>4. req'[r].pc \in Calling => CallType(r)'
    BY <1>2, <1>3, <1>5 DEF CallType, Calling, ForBlueprint
  <2>5. req'[r].pc \in Pcs
    BY <1>3 DEF Pcs, Calling
  <2> QED
    BY <1>3, <2>1, <2>2, <2>3, <2>4, <2>5 DEF RequestType, ForBlueprint
<1> QED
  BY <1>1, <1>4, <1>5

(* The first step of a request.                                              *)
LEMMA BeginKeepsTypes ==
  ASSUME NEW r \in Requests, TypeInv, IdentityInvariant, Begin(r)
  PROVE  TypeInv'
<1>1. /\ UNCHANGED <<info, used, pods, services>> /\ req[r].pc = "idle"
      /\ DOMAIN req = Requests /\ RequestType(r) /\ DocType(info, Ready)
      /\ (info = NoInfo \/ info.owners # << >>)
  BY DEF Begin, At, TypeInv
<1>2. faults' \in 0..MaxFaults
  BY FaultsStayBounded
     DEF TypeInv, Begin, BeginBlueprint, FirstTime, NextTime, BeginVdcRequest, RefuseCopy,
         AcceptVdcRequest, FailVdcRequest
<1>3. UsedType' /\ UsedStays /\ ClusterType'
  BY <1>1 DEF TypeInv, UsedType, ClusterType, Ready, UsedStays
<1>4. ASSUME OnlyOf(r), Fresh(r)' \subseteq Fresh(r), Ready \subseteq Ready' => RequestType(r)'
      PROVE  TypeInv'
  BY <1>1, <1>2, <1>3, <1>4, FrameKeepsTypes DEF Frame
<1>5. CASE Goto(r, "owners") /\ ForBlueprint(r)
  <2>1. /\ OnlyOf(r) /\ req'[r] = [req[r] EXCEPT !.pc = "owners"]
        /\ Fresh(r)' = Fresh(r)
    BY <1>1, <1>5, Shapes DEF Goto, OnlyOf, RequestType, Fresh, ForBlueprint
  <2>2. ASSUME Ready \subseteq Ready' PROVE RequestType(r)'
    <3>1. DocType(req[r].doc, Ready') /\ req[r].apps \in Seq(Ready')
      BY <1>1, <2>2, DocGrows, SeqMonotonic DEF RequestType
    <3> QED
      BY <1>1, <1>5, <2>1, <3>1, Shapes DEF RequestType, Calling, Pcs, ForBlueprint
  <2> QED
    BY <1>4, <2>1, <2>2
<1>6. CASE \E pc \in Answers : Answer(r, pc)
  <2>1. OnlyOf(r) /\ Fresh(r)' = {} /\ RequestType(r)'
    BY <1>6, AnswerHasType
  <2> QED
    BY <1>4, <2>1
<1>7. CASE /\ info # NoInfo /\ ForBlueprint(r)
           /\ req' = [req EXCEPT ![r] = AfterOwners([Idle EXCEPT !.doc = info])]
  <2> DEFINE state == [Idle EXCEPT !.doc = info]
  <2>1. /\ DOMAIN state = DOMAIN Idle /\ state.doc = info /\ state.infra = NoInfra
        /\ state.used = << >> /\ state.ports = << >> /\ state.apps = << >> /\ state.vdc = 0
    BY Shapes DEF Idle
  <2>2. << >> \in Slices /\ << >> \in Seq(PortStart..PortEnd) /\ << >> \in Seq(Ready)
    BY EmptySeq DEF Slices, StrictlyIncreasing
  <2>3. req' = [req EXCEPT ![r] = AfterOwners(state)]
    BY <1>7
  <2> HIDE DEF state
  <2>4. /\ OnlyOf(r) /\ Fresh(r)' = Job[r].apps
        /\ Ready \subseteq Ready' => RequestType(r)'
    <3>1. /\ DocType(state.doc, Ready) /\ state.doc.owners # << >>
          /\ state.infra \in Infras \union {NoInfra} /\ state.used \in Slices
          /\ state.ports \in Seq(PortStart..PortEnd) /\ state.apps \in Seq(Ready)
          /\ state.vdc \in Nat
      BY <1>1, <1>7, <2>1, <2>2
    <3>2. ForBlueprint(r) /\ DOMAIN state = DOMAIN Idle
      BY <1>7, <2>1
    <3> QED
      BY <2>3, <3>1, <3>2, AfterOwnersHasType
  <2>5. Fresh(r)' \subseteq Fresh(r)
    BY <1>1, <1>7, <2>4 DEF Fresh
  <2> QED
    BY <1>4, <2>4, <2>5
<1>8. CASE RefuseCopy(r) /\ ~ ForBlueprint(r)
  <2>1. req' = [req EXCEPT ![r].pc = "running", ![r].infra = Job[r].infra, ![r].vdc = Job[r].vdc]
    BY <1>8 DEF RefuseCopy
  <2>2. Job[r].infra \in Infras /\ Job[r].vdc \in Nat
    BY <1>8, JobAssumption DEF ForBlueprint
  <2>3. OnlyOf(r) /\ Fresh(r)' = {}
    BY <1>1, <1>8, <2>1 DEF OnlyOf, Fresh, ForBlueprint
  <2>4. ASSUME Ready \subseteq Ready' PROVE RequestType(r)'
    <3>1. DocType(req[r].doc, Ready') /\ req[r].apps \in Seq(Ready')
      BY <1>1, <2>4, DocGrows, SeqMonotonic DEF RequestType
    <3> QED
      BY <1>1, <2>1, <2>2, <3>1, Shapes DEF RequestType, Calling, Pcs, Answers
  <2> QED
    BY <1>4, <2>3, <2>4
<1>9. CASE AcceptVdcRequest(r) /\ ~ ForBlueprint(r)
  <2> DEFINE product == IF Job[r].kind = "copy" THEN "vdc" ELSE Job[r].kind
  <2>1. req' = [req EXCEPT ![r] = [Provision(r, product, Job[r].infra)
                  EXCEPT !.doc = info, !.vdc = Job[r].vdc]]
    BY <1>9 DEF AcceptVdcRequest
  <2>2. /\ Job[r].infra \in Infras /\ Job[r].vdc \in Nat
        /\ Job[r].kind \in {"copy", "datasource", "dal", "newdal"}
    BY <1>9, JobAssumption DEF ForBlueprint
  <2>3. /\ product \in {"vdc", "datasource", "dal", "newdal"}
        /\ product = "vdc" => Job[r].kind = "copy"
        /\ product # "vdc" => product = Job[r].kind
    BY <2>2
  <2>4. info # NoInfo /\ Job[r].vdc \in DOMAIN info.vdcs /\ Job[r].infra \in Ready
    <3>1. /\ Known(r)
          /\ Reachable(r) \/ Job[r].infra \in DOMAIN Vdc(r).infras
      BY <1>9, <2>2 DEF AcceptVdcRequest, Acceptable
    <3>2. VdcType(Vdc(r), Ready) /\ info.owners \in Seq(Ready)
      BY <1>1, <3>1 DEF Known, Vdc, DocType
    <3>3. ToSet(info.owners) \subseteq Ready /\ ToSet(Vdc(r).apps) \subseteq Ready
      <4>1. ASSUME NEW s \in Seq(Ready) PROVE ToSet(s) \subseteq Ready
        BY LenProperties DEF ToSet
      <4> QED
        BY <3>2, <4>1 DEF VdcType
    <3> QED
      BY <3>1, <3>2, <3>3 DEF Reachable, VdcType, Known
  <2> HIDE DEF product
  <2>5. /\ OnlyOf(r) /\ Fresh(r)' = {}
        /\ DOMAIN req'[r] = DOMAIN Idle /\ req'[r].pc = "read" /\ req'[r].product = product
        /\ req'[r].infra = Job[r].infra /\ req'[r].doc = info /\ req'[r].vdc = Job[r].vdc
        /\ req'[r].used = req[r].used /\ req'[r].ports = req[r].ports /\ req'[r].apps = req[r].apps
    BY <1>1, <1>9, <2>1, Shapes DEF OnlyOf, Fresh, ForBlueprint, Provision, RequestType
  <2>6. ASSUME Ready \subseteq Ready' PROVE RequestType(r)'
    <3>1. DocType(info, Ready') /\ req[r].apps \in Seq(Ready')
      BY <1>1, <2>6, DocGrows, SeqMonotonic DEF RequestType
    <3>2. CallType(r)'
      BY <1>1, <1>9, <2>3, <2>4, <2>5, <2>6 DEF CallType, ForBlueprint
    <3>3. req'[r].pc \in Pcs
      BY <2>5 DEF Pcs, Calling
    <3> QED
      BY <1>1, <2>2, <2>5, <3>1, <3>2, <3>3 DEF RequestType
  <2> QED
    BY <1>4, <2>5, <2>6
<1> QED
  BY <1>5, <1>6, <1>7, <1>8, <1>9
     DEF Begin, BeginBlueprint, FirstTime, NextTime, BeginVdcRequest, FailVdcRequest, Answers,
         ForBlueprint

(* What one request creates no other request creates.                        *)
LEMMA FreshApart ==
  ASSUME NEW r \in Requests, NEW q \in Requests, ForBlueprint(r)
  PROVE  /\ q # r => (Job[r].owners \union Job[r].apps) \intersect Fresh(q) = {}
         /\ Job[r].owners \intersect Job[r].apps = {}
BY FreshAssumption DEF Fresh, ForBlueprint

LEMMA CreateInfrasTypes ==
  ASSUME NEW r \in Requests, TypeInv, NEW infras \in SUBSET Infras, infras \subseteq Fresh(r),
         NEW order, CreateInfras(infras, order)
  PROVE  /\ UsedType' /\ UsedStays /\ faults' \in 0..MaxFaults
         /\ order # << >> => /\ order \in Seq(infras)
                             /\ \A i \in infras : used'[i] \in Slices \union {NotThere}
<1>1. /\ DOMAIN used = Infras /\ \A i \in Infras : used[i] \in {NotThere, Bare} \union Slices
      /\ faults \in 0..MaxFaults
  BY DEF TypeInv, UsedType
<1>2. << >> \in Slices
  BY EmptySeq DEF Slices, StrictlyIncreasing
<1>3. \A i \in Ready : i \notin infras
  BY DEF Ready
<1>4. CASE Fails("provider") /\ used' = used /\ order = << >>
  BY <1>1, <1>4, FaultsStayBounded DEF UsedType, UsedStays, Ready
<1>5. CASE ~ (Fails("provider") /\ used' = used /\ order = << >>)
  <2>1. PICK missing \in SUBSET infras, bad \in SUBSET (infras \ Existing) :
          LET failing == Cardinality(missing \union bad) IN
          /\ failing <= faults /\ faults' = faults - failing
          /\ used' = Provisioned(infras, missing, bad)
          /\ IF bad \union (missing \ Existing) = {} THEN order \in SetToSeqs(infras)
                                                    ELSE order = << >>
    BY <1>5 DEF CreateInfras
  <2>2. Cardinality(missing \union bad) \in Nat
    BY InfrasAssumption, FS_Subset, FS_CardinalityType
  <2>3. faults' \in 0..MaxFaults
    BY <1>1, <2>1, <2>2, BoundAssumption
  <2>4. /\ DOMAIN used' = Infras
        /\ \A i \in Infras : used'[i] = IF i \notin infras THEN used[i]
                                        ELSE IF i \in missing THEN NotThere
                                        ELSE IF i \in bad THEN Bare ELSE << >>
    BY <2>1 DEF Provisioned
  <2>5. UsedType' /\ UsedStays
    BY <1>1, <1>2, <1>3, <2>4 DEF UsedType, UsedStays, Ready
  <2>6. ASSUME order # << >>
        PROVE  order \in Seq(infras) /\ \A i \in infras : used'[i] \in Slices \union {NotThere}
    <3>1. order \in SetToSeqs(infras) /\ bad = {}
      BY <2>1, <2>6
    <3> QED
      BY <1>2, <2>4, <3>1, OrderIsSequence
  <2> QED
    BY <2>3, <2>5, <2>6
<1> QED
  BY <1>4, <1>5

(* The infrastructures created are ready, whoever else creates some.          *)
LEMMA CreatedAreReady ==
  ASSUME NEW r \in Requests, ForBlueprint(r), OnlyOf(r), NEW infras \in SUBSET Infras,
         infras \subseteq Job[r].owners \union Job[r].apps,
         \A i \in infras : used'[i] \in Slices \union {NotThere}, infras \intersect Fresh(r)' = {}
  PROVE  infras \subseteq Ready'
<1>1. ASSUME NEW q \in Requests, NEW i \in infras PROVE i \notin Fresh(q)'
  <2>1. CASE q = r
    BY <2>1
  <2>2. CASE q # r
    <3>1. Fresh(q)' = Fresh(q)
      BY <2>2 DEF OnlyOf, Fresh, ForVdm
    <3> QED
      BY <2>2, <3>1, FreshApart
  <2> QED
    BY <2>1, <2>2
<1> QED
  BY <1>1 DEF Ready

LEMMA CreateOwnersKeepsTypes ==
  ASSUME NEW r \in Requests, TypeInv, IdentityInvariant, CreateOwners(r)
  PROVE  TypeInv'
<1> DEFINE infras == Job[r].owners
<1>1. /\ UNCHANGED <<info, pods, services>> /\ req[r].pc = "owners"
      /\ DOMAIN req = Requests /\ RequestType(r) /\ DocType(info, Ready)
      /\ (info = NoInfo \/ info.owners # << >>) /\ ForBlueprint(r)
  BY DEF CreateOwners, At, TypeInv, RequestType
<1>2. infras \in SUBSET Infras /\ infras \subseteq Fresh(r)
  BY <1>1, JobAssumption DEF Fresh, ForBlueprint
<1>3. PICK order : /\ CreateInfras(infras, order)
                   /\ IF order = << >> THEN Answer(r, "failed")
                      ELSE req' = [req EXCEPT ![r].pc = "insert", ![r].doc.owners = order]
  BY DEF CreateOwners
<1>4. /\ UsedType' /\ UsedStays /\ faults' \in 0..MaxFaults
      /\ order # << >> => order \in Seq(infras) /\ \A i \in infras : used'[i] \in Slices \union {NotThere}
  <2>1. CreateInfras(infras, order)
    BY <1>3
  <2> HIDE DEF infras
  <2> QED
    BY <1>2, <2>1, CreateInfrasTypes
<1>5. ClusterType'
  BY <1>1 DEF ClusterType, TypeInv
<1>6. ASSUME OnlyOf(r), Fresh(r)' \subseteq Fresh(r), Ready \subseteq Ready' => RequestType(r)'
      PROVE  TypeInv'
  BY <1>1, <1>4, <1>5, <1>6, FrameKeepsTypes DEF Frame
<1>7. CASE order = << >>
  <2>1. OnlyOf(r) /\ Fresh(r)' = {} /\ RequestType(r)'
    BY <1>3, <1>7, AnswerHasType DEF Answers
  <2> QED
    BY <1>6, <2>1
<1>8. CASE order # << >>
  <2>1. req[r].doc = NewInfo
    BY <1>1 DEF IdentityInvariant, CopyInvariant
  <2>2. OnlyOf(r)
    BY <1>1, <1>3, <1>8 DEF OnlyOf
  <2>3. /\ DOMAIN req'[r] = DOMAIN Idle /\ req'[r].pc = "insert"
        /\ req'[r].doc = [NewInfo EXCEPT !.owners = order]
        /\ req'[r].infra = req[r].infra /\ req'[r].used = req[r].used
        /\ req'[r].ports = req[r].ports /\ req'[r].apps = req[r].apps /\ req'[r].vdc = req[r].vdc
    BY <1>1, <1>3, <1>8, <2>1, Shapes DEF RequestType
  <2>4. Fresh(r)' = Job[r].apps
    BY <1>1, <2>3 DEF Fresh, ForBlueprint
  <2>5. infras \subseteq Ready'
    BY <1>1, <1>2, <1>4, <1>8, <2>2, <2>4, FreshApart, CreatedAreReady
  <2>6. ASSUME Ready \subseteq Ready' PROVE RequestType(r)'
    <3>1. order \in Seq(Ready')
      BY <1>4, <1>8, <2>5, SeqMonotonic
    <3>2. DocType(req'[r].doc, Ready')
      BY <2>3, <3>1, NewInfoHasType DEF DocType, NewInfo
    <3>3. req'[r].apps \in Seq(Ready')
      BY <1>1, <2>3, <2>6, SeqMonotonic DEF RequestType
    <3>4. req'[r].pc \in Pcs /\ req'[r].pc \notin Calling
      BY <2>3 DEF Pcs, Calling
    <3> QED
      BY <1>1, <2>3, <3>2, <3>3, <3>4 DEF RequestType, ForBlueprint
  <2>7. Fresh(r)' \subseteq Fresh(r)
    BY <1>1, <2>4 DEF Fresh
  <2> QED
    BY <1>6, <2>2, <2>6, <2>7
<1> QED
  BY <1>7, <1>8

LEMMA CreateAppsKeepsTypes ==
  ASSUME NEW r \in Requests, TypeInv, CreateApps(r)
  PROVE  TypeInv'
<1> DEFINE infras == Job[r].apps
<1>1. /\ UNCHANGED <<info, pods, services>> /\ req[r].pc = "apps"
      /\ DOMAIN req = Requests /\ RequestType(r) /\ DocType(info, Ready)
      /\ (info = NoInfo \/ info.owners # << >>) /\ ForBlueprint(r)
      /\ req[r].doc.owners # << >>
  BY DEF CreateApps, At, TypeInv, RequestType
<1>2. infras \in SUBSET Infras /\ infras \subseteq Fresh(r)
  BY <1>1, JobAssumption DEF Fresh, ForBlueprint
<1>3. /\ UsedType' /\ UsedStays /\ faults' \in 0..MaxFaults
      /\ \/ Answer(r, "failed")
         \/ \E apps \in Seq(infras) : /\ DeployVDC(r, apps)
                                      /\ apps = << >> \/ \A i \in infras : used'[i] \in Slices \union {NotThere}
  <2>1. CASE infras = {} /\ DeployVDC(r, << >>) /\ Works /\ used' = used
    <3>1. << >> \in Seq(infras)
      BY EmptySeq
    <3>2. faults' \in 0..MaxFaults
      BY <2>1, FaultsStayBounded DEF TypeInv
    <3> QED
      BY <2>1, <3>1, <3>2 DEF UsedType, UsedStays, TypeInv, Ready
  <2>2. CASE \E order : /\ CreateInfras(infras, order)
                        /\ IF order = << >> THEN Answer(r, "failed") ELSE DeployVDC(r, order)
    BY <1>2, <2>2, CreateInfrasTypes
  <2> QED
    BY <2>1, <2>2 DEF CreateApps
<1>4. ClusterType'
  BY <1>1 DEF ClusterType, TypeInv
<1>5. ASSUME OnlyOf(r), Fresh(r)' \subseteq Fresh(r), Ready \subseteq Ready' => RequestType(r)'
      PROVE  TypeInv'
  BY <1>1, <1>3, <1>4, <1>5, FrameKeepsTypes DEF Frame
<1>6. CASE Answer(r, "failed")
  <2>1. OnlyOf(r) /\ Fresh(r)' = {} /\ RequestType(r)'
    BY <1>6, AnswerHasType DEF Answers
  <2> QED
    BY <1>5, <2>1
<1>7. CASE \E apps \in Seq(infras) : /\ DeployVDC(r, apps)
                                     /\ apps = << >> \/ \A i \in infras : used'[i] \in Slices \union {NotThere}
  <2>1. PICK apps \in Seq(infras) : /\ DeployVDC(r, apps)
                                    /\ apps = << >> \/ \A i \in infras : used'[i] \in Slices \union {NotThere}
    BY <1>7
  <2> DEFINE infra == DefaultInfra(req[r].doc.owners \o apps)
  <2>2. req' = [req EXCEPT ![r] = [Provision(r, "vdc", infra)
                  EXCEPT !.apps = apps, !.vdc = req[r].doc.num]]
    BY <2>1 DEF DeployVDC
  <2> HIDE DEF infra
  <2>3. OnlyOf(r)
    BY <1>1, <2>2 DEF OnlyOf
  <2>4. /\ DOMAIN req'[r] = DOMAIN Idle /\ req'[r].pc = "read" /\ req'[r].product = "vdc"
        /\ req'[r].infra = infra /\ req'[r].doc = req[r].doc /\ req'[r].apps = apps
        /\ req'[r].used = req[r].used /\ req'[r].ports = req[r].ports /\ req'[r].vdc = req[r].doc.num
    BY <1>1, <2>2, Shapes DEF RequestType, Provision
  <2>5. Fresh(r)' = {}
    BY <2>4 DEF Fresh, ForVdm
  <2>6. ASSUME Ready \subseteq Ready' PROVE RequestType(r)'
    <3>1. apps \in Seq(Ready')
      <4>1. CASE apps = << >>
        BY <4>1, EmptySeq
      <4>2. CASE \A i \in infras : used'[i] \in Slices \union {NotThere}
        <5>1. infras \subseteq Ready'
          BY <1>1, <1>2, <2>3, <2>5, <4>2, CreatedAreReady
        <5> QED
          BY <5>1, SeqMonotonic
      <4> QED
        BY <2>1, <4>1, <4>2
    <3>2. DocType(req[r].doc, Ready')
      BY <1>1, <2>6, DocGrows DEF RequestType
    <3>3. infra \in Ready'
      <4> DEFINE list == req[r].doc.owners \o apps
      <4>1. req[r].doc.owners \in Seq(Ready')
        BY <3>2 DEF DocType
      <4>2. list \in Seq(Ready') /\ list # << >>
        BY <1>1, <3>1, <4>1, ConcatProperties, ConcatEqualIffEmpty
      <4> HIDE DEF list
      <4>3. DefaultInfra(list) \in Ready'
        BY <4>2, DefaultIsListed
      <4> QED
        BY <4>3 DEF list, infra
    <3>4. CallType(r)'
      BY <1>1, <2>4, <3>3 DEF CallType, ForBlueprint
    <3>5. req'[r].pc \in Pcs /\ infra \in Infras /\ req[r].doc.num \in Nat
      BY <1>1, <2>4, <3>3 DEF Pcs, Calling, Ready, RequestType, DocType
    <3> QED
      BY <1>1, <2>4, <3>1, <3>2, <3>4, <3>5 DEF RequestType
  <2> QED
    BY <1>5, <2>3, <2>5, <2>6
<1> QED
  BY <1>3, <1>6, <1>7

(* What a request writes of the VDC it is about.                             *)
EntryOf(vdc, i) == IF i \in DOMAIN vdc.infras THEN vdc.infras[i] ELSE NewEntry({})

ChangedVdc(r) ==
  LET vdc == req[r].doc.vdcs[req[r].vdc]
      i   == req[r].infra
  IN IF req[r].product = "datasource"
       THEN [vdc EXCEPT !.infras =
              Put(vdc.infras, i, [EntryOf(vdc, i) EXCEPT !.sources = @ \union {Job[r].id}])]
     ELSE IF req[r].product = "dal" THEN [vdc EXCEPT !.inUse = InUse(r)]
     ELSE IF Job[r].kind = "copy"
       THEN [vdc EXCEPT !.infras = Put(vdc.infras, i, NewEntry(RecordedPorts(r)))]
     ELSE [infras |-> [j \in {i} |-> NewEntry(RecordedPorts(r))],
           apps |-> req[r].apps, inUse |-> << >>]

LEMMA ResultOfVdcRequest ==
  ASSUME NEW r \in Requests, TypeInv, req[r].pc = "store", req[r].product # "vdm"
  PROVE  LET doc == req[r].doc  new == Result(r)  n == req[r].vdc IN
         /\ DOMAIN new = DOMAIN NewInfo /\ new.owners = doc.owners /\ new.vdm = doc.vdm
         /\ new.num = IF ForBlueprint(r) THEN doc.num + 1 ELSE doc.num
         /\ DOMAIN new.vdcs = DOMAIN doc.vdcs \union {n}
         /\ new.vdcs[n] = ChangedVdc(r)
         /\ \A k \in DOMAIN doc.vdcs \ {n} : new.vdcs[k] = doc.vdcs[k]
<1> DEFINE doc == req[r].doc
           n   == req[r].vdc
           i   == req[r].infra
<1>1. /\ RequestType(r) /\ CallType(r) /\ DOMAIN doc = DOMAIN NewInfo
      /\ req[r].product # "newdal" /\ (ForBlueprint(r) \/ n \in DOMAIN doc.vdcs)
      /\ \A k \in DOMAIN doc.vdcs : DOMAIN doc.vdcs[k] = {"infras", "apps", "inUse"}
  BY DEF TypeInv, RequestType, CallType, Calling, DocType, VdcType
<1>2. CASE req[r].product = "dal"
  <2> DEFINE inUse == InUse(r)
  <2>1. Result(r) = [doc EXCEPT !.vdcs[n].inUse = inUse]
    BY <1>2 DEF Result
  <2>2. ~ ForBlueprint(r) /\ ChangedVdc(r) = [doc.vdcs[n] EXCEPT !.inUse = inUse]
    BY <1>1, <1>2 DEF CallType, ForBlueprint, ChangedVdc
  <2> HIDE DEF inUse
  <2> QED
    BY <1>1, <2>1, <2>2, Shapes
<1>3. CASE req[r].product = "datasource"
  <2> DEFINE old    == doc.vdcs[n]
             entry  == EntryOf(old, i)
             infras == Put(old.infras, i, [entry EXCEPT !.sources = @ \union {Job[r].id}])
  <2>1. Result(r) = [doc EXCEPT !.vdcs[n].infras = infras]
    BY <1>3 DEF Result, WithSource, EntryOf
  <2>2. ~ ForBlueprint(r) /\ ChangedVdc(r) = [old EXCEPT !.infras = infras]
    BY <1>1, <1>3 DEF CallType, ForBlueprint, ChangedVdc
  <2> HIDE DEF infras
  <2> QED
    BY <1>1, <2>1, <2>2, Shapes
<1>4. CASE req[r].product = "vdc" /\ Job[r].kind = "copy"
  <2> DEFINE infras == Put(doc.vdcs[n].infras, i, NewEntry(RecordedPorts(r)))
  <2>1. Result(r) = [doc EXCEPT !.vdcs[n].infras = infras]
    BY <1>4 DEF Result, WithCopy
  <2>2. ~ ForBlueprint(r) /\ ChangedVdc(r) = [doc.vdcs[n] EXCEPT !.infras = infras]
    BY <1>4 DEF ForBlueprint, ChangedVdc
  <2> HIDE DEF infras
  <2> QED
    BY <1>1, <2>1, <2>2, Shapes
<1>5. CASE req[r].product = "vdc" /\ Job[r].kind # "copy"
  <2> DEFINE vdc == [infras |-> [j \in {i} |-> NewEntry(RecordedPorts(r))],
                     apps |-> req[r].apps, inUse |-> << >>]
             vdcs == Put(doc.vdcs, n, vdc)
             num  == doc.num + 1
  <2>1. Result(r) = [doc EXCEPT !.num = num, !.vdcs = vdcs]
    BY <1>5 DEF Result, WithVdc
  <2>2. ForBlueprint(r) /\ ChangedVdc(r) = vdc
    BY <1>1, <1>5 DEF CallType, ForBlueprint, ChangedVdc
  <2>3. /\ DOMAIN vdcs = DOMAIN doc.vdcs \union {n} /\ vdcs[n] = vdc
        /\ \A k \in DOMAIN doc.vdcs \ {n} : vdcs[k] = doc.vdcs[k]
    <3> HIDE DEF vdc
    <3> QED
      BY DEF Put
  <2> HIDE DEF vdc, vdcs, num
  <2>4. /\ DOMAIN Result(r) = DOMAIN NewInfo /\ Result(r).owners = doc.owners
        /\ Result(r).vdm = doc.vdm /\ Result(r).num = num /\ Result(r).vdcs = vdcs
    BY <1>1, <2>1, Shapes
  <2> QED
    BY <2>2, <2>3, <2>4 DEF num
<1> QED
  BY <1>1, <1>2, <1>3, <1>4, <1>5 DEF CallType

LEMMA ChangedVdcHasType ==
  ASSUME NEW r \in Requests, TypeInv, req[r].pc = "store", req[r].product # "vdm"
  PROVE  VdcType(ChangedVdc(r), Ready)
<1> DEFINE vdc == req[r].doc.vdcs[req[r].vdc]
           i   == req[r].infra
<1>1. /\ RequestType(r) /\ CallType(r) /\ i \in Ready
      /\ req[r].product # "newdal" /\ (ForBlueprint(r) \/ VdcType(vdc, Ready))
  BY DEF TypeInv, RequestType, CallType, Calling, DocType
<1>2. \A ports : DOMAIN NewEntry(ports) = {"ports", "sources"}
  BY DEF NewEntry
<1>3. ASSUME VdcType(vdc, Ready), NEW new, DOMAIN new = {"ports", "sources"}
      PROVE  VdcType([vdc EXCEPT !.infras = Put(vdc.infras, i, new)], Ready)
  <2> DEFINE infras == Put(vdc.infras, i, new)
  <2>1. /\ DOMAIN infras = DOMAIN vdc.infras \union {i} /\ infras[i] = new
        /\ \A k \in DOMAIN vdc.infras \ {i} : infras[k] = vdc.infras[k]
    BY DEF Put
  <2> HIDE DEF infras
  <2>2. /\ DOMAIN [vdc EXCEPT !.infras = infras] = {"infras", "apps", "inUse"}
        /\ [vdc EXCEPT !.infras = infras].apps = vdc.apps
        /\ [vdc EXCEPT !.infras = infras].infras = infras
    BY <1>3 DEF VdcType
  <2>3. VdcType([vdc EXCEPT !.infras = infras], Ready)
    BY <1>1, <1>3, <2>1, <2>2 DEF VdcType
  <2> QED
    BY <2>3 DEF infras
<1>4. CASE req[r].product = "datasource"
  <2> DEFINE new == [EntryOf(vdc, i) EXCEPT !.sources = @ \union {Job[r].id}]
  <2>1. VdcType(vdc, Ready)
    BY <1>1, <1>4 DEF CallType, ForBlueprint
  <2>2. DOMAIN new = {"ports", "sources"}
    BY <1>2, <2>1 DEF EntryOf, VdcType
  <2>3. ChangedVdc(r) = [vdc EXCEPT !.infras = Put(vdc.infras, i, new)]
    BY <1>4 DEF ChangedVdc
  <2> HIDE DEF new
  <2> QED
    BY <1>3, <2>1, <2>2, <2>3
<1>5. CASE req[r].product = "dal"
  <2> DEFINE inUse == InUse(r)
  <2>1. VdcType(vdc, Ready)
    BY <1>1, <1>5 DEF CallType, ForBlueprint
  <2>2. ChangedVdc(r) = [vdc EXCEPT !.inUse = inUse]
    BY <1>5 DEF ChangedVdc
  <2> HIDE DEF inUse
  <2> QED
    BY <2>1, <2>2 DEF VdcType
<1>6. CASE req[r].product = "vdc" /\ Job[r].kind = "copy"
  <2> DEFINE new == NewEntry(RecordedPorts(r))
  <2>1. VdcType(vdc, Ready)
    BY <1>1, <1>6 DEF ForBlueprint
  <2>2. DOMAIN new = {"ports", "sources"}
    BY <1>2
  <2>3. ChangedVdc(r) = [vdc EXCEPT !.infras = Put(vdc.infras, i, new)]
    BY <1>6 DEF ChangedVdc
  <2> HIDE DEF new
  <2> QED
    BY <1>3, <2>1, <2>2, <2>3
<1>7. CASE req[r].product = "vdc" /\ Job[r].kind # "copy"
  <2> DEFINE infras == [j \in {i} |-> NewEntry(RecordedPorts(r))]
  <2>1. ChangedVdc(r) = [infras |-> infras, apps |-> req[r].apps, inUse |-> << >>]
    BY <1>7 DEF ChangedVdc
  <2>2. DOMAIN infras = {i} /\ \A j \in DOMAIN infras : DOMAIN infras[j] = {"ports", "sources"}
    BY <1>2
  <2>3. req[r].apps \in Seq(Ready)
    BY <1>1 DEF RequestType
  <2> HIDE DEF infras
  <2>4. /\ DOMAIN ChangedVdc(r) = {"infras", "apps", "inUse"} /\ ChangedVdc(r).infras = infras
        /\ ChangedVdc(r).apps = req[r].apps
    BY <2>1
  <2> QED
    BY <1>1, <2>2, <2>3, <2>4 DEF VdcType
<1> QED
  BY <1>1, <1>4, <1>5, <1>6, <1>7 DEF CallType

LEMMA ResultHasType ==
  ASSUME NEW r \in Requests, TypeInv, req[r].pc = "store"
  PROVE  DocType(Result(r), Ready) /\ Result(r).owners = req[r].doc.owners
<1> DEFINE doc == req[r].doc
           new == Result(r)
           n   == req[r].vdc
<1>1. RequestType(r) /\ CallType(r) /\ DocType(doc, Ready) /\ n \in Nat
  BY DEF TypeInv, RequestType, Calling
<1>2. CASE req[r].product = "vdm"
  <2>1. new = [doc EXCEPT !.vdm = req[r].infra]
    BY <1>2 DEF Result
  <2> HIDE DEF new
  <2>2. DocType(new, Ready) /\ new.owners = doc.owners
    BY <1>1, <2>1, Shapes DEF DocType
  <2> QED
    BY <2>2 DEF new
<1>3. CASE req[r].product # "vdm"
  <2>1. /\ DOMAIN new = DOMAIN NewInfo /\ new.owners = doc.owners
        /\ new.num = IF ForBlueprint(r) THEN doc.num + 1 ELSE doc.num
        /\ DOMAIN new.vdcs = DOMAIN doc.vdcs \union {n}
        /\ new.vdcs[n] = ChangedVdc(r)
        /\ \A k \in DOMAIN doc.vdcs \ {n} : new.vdcs[k] = doc.vdcs[k]
    BY <1>3, ResultOfVdcRequest
  <2>2. VdcType(ChangedVdc(r), Ready)
    BY <1>3, ChangedVdcHasType
  <2> HIDE DEF new
  <2>3. new.num \in Nat /\ DOMAIN new.vdcs \subseteq Nat
    BY <1>1, <2>1 DEF DocType
  <2>4. ASSUME NEW k \in DOMAIN new.vdcs PROVE VdcType(new.vdcs[k], Ready)
    BY <1>1, <2>1, <2>2 DEF DocType
  <2>5. DocType(new, Ready)
    BY <1>1, <2>1, <2>3, <2>4 DEF DocType
  <2> QED
    BY <2>1, <2>5 DEF new
<1> QED
  BY <1>2, <1>3

LEMMA InsertKeepsTypes ==
  ASSUME NEW r \in Requests, TypeInv, IdentityInvariant, Insert(r)
  PROVE  TypeInv'
<1>1. /\ UNCHANGED <<used, pods, services>> /\ req[r].pc = "insert"
      /\ DOMAIN req = Requests /\ RequestType(r) /\ DocType(info, Ready)
      /\ (info = NoInfo \/ info.owners # << >>) /\ ForBlueprint(r)
      /\ DocType(req[r].doc, Ready) /\ req[r].doc.owners # << >>
  BY DEF Insert, At, TypeInv, RequestType, IdentityInvariant, CopyInvariant
<1>2. faults' \in 0..MaxFaults
  BY FaultsStayBounded DEF TypeInv, Insert
<1>3. UsedType' /\ UsedStays /\ ClusterType'
  BY <1>1 DEF TypeInv, UsedType, ClusterType, Ready, UsedStays
<1>4. DocType(info', Ready) /\ (info' = NoInfo \/ info'.owners # << >>)
  BY <1>1 DEF Insert, Inserted
<1>5. ASSUME OnlyOf(r), Fresh(r)' \subseteq Fresh(r), Ready \subseteq Ready' => RequestType(r)'
      PROVE  TypeInv'
  BY <1>2, <1>3, <1>4, <1>5, FrameKeepsTypes DEF Frame
<1>6. CASE Answer(r, "failed")
  <2>1. OnlyOf(r) /\ Fresh(r)' = {} /\ RequestType(r)'
    BY <1>6, AnswerHasType DEF Answers
  <2> QED
    BY <1>5, <2>1
<1>7. CASE req' = [req EXCEPT ![r] = AfterOwners(req[r])]
  <2>1. /\ OnlyOf(r) /\ Fresh(r)' = Job[r].apps
        /\ Ready \subseteq Ready' => RequestType(r)'
    BY <1>1, <1>7, AfterOwnersHasType DEF RequestType
  <2>2. Fresh(r)' \subseteq Fresh(r)
    BY <1>1, <2>1 DEF Fresh
  <2> QED
    BY <1>5, <2>1, <2>2
<1> QED
  BY <1>6, <1>7 DEF Insert

LEMMA StoreKeepsTypes ==
  ASSUME NEW r \in Requests, TypeInv, Store(r)
  PROVE  TypeInv'
<1>1. /\ UNCHANGED <<used, pods, services>> /\ req[r].pc = "store"
      /\ DOMAIN req = Requests /\ RequestType(r) /\ CallType(r) /\ DocType(info, Ready)
      /\ (info = NoInfo \/ info.owners # << >>) /\ req[r].doc.owners # << >>
  BY DEF Store, At, TypeInv, RequestType, CallType, Calling
<1>2. faults' \in 0..MaxFaults
  BY FaultsStayBounded DEF TypeInv, Store
<1>3. UsedType' /\ UsedStays /\ ClusterType'
  BY <1>1 DEF TypeInv, UsedType, ClusterType, Ready, UsedStays
<1>4. DocType(Result(r), Ready) /\ Result(r).owners # << >>
  BY <1>1, ResultHasType
<1>5. DocType(info', Ready) /\ (info' = NoInfo \/ info'.owners # << >>)
  BY <1>1, <1>4 DEF Store
<1>6. ASSUME OnlyOf(r), Fresh(r)' \subseteq Fresh(r), Ready \subseteq Ready' => RequestType(r)'
      PROVE  TypeInv'
  BY <1>2, <1>3, <1>5, <1>6, FrameKeepsTypes DEF Frame
<1>7. CASE Answer(r, "done") \/ Answer(r, "failed")
  <2>1. OnlyOf(r) /\ Fresh(r)' = {} /\ RequestType(r)'
    BY <1>7, AnswerHasType DEF Answers
  <2> QED
    BY <1>6, <2>1
<1>8. CASE /\ req[r].product = "vdm"
           /\ req' = [req EXCEPT ![r] = AfterOwners([Idle EXCEPT !.doc = Result(r)])]
  <2> DEFINE state == [Idle EXCEPT !.doc = Result(r)]
  <2>1. /\ DOMAIN state = DOMAIN Idle /\ state.doc = Result(r) /\ state.infra = NoInfra
        /\ state.used = << >> /\ state.ports = << >> /\ state.apps = << >> /\ state.vdc = 0
    BY Shapes DEF Idle
  <2>2. << >> \in Slices /\ << >> \in Seq(PortStart..PortEnd) /\ << >> \in Seq(Ready)
    BY EmptySeq DEF Slices, StrictlyIncreasing
  <2>3. req' = [req EXCEPT ![r] = AfterOwners(state)]
    BY <1>8
  <2> HIDE DEF state
  <2>4. /\ DocType(state.doc, Ready) /\ state.doc.owners # << >>
        /\ state.infra \in Infras \union {NoInfra} /\ state.used \in Slices
        /\ state.ports \in Seq(PortStart..PortEnd) /\ state.apps \in Seq(Ready)
        /\ state.vdc \in Nat
    BY <1>4, <2>1, <2>2
  <2>5. ForBlueprint(r) /\ DOMAIN state = DOMAIN Idle
    BY <1>1, <1>8, <2>1 DEF CallType
  <2>6. /\ OnlyOf(r) /\ Fresh(r)' = Job[r].apps
        /\ Ready \subseteq Ready' => RequestType(r)'
    BY <2>3, <2>4, <2>5, AfterOwnersHasType
  <2>7. Fresh(r)' \subseteq Fresh(r)
    BY <1>1, <1>8, <2>5, <2>6 DEF Fresh, ForVdm, Calling
  <2> QED
    BY <1>6, <2>6, <2>7
<1> QED
  BY <1>7, <1>8 DEF Store

LEMMA InitHasTypes ==
  ASSUME Init, PortsInRange
  PROVE  TypeInv
<1>1. << >> \in Slices /\ << >> \in Seq(PortStart..PortEnd) /\ << >> \in Seq(Ready) /\ DOMAIN << >> = {}
  BY EmptySeq DEF Slices, StrictlyIncreasing
<1>2. DocType(info, Ready) /\ info = NoInfo
  BY NewInfoHasType DEF Init, NoInfo
<1>3. UsedType /\ faults \in 0..MaxFaults
  BY BoundAssumption DEF Init, UsedType
<1>4. ClusterType
  BY <1>1 DEF Init, ClusterType, PortsInRange
<1>5. ASSUME NEW r \in Requests PROVE RequestType(r)
  <2>1. req[r] = Idle
    BY DEF Init
  <2>2. /\ Idle.pc = "idle" /\ Idle.doc = NewInfo /\ Idle.infra = NoInfra /\ Idle.used = << >>
        /\ Idle.ports = << >> /\ Idle.apps = << >> /\ Idle.vdc = 0
    BY DEF Idle
  <2> QED
    BY <1>1, <2>1, <2>2, NewInfoHasType DEF RequestType, Pcs, Calling
<1> QED
  BY <1>2, <1>3, <1>4, <1>5 DEF TypeInv, Init

LEMMA StepKeepsTypes ==
  ASSUME TypeInv, IdentityInvariant, PortsInRange, [Next]_vars
  PROVE  TypeInv'
<1>1. CASE UNCHANGED vars
  <2>1. Ready' = Ready
    BY <1>1 DEF vars, Ready, Fresh, ForVdm
  <2> QED
    BY <1>1, <2>1 DEF vars, TypeInv, UsedType, ClusterType, RequestType, CallType
<1>2. CASE Next
  <2>1. PICK r \in Requests : Begin(r) \/ Work(r)
    BY <1>2 DEF Next
  <2>2. CASE Begin(r)
    BY <2>2, BeginKeepsTypes
  <2>3. CASE CreateOwners(r) \/ CreateApps(r)
    BY <2>3, CreateOwnersKeepsTypes, CreateAppsKeepsTypes
  <2>4. CASE Insert(r) \/ Store(r)
    BY <2>4, InsertKeepsTypes, StoreKeepsTypes
  <2> QED
    BY <2>1, <2>2, <2>3, <2>4, CallStepKeepsTypes DEF Work
<1> QED
  BY <1>1, <1>2

LEMMA TypeInvImpliesTypeOK == TypeInv => TypeOK
<1> SUFFICES ASSUME TypeInv PROVE TypeOK
  OBVIOUS
<1>1. ASSUME NEW s \in Seq(PortStart..PortEnd)
      PROVE  PortsOf(s) \subseteq PortStart..PortEnd /\ ToSet(s) \subseteq PortStart..PortEnd
  <2>1. s \in [1..Len(s) -> PortStart..PortEnd]
    BY LenProperties
  <2> QED
    BY <2>1 DEF PortsOf, ToSet
<1>2. DOMAIN info = DOMAIN NewInfo /\ (info = NoInfo \/ info.owners # << >>)
  BY DEF TypeInv, DocType
<1>3. ASSUME NEW i \in Infras
      PROVE  used[i] \in {NotThere, Bare} \/ PortsOf(used[i]) \subseteq PortStart..PortEnd
  BY <1>1 DEF TypeInv, UsedType, Slices
<1>4. ASSUME NEW slice \in Slices PROVE slice \notin {NotThere, Bare}
  <2>1. slice \in Seq(Nat)
    BY RangeIsNatural, SeqMonotonic DEF Slices
  <2> QED
    BY <2>1, MarkAssumption
<1>5. ASSUME NEW r \in Requests
      PROVE  /\ req[r].infra \in Infras \union {NoInfra}
             /\ ToSet(req[r].ports) \union PortsOf(req[r].used) \subseteq PortStart..PortEnd
             /\ req[r].pc \in Calling \ {"read"} =>
                  req[r].infra \in Infras /\ used[req[r].infra] \notin {NotThere, Bare}
  <2>1. RequestType(r)
    BY DEF TypeInv
  <2>2. ToSet(req[r].ports) \union PortsOf(req[r].used) \subseteq PortStart..PortEnd
    BY <1>1, <2>1 DEF RequestType, Slices
  <2>3. req[r].pc \in Calling \ {"read"} => req[r].infra \in Infras /\ used[req[r].infra] \in Slices
    BY <2>1 DEF RequestType, CallType, Ready
  <2> QED
    BY <1>4, <2>1, <2>2, <2>3 DEF RequestType
<1> QED
  BY <1>2, <1>3, <1>5 DEF TypeOK, TypeInv, Calling

(* With any number of requests in flight and any faults, a request that came   *)
(* past FindInfrastructure works on an infrastructure that has a document and *)
(* Kubernetes, and the ports that are recorded, held on a copy or given to a  *)
(* Service lie in the range (provisionercontroller.go:48-86).                *)
THEOREM TypeCorrect ==
  ASSUME PortsInRange
  PROVE  Spec => []TypeOK
<1>1. Init => IdentityInvariant /\ TypeInv
  BY InitEstablishesIdentityInvariant, InitHasTypes
<1>2. IdentityInvariant /\ TypeInv /\ [Next]_vars => (IdentityInvariant /\ TypeInv)'
  BY StepKeepsIdentity, StepKeepsTypes
<1>3. TypeInv => TypeOK
  BY TypeInvImpliesTypeOK
<1> QED
  BY <1>1, <1>2, <1>3, PTL DEF Spec

-----------------------------------------------------------------------------
(* Requests that come one at a time. The documents of the blueprint and of    *)
(* the infrastructures are then what the next request reads, so what the     *)
(* document says of a VDC stays so in the cluster, whatever calls fail.       *)
OneRequestAtATime == MaxInFlight <= 1

OneAtATime == \A r \in InFlight : \A q \in InFlight : r = q

Places == {"ports", "pod", "service", "save", "store"}

(* The infrastructures where the document says that a VDC runs.              *)
Recorded(n, i) ==
  n \in DOMAIN info.vdcs /\ i \in DOMAIN info.vdcs[n].infras /\ info.vdcs[n].infras[i].ports # {}

VdmRuns(i) ==
  /\ VdmName \in DOMAIN pods[i] \intersect DOMAIN services[i]
  /\ services[i][VdmName] = ToSet(VdmPorts) /\ ToSet(VdmPorts) \subseteq PortsOf(used[i])

ClusterHolds ==
  /\ info.vdm # NoInfra => VdmRuns(info.vdm)
  /\ \A n, i : Recorded(n, i) => Runs(n, i)
  /\ \A n \in DOMAIN info.vdcs : n < info.num

(* Whom the request is about: a VDC with a new number, a copy where the VDC   *)
(* is not yet, an address for a DAL where it is.                             *)
Subject(r) ==
  /\ req[r].doc = info
  /\ req[r].product = "vdm" => info.vdm = NoInfra
  /\ req[r].product = "vdc" /\ ForBlueprint(r) => req[r].vdc = info.num
  /\ req[r].product = "vdc" /\ ~ ForBlueprint(r) =>
       req[r].infra \notin DOMAIN info.vdcs[req[r].vdc].infras
  /\ req[r].product = "dal" =>
       req[r].infra \in DOMAIN info.vdcs[req[r].vdc].infras /\ req[r].vdc = Job[r].vdc

(* The ports of what the document says to run there are used in its copy.     *)
Covers(r) ==
  /\ info.vdm # NoInfra /\ info.vdm = req[r].infra =>
       ToSet(VdmPorts) \subseteq PortsOf(req[r].used)
  /\ \A n : Recorded(n, req[r].infra) =>
       services[req[r].infra][VdcName(n)] \subseteq PortsOf(req[r].used)

(* The ports it has taken.                                                   *)
Claimed(r) == ToSet(req[r].ports) \subseteq PortsOf(req[r].used)
PortsTaken(r) ==
  /\ req[r].pc \in {"read", "list"} => req[r].ports = << >>
  /\ req[r].pc = "ports" => Len(req[r].ports) <= 2 /\ Claimed(r)
  /\ req[r].pc \in Places \ {"ports"} /\ req[r].product = "vdc" =>
       Len(req[r].ports) = 3 /\ Claimed(r)
  /\ req[r].pc \in {"pod", "service"} /\ req[r].product = "vdm" =>
       req[r].ports = << >> \/ (req[r].ports = VdmPorts /\ Claimed(r))
  /\ req[r].pc \in {"save", "store"} /\ req[r].product = "vdm" =>
       req[r].ports = VdmPorts /\ Claimed(r)

(* Where a Deployment has an address for the DAL it is the one asked for.     *)
Readdresses(job, pod) == job.dal \in DOMAIN pod.dals => pod.dals[job.dal] = job.ip

(* What it has made in the cluster.                                          *)
HasPod(r) ==
  /\ ServiceName(r) \in DOMAIN pods[req[r].infra]
  /\ req[r].product = "vdc" =>
       pods[req[r].infra][ServiceName(r)].vdm = IF req[r].infra = info.vdm THEN NoInfra ELSE info.vdm
  /\ req[r].product = "vdc" /\ Job[r].kind = "copy" =>
       pods[req[r].infra][ServiceName(r)].dals = Aliases(req[r].infra, info.vdcs[req[r].vdc].inUse)
  /\ req[r].product = "dal" => Readdresses(Job[r], pods[req[r].infra][ServiceName(r)])
HasService(r) ==
  /\ ServiceName(r) \in DOMAIN services[req[r].infra]
  /\ services[req[r].infra][ServiceName(r)] = ToSet(req[r].ports)
Made(r) ==
  /\ req[r].pc \in {"service", "save", "store"} /\ req[r].product # "datasource" => HasPod(r)
  /\ req[r].pc \in {"save", "store"} /\ req[r].product \in {"vdc", "vdm"} => HasService(r)
  /\ req[r].pc = "store" => used[req[r].infra] = req[r].used

Progress(r) ==
  /\ req[r].pc \in {"idle", "owners", "insert", "apps"} => req[r].ports = << >>
  /\ req[r].pc = "apps" => req[r].doc = info
  /\ req[r].pc \in Calling => Subject(r) /\ PortsTaken(r) /\ Made(r)
  /\ req[r].pc \in Places => Covers(r)

(* What a request that was answered is promised.                             *)
Promised(r) ==
  /\ info # NoInfo /\ req[r].vdc \in DOMAIN info.vdcs
  /\ req[r].infra \in DOMAIN info.vdcs[req[r].vdc].infras /\ Job[r].kind # "newdal"
  /\ Job[r].kind \in {"blueprint", "copy"} =>
       info.vdcs[req[r].vdc].infras[req[r].infra].ports # {}
  /\ Job[r].kind = "datasource" =>
       Job[r].id \in info.vdcs[req[r].vdc].infras[req[r].infra].sources
  /\ Job[r].kind = "dal" =>
       /\ req[r].vdc = Job[r].vdc /\ Gives(info.vdcs[req[r].vdc].inUse, Job[r])
       /\ VdcName(req[r].vdc) \in DOMAIN pods[req[r].infra]
       /\ Readdresses(Job[r], pods[req[r].infra][VdcName(req[r].vdc)])

SerialInv ==
  /\ OneAtATime /\ ClusterHolds
  /\ \A r \in Requests : Progress(r)
PromiseInv == \A r \in Requests : req[r].pc = "done" => Promised(r)

(* A request that takes a step is the only one in flight.                    *)
LEMMA StepsAlone ==
  ASSUME OneRequestAtATime, TypeInv, OneAtATime,
         NEW r \in Requests, Begin(r) \/ Work(r)
  PROVE  \A q \in Requests \ {r} : q \notin InFlight
<1>1. CASE Begin(r)
  <2>1. Cardinality(InFlight) < MaxInFlight /\ MaxInFlight \in Nat
    BY <1>1, BoundAssumption DEF Begin
  <2>2. IsFiniteSet(InFlight)
    <3>1. CASE InFlight = {}
      BY <3>1, FS_EmptySet
    <3>2. CASE InFlight # {}
      <4>1. PICK q \in InFlight : InFlight = {q}
        BY <3>2 DEF OneAtATime
      <4> QED
        BY <4>1, FS_Singleton
    <3> QED
      BY <3>1, <3>2
  <2>3. Cardinality(InFlight) \in Nat
    BY <2>2, FS_CardinalityType
  <2>4. Cardinality(InFlight) = 0
    BY <2>1, <2>3 DEF OneRequestAtATime
  <2> QED
    BY <2>2, <2>4, FS_EmptySet
<1>2. CASE Work(r)
  <2>1. req[r].pc \in Calling \union {"owners", "insert", "apps"}
    BY <1>2 DEF Work, CreateOwners, Insert, CreateApps, Read, List, TakePort, CreateVdcPod,
                CreateVdmPod, ModifyPod, CreateSource, RefuseDal, ClaimForVdm, CreateService,
                Save, Store, At, Calling
  <2>2. r \in InFlight
    BY <2>1 DEF InFlight, At, Ended, Calling
  <2> QED
    BY <2>2 DEF OneAtATime
<1> QED
  BY <1>1, <1>2

(* Those that are not in flight have no part in the invariant.               *)
LEMMA SerialFrame ==
  ASSUME NEW r \in Requests, TypeInv, SerialInv, OnlyOf(r),
         \A q \in Requests \ {r} : q \notin InFlight,
         ClusterHolds', Progress(r)'
  PROVE  SerialInv'
<1>1. ASSUME NEW q \in Requests \ {r}
      PROVE  req'[q] = req[q] /\ req[q].pc \in Answers \union {"idle"}
  BY <1>1 DEF OnlyOf, InFlight, At, Ended, Answers
<1>2. ASSUME NEW q \in Requests \ {r} PROVE Progress(q)'
  BY <1>1, <1>2 DEF Progress, SerialInv, Answers, Calling, Places
<1>3. ASSUME NEW q \in Requests \ {r} PROVE q \notin InFlight'
  BY <1>1, <1>3 DEF InFlight, At, Ended, Answers
<1>4. OneAtATime'
  <2>1. InFlight' \subseteq {r}
    BY <1>3 DEF InFlight
  <2> QED
    BY <2>1 DEF OneAtATime
<1> QED
  BY <1>2, <1>4 DEF SerialInv

(* An answer ends the progress.                                              *)
LEMMA AnswerEnds ==
  ASSUME NEW r \in Requests, NEW pc \in Answers, TypeInv, Answer(r, pc)
  PROVE  OnlyOf(r) /\ Progress(r)'
<1>1. OnlyOf(r) /\ req'[r].pc = pc
  BY AnswerHasType
<1> QED
  BY <1>1 DEF Progress, Answers, Calling, Places

(* Where the document says that something runs there is Kubernetes.          *)
LEMMA RecordedIsReady ==
  ASSUME TypeInv, IdentityInvariant
  PROVE  /\ info.vdm # NoInfra => info.vdm \in Ready
         /\ \A n, i : Recorded(n, i) => n \in DOMAIN info.vdcs /\ i \in Ready
<1>1. ASSUME info.vdm # NoInfra PROVE info.vdm \in Ready
  <2>1. info # NoInfo
    BY <1>1 DEF NoInfo, NewInfo
  <2>2. info.owners \in Seq(Ready) /\ info.owners # << >>
    BY <2>1 DEF TypeInv, DocType
  <2> QED
    BY <1>1, <2>2, DefaultIsListed DEF IdentityInvariant, InfoInvariant
<1>2. ASSUME NEW n, NEW i, Recorded(n, i) PROVE n \in DOMAIN info.vdcs /\ i \in Ready
  BY <1>2 DEF Recorded, TypeInv, DocType, VdcType
<1> QED
  BY <1>1, <1>2

(* A step that leaves the clusters and the documents alone.                  *)
LEMMA QuietStepIsSerial ==
  ASSUME NEW r \in Requests, TypeInv, SerialInv,
         \A q \in Requests \ {r} : q \notin InFlight,
         UNCHANGED <<info, used, pods, services>>, OnlyOf(r), Progress(r)'
  PROVE  SerialInv'
<1>1. ClusterHolds'
  BY DEF SerialInv, ClusterHolds, Recorded, VdmRuns, Runs
<1> QED
  BY <1>1, SerialFrame

(* The names of what a request makes are nobody else's.                      *)
LEMMA NamesDiffer ==
  ASSUME NEW n, NEW k
  PROVE  VdcName(n) # VdmName /\ (VdcName(n) = VdcName(k) => n = k)
BY DEF VdcName, VdmName

LEMMA NameIsOwn ==
  ASSUME NEW r \in Requests, TypeInv, IdentityInvariant, SerialInv,
         req[r].pc \in Calling, req[r].product \in {"vdc", "vdm"}
  PROVE  /\ \A n \in DOMAIN info.vdcs :
              req[r].infra \in DOMAIN info.vdcs[n].infras => VdcName(n) # ServiceName(r)
         /\ info.vdm # NoInfra => VdmName # ServiceName(r)
<1>1. Subject(r) /\ CopyInvariant(r) /\ InfoInvariant
  BY DEF SerialInv, Progress, IdentityInvariant
<1>2. \A n \in DOMAIN info.vdcs : n \in Nat /\ n < info.num /\ info.num \in Nat
  BY DEF SerialInv, ClusterHolds, TypeInv, DocType
<1>3. CASE req[r].product = "vdm"
  <2>1. ServiceName(r) = VdmName /\ info.vdm = NoInfra
    BY <1>1, <1>3 DEF ServiceName, Subject
  <2> QED
    BY <2>1, NamesDiffer
<1>4. CASE req[r].product = "vdc"
  <2>1. ServiceName(r) = VdcName(req[r].vdc)
    BY <1>4 DEF ServiceName
  <2>2. ASSUME NEW n \in DOMAIN info.vdcs, req[r].infra \in DOMAIN info.vdcs[n].infras
        PROVE  n # req[r].vdc
    BY <1>1, <1>2, <1>4, <2>2 DEF Subject
  <2> QED
    BY <2>1, <2>2, NamesDiffer
<1> QED
  BY <1>3, <1>4

(* What a request makes under its own name leaves what is recorded.          *)
NamesKept(r, old, new) ==
  /\ DOMAIN new = Infras
  /\ \A j \in Infras : \A m \in DOMAIN old[j] :
       j # req[r].infra \/ m # ServiceName(r) => m \in DOMAIN new[j] /\ new[j][m] = old[j][m]

LEMMA RecordedStays ==
  ASSUME NEW r \in Requests, TypeInv, IdentityInvariant, SerialInv,
         req[r].pc \in Calling, req[r].product \in {"vdc", "vdm"},
         info' = info, used' = used,
         NamesKept(r, pods, pods'), NamesKept(r, services, services')
  PROVE  ClusterHolds' /\ (Covers(r) => \A n : Recorded(n, req[r].infra) =>
           services'[req[r].infra][VdcName(n)] \subseteq PortsOf(req[r].used))
<1>1. ClusterHolds /\ DOMAIN info.vdcs \subseteq Nat
  BY DEF SerialInv, TypeInv, DocType
<1>2. ASSUME info.vdm # NoInfra PROVE VdmRuns(info.vdm)'
  <2>1. VdmRuns(info.vdm) /\ info.vdm \in Infras
    BY <1>1, <1>2, RecordedIsReady DEF ClusterHolds, Ready
  <2>2. VdmName # ServiceName(r)
    BY <1>2, NameIsOwn
  <2> QED
    BY <2>1, <2>2 DEF VdmRuns, NamesKept
<1>3. ASSUME NEW n, NEW i, Recorded(n, i)
      PROVE  /\ Runs(n, i)'
             /\ services'[i][VdcName(n)] = services[i][VdcName(n)]
  <2>1. Runs(n, i) /\ n \in DOMAIN info.vdcs /\ i \in DOMAIN info.vdcs[n].infras /\ i \in Infras
    BY <1>1, <1>3, RecordedIsReady DEF ClusterHolds, Ready, Recorded
  <2>2. i # req[r].infra \/ VdcName(n) # ServiceName(r)
    BY <2>1, NameIsOwn
  <2>3. /\ VdcName(n) \in DOMAIN pods'[i] /\ pods'[i][VdcName(n)] = pods[i][VdcName(n)]
        /\ VdcName(n) \in DOMAIN services'[i]
        /\ services'[i][VdcName(n)] = services[i][VdcName(n)]
    BY <2>1, <2>2 DEF Runs, NamesKept
  <2> QED
    BY <2>1, <2>3 DEF Runs
<1>4. ClusterHolds'
  BY <1>1, <1>2, <1>3 DEF ClusterHolds, Recorded
<1>5. ASSUME Covers(r), NEW n, Recorded(n, req[r].infra)
      PROVE  services'[req[r].infra][VdcName(n)] \subseteq PortsOf(req[r].used)
  <2>1. services[req[r].infra][VdcName(n)] \subseteq PortsOf(req[r].used)
    BY <1>5 DEF Covers
  <2>2. services'[req[r].infra][VdcName(n)] = services[req[r].infra][VdcName(n)]
    BY <1>3, <1>5
  <2> QED
    BY <2>1, <2>2
<1> QED
  BY <1>4, <1>5

LEMMA PutKeepsNames ==
  ASSUME NEW r \in Requests, NEW old, DOMAIN old = Infras, req[r].infra \in Infras,
         NEW value, NEW new,
         \/ new = old
         \/ new = [old EXCEPT ![req[r].infra] = Put(old[req[r].infra], ServiceName(r), value)]
         \/ new = [old EXCEPT ![req[r].infra] = Without(old[req[r].infra], ServiceName(r))]
  PROVE  NamesKept(r, old, new)
<1> DEFINE i    == req[r].infra
           name == ServiceName(r)
           put  == Put(old[i], name, value)
           rest == Without(old[i], name)
<1> HIDE DEF name
<1>1. \A m \in DOMAIN old[i] \ {name} : m \in DOMAIN put /\ put[m] = old[i][m]
  BY DEF Put
<1>2. \A m \in DOMAIN old[i] \ {name} : m \in DOMAIN rest /\ rest[m] = old[i][m]
  BY DEF Without
<1>3. new = old \/ new = [old EXCEPT ![i] = put] \/ new = [old EXCEPT ![i] = rest]
  BY DEF name
<1> HIDE DEF put, rest
<1>4. DOMAIN new = Infras
  BY <1>3
<1>5. ASSUME NEW j \in Infras, NEW m \in DOMAIN old[j], j # i \/ m # name
      PROVE  m \in DOMAIN new[j] /\ new[j][m] = old[j][m]
  <2>1. CASE j # i
    <3>1. new[j] = old[j]
      BY <1>3, <2>1
    <3> QED
      BY <3>1
  <2>2. CASE j = i
    <3>1. new[i] = old[i] \/ new[i] = put \/ new[i] = rest
      BY <1>3
    <3> QED
      BY <1>1, <1>2, <1>5, <2>2, <3>1
  <2> QED
    BY <2>1, <2>2
<1> QED
  BY <1>4, <1>5 DEF NamesKept, name

(* The steps of a request that is alone.                                     *)
LEMMA AfterOwnersProgress ==
  ASSUME NEW r \in Requests, TypeInv, NEW state,
         DOMAIN state = DOMAIN Idle, state.doc = info', state.ports = << >>,
         req' = [req EXCEPT ![r] = AfterOwners(state)]
  PROVE  OnlyOf(r) /\ Progress(r)'
<1>1. OnlyOf(r) /\ req'[r] = AfterOwners(state)
  BY DEF OnlyOf, TypeInv
<1>2. CASE state.doc.vdm = NoInfra
  <2> DEFINE infra == DefaultInfra(state.doc.owners)
  <2>1. req'[r] = [state EXCEPT !.pc = "read", !.product = "vdm", !.infra = infra]
    BY <1>1, <1>2 DEF AfterOwners
  <2> HIDE DEF infra
  <2>2. /\ req'[r].pc = "read" /\ req'[r].product = "vdm"
        /\ \A k \in DOMAIN state \ {"pc", "product", "infra"} : req'[r][k] = state[k]
    BY <2>1, Shapes
  <2>3. req'[r].doc = info' /\ req'[r].ports = << >>
    BY <2>2, Shapes
  <2>4. Subject(r)' /\ PortsTaken(r)' /\ Made(r)'
    BY <1>2, <2>2, <2>3 DEF Subject, PortsTaken, Made, Places
  <2> QED
    BY <1>1, <2>2, <2>4 DEF Progress, Places
<1>3. CASE state.doc.vdm # NoInfra
  <2>1. req'[r].pc = "apps" /\ req'[r].doc = info' /\ req'[r].ports = << >>
    BY <1>1, <1>3, Shapes DEF AfterOwners
  <2> QED
    BY <1>1, <2>1 DEF Progress, Calling, Places
<1> QED
  BY <1>2, <1>3

LEMMA BeginIsSerial ==
  ASSUME NEW r \in Requests, TypeInv, IdentityInvariant, SerialInv, Begin(r),
         \A q \in Requests \ {r} : q \notin InFlight
  PROVE  SerialInv'
<1>1. /\ UNCHANGED <<info, used, pods, services>> /\ req[r].pc = "idle" /\ req[r].ports = << >>
      /\ DOMAIN req = Requests /\ DOMAIN req[r] = DOMAIN Idle
  BY DEF Begin, At, TypeInv, RequestType, SerialInv, Progress
<1>2. ASSUME OnlyOf(r), Progress(r)' PROVE SerialInv'
  BY <1>1, <1>2, QuietStepIsSerial
<1>3. CASE Goto(r, "owners")
  <2>1. OnlyOf(r) /\ req'[r].pc = "owners" /\ req'[r].ports = << >>
    BY <1>1, <1>3, Shapes DEF Goto, OnlyOf
  <2>2. Progress(r)'
    BY <2>1 DEF Progress, Calling, Places
  <2> QED
    BY <1>2, <2>1, <2>2
<1>4. CASE \E pc \in Answers : Answer(r, pc)
  BY <1>2, <1>4, AnswerEnds
<1>5. CASE req' = [req EXCEPT ![r] = AfterOwners([Idle EXCEPT !.doc = info])]
  <2> DEFINE state == [Idle EXCEPT !.doc = info]
  <2>1. DOMAIN state = DOMAIN Idle /\ state.doc = info' /\ state.ports = << >>
    BY <1>1, Shapes DEF Idle
  <2>2. req' = [req EXCEPT ![r] = AfterOwners(state)]
    BY <1>5
  <2> HIDE DEF state
  <2> QED
    BY <1>2, <2>1, <2>2, AfterOwnersProgress
<1>6. CASE RefuseCopy(r)
  <2>1. OnlyOf(r) /\ req'[r].pc = "running"
    BY <1>1, <1>6, Shapes DEF RefuseCopy, OnlyOf
  <2>2. Progress(r)'
    BY <2>1 DEF Progress, Calling, Places
  <2> QED
    BY <1>2, <2>1, <2>2
<1>7. CASE AcceptVdcRequest(r) /\ ~ ForBlueprint(r)
  <2> DEFINE product == IF Job[r].kind = "copy" THEN "vdc" ELSE Job[r].kind
  <2>1. req' = [req EXCEPT ![r] = [Provision(r, product, Job[r].infra)
                  EXCEPT !.doc = info, !.vdc = Job[r].vdc]]
    BY <1>7 DEF AcceptVdcRequest
  <2>2. Job[r].kind \in {"copy", "datasource", "dal", "newdal"}
    BY <1>7, JobAssumption DEF ForBlueprint
  <2>3. /\ product \notin {"vdm"}
        /\ product = "vdc" => Job[r].infra \notin DOMAIN info.vdcs[Job[r].vdc].infras
        /\ product = "dal" => Job[r].infra \in DOMAIN info.vdcs[Job[r].vdc].infras
    BY <1>7, <2>2 DEF AcceptVdcRequest, Acceptable, Vdc
  <2> HIDE DEF product
  <2>4. /\ OnlyOf(r) /\ req'[r].pc = "read" /\ req'[r].product = product
        /\ req'[r].infra = Job[r].infra /\ req'[r].doc = info /\ req'[r].vdc = Job[r].vdc
        /\ req'[r].ports = << >>
    BY <1>1, <2>1, Shapes DEF OnlyOf, Provision
  <2>5. Subject(r)' /\ PortsTaken(r)' /\ Made(r)'
    BY <1>1, <1>7, <2>3, <2>4 DEF Subject, PortsTaken, Made, Places, ForBlueprint
  <2>6. Progress(r)'
    BY <2>4, <2>5 DEF Progress, Places
  <2> QED
    BY <1>2, <2>4, <2>6
<1> QED
  BY <1>3, <1>4, <1>5, <1>6, <1>7
     DEF Begin, BeginBlueprint, FirstTime, NextTime, BeginVdcRequest, FailVdcRequest, Answers,
         ForBlueprint

(* Infrastructures that are created are none of those in use.                *)
LEMMA CreatedAreOthers ==
  ASSUME NEW r \in Requests, TypeInv, NEW infras, infras \subseteq Fresh(r),
         NEW order, CreateInfras(infras, order)
  PROVE  \A i \in Ready : used'[i] = used[i]
<1>1. \A i \in Ready : i \in Infras /\ i \notin infras
  BY DEF Ready
<1>2. ASSUME NEW missing, NEW bad, used' = Provisioned(infras, missing, bad)
      PROVE  \A i \in Ready : used'[i] = used[i]
  BY <1>1, <1>2 DEF Provisioned
<1> QED
  BY <1>2 DEF CreateInfras

LEMMA UsedOfOthersIsSerial ==
  ASSUME NEW r \in Requests, TypeInv, IdentityInvariant, SerialInv,
         \A q \in Requests \ {r} : q \notin InFlight,
         UNCHANGED <<info, pods, services>>, \A i \in Ready : used'[i] = used[i],
         OnlyOf(r), Progress(r)'
  PROVE  SerialInv'
<1>1. ClusterHolds
  BY DEF SerialInv
<1>2. info.vdm # NoInfra => VdmRuns(info.vdm)'
  BY <1>1, RecordedIsReady DEF ClusterHolds, VdmRuns
<1>3. ASSUME NEW n, NEW i, Recorded(n, i) PROVE Runs(n, i)'
  <2>1. Runs(n, i) /\ used'[i] = used[i]
    BY <1>1, <1>3, RecordedIsReady DEF ClusterHolds
  <2> QED
    BY <2>1 DEF Runs
<1>4. ClusterHolds'
  BY <1>1, <1>2, <1>3 DEF ClusterHolds, Recorded
<1> QED
  BY <1>4, SerialFrame

LEMMA CreateOwnersIsSerial ==
  ASSUME NEW r \in Requests, TypeInv, IdentityInvariant, SerialInv, CreateOwners(r),
         \A q \in Requests \ {r} : q \notin InFlight
  PROVE  SerialInv'
<1>1. /\ UNCHANGED <<info, pods, services>> /\ req[r].pc = "owners" /\ req[r].ports = << >>
      /\ DOMAIN req = Requests /\ RequestType(r) /\ ForBlueprint(r)
  BY DEF CreateOwners, At, TypeInv, RequestType, SerialInv, Progress
<1>2. PICK order : /\ CreateInfras(Job[r].owners, order)
                   /\ IF order = << >> THEN Answer(r, "failed")
                      ELSE req' = [req EXCEPT ![r].pc = "insert", ![r].doc.owners = order]
  BY DEF CreateOwners
<1>3. \A i \in Ready : used'[i] = used[i]
  <2>1. Job[r].owners \subseteq Fresh(r)
    BY <1>1 DEF Fresh
  <2> QED
    BY <1>2, <2>1, CreatedAreOthers
<1>4. OnlyOf(r) /\ Progress(r)'
  <2>1. CASE order = << >>
    BY <1>2, <2>1, AnswerEnds DEF Answers
  <2>2. CASE order # << >>
    <3>1. OnlyOf(r) /\ req'[r].pc = "insert" /\ req'[r].ports = << >>
      BY <1>1, <1>2, <2>2, Shapes DEF OnlyOf, RequestType
    <3> QED
      BY <3>1 DEF Progress, Calling, Places
  <2> QED
    BY <2>1, <2>2
<1> QED
  BY <1>1, <1>3, <1>4, UsedOfOthersIsSerial

LEMMA CreateAppsIsSerial ==
  ASSUME NEW r \in Requests, TypeInv, IdentityInvariant, SerialInv, CreateApps(r),
         \A q \in Requests \ {r} : q \notin InFlight
  PROVE  SerialInv'
<1>1. /\ UNCHANGED <<info, pods, services>> /\ req[r].pc = "apps" /\ req[r].ports = << >>
      /\ DOMAIN req = Requests /\ RequestType(r) /\ ForBlueprint(r) /\ req[r].doc = info
  BY DEF CreateApps, At, TypeInv, RequestType, SerialInv, Progress
<1>2. \A i \in Ready : used'[i] = used[i]
  <2>1. Job[r].apps \subseteq Fresh(r)
    BY <1>1 DEF Fresh
  <2> QED
    BY <2>1, CreatedAreOthers DEF CreateApps
<1>3. CASE Answer(r, "failed")
  BY <1>1, <1>2, <1>3, AnswerEnds, UsedOfOthersIsSerial DEF Answers
<1>4. CASE \E apps : DeployVDC(r, apps)
  <2>1. PICK apps : DeployVDC(r, apps)
    BY <1>4
  <2> DEFINE infra == DefaultInfra(req[r].doc.owners \o apps)
  <2>2. req' = [req EXCEPT ![r] = [Provision(r, "vdc", infra)
                  EXCEPT !.apps = apps, !.vdc = req[r].doc.num]]
    BY <2>1 DEF DeployVDC
  <2> HIDE DEF infra
  <2>3. /\ OnlyOf(r) /\ req'[r].pc = "read" /\ req'[r].product = "vdc"
        /\ req'[r].doc = info' /\ req'[r].ports = << >> /\ req'[r].vdc = info'.num
    BY <1>1, <2>2, Shapes DEF OnlyOf, RequestType, Provision
  <2>4. Subject(r)' /\ PortsTaken(r)' /\ Made(r)'
    BY <1>1, <2>3 DEF Subject, PortsTaken, Made, Places, ForBlueprint
  <2>5. Progress(r)'
    BY <2>3, <2>4 DEF Progress, Places
  <2> QED
    BY <1>1, <1>2, <2>3, <2>5, UsedOfOthersIsSerial
<1> QED
  BY <1>3, <1>4 DEF CreateApps

LEMMA CoversGrows ==
  ASSUME NEW r \in Requests, Covers(r), req'[r].infra = req[r].infra,
         info' = info, services' = services,
         PortsOf(req[r].used) \subseteq PortsOf(req'[r].used)
  PROVE  Covers(r)'
BY DEF Covers, Recorded

(* The infrastructure as it is read, or as its Services are listed, covers    *)
(* what is recorded.                                                        *)
LEMMA ReadIsSerial ==
  ASSUME NEW r \in Requests, TypeInv, IdentityInvariant, SerialInv, Read(r),
         \A q \in Requests \ {r} : q \notin InFlight
  PROVE  SerialInv'
<1> DEFINE lists == req[r].infra \in Existing /\ req[r].product \in {"vdc", "vdm"}
           pc    == IF lists THEN "list" ELSE AfterList(req[r].product)
<1>1. /\ UNCHANGED <<info, used, pods, services>> /\ req[r].pc = "read" /\ ClusterHolds
      /\ DOMAIN req = Requests /\ DOMAIN req[r] = DOMAIN Idle /\ req[r].ports = << >>
  BY DEF Read, At, TypeInv, RequestType, SerialInv, Progress, PortsTaken, Calling
<1>2. CASE Answer(r, "failed")
  BY <1>1, <1>2, AnswerEnds, QuietStepIsSerial DEF Answers
<1>3. CASE req' = [req EXCEPT ![r].pc = pc, ![r].used = used[req[r].infra]]
  <2>1. pc \in {"list", "ports", "pod"} /\ (pc = "pod" => req[r].product # "vdc")
    BY DEF AfterList
  <2> HIDE DEF pc
  <2>2. /\ OnlyOf(r) /\ req'[r].pc = pc /\ req'[r].used = used[req[r].infra]
        /\ req'[r].ports = << >> /\ req'[r].product = req[r].product
        /\ req'[r].infra = req[r].infra /\ req'[r].vdc = req[r].vdc /\ req'[r].doc = req[r].doc
    BY <1>1, <1>3, Shapes DEF OnlyOf
  <2>3. Subject(r)'
    BY <1>1, <2>2 DEF SerialInv, Progress, Calling, Subject
  <2>4. Covers(r)'
    BY <1>1, <2>2 DEF Covers, ClusterHolds, VdmRuns, Runs, Recorded
  <2>5. PortsTaken(r)' /\ Made(r)'
    <3>1. Len(<< >>) = 0 /\ ToSet(<< >>) = {}
      BY EmptySeq DEF ToSet
    <3> QED
      BY <2>1, <2>2, <3>1 DEF PortsTaken, Made, Claimed, Places
  <2>6. Progress(r)'
    BY <2>1, <2>2, <2>3, <2>4, <2>5 DEF Progress
  <2> QED
    BY <1>1, <2>2, <2>6, QuietStepIsSerial
<1> QED
  BY <1>2, <1>3 DEF Read

LEMMA ListIsSerial ==
  ASSUME NEW r \in Requests, TypeInv, IdentityInvariant, SerialInv, List(r),
         \A q \in Requests \ {r} : q \notin InFlight
  PROVE  SerialInv'
<1> DEFINE pc    == AfterList(req[r].product)
           found == Shown(req[r].infra)
           slice == Sorted(found)
<1>1. /\ UNCHANGED <<info, used, pods, services>> /\ req[r].pc = "list" /\ ClusterHolds
      /\ DOMAIN req = Requests /\ DOMAIN req[r] = DOMAIN Idle /\ req[r].ports = << >>
      /\ req[r].infra \in Infras
  BY DEF List, At, TypeInv, RequestType, CallType, Ready, SerialInv, Progress, PortsTaken, Calling
<1>2. CASE Answer(r, "failed")
  BY <1>1, <1>2, AnswerEnds, QuietStepIsSerial DEF Answers
<1>3. CASE req' = [req EXCEPT ![r].pc = pc, ![r].used = slice]
  <2>1. pc \in {"ports", "pod"} /\ (pc = "pod" => req[r].product # "vdc")
    BY DEF AfterList
  <2>2. PortsOf(slice) = found
    <3>1. found \in SUBSET (PortStart..PortEnd)
      BY <1>1 DEF TypeInv, ClusterType, Shown
    <3> HIDE DEF found
    <3> QED
      BY <3>1, SortedIsSlice
  <2>3. \A m \in DOMAIN services[req[r].infra] \ {Balancer} :
          services[req[r].infra][m] \subseteq PortsOf(slice)
    <3>1. \A m \in DOMAIN services[req[r].infra] \ {Balancer} :
            services[req[r].infra][m] \subseteq found
      BY DEF Shown
    <3> HIDE DEF slice, found
    <3> QED
      BY <2>2, <3>1
  <2> HIDE DEF pc, slice
  <2>4. /\ OnlyOf(r) /\ req'[r].pc = pc /\ req'[r].used = slice
        /\ req'[r].ports = << >> /\ req'[r].product = req[r].product
        /\ req'[r].infra = req[r].infra /\ req'[r].vdc = req[r].vdc /\ req'[r].doc = req[r].doc
    BY <1>1, <1>3, Shapes DEF OnlyOf
  <2>5. Subject(r)'
    BY <1>1, <2>4 DEF SerialInv, Progress, Calling, Subject
  <2>6. Covers(r)'
    <3>1. VdmName # Balancer /\ \A n : VdcName(n) # Balancer
      BY DEF VdmName, VdcName, Balancer
    <3> QED
      BY <1>1, <2>3, <2>4, <3>1 DEF Covers, ClusterHolds, VdmRuns, Runs, Recorded
  <2>7. PortsTaken(r)' /\ Made(r)'
    <3>1. Len(<< >>) = 0 /\ ToSet(<< >>) = {}
      BY EmptySeq DEF ToSet
    <3> QED
      BY <2>1, <2>4, <3>1 DEF PortsTaken, Made, Claimed, Places
  <2>8. Progress(r)'
    BY <2>1, <2>4, <2>5, <2>6, <2>7 DEF Progress
  <2> QED
    BY <1>1, <2>4, <2>8, QuietStepIsSerial
<1> QED
  BY <1>2, <1>3 DEF List

(* A port is taken on the copy, which then covers it.                        *)
LEMMA TakePortIsSerial ==
  ASSUME NEW r \in Requests, TypeInv, IdentityInvariant, SerialInv, TakePort(r), PortsInRange,
         \A q \in Requests \ {r} : q \notin InFlight
  PROVE  SerialInv'
<1> DEFINE slice == req[r].used
           port  == GetNewFreePort(slice)
           taken == ClaimPort(slice, port)
           old   == req[r].ports
           ports == Append(old, port)
           pc    == IF Len(old) = 2 THEN "pod" ELSE "ports"
<1>1. /\ UNCHANGED <<info, used, pods, services>> /\ req[r].pc = "ports" /\ ClusterHolds
      /\ DOMAIN req = Requests /\ DOMAIN req[r] = DOMAIN Idle /\ req[r].product = "vdc"
      /\ old \in Seq(PortStart..PortEnd) /\ Subject(r)
      /\ slice \in Seq(PortStart..PortEnd) /\ StrictlyIncreasing(slice)
  BY DEF TakePort, At, TypeInv, RequestType, CallType, Calling, Slices, SerialInv, Progress
<1>2. Len(old) <= 2 /\ Claimed(r) /\ Covers(r)
  BY <1>1 DEF SerialInv, Progress, PortsTaken, Calling, Places
<1>3. CASE Answer(r, "failed")
  BY <1>1, <1>3, AnswerEnds, QuietStepIsSerial DEF Answers
<1>4. CASE port # NoPort /\ req' = [req EXCEPT ![r].ports = ports, ![r].used = taken, ![r].pc = pc]
  <2>1. port \in (PortStart..PortEnd) \ PortsOf(slice) /\ port \in Int
    BY <1>1, <1>4, GetNewFreePortProperties, RangeIsNatural DEF PortsInRange
  <2>2. PortsOf(taken) = PortsOf(slice) \union {port}
    BY <1>1, <2>1, ClaimPortProperties
  <2>3. /\ Len(ports) = Len(old) + 1 /\ ToSet(ports) = ToSet(old) \union {port}
        /\ Len(old) \in Nat
    <3> HIDE DEF port
    <3>1. /\ Len(ports) = Len(old) + 1 /\ Len(old) \in Nat
          /\ ports[Len(old) + 1] = port /\ \A j \in 1..Len(old) : ports[j] = old[j]
      BY <1>1, <2>1, LenProperties
    <3>2. DOMAIN ports = 1..Len(old) + 1 /\ DOMAIN old = 1..Len(old)
      BY <1>1, <2>1, LenProperties
    <3> HIDE DEF ports, old
    <3>3. 1..Len(old) + 1 = 1..Len(old) \union {Len(old) + 1}
      BY <3>1
    <3> QED
      BY <3>1, <3>2, <3>3 DEF ToSet
  <2>4. pc \in {"ports", "pod"} /\ (pc = "pod" => Len(ports) = 3) /\ (pc = "ports" => Len(ports) <= 2)
    <3> DEFINE n == Len(old)
               m == Len(ports)
    <3>1. n <= 2 /\ n \in Nat /\ m = n + 1
      BY <1>2, <2>3
    <3>2. /\ pc \in {"ports", "pod"} /\ (pc = "pod" => n = 2) /\ (pc = "ports" => n # 2)
      OBVIOUS
    <3> HIDE DEF n, m, pc
    <3>3. (n = 2 => m = 3) /\ (n # 2 => m <= 2)
      BY <3>1
    <3> QED
      BY <3>2, <3>3 DEF m
  <2> HIDE DEF taken, ports, pc
  <2>5. /\ OnlyOf(r) /\ req'[r].pc = pc /\ req'[r].used = taken
        /\ req'[r].ports = ports /\ req'[r].product = req[r].product
        /\ req'[r].infra = req[r].infra /\ req'[r].vdc = req[r].vdc /\ req'[r].doc = req[r].doc
    BY <1>1, <1>4, Shapes DEF OnlyOf
  <2>6. Subject(r)'
    BY <1>1, <2>5 DEF Subject
  <2>7. Covers(r)'
    BY <1>1, <1>2, <2>2, <2>5, CoversGrows
  <2>8. Claimed(r)'
    BY <1>2, <2>2, <2>3, <2>5 DEF Claimed
  <2>9. PortsTaken(r)' /\ Made(r)'
    BY <1>1, <2>4, <2>5, <2>8 DEF PortsTaken, Made, Places
  <2>10. Progress(r)'
    BY <2>4, <2>5, <2>6, <2>7, <2>9 DEF Progress
  <2> QED
    BY <1>1, <2>5, <2>10, QuietStepIsSerial
<1> QED
  BY <1>3, <1>4 DEF TakePort

LEMMA ClaimForVdmIsSerial ==
  ASSUME NEW r \in Requests, TypeInv, IdentityInvariant, SerialInv, ClaimForVdm(r),
         \A q \in Requests \ {r} : q \notin InFlight
  PROVE  SerialInv'
<1> DEFINE slice == req[r].used
           one   == ClaimPort(slice, VdmPorts[1])
           both  == ClaimPort(one, VdmPorts[2])
<1>1. /\ UNCHANGED <<info, used, pods, services>> /\ req[r].pc = "service" /\ ClusterHolds
      /\ DOMAIN req = Requests /\ DOMAIN req[r] = DOMAIN Idle /\ req[r].product = "vdm"
      /\ slice \in Seq(PortStart..PortEnd) /\ StrictlyIncreasing(slice)
  BY DEF ClaimForVdm, At, TypeInv, RequestType, Slices, SerialInv
<1>2. Covers(r) /\ Subject(r) /\ Made(r)
  BY <1>1 DEF SerialInv, Progress, Calling, Places
<1>3. CASE Answer(r, "failed")
  BY <1>1, <1>3, AnswerEnds, QuietStepIsSerial DEF Answers
<1>4. CASE /\ ~ VdmClaimFails(slice)
           /\ req' = [req EXCEPT ![r].ports = VdmPorts, ![r].used = both]
  <2>1. VdmPorts \in [1..2 -> Nat] /\ VdmPorts[1] \in Int /\ VdmPorts[2] \in Int
    <3>1. VdmPorts \in [1..2 -> Nat]
      BY VdmAssumption, LenProperties
    <3> QED
      BY <3>1
  <2>2. ToSet(VdmPorts) = {VdmPorts[1], VdmPorts[2]}
    <3>1. DOMAIN VdmPorts = {1, 2}
      BY <2>1
    <3> QED
      BY <3>1 DEF ToSet
  <2>3. ~ ClaimFails(slice, VdmPorts[1]) /\ ~ ClaimFails(one, VdmPorts[2])
    BY <1>4 DEF VdmClaimFails
  <2>4. /\ one \in Seq(PortStart..PortEnd) /\ StrictlyIncreasing(one)
        /\ PortsOf(one) = PortsOf(slice) \union {VdmPorts[1]}
    BY <1>1, <2>1, <2>3, ClaimPortProperties
  <2>5. PortsOf(both) = PortsOf(one) \union {VdmPorts[2]}
    <3> HIDE DEF one
    <3> QED
      BY <2>1, <2>3, <2>4, ClaimPortProperties
  <2> HIDE DEF both, one
  <2>6. /\ OnlyOf(r) /\ req'[r].pc = "service" /\ req'[r].used = both
        /\ req'[r].ports = VdmPorts /\ req'[r].product = req[r].product
        /\ req'[r].infra = req[r].infra /\ req'[r].vdc = req[r].vdc /\ req'[r].doc = req[r].doc
    BY <1>1, <1>4, Shapes DEF OnlyOf
  <2>7. Subject(r)'
    BY <1>1, <1>2, <2>6 DEF Subject
  <2>8. Covers(r)'
    BY <1>1, <1>2, <2>4, <2>5, <2>6, CoversGrows
  <2>9. PortsTaken(r)'
    BY <1>1, <2>2, <2>4, <2>5, <2>6 DEF PortsTaken, Claimed, Places
  <2>10. Made(r)'
    BY <1>1, <1>2, <2>6 DEF Made, HasPod, ServiceName
  <2>11. Progress(r)'
    BY <2>6, <2>7, <2>8, <2>9, <2>10 DEF Progress
  <2> QED
    BY <1>1, <2>6, <2>11, QuietStepIsSerial
<1> QED
  BY <1>3, <1>4 DEF ClaimForVdm

LEMMA CreateSourceIsSerial ==
  ASSUME NEW r \in Requests, TypeInv, IdentityInvariant, SerialInv, CreateSource(r),
         \A q \in Requests \ {r} : q \notin InFlight
  PROVE  SerialInv'
<1>1. /\ UNCHANGED <<info, used, pods, services>> /\ req[r].pc = "pod"
      /\ DOMAIN req = Requests /\ DOMAIN req[r] = DOMAIN Idle /\ req[r].product = "datasource"
  BY DEF CreateSource, At, TypeInv, RequestType, SerialInv, Progress
<1>2. Covers(r) /\ Subject(r)
  BY <1>1 DEF SerialInv, Progress, Calling, Places
<1>3. CASE Answer(r, "failed")
  BY <1>1, <1>3, AnswerEnds, QuietStepIsSerial DEF Answers
<1>4. CASE Goto(r, "save")
  <2>1. /\ OnlyOf(r) /\ req'[r].pc = "save" /\ req'[r].used = req[r].used
        /\ req'[r].ports = req[r].ports /\ req'[r].product = req[r].product
        /\ req'[r].infra = req[r].infra /\ req'[r].vdc = req[r].vdc /\ req'[r].doc = req[r].doc
    BY <1>1, <1>4, Shapes DEF OnlyOf, Goto
  <2>2. Subject(r)'
    BY <1>1, <1>2, <2>1 DEF Subject
  <2>3. Covers(r)'
    BY <1>1, <1>2, <2>1, CoversGrows
  <2>4. PortsTaken(r)' /\ Made(r)'
    BY <1>1, <2>1 DEF PortsTaken, Made, Places
  <2>5. Progress(r)'
    BY <2>1, <2>2, <2>3, <2>4 DEF Progress
  <2> QED
    BY <1>1, <2>1, <2>5, QuietStepIsSerial
<1> QED
  BY <1>3, <1>4 DEF CreateSource

LEMMA RefuseDalIsSerial ==
  ASSUME NEW r \in Requests, TypeInv, IdentityInvariant, SerialInv, RefuseDal(r),
         \A q \in Requests \ {r} : q \notin InFlight
  PROVE  SerialInv'
BY AnswerEnds, QuietStepIsSerial DEF RefuseDal, Answers

(* A Deployment that is made, or made again, is of the request's own name.    *)
LEMMA CreatePodIsSerial ==
  ASSUME NEW r \in Requests, TypeInv, IdentityInvariant, SerialInv, NEW pod,
         At(r, "pod"), req[r].product \in {"vdc", "vdm"}, CreateOrUpdatePod(r, pod),
         req[r].product = "vdc" =>
           pod.vdm = IF req[r].infra = info.vdm THEN NoInfra ELSE info.vdm,
         req[r].product = "vdc" /\ Job[r].kind = "copy" =>
           pod.dals = Aliases(req[r].infra, info.vdcs[req[r].vdc].inUse),
         \A q \in Requests \ {r} : q \notin InFlight
  PROVE  SerialInv'
<1> DEFINE i    == req[r].infra
           name == ServiceName(r)
           put  == Put(pods[i], name, pod)
<1>1. /\ UNCHANGED <<info, used, services>> /\ req[r].pc = "pod" /\ req[r].pc \in Calling
      /\ DOMAIN req = Requests /\ DOMAIN req[r] = DOMAIN Idle
      /\ DOMAIN pods = Infras /\ DOMAIN services = Infras /\ i \in Infras
  BY DEF At, TypeInv, RequestType, CallType, Ready, ClusterType, Calling, CreateOrUpdatePod
<1>2. Covers(r) /\ Subject(r) /\ PortsTaken(r)
  BY <1>1 DEF SerialInv, Progress, Places
<1>3. ClusterHolds'
  <2>1. NamesKept(r, pods, pods')
    BY <1>1, PutKeepsNames DEF CreateOrUpdatePod
  <2>2. NamesKept(r, services, services')
    BY <1>1 DEF NamesKept
  <2> QED
    BY <1>1, <2>1, <2>2, RecordedStays
<1>4. CASE Answer(r, "failed")
  BY <1>3, <1>4, AnswerEnds, SerialFrame DEF Answers
<1>5. CASE pods' = [pods EXCEPT ![i] = put] /\ Goto(r, "service")
  <2>1. /\ OnlyOf(r) /\ req'[r].pc = "service" /\ req'[r].used = req[r].used
        /\ req'[r].ports = req[r].ports /\ req'[r].product = req[r].product
        /\ req'[r].infra = req[r].infra /\ req'[r].vdc = req[r].vdc /\ req'[r].doc = req[r].doc
    BY <1>1, <1>5, Shapes DEF OnlyOf, Goto
  <2>2. Subject(r)'
    BY <1>1, <1>2, <2>1 DEF Subject
  <2>3. Covers(r)'
    BY <1>1, <1>2, <2>1, CoversGrows
  <2>4. PortsTaken(r)'
    BY <1>1, <1>2, <2>1 DEF PortsTaken, Places, Claimed
  <2>5. ServiceName(r)' = name
    BY <2>1 DEF ServiceName
  <2>6. name \in DOMAIN put /\ put[name] = pod
    BY DEF Put
  <2>7. pods'[i] = put
    <3> HIDE DEF put
    <3> QED
      BY <1>1, <1>5
  <2> HIDE DEF put, name
  <2>8. HasPod(r)'
    BY <1>1, <2>1, <2>5, <2>6, <2>7 DEF HasPod
  <2>9. Made(r)'
    BY <2>1, <2>8 DEF Made
  <2>10. Progress(r)'
    BY <2>1, <2>2, <2>3, <2>4, <2>9 DEF Progress
  <2> QED
    BY <1>3, <2>1, <2>10, SerialFrame
<1> QED
  BY <1>4, <1>5 DEF CreateOrUpdatePod

(* The address of a DAL is the only thing that a Deployment gets anew.       *)
LEMMA ModifyPodIsSerial ==
  ASSUME NEW r \in Requests, TypeInv, IdentityInvariant, SerialInv, ModifyPod(r),
         \A q \in Requests \ {r} : q \notin InFlight
  PROVE  SerialInv'
<1> DEFINE i    == req[r].infra
           name == ServiceName(r)
           dals == Readdressed(pods[i][name].dals, InUse(r))
<1>1. /\ UNCHANGED <<info, used, services>> /\ req[r].pc = "pod" /\ req[r].pc \in Calling
      /\ DOMAIN req = Requests /\ DOMAIN req[r] = DOMAIN Idle /\ req[r].product = "dal"
      /\ DOMAIN pods = Infras /\ i \in Infras
      /\ \A j \in Infras : \A m \in DOMAIN pods[j] : PodType(j, m, pods[j][m])
  BY DEF ModifyPod, At, TypeInv, RequestType, CallType, Ready, ClusterType, Calling
<1>2. Covers(r) /\ Subject(r) /\ ClusterHolds
  BY <1>1 DEF SerialInv, Progress, Places
<1>3. pods' = pods \/ pods' = [pods EXCEPT ![i][name].dals = dals]
  BY DEF ModifyPod
<1>4. /\ DOMAIN pods' = Infras
      /\ \A j \in Infras : /\ DOMAIN pods'[j] = DOMAIN pods[j]
                           /\ \A m \in DOMAIN pods[j] : pods'[j][m].vdm = pods[j][m].vdm
  <2> HIDE DEF name, dals
  <2> QED
    BY <1>1, <1>3 DEF PodType
<1>5. ClusterHolds'
  <2>1. info.vdm # NoInfra => VdmRuns(info.vdm)'
    BY <1>1, <1>2, <1>4, RecordedIsReady DEF ClusterHolds, VdmRuns, Ready
  <2>2. ASSUME NEW n, NEW j, Recorded(n, j) PROVE Runs(n, j)'
    <3>1. Runs(n, j) /\ j \in Infras
      BY <1>2, <2>2, RecordedIsReady DEF ClusterHolds, Ready
    <3> QED
      BY <1>1, <1>4, <3>1 DEF Runs
  <2> QED
    BY <1>1, <1>2, <2>1, <2>2 DEF ClusterHolds, Recorded
<1>6. CASE Answer(r, "failed")
  BY <1>5, <1>6, AnswerEnds, SerialFrame DEF Answers
<1>7. CASE /\ name \in DOMAIN pods[i] /\ Goto(r, "save")
           /\ pods' = [pods EXCEPT ![i][name].dals = dals]
  <2>1. /\ OnlyOf(r) /\ req'[r].pc = "save" /\ req'[r].used = req[r].used
        /\ req'[r].ports = req[r].ports /\ req'[r].product = req[r].product
        /\ req'[r].infra = req[r].infra /\ req'[r].vdc = req[r].vdc /\ req'[r].doc = req[r].doc
    BY <1>1, <1>7, Shapes DEF OnlyOf, Goto
  <2>2. Subject(r)'
    BY <1>1, <1>2, <2>1 DEF Subject
  <2>3. Covers(r)'
    BY <1>1, <1>2, <2>1, CoversGrows
  <2>4. PortsTaken(r)'
    BY <1>1, <2>1 DEF PortsTaken, Places
  <2>5. ServiceName(r)' = name
    BY <2>1 DEF ServiceName
  <2>6. name \in DOMAIN pods'[i] /\ pods'[i][name].dals = dals
    <3> HIDE DEF name, dals
    <3> QED
      BY <1>1, <1>7 DEF PodType
  <2>7. Job[r].dal \in DOMAIN dals => dals[Job[r].dal] = Job[r].ip
    BY DEF Readdressed, InUse, Put
  <2> HIDE DEF name, dals
  <2>8. HasPod(r)'
    BY <1>1, <2>1, <2>5, <2>6, <2>7 DEF HasPod, Readdresses
  <2>9. Made(r)'
    BY <1>1, <2>1, <2>8 DEF Made
  <2>10. Progress(r)'
    BY <2>1, <2>2, <2>3, <2>4, <2>9 DEF Progress
  <2> QED
    BY <1>5, <2>1, <2>10, SerialFrame
<1> QED
  BY <1>6, <1>7 DEF ModifyPod

(* A Service has the ports that the request took, which nobody else has.     *)
LEMMA CreateServiceIsSerial ==
  ASSUME NEW r \in Requests, TypeInv, IdentityInvariant, SerialInv, CreateService(r),
         \A q \in Requests \ {r} : q \notin InFlight
  PROVE  SerialInv'
<1> DEFINE i     == req[r].infra
           name  == ServiceName(r)
           ports == ToSet(req[r].ports)
           put   == Put(services[i], name, ports)
<1>1. /\ UNCHANGED <<info, used, pods>> /\ req[r].pc = "service" /\ req[r].pc \in Calling
      /\ DOMAIN req = Requests /\ DOMAIN req[r] = DOMAIN Idle /\ req[r].ports # << >>
      /\ DOMAIN pods = Infras /\ DOMAIN services = Infras /\ i \in Infras
      /\ req[r].product \in {"vdc", "vdm"}
  BY DEF At, TypeInv, RequestType, CallType, Ready, ClusterType, Calling, CreateService
<1>2. Covers(r) /\ Subject(r) /\ PortsTaken(r) /\ HasPod(r)
  BY <1>1 DEF SerialInv, Progress, Places, Made
<1>3. /\ ClusterHolds'
      /\ \A n : Recorded(n, i) => services'[i][VdcName(n)] \subseteq PortsOf(req[r].used)
  <2>1. NamesKept(r, services, services')
    BY <1>1, PutKeepsNames DEF CreateService
  <2>2. NamesKept(r, pods, pods')
    BY <1>1 DEF NamesKept
  <2> QED
    BY <1>1, <1>2, <2>1, <2>2, RecordedStays
<1>4. CASE Answer(r, "failed")
  BY <1>3, <1>4, AnswerEnds, SerialFrame DEF Answers
<1>5. CASE services' = [services EXCEPT ![i] = put] /\ Goto(r, "save")
  <2>1. /\ OnlyOf(r) /\ req'[r].pc = "save" /\ req'[r].used = req[r].used
        /\ req'[r].ports = req[r].ports /\ req'[r].product = req[r].product
        /\ req'[r].infra = req[r].infra /\ req'[r].vdc = req[r].vdc /\ req'[r].doc = req[r].doc
    BY <1>1, <1>5, Shapes DEF OnlyOf, Goto
  <2>2. Subject(r)'
    BY <1>1, <1>2, <2>1 DEF Subject
  <2>3. Covers(r)'
    BY <1>1, <1>2, <1>3, <2>1 DEF Covers, Recorded
  <2>4. PortsTaken(r)'
    BY <1>1, <1>2, <2>1 DEF PortsTaken, Places, Claimed
  <2>5. ServiceName(r)' = name /\ ToSet(req[r].ports)' = ports
    BY <2>1 DEF ServiceName
  <2>6. name \in DOMAIN put /\ put[name] = ports
    BY DEF Put
  <2>7. services'[i] = put
    <3> HIDE DEF put
    <3> QED
      BY <1>1, <1>5
  <2>8. HasPod(r)'
    BY <1>1, <1>2, <2>1, <2>5 DEF HasPod
  <2> HIDE DEF put, name, ports
  <2>9. HasService(r)'
    BY <2>1, <2>5, <2>6, <2>7 DEF HasService
  <2>10. Made(r)'
    BY <2>1, <2>8, <2>9 DEF Made
  <2>11. Progress(r)'
    BY <2>1, <2>2, <2>3, <2>4, <2>10 DEF Progress
  <2> QED
    BY <1>3, <2>1, <2>11, SerialFrame
<1> QED
  BY <1>4, <1>5 DEF CreateService

(* The infrastructure is saved with all the ports it had and the new ones.   *)
LEMMA SaveIsSerial ==
  ASSUME NEW r \in Requests, TypeInv, IdentityInvariant, SerialInv, Save(r),
         \A q \in Requests \ {r} : q \notin InFlight
  PROVE  SerialInv'
<1> DEFINE i == req[r].infra
<1>1. /\ UNCHANGED <<info, pods, services>> /\ req[r].pc = "save" /\ req[r].pc \in Calling
      /\ DOMAIN req = Requests /\ DOMAIN req[r] = DOMAIN Idle
      /\ DOMAIN used = Infras /\ i \in Infras
  BY DEF At, TypeInv, RequestType, CallType, Ready, UsedType, Calling, Save
<1>2. Covers(r) /\ Subject(r) /\ PortsTaken(r) /\ Made(r) /\ ClusterHolds
  BY <1>1 DEF SerialInv, Progress, Places
<1>3. used' = used \/ used' = [used EXCEPT ![i] = req[r].used]
  BY DEF Save
<1>4. ClusterHolds'
  <2>1. \A j \in Infras : used'[j] = used[j] \/ (j = i /\ used'[j] = req[r].used)
    BY <1>1, <1>3
  <2>2. info.vdm # NoInfra => VdmRuns(info.vdm)'
    BY <1>1, <1>2, <2>1, RecordedIsReady DEF ClusterHolds, VdmRuns, Ready, Covers
  <2>3. ASSUME NEW n, NEW j, Recorded(n, j) PROVE Runs(n, j)'
    <3>1. Runs(n, j) /\ j \in Infras
      BY <1>2, <2>3, RecordedIsReady DEF ClusterHolds, Ready
    <3> QED
      BY <1>1, <1>2, <2>1, <2>3, <3>1 DEF Runs, Covers
  <2> QED
    BY <1>1, <1>2, <2>2, <2>3 DEF ClusterHolds, Recorded
<1>5. CASE Answer(r, "failed")
  BY <1>4, <1>5, AnswerEnds, SerialFrame DEF Answers
<1>6. CASE used' = [used EXCEPT ![i] = req[r].used] /\ Goto(r, "store")
  <2>1. /\ OnlyOf(r) /\ req'[r].pc = "store" /\ req'[r].used = req[r].used
        /\ req'[r].ports = req[r].ports /\ req'[r].product = req[r].product
        /\ req'[r].infra = req[r].infra /\ req'[r].vdc = req[r].vdc /\ req'[r].doc = req[r].doc
    BY <1>1, <1>6, Shapes DEF OnlyOf, Goto
  <2>2. Subject(r)'
    BY <1>1, <1>2, <2>1 DEF Subject
  <2>3. Covers(r)'
    BY <1>1, <1>2, <2>1, CoversGrows
  <2>4. PortsTaken(r)'
    BY <1>1, <1>2, <2>1 DEF PortsTaken, Places, Claimed
  <2>5. ServiceName(r)' = ServiceName(r)
    BY <2>1 DEF ServiceName
  <2>6. Made(r)'
    BY <1>1, <1>2, <1>6, <2>1, <2>5 DEF Made, HasPod, HasService
  <2>7. Progress(r)'
    BY <2>1, <2>2, <2>3, <2>4, <2>6 DEF Progress
  <2> QED
    BY <1>4, <2>1, <2>7, SerialFrame
<1> QED
  BY <1>5, <1>6 DEF Save

(* The document is inserted without a VDM and VDCs.                          *)
LEMMA InsertIsSerial ==
  ASSUME NEW r \in Requests, TypeInv, IdentityInvariant, SerialInv, Insert(r),
         \A q \in Requests \ {r} : q \notin InFlight
  PROVE  SerialInv'
<1>1. /\ UNCHANGED <<used, pods, services>> /\ req[r].pc = "insert" /\ req[r].ports = << >>
      /\ DOMAIN req[r] = DOMAIN Idle
      /\ req[r].doc.vdm = NoInfra /\ req[r].doc.vdcs = << >>
  BY DEF Insert, At, TypeInv, RequestType, SerialInv, Progress, IdentityInvariant, CopyInvariant
<1>2. ClusterHolds'
  <2>1. CASE info' = info
    BY <1>1, <2>1 DEF SerialInv, ClusterHolds, Recorded, VdmRuns, Runs
  <2>2. CASE info' = req[r].doc
    <3>1. DOMAIN << >> = {}
      BY EmptySeq
    <3> QED
      BY <1>1, <2>2, <3>1 DEF ClusterHolds, Recorded
  <2> QED
    BY <2>1, <2>2 DEF Insert, Inserted
<1>3. CASE Answer(r, "failed")
  BY <1>2, <1>3, AnswerEnds, SerialFrame DEF Answers
<1>4. CASE info' = req[r].doc /\ req' = [req EXCEPT ![r] = AfterOwners(req[r])]
  BY <1>1, <1>2, <1>4, AfterOwnersProgress, SerialFrame
<1> QED
  BY <1>3, <1>4 DEF Insert, Inserted

(* The ports that a changed VDC has somewhere are those it had there, or the  *)
(* request was to make it there and took them.                              *)
LEMMA ChangedPorts ==
  ASSUME NEW r \in Requests, TypeInv, req[r].pc = "store", req[r].product # "vdm",
         NEW j \in DOMAIN ChangedVdc(r).infras, ChangedVdc(r).infras[j].ports # {}
  PROVE  LET vdcs == req[r].doc.vdcs  n == req[r].vdc  ports == ChangedVdc(r).infras[j].ports IN
         \/ j = req[r].infra /\ req[r].product = "vdc" /\ ports = RecordedPorts(r)
         \/ n \in DOMAIN vdcs /\ j \in DOMAIN vdcs[n].infras /\ ports = vdcs[n].infras[j].ports
<1> DEFINE doc == req[r].doc
           n   == req[r].vdc
           i   == req[r].infra
           old == doc.vdcs[n]
<1>1. /\ CallType(r) /\ req[r].product # "newdal"
      /\ ForBlueprint(r) \/ n \in DOMAIN doc.vdcs
      /\ \A k \in DOMAIN doc.vdcs : /\ DOMAIN doc.vdcs[k] = {"infras", "apps", "inUse"}
                                    /\ \A m \in DOMAIN doc.vdcs[k].infras :
                                         DOMAIN doc.vdcs[k].infras[m] = {"ports", "sources"}
  BY DEF TypeInv, RequestType, CallType, Calling, DocType, VdcType
<1>2. \A ports : NewEntry(ports).ports = ports /\ DOMAIN NewEntry(ports) = {"ports", "sources"}
  BY DEF NewEntry
<1>3. CASE req[r].product = "dal"
  <2> DEFINE inUse == InUse(r)
  <2>1. n \in DOMAIN doc.vdcs /\ ChangedVdc(r) = [old EXCEPT !.inUse = inUse]
    BY <1>1, <1>3 DEF CallType, ForBlueprint, ChangedVdc
  <2> HIDE DEF inUse
  <2>2. ChangedVdc(r).infras = old.infras
    BY <1>1, <2>1
  <2> QED
    BY <2>1, <2>2
<1>4. CASE req[r].product = "datasource"
  <2> DEFINE entry  == EntryOf(old, i)
             new    == [entry EXCEPT !.sources = @ \union {Job[r].id}]
             infras == Put(old.infras, i, new)
  <2>1. ChangedVdc(r) = [old EXCEPT !.infras = infras]
    BY <1>4 DEF ChangedVdc
  <2> HIDE DEF infras
  <2>2. n \in DOMAIN doc.vdcs
    BY <1>1, <1>4 DEF CallType, ForBlueprint
  <2>3. DOMAIN entry = {"ports", "sources"} /\ new.ports = entry.ports
    BY <1>1, <1>2, <2>2 DEF EntryOf
  <2> HIDE DEF new
  <2>4. /\ DOMAIN infras = DOMAIN old.infras \union {i} /\ infras[i] = new
        /\ \A k \in DOMAIN old.infras \ {i} : infras[k] = old.infras[k]
    BY DEF Put, infras
  <2> HIDE DEF entry
  <2>5. ChangedVdc(r).infras = infras
    BY <1>1, <2>1, <2>2
  <2>6. CASE j = i
    <3>1. entry.ports # {}
      BY <2>3, <2>4, <2>5, <2>6
    <3>2. i \in DOMAIN old.infras /\ entry = old.infras[i]
      BY <1>2, <3>1 DEF EntryOf, entry
    <3> QED
      BY <2>2, <2>3, <2>4, <2>5, <2>6, <3>2
  <2> QED
    BY <2>2, <2>4, <2>5, <2>6
<1>5. CASE req[r].product = "vdc" /\ Job[r].kind = "copy"
  <2> DEFINE new    == NewEntry(RecordedPorts(r))
             infras == Put(old.infras, i, new)
  <2>1. n \in DOMAIN doc.vdcs /\ ChangedVdc(r) = [old EXCEPT !.infras = infras]
    BY <1>1, <1>5 DEF ForBlueprint, ChangedVdc
  <2>2. new.ports = RecordedPorts(r)
    BY <1>2
  <2> HIDE DEF new
  <2>3. /\ DOMAIN infras = DOMAIN old.infras \union {i} /\ infras[i] = new
        /\ \A k \in DOMAIN old.infras \ {i} : infras[k] = old.infras[k]
    BY DEF Put
  <2> HIDE DEF infras
  <2>4. ChangedVdc(r).infras = infras
    BY <1>1, <2>1
  <2> QED
    BY <1>5, <2>1, <2>2, <2>3, <2>4
<1>6. CASE req[r].product = "vdc" /\ Job[r].kind # "copy"
  <2> DEFINE infras == [k \in {i} |-> NewEntry(RecordedPorts(r))]
  <2>1. ChangedVdc(r) = [infras |-> infras, apps |-> req[r].apps, inUse |-> << >>]
    BY <1>6 DEF ChangedVdc
  <2>2. DOMAIN infras = {i} /\ infras[i] = NewEntry(RecordedPorts(r))
    OBVIOUS
  <2> HIDE DEF infras
  <2>3. ChangedVdc(r).infras = infras
    BY <2>1
  <2> QED
    BY <1>2, <1>6, <2>2, <2>3
<1> QED
  BY <1>1, <1>3, <1>4, <1>5, <1>6 DEF CallType

(* What is recorded at last was made before.                                 *)
LEMMA RecordedAtLast ==
  ASSUME NEW r \in Requests, TypeInv, IdentityInvariant, SerialInv,
         req[r].pc = "store", info' = Result(r), UNCHANGED <<used, pods, services>>
  PROVE  ClusterHolds'
<1> DEFINE i == req[r].infra
           n == req[r].vdc
<1>1. /\ req[r].pc \in Calling /\ RequestType(r) /\ CallType(r)
      /\ DOMAIN req[r].doc = DOMAIN NewInfo
  BY DEF TypeInv, RequestType, Calling, DocType
<1>2. /\ Subject(r) /\ PortsTaken(r) /\ Made(r) /\ ClusterHolds
      /\ HasPod(r) \/ req[r].product = "datasource"
      /\ req[r].product \in {"vdc", "vdm"} => HasService(r)
      /\ used[i] = req[r].used
  BY <1>1 DEF SerialInv, Progress, Made
<1>3. CASE req[r].product = "vdm"
  <2>1. Result(r) = [req[r].doc EXCEPT !.vdm = i]
    BY <1>3 DEF Result
  <2>2. req[r].doc.vdcs = << >> /\ DOMAIN << >> = {}
    BY <1>1, <1>3, EmptySeq DEF IdentityInvariant, CopyInvariant
  <2>3. info'.vdm = i /\ DOMAIN info'.vdcs = {}
    BY <1>1, <2>1, <2>2, Shapes
  <2>4. req[r].ports = VdmPorts /\ Claimed(r) /\ ServiceName(r) = VdmName
    BY <1>2, <1>3 DEF PortsTaken, ServiceName
  <2>5. VdmRuns(info.vdm)'
    BY <1>2, <1>3, <2>3, <2>4 DEF VdmRuns, HasPod, HasService, Claimed
  <2> QED
    BY <2>3, <2>5 DEF ClusterHolds, Recorded
<1>4. CASE req[r].product # "vdm"
  <2>1. /\ info'.vdm = info.vdm
        /\ info'.num = IF ForBlueprint(r) THEN info.num + 1 ELSE info.num
        /\ DOMAIN info'.vdcs = DOMAIN info.vdcs \union {n}
        /\ info'.vdcs[n] = ChangedVdc(r)
        /\ \A k \in DOMAIN info.vdcs \ {n} : info'.vdcs[k] = info.vdcs[k]
    BY <1>2, <1>4, ResultOfVdcRequest DEF Subject
  <2>2. info.vdm # NoInfra => VdmRuns(info.vdm)'
    BY <1>2, <2>1 DEF ClusterHolds, VdmRuns
  <2>3. ASSUME NEW k \in DOMAIN info'.vdcs PROVE k < info'.num
    <3>1. info.num \in Nat /\ DOMAIN info.vdcs \subseteq Nat /\ \A m \in DOMAIN info.vdcs : m < info.num
      BY <1>2 DEF ClusterHolds, TypeInv, DocType
    <3>2. CASE ForBlueprint(r)
      <4>1. n = info.num
        BY <1>1, <1>2, <1>4, <3>2 DEF CallType, ForBlueprint, Subject
      <4> HIDE DEF n
      <4> QED
        BY <2>1, <2>3, <3>1, <3>2, <4>1
    <3>3. CASE ~ ForBlueprint(r)
      <4>1. n \in DOMAIN info.vdcs
        BY <1>1, <1>2, <1>4, <3>3 DEF CallType, Subject
      <4> QED
        BY <2>1, <2>3, <3>1, <3>3, <4>1
    <3> QED
      BY <3>2, <3>3
  <2>4. ASSUME NEW k, NEW j, Recorded(k, j)' PROVE Runs(k, j)'
    <3>1. CASE Recorded(k, j) /\ info'.vdcs[k].infras[j].ports = info.vdcs[k].infras[j].ports
      <4>1. Runs(k, j)
        BY <1>2, <3>1 DEF ClusterHolds
      <4> QED
        BY <2>1, <3>1, <4>1 DEF Runs
    <3>2. CASE /\ k = n /\ j = i /\ req[r].product = "vdc"
               /\ info'.vdcs[n].infras[i].ports = RecordedPorts(r)
      <4>1. ServiceName(r) = VdcName(n) /\ HasPod(r) /\ HasService(r)
        BY <1>2, <3>2 DEF ServiceName
      <4>2. Claimed(r) /\ Len(req[r].ports) = 3
        BY <1>2, <3>2 DEF PortsTaken, Places
      <4>3. RecordedPorts(r) \subseteq ToSet(req[r].ports)
        <5>1. req[r].ports \in [1..Len(req[r].ports) -> PortStart..PortEnd]
          BY <1>1, LenProperties DEF RequestType
        <5>2. 1 \in 1..3 /\ 2 \in 1..3
          OBVIOUS
        <5> QED
          BY <4>2, <5>1, <5>2 DEF RecordedPorts, ToSet
      <4> QED
        BY <1>2, <2>1, <3>2, <4>1, <4>2, <4>3 DEF Runs, HasPod, HasService, Claimed
    <3>3. CASE k # n
      <4>1. Recorded(k, j) /\ info'.vdcs[k] = info.vdcs[k]
        BY <2>1, <2>4, <3>3 DEF Recorded
      <4> QED
        BY <3>1, <4>1
    <3>4. CASE k = n
      <4>1. j \in DOMAIN ChangedVdc(r).infras /\ ChangedVdc(r).infras[j].ports # {}
        BY <2>1, <2>4, <3>4 DEF Recorded
      <4>2. \/ j = i /\ req[r].product = "vdc" /\ ChangedVdc(r).infras[j].ports = RecordedPorts(r)
            \/ /\ n \in DOMAIN info.vdcs /\ j \in DOMAIN info.vdcs[n].infras
               /\ ChangedVdc(r).infras[j].ports = info.vdcs[n].infras[j].ports
        BY <1>2, <1>4, <4>1, ChangedPorts DEF Subject
      <4> QED
        BY <2>1, <3>1, <3>2, <3>4, <4>1, <4>2 DEF Recorded
    <3> QED
      BY <3>3, <3>4
  <2> QED
    BY <2>1, <2>2, <2>3, <2>4 DEF ClusterHolds
<1> QED
  BY <1>3, <1>4

LEMMA StoreIsSerial ==
  ASSUME NEW r \in Requests, TypeInv, IdentityInvariant, SerialInv, Store(r),
         \A q \in Requests \ {r} : q \notin InFlight
  PROVE  SerialInv'
<1>1. UNCHANGED <<used, pods, services>> /\ req[r].pc = "store"
  BY DEF Store, At
<1>2. ClusterHolds'
  <2>1. CASE info' = info
    BY <1>1, <2>1 DEF SerialInv, ClusterHolds, Recorded, VdmRuns, Runs
  <2>2. CASE info' = Result(r)
    BY <1>1, <2>2, RecordedAtLast
  <2> QED
    BY <2>1, <2>2 DEF Store
<1>3. CASE Answer(r, "done") \/ Answer(r, "failed")
  BY <1>2, <1>3, AnswerEnds, SerialFrame DEF Answers
<1>4. CASE info' = Result(r) /\ req' = [req EXCEPT ![r] = AfterOwners([Idle EXCEPT !.doc = Result(r)])]
  <2> DEFINE state == [Idle EXCEPT !.doc = Result(r)]
  <2>1. DOMAIN state = DOMAIN Idle /\ state.doc = Result(r) /\ state.ports = << >>
    BY Shapes DEF Idle
  <2>2. req' = [req EXCEPT ![r] = AfterOwners(state)]
    BY <1>4
  <2> HIDE DEF state
  <2> QED
    BY <1>2, <1>4, <2>1, <2>2, AfterOwnersProgress, SerialFrame
<1> QED
  BY <1>3, <1>4 DEF Store

LEMMA CreatePodsAreSerial ==
  ASSUME NEW r \in Requests, TypeInv, IdentityInvariant, SerialInv,
         CreateVdcPod(r) \/ CreateVdmPod(r),
         \A q \in Requests \ {r} : q \notin InFlight
  PROVE  SerialInv'
<1>1. At(r, "pod") /\ req[r].product \in {"vdc", "vdm"} /\ Subject(r)
  BY DEF CreateVdcPod, CreateVdmPod, At, SerialInv, Progress, Calling
<1>2. CASE CreateVdcPod(r)
  <2> DEFINE pod == Pod(r)
  <2>1. pod.vdm = IF req[r].infra = info.vdm THEN NoInfra ELSE info.vdm
    BY <1>1 DEF Pod, Subject
  <2>2. Job[r].kind = "copy" => pod.dals = Aliases(req[r].infra, info.vdcs[req[r].vdc].inUse)
    BY <1>1 DEF Pod, GivenDals, Subject
  <2>3. CreateOrUpdatePod(r, pod)
    BY <1>2 DEF CreateVdcPod
  <2> HIDE DEF pod
  <2> QED
    BY <1>1, <2>1, <2>2, <2>3, CreatePodIsSerial
<1>3. CASE CreateVdmPod(r)
  <2>1. CreateOrUpdatePod(r, NoHosts) /\ req[r].product = "vdm"
    BY <1>3 DEF CreateVdmPod
  <2> QED
    BY <1>1, <2>1, CreatePodIsSerial
<1> QED
  BY <1>2, <1>3

LEMMA InitIsSerial ==
  ASSUME Init
  PROVE  SerialInv
<1>1. info.vdm = NoInfra /\ DOMAIN info.vdcs = {}
  BY EmptySeq DEF Init, NoInfo, NewInfo
<1>2. ClusterHolds
  BY <1>1 DEF ClusterHolds, Recorded
<1>3. ASSUME NEW r \in Requests PROVE req[r].pc = "idle" /\ req[r].ports = << >>
  BY DEF Init, Idle
<1>4. \A r \in Requests : Progress(r)
  BY <1>3 DEF Progress, Calling, Places
<1>5. OneAtATime
  BY <1>3 DEF OneAtATime, InFlight, At
<1> QED
  BY <1>2, <1>4, <1>5 DEF SerialInv

LEMMA StepIsSerial ==
  ASSUME OneRequestAtATime, PortsInRange, TypeInv, IdentityInvariant, SerialInv, [Next]_vars
  PROVE  SerialInv'
<1>1. CASE UNCHANGED vars
  <2>1. OneAtATime'
    BY <1>1 DEF vars, SerialInv, OneAtATime, InFlight, At, Ended
  <2>2. ClusterHolds'
    BY <1>1 DEF vars, SerialInv, ClusterHolds, Recorded, VdmRuns, Runs
  <2>3. ASSUME NEW r \in Requests PROVE Progress(r)'
    <3>1. Progress(r)
      BY DEF SerialInv
    <3>2. Subject(r)' = Subject(r) /\ PortsTaken(r)' = PortsTaken(r) /\ Covers(r)' = Covers(r)
      BY <1>1 DEF vars, Subject, PortsTaken, Covers, Claimed, Recorded
    <3>3. Made(r)' = Made(r)
      BY <1>1 DEF vars, Made, HasPod, HasService, ServiceName
    <3> QED
      BY <1>1, <3>1, <3>2, <3>3 DEF vars, Progress
  <2> QED
    BY <2>1, <2>2, <2>3 DEF SerialInv
<1>2. CASE Next
  <2>1. PICK r \in Requests : Begin(r) \/ Work(r)
    BY <1>2 DEF Next
  <2>2. \A q \in Requests \ {r} : q \notin InFlight
    BY <2>1, StepsAlone DEF SerialInv
  <2>3. CASE Begin(r) \/ CreateOwners(r) \/ Insert(r) \/ CreateApps(r)
    BY <2>2, <2>3, BeginIsSerial, CreateOwnersIsSerial, InsertIsSerial, CreateAppsIsSerial
  <2>4. CASE Read(r) \/ List(r) \/ TakePort(r) \/ ClaimForVdm(r)
    BY <2>2, <2>4, ReadIsSerial, ListIsSerial, TakePortIsSerial, ClaimForVdmIsSerial
  <2>5. CASE CreateVdcPod(r) \/ CreateVdmPod(r) \/ ModifyPod(r) \/ CreateSource(r) \/ RefuseDal(r)
    BY <2>2, <2>5, CreatePodsAreSerial, ModifyPodIsSerial, CreateSourceIsSerial, RefuseDalIsSerial
  <2>6. CASE CreateService(r) \/ Save(r) \/ Store(r)
    BY <2>2, <2>6, CreateServiceIsSerial, SaveIsSerial, StoreIsSerial
  <2> QED
    BY <2>1, <2>3, <2>4, <2>5, <2>6 DEF Work
<1> QED
  BY <1>1, <1>2

LEMMA SerialMeansRuns == SerialInv => RecordedRuns
<1> SUFFICES ASSUME SerialInv PROVE RecordedRuns
  OBVIOUS
<1>1. ClusterHolds
  BY DEF SerialInv
<1>2. info.vdm # NoInfra => VdmRuns(info.vdm)
  BY <1>1 DEF ClusterHolds
<1>3. ASSUME NEW n \in DOMAIN info.vdcs, NEW i \in DOMAIN info.vdcs[n].infras,
             info.vdcs[n].infras[i].ports # {}
      PROVE  Runs(n, i)
  BY <1>1, <1>3 DEF ClusterHolds, Recorded
<1> QED
  BY <1>2, <1>3 DEF RecordedRuns, VdmRuns

(* What the document says of a VDC, or of the VDM, is so in the cluster when   *)
(* requests come one at a time, whatever calls fail: the Deployment and the   *)
(* Service are made before the document of the infrastructure is saved, and   *)
(* that before the VDC is recorded, a Service that is made again has a name   *)
(* of its own, and the copy that is saved covers all the ports recorded      *)
(* before (vdcmanager.go:317-362, 699-712).                                 *)
THEOREM RecordedVdcsRun ==
  ASSUME OneRequestAtATime, PortsInRange
  PROVE  Spec => []RecordedRuns
<1> DEFINE Inv == IdentityInvariant /\ TypeInv /\ SerialInv
<1>1. Init => Inv
  BY InitEstablishesIdentityInvariant, InitHasTypes, InitIsSerial
<1>2. Inv /\ [Next]_vars => Inv'
  BY StepKeepsIdentity, StepKeepsTypes, StepIsSerial
<1>3. Inv => RecordedRuns
  BY SerialMeansRuns
<1> QED
  BY <1>1, <1>2, <1>3, PTL DEF Spec

-----------------------------------------------------------------------------
(* What a client was told to be done stays in the document. A client that has *)
(* given a DAL of a VDC two addresses is told that both are in use: then it   *)
(* is the last one that is.                                                 *)
OneAddress ==
  \A r, q \in Requests :
    /\ Job[r].kind = "dal" /\ Job[q].kind = "dal"
    /\ Job[r].vdc = Job[q].vdc /\ Job[r].dal = Job[q].dal
    => Job[r].ip = Job[q].ip

Addressed(n, dal, address) ==
  \E r \in Requests :
    Job[r].kind = "dal" /\ Job[r].vdc = n /\ Job[r].dal = dal /\ address = Job[r].ip

(* What a step keeps of a VDC and of its Deployments.                        *)
VdcKept(n, old, new) ==
  /\ DOMAIN old.infras \subseteq DOMAIN new.infras
  /\ \A i \in DOMAIN old.infras : /\ new.infras[i].ports = old.infras[i].ports
                                  /\ old.infras[i].sources \subseteq new.infras[i].sources
  /\ DOMAIN old.inUse \subseteq DOMAIN new.inUse
  /\ \A d \in DOMAIN old.inUse :
       new.inUse[d] = old.inUse[d] \/ Addressed(n, d, new.inUse[d])
DocKept ==
  \A n \in DOMAIN info.vdcs : n \in DOMAIN info'.vdcs /\ VdcKept(n, info.vdcs[n], info'.vdcs[n])
DalsKept(n, old, new) ==
  /\ DOMAIN new = DOMAIN old
  /\ \A d \in DOMAIN old :
       \/ new[d] = old[d] \/ Addressed(n, d, new[d])
       \/ d \in DOMAIN info.vdcs[n].inUse /\ new[d] = info.vdcs[n].inUse[d]
PodsKept ==
  \A n \in DOMAIN info.vdcs : \A i \in DOMAIN info.vdcs[n].infras :
    VdcName(n) \in DOMAIN pods[i] =>
      /\ VdcName(n) \in DOMAIN pods'[i]
      /\ DalsKept(n, pods[i][VdcName(n)].dals, pods'[i][VdcName(n)].dals)

LEMMA PromiseStays ==
  ASSUME OneAddress, PromiseInv, NEW q \in Requests, req[q].pc = "done", req'[q] = req[q],
         DocKept, PodsKept
  PROVE  Promised(q)'
<1> DEFINE n == req[q].vdc
           i == req[q].infra
<1>1. Promised(q) /\ n \in DOMAIN info.vdcs /\ i \in DOMAIN info.vdcs[n].infras
  BY DEF PromiseInv, Promised
<1>2. n \in DOMAIN info'.vdcs /\ VdcKept(n, info.vdcs[n], info'.vdcs[n])
  BY <1>1 DEF DocKept
<1>3. info' # NoInfo
  <2>1. DOMAIN NoInfo.vdcs = {}
    BY EmptySeq DEF NoInfo, NewInfo
  <2> QED
    BY <1>2, <2>1
<1>4. CASE Job[q].kind # "dal"
  BY <1>1, <1>2, <1>3, <1>4 DEF Promised, VdcKept
<1>5. CASE Job[q].kind = "dal"
  <2> DEFINE dal == Job[q].dal
  <2>1. \A address : Addressed(n, dal, address) => address = Job[q].ip
    BY <1>1, <1>5 DEF Promised, Addressed, OneAddress
  <2>2. Gives(info.vdcs[n].inUse, Job[q]) /\ Gives(info'.vdcs[n].inUse, Job[q])
    BY <1>1, <1>2, <1>5, <2>1 DEF Promised, VdcKept, Gives
  <2>3. VdcName(n) \in DOMAIN pods'[i] /\ Readdresses(Job[q], pods'[i][VdcName(n)])
    <3>1. /\ VdcName(n) \in DOMAIN pods[i] /\ Readdresses(Job[q], pods[i][VdcName(n)])
          /\ VdcName(n) \in DOMAIN pods'[i]
          /\ DalsKept(n, pods[i][VdcName(n)].dals, pods'[i][VdcName(n)].dals)
      BY <1>1, <1>5 DEF Promised, PodsKept
    <3> QED
      BY <2>1, <2>2, <3>1 DEF Readdresses, DalsKept, Gives
  <2> QED
    BY <1>1, <1>2, <1>3, <1>5, <2>2, <2>3 DEF Promised, VdcKept
<1> QED
  BY <1>4, <1>5

(* What a request writes of its VDC, and what it keeps of it.                *)
LEMMA ChangedVdcKeeps ==
  ASSUME NEW r \in Requests, TypeInv, Subject(r), req[r].pc = "store", req[r].product # "vdm",
         ForBlueprint(r) => req[r].vdc \notin DOMAIN req[r].doc.vdcs
  PROVE  LET vdcs == req[r].doc.vdcs  n == req[r].vdc  i == req[r].infra
             new  == ChangedVdc(r)
         IN /\ n \in DOMAIN vdcs => VdcKept(n, vdcs[n], new)
            /\ req[r].product = "vdc" => i \in DOMAIN new.infras /\ new.infras[i].ports = RecordedPorts(r)
            /\ req[r].product = "datasource" => i \in DOMAIN new.infras /\ Job[r].id \in new.infras[i].sources
            /\ req[r].product = "dal" => i \in DOMAIN new.infras /\ Gives(new.inUse, Job[r])
            /\ req[r].product = "vdc" /\ ~ ForBlueprint(r) => new.inUse = vdcs[n].inUse
<1> DEFINE doc == req[r].doc
           n   == req[r].vdc
           i   == req[r].infra
           old == doc.vdcs[n]
<1>1. /\ CallType(r) /\ req[r].product # "newdal"
      /\ ForBlueprint(r) \/ n \in DOMAIN doc.vdcs
      /\ \A k \in DOMAIN doc.vdcs : /\ DOMAIN doc.vdcs[k] = {"infras", "apps", "inUse"}
                                    /\ \A m \in DOMAIN doc.vdcs[k].infras :
                                         DOMAIN doc.vdcs[k].infras[m] = {"ports", "sources"}
  BY DEF TypeInv, RequestType, CallType, Calling, DocType, VdcType
<1>2. \A ports : NewEntry(ports).ports = ports /\ DOMAIN NewEntry(ports) = {"ports", "sources"}
  BY DEF NewEntry
<1>3. CASE req[r].product = "dal"
  <2> DEFINE inUse == InUse(r)
  <2>1. ChangedVdc(r) = [old EXCEPT !.inUse = inUse]
    BY <1>3 DEF ChangedVdc
  <2>2. n \in DOMAIN doc.vdcs /\ Job[r].kind = "dal" /\ n = Job[r].vdc /\ i \in DOMAIN old.infras
    BY <1>1, <1>3 DEF CallType, ForBlueprint, Subject
  <2>3. /\ DOMAIN inUse = DOMAIN old.inUse \union {Job[r].dal} /\ inUse[Job[r].dal] = Job[r].ip
        /\ \A d \in DOMAIN old.inUse \ {Job[r].dal} : inUse[d] = old.inUse[d]
    BY DEF InUse, Put
  <2> HIDE DEF inUse
  <2>4. ChangedVdc(r).infras = old.infras /\ ChangedVdc(r).inUse = inUse
    BY <1>1, <2>1, <2>2
  <2>5. Addressed(n, Job[r].dal, Job[r].ip)
    BY <2>2 DEF Addressed
  <2> QED
    BY <1>3, <2>2, <2>3, <2>4, <2>5 DEF VdcKept, Gives
<1>4. CASE req[r].product = "datasource"
  <2> DEFINE entry  == EntryOf(old, i)
             new    == [entry EXCEPT !.sources = @ \union {Job[r].id}]
             infras == Put(old.infras, i, new)
  <2>1. ChangedVdc(r) = [old EXCEPT !.infras = infras]
    BY <1>4 DEF ChangedVdc
  <2> HIDE DEF infras
  <2>2. n \in DOMAIN doc.vdcs
    BY <1>1, <1>4 DEF CallType, ForBlueprint
  <2>3. /\ DOMAIN entry = {"ports", "sources"} /\ new.ports = entry.ports
        /\ new.sources = entry.sources \union {Job[r].id}
        /\ i \in DOMAIN old.infras => entry = old.infras[i]
    BY <1>1, <1>2, <2>2 DEF EntryOf
  <2> HIDE DEF new
  <2>4. /\ DOMAIN infras = DOMAIN old.infras \union {i} /\ infras[i] = new
        /\ \A k \in DOMAIN old.infras \ {i} : infras[k] = old.infras[k]
    BY DEF Put, infras
  <2> HIDE DEF entry
  <2>5. ChangedVdc(r).infras = infras /\ ChangedVdc(r).inUse = old.inUse
    BY <1>1, <2>1, <2>2
  <2>6. VdcKept(n, old, ChangedVdc(r))
    <3>1. ASSUME NEW k \in DOMAIN old.infras
          PROVE  /\ infras[k].ports = old.infras[k].ports
                 /\ old.infras[k].sources \subseteq infras[k].sources
      BY <2>3, <2>4, <3>1
    <3> QED
      BY <2>4, <2>5, <3>1 DEF VdcKept
  <2> QED
    BY <1>4, <2>3, <2>4, <2>5, <2>6
<1>5. CASE req[r].product = "vdc" /\ Job[r].kind = "copy"
  <2> DEFINE new    == NewEntry(RecordedPorts(r))
             infras == Put(old.infras, i, new)
  <2>1. ChangedVdc(r) = [old EXCEPT !.infras = infras]
    BY <1>5 DEF ChangedVdc
  <2>2. new.ports = RecordedPorts(r)
    BY <1>2
  <2> HIDE DEF new
  <2>3. /\ DOMAIN infras = DOMAIN old.infras \union {i} /\ infras[i] = new
        /\ \A k \in DOMAIN old.infras \ {i} : infras[k] = old.infras[k]
    BY DEF Put
  <2> HIDE DEF infras
  <2>4. n \in DOMAIN doc.vdcs /\ i \notin DOMAIN old.infras
    BY <1>1, <1>5 DEF ForBlueprint, Subject
  <2>5. ChangedVdc(r).infras = infras /\ ChangedVdc(r).inUse = old.inUse
    BY <1>1, <2>1, <2>4
  <2>6. VdcKept(n, old, ChangedVdc(r))
    BY <2>3, <2>4, <2>5 DEF VdcKept
  <2> QED
    BY <1>5, <2>2, <2>3, <2>5, <2>6
<1>6. CASE req[r].product = "vdc" /\ Job[r].kind # "copy"
  <2> DEFINE infras == [k \in {i} |-> NewEntry(RecordedPorts(r))]
  <2>1. ChangedVdc(r) = [infras |-> infras, apps |-> req[r].apps, inUse |-> << >>]
    BY <1>6 DEF ChangedVdc
  <2>2. DOMAIN infras = {i} /\ infras[i] = NewEntry(RecordedPorts(r))
    OBVIOUS
  <2> HIDE DEF infras
  <2>3. ChangedVdc(r).infras = infras
    BY <2>1
  <2>4. ForBlueprint(r)
    BY <1>1, <1>6 DEF CallType, ForBlueprint
  <2> QED
    BY <1>2, <1>6, <2>2, <2>3, <2>4
<1> QED
  BY <1>1, <1>3, <1>4, <1>5, <1>6 DEF CallType

LEMMA StoreKeepsPromises ==
  ASSUME NEW r \in Requests, TypeInv, IdentityInvariant, SerialInv, req[r].pc = "store",
         info' = Result(r)
  PROVE  DocKept
<1> DEFINE n == req[r].vdc
<1>1. Subject(r) /\ ClusterHolds /\ CallType(r) /\ req[r].pc \in Calling /\ DOMAIN req[r].doc = DOMAIN NewInfo
  BY DEF SerialInv, Progress, Calling, TypeInv, RequestType, DocType
<1>2. CASE req[r].product = "vdm"
  <2>1. info.vdcs = << >> /\ DOMAIN << >> = {}
    BY <1>1, <1>2, EmptySeq DEF IdentityInvariant, CopyInvariant, Subject
  <2> QED
    BY <2>1 DEF DocKept
<1>3. CASE req[r].product # "vdm"
  <2>1. /\ DOMAIN info'.vdcs = DOMAIN info.vdcs \union {n}
        /\ info'.vdcs[n] = ChangedVdc(r)
        /\ \A k \in DOMAIN info.vdcs \ {n} : info'.vdcs[k] = info.vdcs[k]
    BY <1>1, <1>3, ResultOfVdcRequest DEF Subject
  <2>2. ForBlueprint(r) => n \notin DOMAIN info.vdcs
    <3>1. info.num \in Nat /\ DOMAIN info.vdcs \subseteq Nat /\ \A m \in DOMAIN info.vdcs : m < info.num
      BY <1>1 DEF ClusterHolds, TypeInv, DocType
    <3>2. ForBlueprint(r) => n = info.num
      BY <1>1, <1>3 DEF CallType, ForBlueprint, Subject
    <3> HIDE DEF n
    <3> QED
      BY <3>1, <3>2
  <2>3. n \in DOMAIN info.vdcs => VdcKept(n, info.vdcs[n], ChangedVdc(r))
    BY <1>1, <1>3, <2>2, ChangedVdcKeeps DEF Subject
  <2>4. ASSUME NEW k \in DOMAIN info.vdcs PROVE VdcKept(k, info.vdcs[k], info'.vdcs[k])
    <3>1. k # n => VdcKept(k, info.vdcs[k], info.vdcs[k])
      BY DEF VdcKept
    <3> QED
      BY <2>1, <2>3, <3>1
  <2> QED
    BY <2>1, <2>4 DEF DocKept
<1> QED
  BY <1>2, <1>3

(* The end of a request that is done.                                        *)
LEMMA StorePromises ==
  ASSUME NEW r \in Requests, TypeInv, IdentityInvariant, SerialInv, Store(r),
         req'[r].pc = "done"
  PROVE  Promised(r)'
<1> DEFINE n == req[r].vdc
           i == req[r].infra
<1>1. /\ Subject(r) /\ ClusterHolds /\ RequestType(r) /\ CallType(r) /\ req[r].pc = "store"
      /\ req[r].pc \in Calling
      /\ req[r].product # "newdal" /\ UNCHANGED pods
      /\ HasPod(r) \/ req[r].product = "datasource"
  BY DEF SerialInv, Progress, Made, Calling, TypeInv, RequestType, CallType, Store, At
<1>2. info' = Result(r) /\ Answer(r, "done") /\ req[r].product # "vdm"
  <2>1. CASE req' = [req EXCEPT ![r] = AfterOwners([Idle EXCEPT !.doc = Result(r)])]
    <3> DEFINE state == [Idle EXCEPT !.doc = Result(r)]
    <3>1. DOMAIN state = DOMAIN Idle
      BY Shapes
    <3>2. req'[r] = AfterOwners(state)
      BY <2>1 DEF TypeInv
    <3> HIDE DEF state
    <3>3. AfterOwners(state).pc \in {"read", "apps"}
      BY <3>1, Shapes DEF AfterOwners
    <3> QED
      BY <3>2, <3>3
  <2>2. CASE Answer(r, "failed")
    BY <2>2, AnswerHasType DEF Answers
  <2> QED
    BY <2>1, <2>2 DEF Store
<1>3. req'[r].vdc = n /\ req'[r].infra = i
  BY <1>2, AnswerHasType DEF Answers
<1>4. n \in DOMAIN info'.vdcs /\ info'.vdcs[n] = ChangedVdc(r)
  BY <1>1, <1>2, ResultOfVdcRequest
<1>5. info' # NoInfo
  <2>1. DOMAIN NoInfo.vdcs = {}
    BY EmptySeq DEF NoInfo, NewInfo
  <2> QED
    BY <1>4, <2>1
<1>6. ForBlueprint(r) => n \notin DOMAIN req[r].doc.vdcs
  <2>1. info.num \in Nat /\ DOMAIN info.vdcs \subseteq Nat /\ \A m \in DOMAIN info.vdcs : m < info.num
    BY <1>1 DEF ClusterHolds, TypeInv, DocType
  <2>2. ForBlueprint(r) => n = info.num /\ req[r].doc = info
    BY <1>1, <1>2 DEF CallType, ForBlueprint, Subject
  <2> HIDE DEF n
  <2> QED
    BY <2>1, <2>2
<1>7. /\ req[r].product = "vdc" => i \in DOMAIN ChangedVdc(r).infras
                                   /\ ChangedVdc(r).infras[i].ports = RecordedPorts(r)
      /\ req[r].product = "datasource" => i \in DOMAIN ChangedVdc(r).infras
                                          /\ Job[r].id \in ChangedVdc(r).infras[i].sources
      /\ req[r].product = "dal" => i \in DOMAIN ChangedVdc(r).infras /\ Gives(ChangedVdc(r).inUse, Job[r])
  BY <1>1, <1>2, <1>6, ChangedVdcKeeps
<1>8. CASE req[r].product = "vdc"
  <2>1. Job[r].kind \in {"blueprint", "copy"} /\ RecordedPorts(r) # {}
    BY <1>1, <1>8 DEF CallType, ForBlueprint, RecordedPorts
  <2> QED
    BY <1>3, <1>4, <1>5, <1>7, <1>8, <2>1 DEF Promised
<1>9. CASE req[r].product = "datasource"
  <2>1. Job[r].kind = "datasource"
    BY <1>1, <1>9 DEF CallType
  <2> QED
    BY <1>3, <1>4, <1>5, <1>7, <1>9, <2>1 DEF Promised
<1>10. CASE req[r].product = "dal"
  <2>1. Job[r].kind = "dal" /\ n = Job[r].vdc
    BY <1>1, <1>10 DEF CallType, Subject
  <2>2. VdcName(n) \in DOMAIN pods'[i] /\ Readdresses(Job[r], pods'[i][VdcName(n)])
    BY <1>1, <1>10 DEF HasPod, ServiceName
  <2> QED
    BY <1>3, <1>4, <1>5, <1>7, <1>10, <2>1, <2>2 DEF Promised
<1> QED
  BY <1>1, <1>2, <1>8, <1>9, <1>10 DEF CallType

(* Every other step leaves its request short of being done.                  *)
LEMMA OnlyStoreIsDone ==
  ASSUME NEW r \in Requests, TypeInv, IdentityInvariant, PortsInRange, Begin(r) \/ Work(r), ~ Store(r)
  PROVE  req'[r].pc # "done"
<1>1. DOMAIN req = Requests /\ RequestType(r) /\ DOMAIN req[r] = DOMAIN Idle
  BY DEF TypeInv, RequestType
<1>2. ASSUME Answer(r, "failed") PROVE req'[r].pc # "done"
  BY <1>2, AnswerHasType DEF Answers
<1>3. ASSUME NEW pc, Goto(r, pc), pc # "done" PROVE req'[r].pc # "done"
  BY <1>1, <1>3, Shapes DEF Goto
<1>4. ASSUME Continues(r) PROVE req'[r].pc # "done"
  BY <1>4 DEF Continues, Calling
<1>5. ASSUME NEW state, DOMAIN state = DOMAIN Idle, req' = [req EXCEPT ![r] = AfterOwners(state)]
      PROVE  req'[r].pc # "done"
  <2>1. AfterOwners(state).pc \in {"read", "apps"}
    BY <1>5, Shapes DEF AfterOwners
  <2> QED
    BY <1>1, <1>5, <2>1
<1>6. CASE Begin(r)
  <2>1. CASE req' = [req EXCEPT ![r] = AfterOwners([Idle EXCEPT !.doc = info])]
    <3> DEFINE state == [Idle EXCEPT !.doc = info]
    <3>1. DOMAIN state = DOMAIN Idle
      BY Shapes
    <3>2. req' = [req EXCEPT ![r] = AfterOwners(state)]
      BY <2>1
    <3> HIDE DEF state
    <3> QED
      BY <1>5, <3>1, <3>2
  <2>2. CASE RefuseCopy(r)
    BY <1>1, <2>2, Shapes DEF RefuseCopy
  <2>3. CASE AcceptVdcRequest(r)
    BY <1>1, <2>3, Shapes DEF AcceptVdcRequest, Provision
  <2> QED
    BY <1>2, <1>3, <1>6, <2>1, <2>2, <2>3
       DEF Begin, BeginBlueprint, FirstTime, NextTime, BeginVdcRequest, FailVdcRequest
<1>7. CASE CreateOwners(r)
  <2>1. PICK order : \/ Answer(r, "failed")
                     \/ req' = [req EXCEPT ![r].pc = "insert", ![r].doc.owners = order]
    BY <1>7 DEF CreateOwners
  <2> QED
    BY <1>1, <1>2, <2>1, Shapes
<1>8. CASE CreateApps(r)
  <2>1. CASE \E apps : DeployVDC(r, apps)
    <3>1. PICK apps : DeployVDC(r, apps)
      BY <2>1
    <3> DEFINE infra == DefaultInfra(req[r].doc.owners \o apps)
    <3>2. req' = [req EXCEPT ![r] = [Provision(r, "vdc", infra)
                    EXCEPT !.apps = apps, !.vdc = req[r].doc.num]]
      BY <3>1 DEF DeployVDC
    <3> HIDE DEF infra
    <3> QED
      BY <1>1, <3>2, Shapes DEF Provision
  <2> QED
    BY <1>2, <1>8, <2>1 DEF CreateApps
<1>9. CASE Insert(r)
  BY <1>1, <1>2, <1>5, <1>9 DEF Insert
<1>10. CASE Read(r) \/ List(r) \/ TakePort(r) \/ ClaimForVdm(r)
  BY <1>2, <1>4, <1>10, ReadContinues, ListContinues, TakePortContinues, ClaimForVdmContinues
<1>11. CASE \/ CreateVdcPod(r) \/ CreateVdmPod(r) \/ ModifyPod(r) \/ CreateSource(r)
            \/ RefuseDal(r) \/ CreateService(r) \/ Save(r)
  BY <1>2, <1>3, <1>11
     DEF CreateVdcPod, CreateVdmPod, CreateOrUpdatePod, ModifyPod, CreateSource, RefuseDal,
         CreateService, Save
<1> QED
  BY <1>6, <1>7, <1>8, <1>9, <1>10, <1>11 DEF Work

(* The Deployments of the VDCs that are recorded.                            *)
LEMMA StepKeepsPods ==
  ASSUME NEW r \in Requests, TypeInv, IdentityInvariant, SerialInv, Begin(r) \/ Work(r)
  PROVE  PodsKept
<1>1. CASE pods' = pods
  BY <1>1 DEF PodsKept, DalsKept
<1>2. CASE ModifyPod(r) /\ pods' # pods
  <2> DEFINE i    == req[r].infra
             name == ServiceName(r)
             dals == Readdressed(pods[i][name].dals, InUse(r))
  <2>1. /\ DOMAIN pods = Infras /\ i \in Infras /\ req[r].product = "dal" /\ req[r].pc \in Calling
        /\ \A j \in Infras : \A m \in DOMAIN pods[j] : PodType(j, m, pods[j][m])
    BY <1>2 DEF ModifyPod, At, TypeInv, RequestType, CallType, Ready, ClusterType, Calling
  <2>2. /\ name = VdcName(Job[r].vdc) /\ Job[r].kind = "dal"
        /\ req[r].doc = info /\ req[r].vdc = Job[r].vdc
    BY <2>1 DEF ServiceName, SerialInv, Progress, Subject, TypeInv, RequestType, CallType
  <2>3. pods' = [pods EXCEPT ![i][name].dals = dals]
    BY <1>2 DEF ModifyPod
  <2>4. DalsKept(Job[r].vdc, pods[i][name].dals, dals)
    <3> DEFINE old == pods[i][name].dals
               inUse == info.vdcs[Job[r].vdc].inUse
    <3>1. /\ DOMAIN InUse(r) = DOMAIN inUse \union {Job[r].dal} /\ InUse(r)[Job[r].dal] = Job[r].ip
          /\ \A d \in DOMAIN inUse \ {Job[r].dal} : InUse(r)[d] = inUse[d]
      <4>1. InUse(r) = Put(inUse, Job[r].dal, Job[r].ip)
        BY <2>2 DEF InUse
      <4> HIDE DEF inUse
      <4> QED
        BY <4>1 DEF Put
    <3>2. ASSUME NEW d \in DOMAIN old
          PROVE  \/ dals[d] = old[d]
                 \/ d = Job[r].dal /\ dals[d] = Job[r].ip
                 \/ d \in DOMAIN inUse /\ dals[d] = inUse[d]
      <4>1. dals[d] = IF d \in DOMAIN InUse(r) THEN InUse(r)[d] ELSE old[d]
        BY DEF Readdressed
      <4> HIDE DEF dals, old, inUse
      <4>2. CASE d \in DOMAIN InUse(r)
        <5>1. dals[d] = InUse(r)[d]
          BY <4>1, <4>2
        <5>2. CASE d = Job[r].dal
          BY <3>1, <5>1, <5>2
        <5>3. CASE d # Job[r].dal
          BY <3>1, <4>2, <5>1, <5>3
        <5> QED
          BY <5>2, <5>3
      <4>3. CASE d \notin DOMAIN InUse(r)
        BY <4>1, <4>3
      <4> QED
        BY <4>2, <4>3
    <3>3. Addressed(Job[r].vdc, Job[r].dal, Job[r].ip)
      BY <2>2 DEF Addressed
    <3>4. DOMAIN dals = DOMAIN old
      BY DEF Readdressed
    <3> HIDE DEF dals, old
    <3>5. DalsKept(Job[r].vdc, old, dals)
      BY <3>2, <3>3, <3>4 DEF DalsKept
    <3> QED
      BY <3>5 DEF old
  <2> HIDE DEF name, dals
  <2>5. ASSUME NEW j \in Infras, NEW m \in DOMAIN pods[j]
        PROVE  /\ m \in DOMAIN pods'[j]
               /\ \/ pods'[j][m].dals = pods[j][m].dals
                  \/ j = i /\ m = name /\ pods'[j][m].dals = dals
    BY <2>1, <2>3, <2>5 DEF PodType
  <2>6. ASSUME NEW n \in DOMAIN info.vdcs, NEW j \in DOMAIN info.vdcs[n].infras,
               VdcName(n) \in DOMAIN pods[j]
        PROVE  /\ VdcName(n) \in DOMAIN pods'[j]
               /\ DalsKept(n, pods[j][VdcName(n)].dals, pods'[j][VdcName(n)].dals)
    <3>1. j \in Infras
      BY DEF TypeInv, DocType, VdcType, Ready
    <3>2. VdcName(n) = name => n = Job[r].vdc
      BY <2>2, NamesDiffer
    <3>3. DalsKept(n, pods[j][VdcName(n)].dals, pods[j][VdcName(n)].dals)
      BY DEF DalsKept
    <3> QED
      BY <2>4, <2>5, <2>6, <3>1, <3>2, <3>3
  <2> QED
    BY <2>6 DEF PodsKept
<1>3. CASE CreateVdcPod(r) \/ CreateVdmPod(r)
  <2>1. /\ req[r].pc \in Calling /\ req[r].product \in {"vdc", "vdm"}
        /\ DOMAIN pods = Infras /\ req[r].infra \in Infras
    BY <1>3 DEF CreateVdcPod, CreateVdmPod, At, TypeInv, RequestType, CallType, Ready,
                ClusterType, Calling
  <2>2. PICK pod : CreateOrUpdatePod(r, pod)
    BY <1>3 DEF CreateVdcPod, CreateVdmPod
  <2>3. NamesKept(r, pods, pods')
    BY <2>1, <2>2, PutKeepsNames DEF CreateOrUpdatePod
  <2>4. ASSUME NEW n \in DOMAIN info.vdcs, NEW j \in DOMAIN info.vdcs[n].infras,
               VdcName(n) \in DOMAIN pods[j]
        PROVE  VdcName(n) \in DOMAIN pods'[j] /\ pods'[j][VdcName(n)] = pods[j][VdcName(n)]
    <3>1. j \in Infras
      BY DEF TypeInv, DocType, VdcType, Ready
    <3>2. j # req[r].infra \/ VdcName(n) # ServiceName(r)
      BY <2>1, NameIsOwn
    <3> QED
      BY <2>3, <2>4, <3>1, <3>2 DEF NamesKept
  <2> QED
    BY <2>4 DEF PodsKept, DalsKept
<1>4. pods' = pods \/ ModifyPod(r) \/ CreateVdcPod(r) \/ CreateVdmPod(r)
  BY DEF Begin, Work, CreateOwners, Insert, CreateApps, Read, List, TakePort, CreateSource,
         RefuseDal, ClaimForVdm, CreateService, Save, Store
<1> QED
  BY <1>1, <1>2, <1>3, <1>4

LEMMA StepKeepsDoc ==
  ASSUME NEW r \in Requests, TypeInv, IdentityInvariant, SerialInv, Begin(r) \/ Work(r)
  PROVE  DocKept
<1>1. CASE info' = info
  BY <1>1 DEF DocKept, VdcKept
<1>2. CASE Insert(r) /\ info' # info
  <2>1. info = NoInfo
    BY <1>2 DEF Insert, Inserted
  <2>2. DOMAIN info.vdcs = {}
    BY <2>1, EmptySeq DEF NoInfo, NewInfo
  <2> QED
    BY <2>2 DEF DocKept
<1>3. CASE Store(r) /\ info' # info
  BY <1>3, StoreKeepsPromises DEF Store, At
<1>4. info' = info \/ Insert(r) \/ Store(r)
  BY DEF Begin, Work, CreateOwners, CreateApps, Read, List, TakePort, CreateVdcPod, CreateVdmPod,
         CreateOrUpdatePod, ModifyPod, CreateSource, RefuseDal, ClaimForVdm, CreateService, Save
<1> QED
  BY <1>1, <1>2, <1>3, <1>4

LEMMA RequestIsOwn ==
  ASSUME NEW r \in Requests, TypeInv, Begin(r) \/ Work(r)
  PROVE  OnlyOf(r)
<1>1. DOMAIN req = Requests
  BY DEF TypeInv
<1>2. \E s : req' = [req EXCEPT ![r] = s]
  <2>1. ASSUME NEW pc, Answer(r, pc) PROVE \E s : req' = [req EXCEPT ![r] = s]
    BY <2>1 DEF Answer
  <2>2. ASSUME NEW pc, Goto(r, pc) PROVE \E s : req' = [req EXCEPT ![r] = s]
    BY <2>2 DEF Goto
  <2>3. CASE Begin(r)
    BY <2>1, <2>2, <2>3
       DEF Begin, BeginBlueprint, FirstTime, NextTime, BeginVdcRequest, RefuseCopy,
           AcceptVdcRequest, FailVdcRequest
  <2>4. CASE CreateOwners(r) \/ Insert(r)
    BY <2>1, <2>2, <2>4 DEF CreateOwners, Insert
  <2>5. CASE CreateApps(r)
    BY <2>1, <2>5 DEF CreateApps, DeployVDC
  <2>6. CASE Read(r) \/ List(r) \/ TakePort(r) \/ ClaimForVdm(r)
    BY <2>1, <2>6 DEF Read, List, TakePort, ClaimForVdm
  <2>7. CASE \/ CreateVdcPod(r) \/ CreateVdmPod(r) \/ ModifyPod(r) \/ CreateSource(r)
             \/ RefuseDal(r) \/ CreateService(r) \/ Save(r)
    BY <2>1, <2>2, <2>7
       DEF CreateVdcPod, CreateVdmPod, CreateOrUpdatePod, ModifyPod, CreateSource, RefuseDal,
           CreateService, Save
  <2>8. CASE Store(r)
    BY <2>1, <2>8 DEF Store
  <2> QED
    BY <2>3, <2>4, <2>5, <2>6, <2>7, <2>8 DEF Work
<1> QED
  BY <1>1, <1>2 DEF OnlyOf

LEMMA StepKeepsPromises ==
  ASSUME OneAddress, PortsInRange, TypeInv, IdentityInvariant, SerialInv, PromiseInv, [Next]_vars
  PROVE  PromiseInv'
<1>1. CASE UNCHANGED vars
  BY <1>1 DEF vars, PromiseInv, Promised
<1>2. CASE Next
  <2>1. PICK r \in Requests : Begin(r) \/ Work(r)
    BY <1>2 DEF Next
  <2>2. OnlyOf(r) /\ DocKept /\ PodsKept
    BY <2>1, RequestIsOwn, StepKeepsDoc, StepKeepsPods
  <2>3. ASSUME NEW q \in Requests \ {r}, req'[q].pc = "done" PROVE Promised(q)'
    BY <2>2, <2>3, PromiseStays DEF OnlyOf
  <2>4. ASSUME req'[r].pc = "done" PROVE Promised(r)'
    BY <2>1, <2>4, StorePromises, OnlyStoreIsDone
  <2> QED
    BY <2>3, <2>4 DEF PromiseInv
<1> QED
  BY <1>1, <1>2

(* What a client was told to be done stays in the document of the blueprint,  *)
(* and the address of a DAL in the Deployment when it has one for that DAL    *)
(* (else ModifyVDC changes nothing there and reports success), when requests  *)
(* come one at a time and whatever later ones do and whatever calls fail:     *)
(* each reads the document as the last one left it, changes one entry and    *)
(* works in the cluster under a name that no entry has (vdcmanager.go:       *)
(* 317-362, 699-712, 745-881, 978-1018).                                     *)
THEOREM PromisesHold ==
  ASSUME OneRequestAtATime, OneAddress, PortsInRange
  PROVE  Spec => []AnswersHold
<1> DEFINE Inv == IdentityInvariant /\ TypeInv /\ SerialInv /\ PromiseInv
<1>1. Init => Inv
  <2>1. ASSUME Init PROVE PromiseInv
    <3>1. ASSUME NEW r \in Requests PROVE req[r].pc # "done"
      BY <2>1 DEF Init, Idle
    <3> QED
      BY <3>1 DEF PromiseInv
  <2> QED
    BY <2>1, InitEstablishesIdentityInvariant, InitHasTypes, InitIsSerial
<1>2. Inv /\ [Next]_vars => Inv'
  BY StepKeepsIdentity, StepKeepsTypes, StepIsSerial, StepKeepsPromises
<1>3. Inv => AnswersHold
  <2> SUFFICES ASSUME Inv, NEW r \in Requests, req[r].pc = "done"
               PROVE  info # NoInfo /\ req[r].vdc \in DOMAIN info.vdcs /\ Holds(r)
    BY DEF AnswersHold, At
  <2>1. Promised(r)
    BY DEF PromiseInv
  <2>2. Job[r].kind \in {"blueprint", "copy", "datasource", "dal"}
    BY <2>1, JobAssumption DEF Promised
  <2>3. CASE Job[r].kind = "dal"
    <3> DEFINE i   == req[r].infra
               pod == pods[i][VdcName(req[r].vdc)]
    <3>1. /\ i \in Infras /\ VdcName(req[r].vdc) \in DOMAIN pods[i]
          /\ Readdresses(Job[r], pod) /\ Gives(info.vdcs[req[r].vdc].inUse, Job[r])
      BY <2>1, <2>3 DEF Promised, TypeInv, DocType, VdcType, Ready
    <3>2. WithAddress[i] \subseteq DOMAIN pod.dals
      BY <3>1, NamesDiffer DEF TypeInv, ClusterType, PodType
    <3> QED
      BY <2>1, <2>3, <3>1, <3>2 DEF Promised, Holds, Readdresses, Gives
  <2> QED
    BY <2>1, <2>2, <2>3 DEF Promised, Holds
<1> QED
  BY <1>1, <1>2, <1>3, PTL DEF Spec

(* The DALs a copy that is done has in use, and its Deployment.              *)
UsesDals(r) ==
  LET inUse == info'.vdcs[req'[r].vdc].inUse
      pod   == pods'[req'[r].infra][VdcName(req'[r].vdc)]
  IN \A d \in Dals \intersect DOMAIN inUse : d \in DOMAIN pod.dals /\ pod.dals[d] = inUse[d]

LEMMA CopyIsDone ==
  ASSUME NEW r \in Requests, TypeInv, IdentityInvariant, SerialInv, Store(r),
         Job[r].kind = "copy", req'[r].pc = "done"
  PROVE  UsesDals(r)
<1> DEFINE n == req[r].vdc
           i == req[r].infra
<1>1. /\ Subject(r) /\ CallType(r) /\ req[r].pc = "store" /\ req[r].product # "newdal"
      /\ (UNCHANGED pods /\ HasPod(r)) \/ req[r].product = "datasource"
  BY DEF SerialInv, Progress, Made, Calling, TypeInv, RequestType, CallType, Store, At
<1>2. req[r].product = "vdc" /\ ~ ForBlueprint(r)
  BY <1>1 DEF CallType, ForBlueprint
<1>3. Answer(r, "done") /\ info' = Result(r)
  BY <1>2, AnswerHasType DEF Store, Answers
<1>4. req'[r].vdc = n /\ req'[r].infra = i
  BY <1>3, AnswerHasType DEF Answers
<1>5. info'.vdcs[n].inUse = info.vdcs[n].inUse
  <2>1. info'.vdcs[n] = ChangedVdc(r)
    BY <1>1, <1>2, <1>3, ResultOfVdcRequest
  <2>2. ChangedVdc(r).inUse = req[r].doc.vdcs[n].inUse
    BY <1>1, <1>2, ChangedVdcKeeps
  <2> QED
    BY <1>1, <2>1, <2>2 DEF Subject
<1>6. pods'[i][VdcName(n)].dals = Aliases(i, info.vdcs[n].inUse)
  BY <1>1, <1>2 DEF HasPod, ServiceName
<1> QED
  BY <1>4, <1>5, <1>6 DEF UsesDals, Aliases

(* A request is done by its own last step.                                   *)
LEMMA OwnStoreIsDone ==
  ASSUME NEW r \in Requests, TypeInv, IdentityInvariant, PortsInRange, [Next]_vars,
         req[r].pc # "done", req'[r].pc = "done"
  PROVE  Store(r)
<1>1. PICK q \in Requests : Begin(q) \/ Work(q)
  BY DEF Next, vars
<1>2. OnlyOf(q)
  BY <1>1, RequestIsOwn
<1>3. q = r
  BY <1>2 DEF OnlyOf
<1> QED
  BY <1>1, <1>3, OnlyStoreIsDone

(* A copy of a VDC that is answered as done has every DAL of the blueprint at   *)
(* the address that is recorded as in use: the request reads the addresses    *)
(* from the document, and with requests one at a time nothing changes them    *)
(* before the copy is recorded (vdcmanager.go:693, vdc_provisioner.go:        *)
(* 236-254).                                                                *)
THEOREM CopiesUseDals ==
  ASSUME OneRequestAtATime, PortsInRange
  PROVE  Spec => CopyUsesDals
<1> DEFINE Inv  == IdentityInvariant /\ TypeInv /\ SerialInv
           Done == \A r \in Requests : Job[r].kind = "copy" /\ ~ At(r, "done") /\ At(r, "done")' => UsesDals(r)
<1>1. Init => Inv
  BY InitEstablishesIdentityInvariant, InitHasTypes, InitIsSerial
<1>2. Inv /\ [Next]_vars => Inv'
  BY StepKeepsIdentity, StepKeepsTypes, StepIsSerial
<1>3. Inv /\ [Next]_vars => [Done]_vars
  BY OwnStoreIsDone, CopyIsDone DEF At
<1> QED
  BY <1>1, <1>2, <1>3, PTL DEF Spec, CopyUsesDals, UsesDals
=============================================================================
