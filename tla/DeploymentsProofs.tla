------------------------- MODULE DeploymentsProofs -------------------------
(***************************************************************************)
(* What the repository lists is complete, a deletion that is reported done   *)
(* left nothing, and the controller implements Lifecycle: for any number of  *)
(* infrastructures, nodes, creations and racing deletions, and any faults.   *)
(* CloudSigmaProofs says what each step does to the nodes; here the phases of *)
(* the infrastructures and the progress of the requests are tied to them.    *)
(***************************************************************************)
EXTENDS Deployments, CloudSigmaProofs

Phases  == {"idle", "asked", "creating", "error", "running", "dropped", "returned"}
Answers == {"idle", "collecting", "done", "failed", "cleaning", "partial deployment deleted",
            "error cleaning"}

DeployType ==
  /\ stored \subseteq Infras
  /\ phase \in [Infras -> Phases]
  /\ answer \in [Creations -> Answers]
  /\ todo \in [Deletions -> SUBSET Nodes]
  /\ trouble \in [Deletions -> BOOLEAN]

AllGone(i)     == \A n \in NodesOf[i] : ~Leftovers(n)
Unasked(i)     == \A w \in Deletions : Target[w] = i => At(w, "idle")

(* The nodes of an infrastructure by its phase.                              *)
PhaseInv(i) ==
  /\ phase[i] \in {"idle", "asked"} => \A n \in NodesOf[i] : At(n, "idle")
  /\ phase[i] \in {"error", "dropped"} =>
       \A n \in NodesOf[i] : work[n].pc \in {"idle", "created", "deleted"}
  /\ phase[i] \in {"running", "returned"} => \A n \in NodesOf[i] : At(n, "created")
  /\ i \in stored => phase[i] = "returned"
  /\ phase[i] # "returned" => Unasked(i)
  /\ Unasked(i) => \A n \in NodesOf[i] : At(n, "created") => Whole(n)

(* The infrastructures of a creation by its answer.                          *)
AnswerInv(c) ==
  /\ answer[c] = "idle" => \A i \in InfrasOf[c] : phase[i] = "idle"
  /\ answer[c] = "cleaning" =>
       /\ c \in Cleaners
       /\ \A i \in InfrasOf[c] : phase[i] \in {"dropped", "returned"}
       /\ \E i \in InfrasOf[c] : phase[i] = "dropped"

(* The hosts that a deletion has left behind it are gone, unless it knows of  *)
(* an error.                                                                *)
BehindIt(w) ==
  {n \in NodesOf[Target[w]] \ todo[w] :
     ~(work[w].pc \in Undoing /\ n = Host(w) /\ (~At(w, "deleted") \/ work[w].error))}

DeletionInv(w) ==
  /\ todo[w] \subseteq NodesOf[Target[w]]
  /\ work[w].pc \in Undoing => Host(w) \in NodesOf[Target[w]]
  /\ work[w].pc \in Undoing \union {"next"} /\ ~trouble[w] => \A n \in BehindIt(w) : ~Leftovers(n)
  /\ work[w].pc \in {"remove", "done"} => AllGone(Target[w])
  /\ work[w].pc \in Undoing \union {"next"} => Target[w] \in stored \/ AllGone(Target[w])
  /\ At(w, "done") => Target[w] \notin stored

ControlInv ==
  /\ DeployType
  /\ \A i \in Infras : PhaseInv(i)
  /\ \A c \in Creations : AnswerInv(c)
  /\ \A w \in Deletions : DeletionInv(w)

DeployInv == CloudInv /\ ControlInv

-----------------------------------------------------------------------------
(* What the controller sees of a node.                                      *)
SameView(n) ==
  /\ Whole(n)' <=> Whole(n)
  /\ Leftovers(n)' <=> Leftovers(n)
  /\ work'[n].pc = work[n].pc

SameViews == \A n \in Nodes : SameView(n)

LEMMA SameNodeSameView ==
  ASSUME NEW n \in Nodes, SameNode(n)
  PROVE  SameView(n)
  BY DEF SameNode, SameView, Whole, Ready, Leftovers

LEMMA SettlesView ==
  ASSUME CloudInv, NEW n \in Nodes, Settles(n)
  PROVE  SameViews /\ SameRequests
  <1>1. ProviderStepOf(n)
    BY SettlesStep
  <1>2. SameView(n)
    BY <1>1 DEF ProviderStepOf, SameView, Whole, Ready, Leftovers
  <1>3. \A m \in Nodes \ {n} : SameView(m)
    BY <1>1, SameNodeSameView DEF ProviderStepOf
  <1>. QED  BY <1>1, <1>2, <1>3 DEF ProviderStepOf, SameViews, SameRequests

(* The goroutine of a node, creating or undoing: it is not one of those that  *)
(* have ended.                                                              *)
Working == {"disks", "server", "start", "booting", "status", "stop", "stopping", "delete", "drives"}

NodeStepOf(n) ==
  /\ \A m \in Nodes \ {n} : SameView(m)
  /\ SameRequests
  /\ work[n].pc \in Working
  /\ At(n, "created")' => Whole(n)'

LEMMA NodeStep ==
  ASSUME CloudInv, NEW n \in Nodes, Creating(n) \/ Deleting(n)
  PROVE  NodeStepOf(n)
  <1>1. CASE Creating(n)
    <2>1. StepOf(n)
      BY <1>1, CreatingStep
    <2>2. \A m \in Nodes \ {n} : SameView(m)
      BY <2>1, SameNodeSameView DEF StepOf
    <2>3. work[n].pc \in Working
      BY <1>1 DEF Creating, CreateDisk, AwaitDisk, CollectDisks, CreateServer, StartServer,
                  AwaitBoot, At, CloudInv, NodeInv, Working
    <2>. QED  BY <2>1, <2>2, <2>3 DEF StepOf, NodeStepOf
  <1>2. CASE Deleting(n)
    <2>1. PICK h \in Nodes : DeletionStepOf(n, h)
      BY <1>2, DeletingStep, NodeIsWorker
    <2>2. h = n
      BY <2>1 DEF DeletionStepOf
    <2>3. \A m \in Nodes \ {n} : SameNode(m)
      BY <2>1, <2>2 DEF DeletionStepOf, SameNode, Others, Workers
    <2>4. \A m \in Nodes \ {n} : SameView(m)
      BY <2>3, SameNodeSameView
    <2>5. SameRequests
      BY <2>1, NodeIsWorker DEF DeletionStepOf, Others, SameRequests, Workers
    <2>6. work[n].pc \in Working
      BY <1>2 DEF Deleting, ReadStatus, Stop, AwaitStop, DeleteServer, DeleteDrive, At, Working
    <2>. QED  BY <2>1, <2>4, <2>5, <2>6 DEF NodeStepOf, DeletionStepOf, At, Undoing
  <1>. QED  BY <1>1, <1>2

(* A deletion at work: its host stays as it is or goes away.                 *)
HostStepOf(w, h) ==
  /\ h = Host(w) /\ At(h, "created") /\ \A n \in Nodes : work'[n].pc = work[n].pc
  /\ \A m \in Nodes \ {h} : SameView(m)
  /\ SameView(h) \/ (~Leftovers(h)' /\ ~Whole(h)')
  /\ Others(w)
  /\ work[w].pc \in Undoing \ {"deleted"} /\ work'[w].pc \in Undoing /\ work'[w].host = h
  /\ work'[w].pc = "deleted" /\ ~work'[w].error => ~Leftovers(h)'

LEMMA HostStep ==
  ASSUME CloudInv, NEW w \in Deletions, Deleting(w)
  PROVE  \E h \in Nodes : HostStepOf(w, h)
  <1>. w \in Workers /\ w \notin Nodes
    BY WorkersAssumption DEF Workers
  <1>1. PICK h \in Nodes : DeletionStepOf(w, h)
    BY DeletingStep
  <1>2. \A n \in Nodes : work'[n] = work[n]
    BY <1>1 DEF DeletionStepOf, Others, Workers
  <1>3. \A m \in Nodes \ {h} : SameView(m)
    BY <1>1, <1>2, SameNodeSameView DEF DeletionStepOf, SameNode
  <1>4. SameView(h) \/ (~Leftovers(h)' /\ ~Whole(h)')
    BY <1>1, <1>2 DEF DeletionStepOf, SameView, Whole, Ready, Leftovers
  <1>5. work[w].pc \in Undoing \ {"deleted"}
    BY DEF Deleting, ReadStatus, Stop, AwaitStop, DeleteServer, DeleteDrive, At, Undoing
  <1>. QED  BY <1>1, <1>2, <1>3, <1>4, <1>5 DEF DeletionStepOf, HostStepOf

-----------------------------------------------------------------------------
(* A step that changes neither nodes nor requests keeps the nodes.           *)
LEMMA CloudInvCounters ==
  ASSUME CloudInv, faults' \in Nat, lost' \in Nat, drives' = drives, servers' = servers,
         disk' = disk, info' = info, work' = work
  PROVE  CloudInv' /\ SameViews /\ SameRequests
  <1>1. \A m \in Nodes : SameNode(m)
    BY DEF SameNode
  <1>2. \A m \in Nodes : NodeInv(m)'
    BY <1>1, SameNodeKeeps
  <1>3. \A w \in Deletions : RequestInv(w)'
    BY DEF CloudInv, RequestInv, At
  <1>. QED  BY <1>1, <1>2, <1>3, SameNodeSameView
            DEF CloudInv, CloudType, SameViews, SameRequests

(* What keeps the part of the invariant that is about one infrastructure, one *)
(* creation, one deletion.                                                  *)
LEMMA PhaseKeeps ==
  ASSUME NEW i \in Infras, PhaseInv(i), phase'[i] = phase[i],
         \A n \in NodesOf[i] : SameView(n), SameRequests, i \in stored' => i \in stored
  PROVE  PhaseInv(i)'
  <1>1. \A n \in NodesOf[i] : work'[n].pc = work[n].pc /\ (Whole(n) => Whole(n)')
    BY DEF SameView
  <1>2. Unasked(i)' <=> Unasked(i)
    BY DEF Unasked, SameRequests, At
  <1>3. Unasked(i)' => \A n \in NodesOf[i] : At(n, "created")' => Whole(n)'
    BY <1>1, <1>2 DEF PhaseInv, At
  <1>4. phase'[i] # "returned" => i \notin stored' /\ Unasked(i)'
    BY <1>2 DEF PhaseInv
  <1>. QED  BY <1>1, <1>3, <1>4 DEF PhaseInv, At

LEMMA AnswersKeep ==
  ASSUME \A c \in Creations : AnswerInv(c), answer' = answer, NEW i \in Infras,
         phase[i] \notin {"idle", "dropped", "returned"},
         \A j \in Infras \ {i} : phase'[j] = phase[j]
  PROVE  \A c \in Creations : AnswerInv(c)'
  BY ShapeAssumption DEF AnswerInv

LEMMA DeletionKeeps ==
  ASSUME NEW w \in Deletions, DeletionInv(w),
         work'[w] = work[w], todo'[w] = todo[w], trouble'[w] = trouble[w],
         \A n \in NodesOf[Target[w]] : Leftovers(n)' => Leftovers(n),
         Target[w] \in stored' => Target[w] \in stored \/ ~At(w, "done"),
         Target[w] \in stored => Target[w] \in stored' \/ AllGone(Target[w])
  PROVE  DeletionInv(w)'
  <1>1. AllGone(Target[w]) => AllGone(Target[w])'
    BY DEF AllGone
  <1>2. BehindIt(w)' = BehindIt(w)
    BY DEF BehindIt, At, Host
  <1>3. (\A n \in BehindIt(w) : ~Leftovers(n)) => \A n \in BehindIt(w) : ~Leftovers(n)'
    BY DEF BehindIt
  <1>. QED  BY <1>1, <1>2, <1>3 DEF DeletionInv, At, Host

LEMMA NodesOfInfra ==
  /\ \A i \in Infras : NodesOf[i] \subseteq Nodes
  /\ \A c \in Creations : InfrasOf[c] \subseteq Infras
  /\ \A w \in Deletions : Target[w] \in Infras
  BY ShapeAssumption

(* Steps that change nothing a node, a request or the repository shows.       *)
LEMMA ControlKept ==
  ASSUME ControlInv, SameViews, SameRequests,
         stored' = stored, todo' = todo, trouble' = trouble, phase' = phase, answer' = answer
  PROVE  ControlInv'
  <1>1. DeployType'
    BY DEF ControlInv, DeployType
  <1>2. \A i \in Infras : PhaseInv(i)'
    BY PhaseKeeps, NodesOfInfra DEF ControlInv, SameViews
  <1>3. \A c \in Creations : AnswerInv(c)'
    BY DEF ControlInv, AnswerInv
  <1>4. ASSUME NEW w \in Deletions  PROVE DeletionInv(w)'
    <2>1. \A n \in NodesOf[Target[w]] : Leftovers(n)' => Leftovers(n)
      BY NodesOfInfra DEF SameViews, SameView
    <2>. QED  BY <2>1, DeletionKeeps DEF ControlInv, SameRequests
  <1>. QED  BY <1>1, <1>2, <1>3, <1>4 DEF ControlInv

-----------------------------------------------------------------------------
LEMMA SubmitKeeps ==
  ASSUME DeployInv, NEW c \in Creations, Submit(c)
  PROVE  DeployInv' /\ SameViews /\ SameRequests
  <1>. CloudInv /\ ControlInv
    BY DEF DeployInv
  <1>1. CloudInv' /\ SameViews /\ SameRequests
    BY CloudInvCounters DEF Submit, cloudVars, CloudInv, CloudType
  <1>2. stored' = stored /\ todo' = todo /\ trouble' = trouble
    BY DEF Submit
  <1>3. /\ answer[c] = "idle" /\ answer' = [answer EXCEPT ![c] = "collecting"]
        /\ phase' = [i \in Infras |-> IF i \in InfrasOf[c] THEN "asked" ELSE phase[i]]
        /\ \A i \in InfrasOf[c] : phase[i] = "idle"
    BY DEF Submit, ControlInv, AnswerInv
  <1>4. DeployType'
    BY <1>2, <1>3 DEF ControlInv, DeployType, Answers, Phases
  <1>5. ASSUME NEW i \in Infras  PROVE PhaseInv(i)'
    <2>. PhaseInv(i)
      BY DEF ControlInv
    <2>1. CASE i \in InfrasOf[c]
      <3>1. phase'[i] = "asked" /\ phase[i] = "idle" /\ \A n \in NodesOf[i] : work'[n].pc = "idle"
        BY <1>1, <1>3, <2>1, NodesOfInfra DEF PhaseInv, SameViews, SameView, At
      <3>2. i \notin stored' /\ Unasked(i)'
        BY <1>1, <1>2, <3>1 DEF PhaseInv, Unasked, SameRequests, At
      <3>. QED  BY <3>1, <3>2 DEF PhaseInv, At
    <2>2. CASE i \notin InfrasOf[c]
      BY <1>1, <1>2, <1>3, <2>2, PhaseKeeps, NodesOfInfra DEF SameViews
    <2>. QED  BY <2>1, <2>2
  <1>6. ASSUME NEW b \in Creations  PROVE AnswerInv(b)'
    <2>1. CASE b = c
      BY <1>3, <2>1 DEF AnswerInv, ControlInv, DeployType
    <2>2. CASE b # c
      <3>1. \A i \in InfrasOf[b] : phase'[i] = phase[i]
        BY <1>3, <2>2, NodesOfInfra, OwnerAssumption
      <3>2. answer'[b] = answer[b]
        BY <1>3, <2>2 DEF ControlInv, DeployType
      <3>. QED  BY <3>1, <3>2 DEF AnswerInv, ControlInv
    <2>. QED  BY <2>1, <2>2
  <1>7. ASSUME NEW w \in Deletions  PROVE DeletionInv(w)'
    <2>1. \A n \in NodesOf[Target[w]] : Leftovers(n)' => Leftovers(n)
      BY <1>1, NodesOfInfra DEF SameViews, SameView
    <2>. QED  BY <1>1, <1>2, <2>1, DeletionKeeps DEF ControlInv, SameRequests
  <1>. QED  BY <1>1, <1>4, <1>5, <1>6, <1>7 DEF DeployInv, ControlInv

(* An infrastructure goes to its next phase; the rest stays.                 *)
LEMMA PhaseMoves ==
  ASSUME DeployInv, NEW i \in Infras, NEW p \in Phases, phase' = [phase EXCEPT ![i] = p],
         phase[i] \notin {"idle", "dropped", "returned"},
         SameViews, SameRequests, answer' = answer, todo' = todo, trouble' = trouble,
         stored' = stored \/ (stored' = stored \union {i} /\ p = "returned"),
         p # "idle" /\ p # "asked",
         p \in {"error", "dropped"} => \A n \in NodesOf[i] : work[n].pc \in {"idle", "created", "deleted"},
         p \in {"running", "returned"} => \A n \in NodesOf[i] : At(n, "created")
  PROVE  ControlInv'
  <1>. ControlInv
    BY DEF DeployInv
  <1>1. DeployType'
    BY DEF ControlInv, DeployType
  <1>2. ASSUME NEW j \in Infras  PROVE PhaseInv(j)'
    <2>. PhaseInv(j) /\ NodesOf[j] \subseteq Nodes
      BY NodesOfInfra DEF ControlInv
    <2>1. CASE j # i
      BY <2>1, PhaseKeeps DEF SameViews, ControlInv, DeployType
    <2>2. CASE j = i
      <3>1. phase'[i] = p /\ i \notin stored
        BY <2>2 DEF PhaseInv, ControlInv, DeployType
      <3>2. Unasked(i) /\ Unasked(i)'
        BY <2>2 DEF PhaseInv, Unasked, SameRequests, At
      <3>3. \A n \in NodesOf[i] : At(n, "created") => Whole(n)
        BY <2>2, <3>2 DEF PhaseInv
      <3>4. \A n \in NodesOf[i] : work'[n].pc = work[n].pc /\ (Whole(n) => Whole(n)')
        BY <2>2 DEF SameViews, SameView
      <3>. QED  BY <2>2, <3>1, <3>2, <3>3, <3>4 DEF PhaseInv, At
    <2>. QED  BY <2>1, <2>2
  <1>3. \A c \in Creations : AnswerInv(c)'
    BY AnswersKeep DEF ControlInv, DeployType
  <1>4. ASSUME NEW w \in Deletions  PROVE DeletionInv(w)'
    <2>1. \A n \in NodesOf[Target[w]] : Leftovers(n)' => Leftovers(n)
      BY NodesOfInfra DEF SameViews, SameView
    <2>2. Target[w] = i => At(w, "idle")
      BY DEF ControlInv, PhaseInv, Unasked
    <2>. QED  BY <2>1, <2>2, DeletionKeeps DEF ControlInv, SameRequests, At
  <1>. QED  BY <1>1, <1>2, <1>3, <1>4 DEF ControlInv

LEMMA DeployKeeps ==
  ASSUME DeployInv, NEW i \in Infras, Deploy(i)
  PROVE  DeployInv' /\ SameRequests /\ drives' = drives /\ servers' = servers
  <1>. CloudInv /\ ControlInv /\ PhaseInv(i) /\ phase[i] = "asked" /\ NodesOf[i] \subseteq Nodes
    BY NodesOfInfra DEF DeployInv, ControlInv, Deploy
  <1>. stored' = stored /\ answer' = answer /\ todo' = todo /\ trouble' = trouble
    BY DEF Deploy
  <1>1. CASE Phase(i, "error") /\ UNCHANGED <<drives, servers, address, disk, info, work>>
    <2>1. faults' \in Nat /\ lost' \in Nat
      BY <1>1, CountersStayNat DEF Deploy, Phase, Launch, CloudInv, CloudType
    <2>2. CloudInv' /\ SameViews /\ SameRequests
      BY <1>1, <2>1, CloudInvCounters
    <2>3. \A n \in NodesOf[i] : work[n].pc \in {"idle", "created", "deleted"}
      BY DEF PhaseInv, At
    <2>. QED  BY <1>1, <2>2, <2>3, PhaseMoves DEF DeployInv, Phase, Phases
  <1>2. CASE Launch(NodesOf[i]) /\ Phase(i, "creating")
    <2>1. /\ CloudInv'
          /\ \A n \in NodesOf[i] : At(n, "disks")'
          /\ \A m \in Nodes \ NodesOf[i] : SameNode(m)
          /\ SameRequests /\ drives' = drives /\ servers' = servers
      BY <1>2, CloudInvLaunch DEF PhaseInv
    <2>2. \A m \in Nodes \ NodesOf[i] : SameView(m)
      BY <2>1, SameNodeSameView
    <2>3. phase' = [phase EXCEPT ![i] = "creating"]
      BY <1>2 DEF Phase
    <2>4. DeployType'
      BY <2>3 DEF ControlInv, DeployType, Phases
    <2>5. ASSUME NEW j \in Infras  PROVE PhaseInv(j)'
      <3>. PhaseInv(j)
        BY DEF ControlInv
      <3>1. CASE j # i
        <4>1. \A n \in NodesOf[j] : SameView(n)
          BY <2>2, <3>1, NodesOfInfra, OwnerAssumption
        <4>2. phase'[j] = phase[j]
          BY <2>3, <3>1 DEF ControlInv, DeployType
        <4>. QED  BY <2>1, <4>1, <4>2, PhaseKeeps
      <3>2. CASE j = i
        <4>1. phase'[i] = "creating" /\ i \notin stored' /\ Unasked(i)'
          BY <2>1, <2>3 DEF PhaseInv, ControlInv, DeployType, Unasked, SameRequests, At
        <4>. QED  BY <2>1, <3>2, <4>1 DEF PhaseInv, At
      <3>. QED  BY <3>1, <3>2
    <2>6. \A c \in Creations : AnswerInv(c)'
      BY <2>3, AnswersKeep DEF ControlInv, DeployType
    <2>7. ASSUME NEW w \in Deletions  PROVE DeletionInv(w)'
      <3>1. \A n \in NodesOf[Target[w]] : Leftovers(n)' => Leftovers(n)
        BY <2>1 DEF Leftovers
      <3>. QED  BY <2>1, <3>1, DeletionKeeps DEF ControlInv, SameRequests
    <2>. QED  BY <2>1, <2>4, <2>5, <2>6, <2>7 DEF DeployInv, ControlInv
  <1>. QED  BY <1>1, <1>2 DEF Deploy

LEMMA CollectNodesKeeps ==
  ASSUME DeployInv, NEW i \in Infras, CollectNodes(i)
  PROVE  DeployInv' /\ SameViews /\ SameRequests
  <1>1. CloudInv' /\ SameViews /\ SameRequests
    BY CloudInvCounters DEF CollectNodes, cloudVars, DeployInv, CloudInv, CloudType
  <1>2. PICK p \in {"error", "running"} :
          /\ phase' = [phase EXCEPT ![i] = p]
          /\ p = "running" => ~\E n \in NodesOf[i] : At(n, "deleted")
    BY DEF CollectNodes, Phase
  <1>3. phase[i] = "creating" /\ \A n \in NodesOf[i] : work[n].pc \in {"created", "deleted"}
    BY DEF CollectNodes
  <1>4. answer' = answer /\ todo' = todo /\ trouble' = trouble /\ stored' = stored
    BY DEF CollectNodes
  <1>5. p = "running" => \A n \in NodesOf[i] : At(n, "created")
    BY <1>2, <1>3 DEF At
  <1>. QED  BY <1>1, <1>2, <1>3, <1>4, <1>5, PhaseMoves DEF DeployInv, Phases

LEMMA ReceiveKeeps ==
  ASSUME DeployInv, NEW i \in Infras, Receive(i)
  PROVE  DeployInv' /\ SameViews /\ SameRequests
  <1>1. faults' \in Nat /\ lost' \in Nat
    BY CountersStayNat DEF Receive, DeployInv, CloudInv, CloudType
  <1>2. CloudInv' /\ SameViews /\ SameRequests
    BY <1>1, CloudInvCounters DEF Receive, DeployInv
  <1>3. answer' = answer /\ todo' = todo /\ trouble' = trouble
    BY DEF Receive
  <1>4. \/ /\ phase[i] = "error" /\ phase' = [phase EXCEPT ![i] = "dropped"] /\ stored' = stored
        \/ /\ phase[i] = "running" /\ phase' = [phase EXCEPT ![i] = "returned"]
           /\ stored' = stored \/ stored' = stored \union {i}
    BY DEF Receive, Phase
  <1>5. /\ phase[i] = "error" => \A n \in NodesOf[i] : work[n].pc \in {"idle", "created", "deleted"}
        /\ phase[i] = "running" => \A n \in NodesOf[i] : At(n, "created")
    BY DEF DeployInv, ControlInv, PhaseInv
  <1>. QED  BY <1>2, <1>3, <1>4, <1>5, PhaseMoves DEF DeployInv, Phases

LEMMA AnswerMoves ==
  ASSUME DeployInv, NEW c \in Creations, NEW a \in Answers \ {"idle"}, UNCHANGED cloudVars,
         answer' = [answer EXCEPT ![c] = a], stored' = stored, phase' = phase, todo' = todo,
         trouble' = trouble,
         a = "cleaning" => /\ c \in Cleaners
                           /\ \A i \in InfrasOf[c] : phase[i] \in {"dropped", "returned"}
                           /\ \E i \in InfrasOf[c] : phase[i] = "dropped"
  PROVE  DeployInv' /\ SameViews /\ SameRequests
  <1>1. CloudInv' /\ SameViews /\ SameRequests
    BY CloudInvCounters DEF cloudVars, DeployInv, CloudInv, CloudType
  <1>2. DeployType'
    BY DEF DeployInv, ControlInv, DeployType
  <1>3. \A i \in Infras : PhaseInv(i)'
    BY <1>1, PhaseKeeps, NodesOfInfra DEF DeployInv, ControlInv, SameViews
  <1>4. \A b \in Creations : AnswerInv(b)'
    BY DEF DeployInv, ControlInv, AnswerInv, DeployType
  <1>5. ASSUME NEW w \in Deletions  PROVE DeletionInv(w)'
    <2>1. \A n \in NodesOf[Target[w]] : Leftovers(n)' => Leftovers(n)
      BY <1>1, NodesOfInfra DEF SameViews, SameView
    <2>. QED  BY <1>1, <2>1, DeletionKeeps DEF DeployInv, ControlInv, SameRequests
  <1>. QED  BY <1>1, <1>2, <1>3, <1>4, <1>5 DEF DeployInv, ControlInv

LEMMA RespondKeeps ==
  ASSUME DeployInv, NEW c \in Creations, Respond(c)
  PROVE  DeployInv' /\ SameViews /\ SameRequests
  <1>1. PICK a \in {"done", "cleaning", "failed"} :
          /\ answer' = [answer EXCEPT ![c] = a]
          /\ a = "cleaning" => c \in Cleaners /\ ~\A i \in InfrasOf[c] : phase[i] = "returned"
    BY DEF Respond
  <1>2. \A i \in InfrasOf[c] : phase[i] \in {"dropped", "returned"}
    BY DEF Respond
  <1>. QED  BY <1>1, <1>2, AnswerMoves DEF Respond, Answers

LEMMA CleanedKeeps ==
  ASSUME DeployInv, NEW c \in Creations, Cleaned(c)
  PROVE  DeployInv' /\ SameViews /\ SameRequests
  <1>1. \E a \in {"partial deployment deleted", "error cleaning"} : answer' = [answer EXCEPT ![c] = a]
    BY DEF Cleaned
  <1>. QED  BY <1>1, AnswerMoves DEF Cleaned, Answers

LEMMA ProviderKeeps ==
  ASSUME DeployInv, NEW n \in Nodes, ProviderOf(n)
  PROVE  DeployInv' /\ SameViews /\ SameRequests
  <1>1. CloudInv' /\ SameViews /\ SameRequests
    BY CloudInvSettles, SettlesView DEF ProviderOf, DeployInv
  <1>. QED  BY <1>1, ControlKept DEF ProviderOf, controllerVars, DeployInv

(* Only the nodes of an infrastructure that is being created are at work.     *)
LEMMA WorkingIsCreating ==
  ASSUME DeployInv, NEW n \in Nodes, work[n].pc \in Working, NEW i \in Infras, n \in NodesOf[i]
  PROVE  phase[i] = "creating"
  BY DEF DeployInv, ControlInv, PhaseInv, DeployType, Phases, Working, At

LEMMA NodeKeeps ==
  ASSUME DeployInv, NEW n \in Nodes, Node(n)
  PROVE  DeployInv' /\ NodeStepOf(n) /\ UNCHANGED controllerVars
  <1>. CloudInv /\ ControlInv
    BY DEF DeployInv
  <1>1. (Creating(n) \/ Deleting(n)) /\ UNCHANGED controllerVars
    BY DEF Node, Cloud
  <1>2. stored' = stored /\ answer' = answer /\ todo' = todo /\ trouble' = trouble /\ phase' = phase
    BY <1>1 DEF controllerVars
  <1>3. NodeStepOf(n) /\ CloudInv'
    BY <1>1, NodeStep, CloudInvCreating, CloudInvDeleting, NodeIsWorker
  <1>4. DeployType'
    BY <1>2 DEF ControlInv, DeployType
  <1>5. ASSUME NEW i \in Infras  PROVE PhaseInv(i)'
    <2>. PhaseInv(i)
      BY DEF ControlInv
    <2>1. CASE n \notin NodesOf[i]
      BY <1>2, <1>3, <2>1, PhaseKeeps, NodesOfInfra DEF NodeStepOf
    <2>2. CASE n \in NodesOf[i]
      <3>1. phase'[i] = "creating" /\ i \notin stored'
        BY <1>2, <1>3, <2>2, WorkingIsCreating DEF NodeStepOf, PhaseInv
      <3>2. Unasked(i) /\ Unasked(i)'
        BY <1>2, <1>3, <3>1 DEF PhaseInv, Unasked, NodeStepOf, SameRequests, At
      <3>3. \A m \in NodesOf[i] \ {n} : At(m, "created")' => Whole(m)'
        BY <1>3, <3>2, NodesOfInfra DEF PhaseInv, NodeStepOf, SameView, At
      <3>. QED  BY <1>3, <3>1, <3>2, <3>3 DEF PhaseInv, NodeStepOf
    <2>. QED  BY <2>1, <2>2
  <1>6. \A c \in Creations : AnswerInv(c)'
    BY <1>2 DEF ControlInv, AnswerInv
  <1>7. ASSUME NEW w \in Deletions  PROVE DeletionInv(w)'
    <2>. DeletionInv(w) /\ Target[w] \in Infras
      BY NodesOfInfra DEF ControlInv
    <2>1. CASE n \notin NodesOf[Target[w]]
      <3>1. \A m \in NodesOf[Target[w]] : Leftovers(m)' => Leftovers(m)
        BY <1>3, <2>1, NodesOfInfra DEF NodeStepOf, SameView
      <3>. QED  BY <1>2, <1>3, <3>1, DeletionKeeps DEF NodeStepOf, SameRequests
    <2>2. CASE n \in NodesOf[Target[w]]
      <3>1. work[w].pc = "idle" /\ work'[w] = work[w] /\ todo'[w] = todo[w]
        BY <1>2, <1>3, <2>2, WorkingIsCreating
           DEF NodeStepOf, SameRequests, ControlInv, PhaseInv, Unasked, At
      <3>. QED  BY <3>1 DEF DeletionInv, Undoing, At
    <2>. QED  BY <2>1, <2>2
  <1>. QED  BY <1>1, <1>3, <1>4, <1>5, <1>6, <1>7 DEF DeployInv, ControlInv

-----------------------------------------------------------------------------
(* The deletions.                                                           *)
LEMMA ActiveIsReturned ==
  ASSUME DeployInv, NEW w \in Deletions, ~At(w, "idle")
  PROVE  /\ Target[w] \in Infras /\ phase[Target[w]] = "returned" /\ ~Unasked(Target[w])
         /\ \A n \in NodesOf[Target[w]] : n \in Nodes /\ At(n, "created")
  BY NodesOfInfra DEF DeployInv, ControlInv, PhaseInv, Unasked

(* A request that moves on leaves the infrastructures as they are: that of an *)
(* active one was returned, and no other one looks at it.                    *)
LEMMA PhasesOfRequest ==
  ASSUME DeployInv, NEW w \in Deletions, Others(w), phase[Target[w]] = "returned",
         work'[w].pc # "idle", phase' = phase, stored' \subseteq stored,
         \A n \in Nodes : work'[n].pc = work[n].pc,
         \A m \in Nodes : m \notin NodesOf[Target[w]] => SameView(m)
  PROVE  \A i \in Infras : PhaseInv(i)'
  <1>. SUFFICES ASSUME NEW i \in Infras  PROVE PhaseInv(i)'
    OBVIOUS
  <1>. PhaseInv(i) /\ NodesOf[i] \subseteq Nodes
    BY NodesOfInfra DEF DeployInv, ControlInv
  <1>1. CASE i = Target[w]
    <2>1. phase'[i] = "returned" /\ ~Unasked(i)'
      BY <1>1 DEF Unasked, At
    <2>2. \A n \in NodesOf[i] : At(n, "created")'
      BY <1>1 DEF PhaseInv, At
    <2>. QED  BY <2>1, <2>2 DEF PhaseInv
  <1>2. CASE i # Target[w]
    <2>1. \A n \in NodesOf[i] : SameView(n)
      BY <1>2, NodesOfInfra, OwnerAssumption
    <2>2. \A n \in NodesOf[i] : work'[n].pc = work[n].pc /\ (Whole(n) => Whole(n)')
      BY <2>1 DEF SameView
    <2>3. Unasked(i)' <=> Unasked(i)
      BY <1>2 DEF Unasked, Others, At, Workers
    <2>4. Unasked(i)' => \A n \in NodesOf[i] : At(n, "created")' => Whole(n)'
      BY <2>2, <2>3 DEF PhaseInv, At
    <2>5. phase'[i] # "returned" => i \notin stored' /\ Unasked(i)'
      BY <2>3 DEF PhaseInv
    <2>. QED  BY <2>2, <2>4, <2>5 DEF PhaseInv, At
  <1>. QED  BY <1>1, <1>2

LEMMA OtherDeletionsKeep ==
  ASSUME DeployInv, NEW w \in Deletions, Others(w),
         \A v \in Deletions \ {w} : todo'[v] = todo[v] /\ trouble'[v] = trouble[v],
         \A n \in Nodes : Leftovers(n)' => Leftovers(n),
         stored' = stored \/ (stored' = stored \ {Target[w]} /\ AllGone(Target[w]))
  PROVE  \A v \in Deletions \ {w} : DeletionInv(v)'
  <1>. SUFFICES ASSUME NEW v \in Deletions \ {w}  PROVE DeletionInv(v)'
    OBVIOUS
  <1>1. DeletionInv(v) /\ work'[v] = work[v]
    BY DEF DeployInv, ControlInv, Others, Workers
  <1>2. \A n \in NodesOf[Target[v]] : Leftovers(n)' => Leftovers(n)
    BY NodesOfInfra
  <1>3. Target[v] \in stored' => Target[v] \in stored
    OBVIOUS
  <1>4. Target[v] \in stored => Target[v] \in stored' \/ AllGone(Target[v])
    OBVIOUS
  <1>. QED  BY <1>1, <1>2, <1>3, <1>4, DeletionKeeps

(* A deletion deletes its host.                                             *)
LEMMA HostKeeps ==
  ASSUME DeployInv, NEW w \in Deletions, Cloud(w)
  PROVE  DeployInv' /\ UNCHANGED controllerVars /\ \E h \in NodesOf[Target[w]] : HostStepOf(w, h)
  <1>. CloudInv /\ ControlInv /\ w \in Workers
    BY DEF DeployInv, Workers
  <1>1. Deleting(w) /\ UNCHANGED controllerVars
    BY DEF Cloud
  <1>2. stored' = stored /\ answer' = answer /\ todo' = todo /\ trouble' = trouble /\ phase' = phase
    BY <1>1 DEF controllerVars
  <1>3. PICK h \in Nodes : HostStepOf(w, h)
    BY <1>1, HostStep
  <1>4. CloudInv'
    BY <1>1, CloudInvDeleting
  <1>5. h \in NodesOf[Target[w]] /\ ~At(w, "idle")
    BY <1>3 DEF HostStepOf, ControlInv, DeletionInv, At, Undoing
  <1>6. DeployType'
    BY <1>2 DEF ControlInv, DeployType
  <1>7. \A i \in Infras : PhaseInv(i)'
    <2>1. phase[Target[w]] = "returned"
      BY <1>5, ActiveIsReturned
    <2>. QED  BY <1>2, <1>3, <1>5, <2>1, PhasesOfRequest DEF HostStepOf, Undoing
  <1>8. \A c \in Creations : AnswerInv(c)'
    BY <1>2 DEF ControlInv, AnswerInv
  <1>9. \A n \in Nodes : Leftovers(n)' => Leftovers(n)
    BY <1>3 DEF HostStepOf, SameView
  <1>10. \A v \in Deletions \ {w} : DeletionInv(v)'
    BY <1>2, <1>3, <1>9, OtherDeletionsKeep DEF HostStepOf
  <1>11. DeletionInv(w)'
    <2>. DeletionInv(w)
      BY DEF ControlInv
    <2>1. \A n \in BehindIt(w)' : ~Leftovers(n)' \/ n \in BehindIt(w)
      BY <1>2, <1>3 DEF BehindIt, HostStepOf, Host, At
    <2>2. BehindIt(w) \subseteq Nodes
      BY NodesOfInfra DEF BehindIt
    <2>3. ~trouble[w] => \A n \in BehindIt(w)' : ~Leftovers(n)'
      BY <1>3, <1>9, <2>1, <2>2 DEF HostStepOf, DeletionInv
    <2>4. AllGone(Target[w]) => AllGone(Target[w])'
      BY <1>9, NodesOfInfra DEF AllGone
    <2>5. work[w].pc \in Undoing /\ work'[w].pc \in Undoing /\ Host(w)' = Host(w)
      BY <1>3 DEF HostStepOf, Host
    <2>6. work'[w].pc \notin {"remove", "done", "next"}
      BY <2>5 DEF Undoing
    <2>. QED  BY <1>2, <2>3, <2>4, <2>5, <2>6 DEF DeletionInv, At
  <1>. QED  BY <1>1, <1>3, <1>4, <1>5, <1>6, <1>7, <1>8, <1>10, <1>11 DEF DeployInv, ControlInv

(* A deletion begins, takes its next host or ends: the nodes are left alone.  *)
RequestStep(w) ==
  /\ CloudInv' /\ SameViews /\ Others(w)
  /\ \A v \in Deletions \ {w} : todo'[v] = todo[v] /\ trouble'[v] = trouble[v]
  /\ phase' = phase /\ answer' = answer
  /\ work'[w].pc # "idle"

LEMMA RequestStepKeeps ==
  ASSUME DeployInv, NEW w \in Deletions, RequestStep(w), phase[Target[w]] = "returned",
         todo' \in [Deletions -> SUBSET Nodes], trouble' \in [Deletions -> BOOLEAN],
         stored' = stored \/ (stored' = stored \ {Target[w]} /\ AllGone(Target[w])),
         DeletionInv(w)'
  PROVE  DeployInv'
  <1>1. DeployType'
    BY DEF RequestStep, DeployInv, ControlInv, DeployType
  <1>2. \A i \in Infras : PhaseInv(i)'
    BY PhasesOfRequest DEF RequestStep, SameViews, SameView
  <1>3. \A c \in Creations : AnswerInv(c)'
    BY DEF RequestStep, DeployInv, ControlInv, AnswerInv
  <1>4. \A v \in Deletions \ {w} : DeletionInv(v)'
    BY OtherDeletionsKeep DEF RequestStep, SameViews, SameView
  <1>. QED  BY <1>1, <1>2, <1>3, <1>4 DEF RequestStep, DeployInv, ControlInv

LEMMA FindKeeps ==
  ASSUME DeployInv, NEW w \in Deletions, Find(w)
  PROVE  DeployInv' /\ RequestStep(w) /\ phase[Target[w]] = "returned" /\ stored' = stored
  <1>. CloudInv /\ ControlInv /\ w \in Workers /\ DeletionInv(w)
    BY DEF DeployInv, ControlInv, Workers
  <1>1. phase[Target[w]] = "returned" /\ At(w, "idle")
    BY DEF Find, MayDelete
  <1>2. /\ drives' = drives /\ servers' = servers /\ disk' = disk /\ info' = info
        /\ faults' \in Nat /\ lost' \in Nat
        /\ stored' = stored /\ phase' = phase /\ answer' = answer /\ trouble' = trouble
    BY DEF Find, CloudInv, CloudType
  <1>3. PICK pc \in {"next", "failed"} : Goto(w, pc)
    BY DEF Find
  <1>4. CloudInv' /\ (\A m \in Nodes : SameNode(m)) /\ Others(w)
    BY <1>2, <1>3, CloudInvRequest
  <1>5. work'[w].pc = pc
    BY <1>3, GotoEffect DEF CloudInv, Pcs
  <1>6. SameViews
    BY <1>4, SameNodeSameView DEF SameViews
  <1>7. todo' \in [Deletions -> SUBSET Nodes] /\ \A v \in Deletions \ {w} : todo'[v] = todo[v]
    BY NodesOfInfra DEF Find, ControlInv, DeployType
  <1>8. RequestStep(w)
    BY <1>2, <1>4, <1>5, <1>6, <1>7 DEF RequestStep
  <1>9. DeletionInv(w)'
    <2>1. CASE Target[w] \in stored /\ Goto(w, "next") /\ todo' = [todo EXCEPT ![w] = NodesOf[Target[w]]]
      <3>1. todo'[w] = NodesOf[Target[w]] /\ work'[w].pc = "next"
        BY <2>1, <1>3, GotoEffect DEF CloudInv, Pcs, ControlInv, DeployType
      <3>2. BehindIt(w)' = {}
        BY <3>1 DEF BehindIt
      <3>. QED  BY <1>2, <2>1, <3>1, <3>2 DEF DeletionInv, Undoing, At
    <2>2. CASE Goto(w, "failed") /\ todo' = todo
      <3>1. work'[w].pc = "failed"
        BY <2>2, GotoEffect DEF CloudInv, Pcs
      <3>. QED  BY <2>2, <3>1 DEF DeletionInv, Undoing, At
    <2>. QED  BY <2>1, <2>2 DEF Find
  <1>. QED  BY <1>1, <1>2, <1>7, <1>8, <1>9, RequestStepKeeps DEF ControlInv, DeployType

LEMMA NextHostKeeps ==
  ASSUME DeployInv, NEW w \in Deletions, NextHost(w)
  PROVE  /\ DeployInv' /\ RequestStep(w) /\ stored' = stored
         /\ work[w].pc \in {"next", "deleted"} /\ work'[w].pc \in {"status", "failed", "remove"}
  <1>. CloudInv /\ ControlInv /\ w \in Workers /\ DeletionInv(w)
    BY DEF DeployInv, ControlInv, Workers
  <1>1. work[w].pc \in {"next", "deleted"}
    BY DEF NextHost
  <1>2. /\ drives' = drives /\ servers' = servers /\ disk' = disk /\ info' = info
        /\ faults' \in Nat /\ lost' \in Nat
        /\ stored' = stored /\ phase' = phase /\ answer' = answer
    BY DEF NextHost, CloudInv, CloudType
  <1>3. trouble' = [trouble EXCEPT ![w] = trouble[w] \/ work[w].error]
    BY DEF NextHost
  <1>4. work[w].error \in BOOLEAN
    BY DEF CloudInv, CloudType, Jobs
  <1>5. /\ trouble' \in [Deletions -> BOOLEAN] /\ \A v \in Deletions \ {w} : trouble'[v] = trouble[v]
        /\ trouble'[w] <=> trouble[w] \/ work[w].error
    BY <1>3, <1>4 DEF ControlInv, DeployType
  <1>6. phase[Target[w]] = "returned" /\ \A n \in NodesOf[Target[w]] : n \in Nodes /\ At(n, "created")
    BY <1>1, ActiveIsReturned DEF At
  <1>7. ~trouble'[w] => \A n \in NodesOf[Target[w]] \ todo[w] : ~Leftovers(n)
    BY <1>1, <1>5 DEF DeletionInv, BehindIt, Undoing, At
  <1>8. CASE todo[w] = {} /\ Goto(w, IF trouble'[w] THEN "failed" ELSE "remove") /\ todo' = todo
    <2>1. PICK pc \in {"failed", "remove"} : Goto(w, pc) /\ (pc = "remove" => ~trouble'[w])
      BY <1>8, <1>5
    <2>2. CloudInv' /\ (\A m \in Nodes : SameNode(m)) /\ Others(w)
      BY <1>2, <2>1, CloudInvRequest
    <2>3. work'[w].pc = pc
      BY <2>1, GotoEffect DEF CloudInv, Pcs
    <2>4. SameViews
      BY <2>2, SameNodeSameView DEF SameViews
    <2>5. RequestStep(w)
      BY <1>2, <1>5, <1>8, <2>2, <2>3, <2>4 DEF RequestStep
    <2>6. pc = "remove" => AllGone(Target[w])'
      BY <1>6, <1>7, <1>8, <2>1, <2>4 DEF AllGone, SameViews, SameView
    <2>7. DeletionInv(w)'
      BY <1>8, <2>3, <2>6 DEF DeletionInv, Undoing, At
    <2>. QED  BY <1>1, <1>2, <1>5, <1>6, <1>8, <2>3, <2>5, <2>7, RequestStepKeeps DEF ControlInv, DeployType
  <1>9. ASSUME NEW n \in todo[w], work' = [work EXCEPT ![w] = StartDelete(n)],
               todo' = [todo EXCEPT ![w] = @ \ {n}]
        PROVE  DeployInv' /\ RequestStep(w) /\ work'[w].pc = "status"
    <2>1. n \in NodesOf[Target[w]] /\ n \in Nodes /\ At(n, "created")
      BY <1>6 DEF DeletionInv
    <2>2. CloudInv' /\ (\A m \in Nodes : SameNode(m)) /\ Others(w)
      BY <1>2, <1>9, <2>1, CloudInvRequest
    <2>3. work'[w].pc = "status" /\ work'[w].host = n
      <3>1. info[n].server
        BY <2>1 DEF CloudInv, NodeInv, At
      <3>. QED  BY <1>9, <2>1, <3>1, StartDeleteEffect DEF CloudInv
    <2>4. SameViews
      BY <2>2, SameNodeSameView DEF SameViews
    <2>5. /\ todo' \in [Deletions -> SUBSET Nodes] /\ todo'[w] = todo[w] \ {n}
          /\ \A v \in Deletions \ {w} : todo'[v] = todo[v]
      BY <1>9 DEF ControlInv, DeployType
    <2>6. RequestStep(w)
      BY <1>2, <1>5, <2>2, <2>3, <2>4, <2>5 DEF RequestStep
    <2>7. BehindIt(w)' \subseteq NodesOf[Target[w]] \ todo[w]
      BY <2>3, <2>5 DEF BehindIt, Host, At, Undoing
    <2>8. ~trouble'[w] => \A m \in BehindIt(w)' : ~Leftovers(m)'
      BY <1>6, <1>7, <2>4, <2>7 DEF SameViews, SameView
    <2>9. Target[w] \in stored' \/ AllGone(Target[w])'
      BY <1>1, <1>2, <1>6, <2>4 DEF DeletionInv, AllGone, SameViews, SameView, Undoing
    <2>10. DeletionInv(w)'
      BY <2>1, <2>3, <2>5, <2>8, <2>9 DEF DeletionInv, Undoing, At, Host
    <2>. QED  BY <1>2, <1>5, <1>6, <2>3, <2>5, <2>6, <2>10, RequestStepKeeps
  <1>. QED  BY <1>1, <1>2, <1>8, <1>9 DEF NextHost

LEMMA RemoveKeeps ==
  ASSUME DeployInv, NEW w \in Deletions, Remove(w)
  PROVE  /\ DeployInv' /\ RequestStep(w) /\ At(w, "remove") /\ AllGone(Target[w])
         /\ \/ /\ Target[w] \in stored /\ stored' = stored \ {Target[w]}
               /\ work'[w].pc \in {"done", "failed"}
            \/ stored' = stored /\ work'[w].pc = "failed"
  <1>. CloudInv /\ ControlInv /\ w \in Workers /\ DeletionInv(w)
    BY DEF DeployInv, ControlInv, Workers
  <1>1. At(w, "remove") /\ AllGone(Target[w])
    BY DEF Remove, DeletionInv, At
  <1>2. phase[Target[w]] = "returned" /\ \A n \in NodesOf[Target[w]] : n \in Nodes
    BY <1>1, ActiveIsReturned DEF At
  <1>3. /\ drives' = drives /\ servers' = servers /\ disk' = disk /\ info' = info
        /\ phase' = phase /\ answer' = answer /\ trouble' = trouble /\ todo' = todo
    BY DEF Remove
  <1>4. faults' \in Nat /\ lost' \in Nat
    BY CountersStayNat DEF Remove, CloudInv, CloudType
  <1>5. PICK pc \in {"done", "failed"} :
          /\ Goto(w, pc)
          /\ \/ Target[w] \in stored /\ stored' = stored \ {Target[w]}
             \/ stored' = stored /\ pc = "failed"
    BY DEF Remove
  <1>6. CloudInv' /\ (\A m \in Nodes : SameNode(m)) /\ Others(w)
    BY <1>3, <1>4, <1>5, CloudInvRequest
  <1>7. work'[w].pc = pc
    BY <1>5, GotoEffect DEF CloudInv, Pcs
  <1>8. SameViews
    BY <1>6, SameNodeSameView DEF SameViews
  <1>9. RequestStep(w)
    BY <1>3, <1>6, <1>7, <1>8 DEF RequestStep
  <1>10. AllGone(Target[w])'
    BY <1>1, <1>2, <1>8 DEF AllGone, SameViews, SameView
  <1>11. DeletionInv(w)'
    BY <1>3, <1>5, <1>7, <1>10 DEF DeletionInv, Undoing, At
  <1>. QED  BY <1>1, <1>2, <1>3, <1>5, <1>7, <1>9, <1>11, RequestStepKeeps DEF ControlInv, DeployType

-----------------------------------------------------------------------------
LEMMA InitKeeps == Init => DeployInv
  <1>. SUFFICES ASSUME Init  PROVE DeployInv
    OBVIOUS
  <1>1. CloudInv
    BY CloudInvInit DEF Init
  <1>2. \A w \in Workers : work[w].pc = "idle"
    BY DEF Init, CloudInit, Asleep
  <1>3. DeployType
    BY DEF Init, DeployType, Phases, Answers
  <1>4. \A i \in Infras : PhaseInv(i)
    BY <1>2, NodesOfInfra DEF Init, PhaseInv, Unasked, At, Workers
  <1>5. \A c \in Creations : AnswerInv(c)
    BY NodesOfInfra DEF Init, AnswerInv
  <1>6. \A w \in Deletions : DeletionInv(w)
    BY <1>2 DEF Init, DeletionInv, Undoing, At, Workers
  <1>. QED  BY <1>1, <1>3, <1>4, <1>5, <1>6 DEF DeployInv, ControlInv

LEMMA StutterKeeps ==
  ASSUME DeployInv, UNCHANGED vars
  PROVE  DeployInv' /\ SameViews /\ SameRequests
  <1>1. CloudInv' /\ SameViews /\ SameRequests
    BY CloudInvCounters DEF vars, cloudVars, DeployInv, CloudInv, CloudType
  <1>. QED  BY <1>1, ControlKept DEF vars, DeployInv

(* The invariant that ties the requests, the phases of the infrastructures    *)
(* and the repository to what the provider holds (deploymentcontroller.go:    *)
(* 108-260, deployer.go:60-590).                                            *)
THEOREM DeploymentInvariant == Spec => []DeployInv
  <1>1. DeployInv /\ [Next]_vars => DeployInv'
    <2>. SUFFICES ASSUME DeployInv, [Next]_vars  PROVE DeployInv'
      OBVIOUS
    <2>1. CASE \E c \in Creations : Submit(c) \/ Creation(c)
      BY <2>1, SubmitKeeps, RespondKeeps, CleanedKeeps DEF Creation
    <2>2. CASE \E i \in Infras : Controller(i)
      BY <2>2, DeployKeeps, CollectNodesKeeps, ReceiveKeeps DEF Controller
    <2>3. CASE \E n \in Nodes : Node(n) \/ ProviderOf(n)
      BY <2>3, NodeKeeps, ProviderKeeps
    <2>4. CASE \E w \in Deletions : Find(w) \/ Deletion(w)
      BY <2>4, FindKeeps, HostKeeps, NextHostKeeps, RemoveKeeps DEF Deletion
    <2>5. CASE UNCHANGED vars
      BY <2>5, StutterKeeps
    <2>. QED  BY <2>1, <2>2, <2>3, <2>4, <2>5 DEF Next
  <1>. QED  BY <1>1, InitKeeps, PTL DEF Spec

(* An infrastructure that the repository lists, and that nobody has begun to  *)
(* delete, has all of its nodes complete, whatever its siblings and their     *)
(* goroutines met (deploymentcontroller.go:120-178).                         *)
THEOREM StoredInfrasAreComplete == Spec => []StoredIsComplete
  <1>1. DeployInv => StoredIsComplete
    <2>. SUFFICES ASSUME DeployInv, NEW i \in stored, Unasked(i), NEW n \in NodesOf[i]
                  PROVE  /\ At(n, "created")
                         /\ servers[n] # "none" /\ info[n].server
                         /\ \A d \in Disks : drives[n][d] = "unmounted"
      BY DEF StoredIsComplete, Unasked
    <2>1. i \in Infras /\ n \in Nodes /\ PhaseInv(i) /\ NodeInv(n)
      BY NodesOfInfra DEF DeployInv, ControlInv, DeployType, CloudInv
    <2>2. At(n, "created") /\ Whole(n)
      BY <2>1 DEF PhaseInv
    <2>. QED  BY <2>1, <2>2 DEF NodeInv, Whole, Ready, At
  <1>. QED  BY <1>1, DeploymentInvariant, PTL

(* A deletion that is reported done has left nothing at the provider and in   *)
(* the repository, however many others raced it (deploymentcontroller.go:     *)
(* 206-243, doc/usage.md:25).                                               *)
THEOREM DeletedInfrasAreGone == Spec => []DeletedIsGone
  <1>1. DeployInv => DeletedIsGone
    BY DEF DeployInv, ControlInv, DeletionInv, DeletedIsGone, AllGone, At
  <1>. QED  BY <1>1, DeploymentInvariant, PTL

-----------------------------------------------------------------------------
(* The refinement: what each step does to the four variables of Lifecycle.    *)
LEMMA WholeIsWhole ==
  ASSUME NEW n
  PROVE  IsWhole(n) <=> Whole(n)
  BY DEF IsWhole, Whole, Ready

(* An infrastructure none of whose nodes changed has the same machines.       *)
LEMMA SameMachines ==
  ASSUME NEW i \in Infras, \A n \in NodesOf[i] : SameView(n)
  PROVE  MachinesOf(i)' = MachinesOf(i)
  <1>1. \A n \in NodesOf[i] : (IsWhole(n)' <=> IsWhole(n)) /\ (Leftovers(n)' <=> Leftovers(n))
    BY DEF SameView, IsWhole, Whole, Ready
  <1>. QED  BY <1>1 DEF MachinesOf

(* Where an infrastructure is in its life, before and after a step.          *)
LEMMA LifeNow ==
  ASSUME DeployInv, NEW i \in Infras
  PROVE  /\ phase[i] = "idle" => LifeOf(i) = "unknown"
         /\ phase[i] = "dropped" => LifeOf(i) = "failed"
         /\ phase[i] \in {"asked", "creating", "error", "running"} => LifeOf(i) = "pending"
         /\ phase[i] = "returned" /\ i \notin stored => LifeOf(i) = "unlisted"
         /\ phase[i] = "returned" /\ i \in stored /\ Unasked(i) => LifeOf(i) = "listed"
         /\ phase[i] = "returned" /\ i \in stored /\ ~Unasked(i) => LifeOf(i) = "deleting"
  BY DEF LifeOf, Unasked

LEMMA LifeNext ==
  ASSUME DeployInv', NEW i \in Infras
  PROVE  /\ phase'[i] = "idle" => LifeOf(i)' = "unknown"
         /\ phase'[i] = "dropped" => LifeOf(i)' = "failed"
         /\ phase'[i] \in {"asked", "creating", "error", "running"} => LifeOf(i)' = "pending"
         /\ phase'[i] = "returned" /\ i \notin stored' => LifeOf(i)' = "unlisted"
         /\ phase'[i] = "returned" /\ i \in stored' /\ Unasked(i)' => LifeOf(i)' = "listed"
         /\ phase'[i] = "returned" /\ i \in stored' /\ ~Unasked(i)' => LifeOf(i)' = "deleting"
  BY DEF LifeOf, Unasked

LEMMA SameLife ==
  ASSUME NEW i \in Infras, phase'[i] = phase[i], i \in stored' <=> i \in stored,
         Unasked(i)' <=> Unasked(i)
  PROVE  LifeOf(i)' = LifeOf(i)
  BY DEF LifeOf, Unasked

SameLives   == \A i \in Infras : LifeOf(i)' = LifeOf(i)
SameAllMachines == \A i \in Infras : MachinesOf(i)' = MachinesOf(i)
SameAnswers == \A c \in Creations : ToldTo(c)' = ToldTo(c)
SameEnds    == \A w \in Deletions : EndOf(w)' = EndOf(w)

LEMMA LifeStutters ==
  ASSUME SameLives, SameAllMachines, SameAnswers, SameEnds
  PROVE  UNCHANGED Life!vars
  BY DEF Life!vars, SameLives, SameAllMachines, SameAnswers, SameEnds

LEMMA AskedLife ==
  ASSUME DeployInv, DeployInv', NEW c \in Creations, Submit(c), SameViews, SameRequests
  PROVE  Life!Ask(c)
  <1>1. /\ answer[c] = "idle" /\ answer' = [answer EXCEPT ![c] = "collecting"]
        /\ phase' = [i \in Infras |-> IF i \in InfrasOf[c] THEN "asked" ELSE phase[i]]
        /\ stored' = stored
    BY DEF Submit
  <1>2. ToldTo(c) = "idle" /\ ToldTo(c)' = "open" /\ \A b \in Creations \ {c} : ToldTo(b)' = ToldTo(b)
    BY <1>1 DEF ToldTo, DeployInv, ControlInv, DeployType
  <1>3. \A i \in Infras : LifeOf(i)' = IF i \in InfrasOf[c] THEN "pending" ELSE LifeOf(i)
    <2>. SUFFICES ASSUME NEW i \in Infras
                  PROVE  LifeOf(i)' = IF i \in InfrasOf[c] THEN "pending" ELSE LifeOf(i)
      OBVIOUS
    <2>1. CASE i \in InfrasOf[c]
      BY <1>1, <2>1, LifeNext
    <2>2. CASE i \notin InfrasOf[c]
      <3>1. Unasked(i)' <=> Unasked(i)
        BY DEF Unasked, SameRequests, At
      <3>. QED  BY <1>1, <2>2, <3>1, SameLife
    <2>. QED  BY <2>1, <2>2
  <1>4. SameAllMachines
    BY SameMachines, NodesOfInfra DEF SameViews, SameAllMachines
  <1>5. SameEnds
    BY DEF SameEnds, EndOf, SameRequests, At
  <1>. QED  BY <1>2, <1>3, <1>4, <1>5 DEF Life!Ask, SameAllMachines, SameEnds

LEMMA QuietSteps ==
  /\ SameViews => SameAllMachines
  /\ SameRequests => SameEnds
  /\ SameRequests => \A i \in Infras : Unasked(i)' <=> Unasked(i)
  /\ answer' = answer => SameAnswers
  /\ SameRequests /\ phase' = phase /\ stored' = stored => SameLives
  <1>1. SameViews => SameAllMachines
    BY SameMachines, NodesOfInfra DEF SameViews, SameAllMachines
  <1>2. SameRequests => SameEnds
    BY DEF SameEnds, EndOf, SameRequests, At
  <1>3. SameRequests => \A i \in Infras : Unasked(i)' <=> Unasked(i)
    BY DEF Unasked, SameRequests, At
  <1>4. answer' = answer => SameAnswers
    BY DEF SameAnswers, ToldTo
  <1>5. SameRequests /\ phase' = phase /\ stored' = stored => SameLives
    BY <1>3, SameLife DEF SameLives
  <1>. QED  BY <1>1, <1>2, <1>3, <1>4, <1>5

(* An infrastructure that stays pending.                                    *)
LEMMA StaysPending ==
  ASSUME DeployInv, DeployInv', NEW i \in Infras, SameRequests, stored' = stored,
         \A j \in Infras \ {i} : phase'[j] = phase[j],
         {phase[i], phase'[i]} \subseteq {"asked", "creating", "error", "running"}
  PROVE  SameLives
  <1>1. LifeOf(i)' = LifeOf(i)
    BY LifeNow, LifeNext
  <1>2. \A j \in Infras \ {i} : LifeOf(j)' = LifeOf(j)
    BY SameLife, QuietSteps
  <1>. QED  BY <1>1, <1>2 DEF SameLives

LEMMA DeployLife ==
  ASSUME DeployInv, NEW i \in Infras, Deploy(i)
  PROVE  UNCHANGED Life!vars
  <1>1. DeployInv' /\ SameRequests /\ drives' = drives /\ servers' = servers
    BY DeployKeeps
  <1>2. SameAllMachines
    BY <1>1 DEF SameAllMachines, MachinesOf, IsWhole, Leftovers
  <1>3. PICK p \in {"creating", "error"} : phase' = [phase EXCEPT ![i] = p]
    BY DEF Deploy, Phase
  <1>4. phase[i] = "asked" /\ stored' = stored /\ answer' = answer
    BY DEF Deploy
  <1>5. phase'[i] = p /\ \A j \in Infras \ {i} : phase'[j] = phase[j]
    BY <1>3 DEF DeployInv, ControlInv, DeployType
  <1>6. SameLives
    BY <1>1, <1>4, <1>5, StaysPending
  <1>. QED  BY <1>1, <1>2, <1>4, <1>6, QuietSteps, LifeStutters

LEMMA CollectNodesLife ==
  ASSUME DeployInv, NEW i \in Infras, CollectNodes(i)
  PROVE  UNCHANGED Life!vars
  <1>1. DeployInv' /\ SameViews /\ SameRequests
    BY CollectNodesKeeps
  <1>2. PICK p \in {"running", "error"} : phase' = [phase EXCEPT ![i] = p]
    BY DEF CollectNodes, Phase
  <1>3. phase[i] = "creating" /\ stored' = stored /\ answer' = answer
    BY DEF CollectNodes
  <1>4. phase'[i] = p /\ \A j \in Infras \ {i} : phase'[j] = phase[j]
    BY <1>2 DEF DeployInv, ControlInv, DeployType
  <1>5. SameLives
    BY <1>1, <1>3, <1>4, StaysPending
  <1>. QED  BY <1>1, <1>3, <1>5, QuietSteps, LifeStutters

LEMMA ReceiveLife ==
  ASSUME DeployInv, NEW i \in Infras, Receive(i)
  PROVE  Life!Succeed(i) \/ Life!GiveUp(i)
  <1>1. DeployInv' /\ SameViews /\ SameRequests
    BY ReceiveKeeps
  <1>2. SameAllMachines /\ SameAnswers /\ SameEnds
    BY <1>1, QuietSteps DEF Receive
  <1>3. PICK p \in {"dropped", "returned"} :
          /\ phase' = [phase EXCEPT ![i] = p]
          /\ p = "dropped" => phase[i] = "error"
          /\ p = "returned" => phase[i] = "running"
    BY DEF Receive, Phase
  <1>4. phase'[i] = p /\ \A j \in Infras \ {i} : phase'[j] = phase[j]
    BY <1>3 DEF DeployInv, ControlInv, DeployType
  <1>5. stored' = stored \/ stored' = stored \union {i}
    BY DEF Receive
  <1>6. \A j \in Infras \ {i} : LifeOf(j)' = LifeOf(j)
    BY <1>1, <1>4, <1>5, SameLife, QuietSteps
  <1>7. LifeOf(i) = "pending"
    BY <1>3, LifeNow
  <1>8. CASE p = "dropped"
    <2>1. LifeOf(i)' = "failed"
      BY <1>1, <1>4, <1>8, LifeNext
    <2>. QED  BY <1>2, <1>6, <1>7, <2>1 DEF Life!GiveUp, SameAllMachines, SameAnswers, SameEnds
  <1>9. CASE p = "returned"
    <2>1. Unasked(i) /\ Unasked(i)'
      BY <1>1, <1>3, <1>9, QuietSteps DEF DeployInv, ControlInv, PhaseInv
    <2>2. LifeOf(i)' \in {"listed", "unlisted"}
      BY <1>1, <1>4, <1>9, <2>1, LifeNext
    <2>3. \A n \in NodesOf[i] : Whole(n)
      BY <1>3, <1>9, <2>1 DEF DeployInv, ControlInv, PhaseInv
    <2>4. "all" \in MachinesOf(i)
      BY <2>3, WholeIsWhole DEF MachinesOf
    <2>. QED  BY <1>2, <1>6, <1>7, <2>2, <2>4
              DEF Life!Succeed, SameAllMachines, SameAnswers, SameEnds
  <1>. QED  BY <1>8, <1>9

LEMMA RespondLife ==
  ASSUME DeployInv, NEW c \in Creations, Respond(c)
  PROVE  Life!Tell(c) \/ UNCHANGED Life!vars
  <1>1. SameViews /\ SameRequests
    BY RespondKeeps
  <1>2. SameAllMachines /\ SameLives /\ SameEnds
    BY <1>1, QuietSteps DEF Respond
  <1>3. \A i \in InfrasOf[c] : /\ i \in Infras /\ phase[i] \in {"dropped", "returned"}
                               /\ phase[i] = "dropped" => LifeOf(i) = "failed"
                               /\ phase[i] = "returned" => LifeOf(i) \in {"listed", "deleting", "unlisted"}
    BY NodesOfInfra, LifeNow DEF Respond
  <1>4. PICK a \in {"done", "cleaning", "failed"} :
          /\ answer' = [answer EXCEPT ![c] = a]
          /\ a = "done" => \A i \in InfrasOf[c] : phase[i] = "returned"
          /\ a # "done" => ~\A i \in InfrasOf[c] : phase[i] = "returned"
    BY DEF Respond
  <1>5. /\ ToldTo(c) = "open" /\ ToldTo(c)' = (IF a = "cleaning" THEN "open" ELSE a)
        /\ \A b \in Creations \ {c} : ToldTo(b)' = ToldTo(b)
    BY <1>4 DEF Respond, ToldTo, DeployInv, ControlInv, DeployType
  <1>6. CASE a = "cleaning"
    BY <1>2, <1>5, <1>6, LifeStutters DEF SameAnswers
  <1>7. CASE a = "done"
    <2>1. \A i \in InfrasOf[c] : i \in Infras /\ LifeOf(i) \in {"listed", "deleting", "unlisted"}
      BY <1>3, <1>4, <1>7
    <2>. QED  BY <1>2, <1>5, <1>7, <2>1 DEF Life!Tell, Life!Existed, SameLives, SameAllMachines, SameEnds
  <1>8. CASE a = "failed"
    <2>1. \E i \in InfrasOf[c] : i \in Infras /\ LifeOf(i) = "failed"
      BY <1>3, <1>4, <1>8
    <2>2. \A i \in InfrasOf[c] : i \in Infras /\ LifeOf(i) # "pending"
      BY <1>3
    <2>. QED  BY <1>2, <1>5, <1>8, <2>1, <2>2 DEF Life!Tell, SameLives, SameAllMachines, SameEnds
  <1>. QED  BY <1>6, <1>7, <1>8

LEMMA ProviderLife ==
  ASSUME DeployInv, NEW n \in Nodes, ProviderOf(n)
  PROVE  UNCHANGED Life!vars
  <1>1. SameViews /\ SameRequests
    BY ProviderKeeps
  <1>. QED  BY <1>1, QuietSteps, LifeStutters DEF ProviderOf, controllerVars

(* createDeployment is done with the clean-up: every infrastructure of the    *)
(* creation that was returned has a deletion of its own.                     *)
LEMMA CleanedLife ==
  ASSUME DeployInv, NEW c \in Creations, Cleaned(c)
  PROVE  Life!Tell(c)
  <1>. DEFINE ours == {w \in Deletions : /\ Target[w] \in InfrasOf[c] /\ IsCleanup(w)
                                         /\ phase[Target[w]] = "returned"}
  <1>1. SameViews /\ SameRequests
    BY CleanedKeeps
  <1>2. SameAllMachines /\ SameLives /\ SameEnds
    BY <1>1, QuietSteps DEF Cleaned
  <1>3. /\ c \in Cleaners
        /\ \A i \in InfrasOf[c] : i \in Infras /\ phase[i] \in {"dropped", "returned"}
        /\ \E i \in InfrasOf[c] : phase[i] = "dropped"
    BY NodesOfInfra DEF Cleaned, DeployInv, ControlInv, AnswerInv
  <1>4. PICK a \in {"partial deployment deleted", "error cleaning"} :
          /\ answer' = [answer EXCEPT ![c] = a]
          /\ a = "partial deployment deleted" => \A w \in ours : At(w, "done")
    BY DEF Cleaned
  <1>5. /\ ToldTo(c) = "open"
        /\ ToldTo(c)' = (IF a = "partial deployment deleted" THEN "undone" ELSE "failed")
        /\ \A b \in Creations \ {c} : ToldTo(b)' = ToldTo(b)
    BY <1>4 DEF Cleaned, ToldTo, DeployInv, ControlInv, DeployType
  <1>6. /\ \E i \in InfrasOf[c] : i \in Infras /\ LifeOf(i) = "failed"
        /\ \A i \in InfrasOf[c] : i \in Infras /\ LifeOf(i) # "pending"
    BY <1>3, LifeNow
  <1>7. CASE a = "error cleaning"
    BY <1>2, <1>5, <1>6, <1>7 DEF Life!Tell, SameLives, SameAllMachines, SameEnds
  <1>8. CASE a = "partial deployment deleted"
    <2>1. ASSUME NEW i \in InfrasOf[c], phase[i] = "returned"
          PROVE  LifeOf(i) = "unlisted" /\ "some" \notin MachinesOf(i)
      <3>1. PICK w \in Deletions : Target[w] = i
        BY <1>3, CleanerAssumption
      <3>2. PICK v \in Deletions : Target[v] = i /\ IsCleanup(v)
        <4>1. PICK v : v = CHOOSE x \in Deletions : Target[x] = i
          OBVIOUS
        <4>2. v \in Deletions /\ Target[v] = i
          BY <3>1, <4>1
        <4>3. v = CHOOSE x \in Deletions : Target[x] = Target[v]
          BY <4>1, <4>2, Zenon
        <4>. QED  BY <4>2, <4>3 DEF IsCleanup
      <3>3. At(v, "done")
        BY <1>4, <1>8, <2>1, <3>2
      <3>4. i \notin stored /\ AllGone(i)
        BY <3>2, <3>3 DEF DeployInv, ControlInv, DeletionInv, At
      <3>. QED  BY <1>3, <2>1, <3>4, LifeNow DEF MachinesOf, AllGone
    <2>2. \A i \in InfrasOf[c] :
            i \in Infras /\ (LifeOf(i) = "failed" \/ (LifeOf(i) = "unlisted" /\ "some" \notin MachinesOf(i)))
      BY <1>3, <2>1, LifeNow
    <2>. QED  BY <1>2, <1>5, <1>6, <1>8, <2>2
              DEF Life!Tell, Life!Gone, SameLives, SameAllMachines, SameEnds
  <1>. QED  BY <1>7, <1>8

(* The goroutine of a node builds the infrastructure it belongs to.          *)
LEMMA NodeLife ==
  ASSUME DeployInv, NEW n \in Nodes, Node(n)
  PROVE  (\E i \in Infras : Life!Build(i)) \/ UNCHANGED Life!vars
  <1>1. NodeStepOf(n) /\ UNCHANGED controllerVars
    BY NodeKeeps
  <1>2. SameLives /\ SameAnswers /\ SameEnds
    BY <1>1, QuietSteps DEF NodeStepOf, controllerVars
  <1>3. CASE \E i \in Infras : n \in NodesOf[i]
    <2>1. PICK i \in Infras : n \in NodesOf[i]
      BY <1>3
    <2>2. \A j \in Infras \ {i} : MachinesOf(j)' = MachinesOf(j)
      <3>1. ASSUME NEW j \in Infras \ {i}  PROVE \A m \in NodesOf[j] : SameView(m)
        BY <1>1, <2>1, NodesOfInfra, OwnerAssumption DEF NodeStepOf
      <3>. QED  BY <3>1, SameMachines
    <2>3. LifeOf(i) = "pending"
      BY <1>1, <2>1, WorkingIsCreating, LifeNow DEF NodeStepOf
    <2>4. MachinesOf(i)' \in SUBSET {"some", "all"}
      BY DEF MachinesOf
    <2>. QED  BY <1>2, <2>2, <2>3, <2>4 DEF Life!Build, SameLives, SameAnswers, SameEnds
  <1>4. CASE ~\E i \in Infras : n \in NodesOf[i]
    <2>1. ASSUME NEW i \in Infras  PROVE \A m \in NodesOf[i] : SameView(m)
      BY <1>1, <1>4, NodesOfInfra DEF NodeStepOf
    <2>2. SameAllMachines
      BY <2>1, SameMachines DEF SameAllMachines
    <2>. QED  BY <1>2, <2>2, LifeStutters
  <1>. QED  BY <1>3, <1>4

(* A deletion that was asked for moves on: only its own infrastructure and its *)
(* own end can change.                                                      *)
LEMMA DeletionMoves ==
  ASSUME DeployInv, DeployInv', NEW w \in Deletions, Others(w), work'[w].pc # "idle",
         phase[Target[w]] = "returned", phase' = phase, answer' = answer,
         stored' = stored \/ stored' = stored \ {Target[w]}
  PROVE  /\ SameAnswers
         /\ \A v \in Deletions \ {w} : EndOf(v)' = EndOf(v)
         /\ \A i \in Infras \ {Target[w]} : LifeOf(i)' = LifeOf(i)
         /\ LifeOf(Target[w])' = IF Target[w] \in stored' THEN "deleting" ELSE "unlisted"
  <1>1. \A v \in Deletions \ {w} : EndOf(v)' = EndOf(v)
    BY DEF Others, EndOf, Workers
  <1>2. \A i \in Infras \ {Target[w]} : LifeOf(i)' = LifeOf(i)
    <2>1. ASSUME NEW i \in Infras \ {Target[w]}  PROVE Unasked(i)' <=> Unasked(i)
      BY DEF Unasked, Others, At, Workers
    <2>. QED  BY <2>1, SameLife
  <1>3. ~Unasked(Target[w])'
    BY DEF Unasked, At
  <1>4. LifeOf(Target[w])' = IF Target[w] \in stored' THEN "deleting" ELSE "unlisted"
    BY <1>3, LifeNext, NodesOfInfra
  <1>. QED  BY <1>1, <1>2, <1>4, QuietSteps

LEMMA FindLife ==
  ASSUME DeployInv, NEW w \in Deletions, Find(w)
  PROVE  Life!StartDelete(w)
  <1>1. DeployInv' /\ RequestStep(w) /\ phase[Target[w]] = "returned" /\ stored' = stored
    BY FindKeeps
  <1>2. /\ SameAnswers
        /\ \A v \in Deletions \ {w} : EndOf(v)' = EndOf(v)
        /\ \A i \in Infras \ {Target[w]} : LifeOf(i)' = LifeOf(i)
        /\ LifeOf(Target[w])' = IF Target[w] \in stored THEN "deleting" ELSE "unlisted"
    BY <1>1, DeletionMoves DEF RequestStep
  <1>3. SameAllMachines
    BY <1>1, QuietSteps DEF RequestStep
  <1>4. /\ LifeOf(Target[w]) \in {"listed", "deleting", "unlisted"} /\ Target[w] \in Infras
        /\ LifeOf(Target[w])' = IF LifeOf(Target[w]) = "listed" THEN "deleting" ELSE LifeOf(Target[w])
    BY <1>1, <1>2, LifeNow, NodesOfInfra
  <1>5. PICK pc \in {"next", "failed"} : Goto(w, pc)
    BY DEF Find
  <1>6. work'[w].pc = pc /\ At(w, "idle")
    BY <1>5, GotoEffect DEF DeployInv, CloudInv, Pcs, Find, Workers
  <1>7. EndOf(w) = "idle" /\ EndOf(w)' \in {"open", "failed"}
    BY <1>6 DEF EndOf, At
  <1>. QED  BY <1>2, <1>3, <1>4, <1>7 DEF Life!StartDelete, Life!Existed, SameAnswers, SameAllMachines

(* The host of a deletion goes away, or was gone.                            *)
LEMMA HostLife ==
  ASSUME DeployInv, NEW w \in Deletions, Cloud(w)
  PROVE  Life!Shrink(Target[w]) \/ UNCHANGED Life!vars
  <1>1. DeployInv' /\ UNCHANGED controllerVars /\ \E h \in NodesOf[Target[w]] : HostStepOf(w, h)
    BY HostKeeps
  <1>2. PICK h \in NodesOf[Target[w]] : HostStepOf(w, h)
    BY <1>1
  <1>3. /\ ~At(w, "idle") /\ work[w].pc \in Undoing /\ work'[w].pc \in Undoing /\ Others(w)
        /\ \A m \in Nodes \ {h} : SameView(m)
        /\ SameView(h) \/ (~Leftovers(h)' /\ ~Whole(h)')
    BY <1>2 DEF HostStepOf, At, Undoing
  <1>4. /\ Target[w] \in Infras /\ phase[Target[w]] = "returned" /\ ~Unasked(Target[w])
        /\ NodesOf[Target[w]] \subseteq Nodes
    BY <1>3, ActiveIsReturned
  <1>5. phase' = phase /\ answer' = answer /\ stored' = stored
    BY <1>1 DEF controllerVars
  <1>6. /\ SameAnswers
        /\ \A v \in Deletions \ {w} : EndOf(v)' = EndOf(v)
        /\ \A i \in Infras \ {Target[w]} : LifeOf(i)' = LifeOf(i)
        /\ LifeOf(Target[w])' = IF Target[w] \in stored THEN "deleting" ELSE "unlisted"
    BY <1>1, <1>3, <1>4, <1>5, DeletionMoves DEF Undoing
  <1>7. SameEnds
    BY <1>3, <1>6 DEF SameEnds, EndOf, Undoing
  <1>8. LifeOf(Target[w]) = IF Target[w] \in stored THEN "deleting" ELSE "unlisted"
    BY <1>4, LifeNow
  <1>9. SameLives
    BY <1>6, <1>8 DEF SameLives
  <1>10. \A i \in Infras \ {Target[w]} : MachinesOf(i)' = MachinesOf(i)
    <2>1. ASSUME NEW i \in Infras \ {Target[w]}  PROVE \A m \in NodesOf[i] : SameView(m)
      BY <1>3, <1>4, NodesOfInfra, OwnerAssumption
    <2>. QED  BY <2>1, SameMachines
  <1>11. CASE Target[w] \in stored
    <2>1. \A m \in NodesOf[Target[w]] : (Whole(m)' => Whole(m)) /\ (Leftovers(m)' => Leftovers(m))
      BY <1>3, <1>4 DEF SameView
    <2>2. \A m \in NodesOf[Target[w]] : (IsWhole(m)' => IsWhole(m)) /\ (Leftovers(m)' => Leftovers(m))
      BY <2>1 DEF IsWhole, Whole, Ready
    <2>3. MachinesOf(Target[w])' \in SUBSET MachinesOf(Target[w])
      BY <2>2 DEF MachinesOf
    <2>. QED  BY <1>4, <1>6, <1>7, <1>8, <1>9, <1>10, <1>11, <2>3
              DEF Life!Shrink, SameLives, SameAnswers, SameEnds
  <1>12. CASE Target[w] \notin stored
    <2>1. ~Leftovers(h)
      BY <1>3, <1>12 DEF DeployInv, ControlInv, DeletionInv, AllGone
    <2>2. SameView(h)
      BY <1>2, <1>3, <1>4, <2>1 DEF HostStepOf, SameView, Whole, Leftovers
    <2>3. MachinesOf(Target[w])' = MachinesOf(Target[w])
      BY <1>3, <1>4, <2>2, SameMachines
    <2>. QED  BY <1>6, <1>7, <1>9, <1>10, <2>3, LifeStutters DEF SameAllMachines
  <1>. QED  BY <1>11, <1>12

LEMMA NextHostLife ==
  ASSUME DeployInv, NEW w \in Deletions, NextHost(w)
  PROVE  Life!FailDelete(w) \/ UNCHANGED Life!vars
  <1>1. /\ DeployInv' /\ RequestStep(w) /\ stored' = stored
        /\ work[w].pc \in {"next", "deleted"} /\ work'[w].pc \in {"status", "failed", "remove"}
    BY NextHostKeeps
  <1>2. phase[Target[w]] = "returned" /\ ~Unasked(Target[w]) /\ Target[w] \in Infras
    BY <1>1, ActiveIsReturned DEF At
  <1>3. /\ SameAnswers
        /\ \A v \in Deletions \ {w} : EndOf(v)' = EndOf(v)
        /\ \A i \in Infras \ {Target[w]} : LifeOf(i)' = LifeOf(i)
        /\ LifeOf(Target[w])' = IF Target[w] \in stored THEN "deleting" ELSE "unlisted"
    BY <1>1, <1>2, DeletionMoves DEF RequestStep
  <1>4. SameLives
    BY <1>2, <1>3, LifeNow DEF SameLives
  <1>5. SameAllMachines
    BY <1>1, QuietSteps DEF RequestStep
  <1>6. EndOf(w) = "open" /\ EndOf(w)' = (IF work'[w].pc = "failed" THEN "failed" ELSE "open")
    BY <1>1 DEF EndOf
  <1>7. CASE work'[w].pc = "failed"
    BY <1>3, <1>4, <1>5, <1>6, <1>7 DEF Life!FailDelete, SameLives, SameAllMachines, SameAnswers
  <1>8. CASE work'[w].pc # "failed"
    BY <1>3, <1>4, <1>5, <1>6, <1>8, LifeStutters DEF SameEnds
  <1>. QED  BY <1>7, <1>8

(* The first deletion to come to the repository takes the infrastructure off  *)
(* the list, the others fail.                                               *)
LEMMA RemoveLife ==
  ASSUME DeployInv, NEW w \in Deletions, Remove(w)
  PROVE  Life!Unlist(w) \/ Life!FailDelete(w)
  <1>1. /\ DeployInv' /\ RequestStep(w) /\ At(w, "remove") /\ AllGone(Target[w])
        /\ \/ /\ Target[w] \in stored /\ stored' = stored \ {Target[w]}
              /\ work'[w].pc \in {"done", "failed"}
           \/ stored' = stored /\ work'[w].pc = "failed"
    BY RemoveKeeps
  <1>2. phase[Target[w]] = "returned" /\ ~Unasked(Target[w]) /\ Target[w] \in Infras
    BY <1>1, ActiveIsReturned DEF At
  <1>3. /\ SameAnswers
        /\ \A v \in Deletions \ {w} : EndOf(v)' = EndOf(v)
        /\ \A i \in Infras \ {Target[w]} : LifeOf(i)' = LifeOf(i)
        /\ LifeOf(Target[w])' = IF Target[w] \in stored' THEN "deleting" ELSE "unlisted"
    BY <1>1, <1>2, DeletionMoves DEF RequestStep
  <1>4. SameAllMachines
    BY <1>1, QuietSteps DEF RequestStep
  <1>5. EndOf(w) = "open"
    BY <1>1 DEF EndOf, At
  <1>6. LifeOf(Target[w]) = IF Target[w] \in stored THEN "deleting" ELSE "unlisted"
    BY <1>2, LifeNow
  <1>7. CASE Target[w] \in stored /\ stored' = stored \ {Target[w]} /\ work'[w].pc \in {"done", "failed"}
    <2>1. LifeOf(Target[w]) = "deleting" /\ LifeOf(Target[w])' = "unlisted"
      BY <1>3, <1>6, <1>7
    <2>2. "some" \notin MachinesOf(Target[w])
      BY <1>1 DEF MachinesOf, AllGone
    <2>3. EndOf(w)' \in {"done", "failed"}
      BY <1>7 DEF EndOf
    <2>. QED  BY <1>2, <1>3, <1>4, <1>5, <2>1, <2>2, <2>3
              DEF Life!Unlist, SameAllMachines, SameAnswers
  <1>8. CASE stored' = stored /\ work'[w].pc = "failed"
    <2>1. EndOf(w)' = "failed"
      BY <1>8 DEF EndOf
    <2>2. SameLives
      BY <1>3, <1>6, <1>8 DEF SameLives
    <2>. QED  BY <1>3, <1>4, <1>5, <2>1, <2>2
              DEF Life!FailDelete, SameLives, SameAllMachines, SameAnswers
  <1>. QED  BY <1>1, <1>7, <1>8

LEMMA LifeInit == Init => Life!Init
  <1>. SUFFICES ASSUME Init  PROVE Life!Init
    OBVIOUS
  <1>1. \A i \in Infras : LifeOf(i) = "unknown"
    BY DEF Init, LifeOf
  <1>2. \A n \in Nodes : servers[n] = "none" /\ \A d \in Disks : drives[n][d] = "none"
    BY DEF Init, CloudInit
  <1>3. \A i \in Infras : MachinesOf(i) \in SUBSET {"all"}
    BY <1>2, NodesOfInfra DEF MachinesOf, Leftovers
  <1>4. \A c \in Creations : ToldTo(c) = "idle"
    BY DEF Init, ToldTo
  <1>5. \A w \in Deletions : EndOf(w) = "idle"
    BY DEF Init, CloudInit, Asleep, EndOf, Workers
  <1>. QED  BY <1>1, <1>3, <1>4, <1>5 DEF Life!Init

(* The controller, with its goroutines, the provider and the repository below *)
(* it, does for its clients what Lifecycle does (deploymentcontroller.go:     *)
(* 108-260, ditas/vdcmanager.go:180-208): every step is one of its steps, or   *)
(* changes nothing that it shows.                                           *)
THEOREM LifecycleIsFollowed == Spec => FollowsLifecycle
  <1>1. DeployInv /\ DeployInv' /\ [Next]_vars => [Life!Next]_(Life!vars)
    <2>. SUFFICES ASSUME DeployInv, DeployInv', [Next]_vars  PROVE Life!Next \/ UNCHANGED Life!vars
      OBVIOUS
    <2>1. CASE \E c \in Creations : Submit(c) \/ Creation(c)
      <3>1. ASSUME NEW c \in Creations, Submit(c)  PROVE Life!Ask(c)
        BY <3>1, SubmitKeeps, AskedLife
      <3>2. ASSUME NEW c \in Creations, Creation(c)  PROVE Life!Tell(c) \/ UNCHANGED Life!vars
        BY <3>2, RespondLife, CleanedLife DEF Creation
      <3>. QED  BY <2>1, <3>1, <3>2 DEF Life!Next
    <2>2. CASE \E i \in Infras : Controller(i)
      <3>1. ASSUME NEW i \in Infras, Controller(i)
            PROVE  Life!Succeed(i) \/ Life!GiveUp(i) \/ UNCHANGED Life!vars
        BY <3>1, DeployLife, CollectNodesLife, ReceiveLife DEF Controller
      <3>. QED  BY <2>2, <3>1 DEF Life!Next
    <2>3. CASE \E n \in Nodes : Node(n) \/ ProviderOf(n)
      <3>1. (\E i \in Infras : Life!Build(i)) \/ UNCHANGED Life!vars
        BY <2>3, NodeLife, ProviderLife
      <3>. QED  BY <3>1 DEF Life!Next
    <2>4. CASE \E w \in Deletions : Find(w) \/ Deletion(w)
      <3>1. ASSUME NEW w \in Deletions, Find(w) \/ Deletion(w)
            PROVE  \/ Life!StartDelete(w) \/ Life!Unlist(w) \/ Life!FailDelete(w)
                   \/ Life!Shrink(Target[w]) \/ UNCHANGED Life!vars
        BY <3>1, FindLife, HostLife, NextHostLife, RemoveLife DEF Deletion
      <3>. QED  BY <2>4, <3>1, NodesOfInfra DEF Life!Next
    <2>5. CASE UNCHANGED vars
      <3>1. SameViews /\ SameRequests
        BY <2>5, StutterKeeps
      <3>. QED  BY <2>5, <3>1, QuietSteps, LifeStutters DEF vars
    <2>. QED  BY <2>1, <2>2, <2>3, <2>4, <2>5 DEF Next
  <1>. QED  BY <1>1, LifeInit, DeploymentInvariant, PTL DEF Spec, FollowsLifecycle, Life!Spec
=============================================================================
