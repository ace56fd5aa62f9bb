--------------------------- MODULE AnsibleProofs ---------------------------
(***************************************************************************)
(* What an answer "done" and the stored document promise about the machines,  *)
(* for any machines, any requests that come one after the other, any chain   *)
(* of products and any faults: the order of the steps of every product is     *)
(* such that each finds what it builds on, and an error stops the rest.      *)
(***************************************************************************)
EXTENDS Ansible, FiniteSetTheorems, SequenceTheorems, TLAPS

Pcs   == {"idle", "read", "work", "create", "lines", "done", "failed"}
Busy  == {"work", "create", "lines"}
Marks == {"kubernetes", "managed", "secret", "helm"}
Books == {"hosts", "docker", "kubernetes", "kubeadm", "get_config", "docker_repository",
          "secret", "k3s", "helm", "fluentd", "gluster"}

Runs ==
  {Run("hosts", "hosts"), Run("docker", "docker"), Run("kubernetes", "kubernetes"),
   Run("kubeadm", "kubernetes"), Run("get_config", "kubernetes"),
   Run("docker_repository", "private_registries"), Run("secret", "private_registries"),
   Run("k3s", "k3s"), Run("helm", "helm"), Run("fluentd", "fluentd"),
   Run("gluster", "gluster-kubernetes")}
Check    == <<"check", "kubernetes", "kubernetes">>
Writes   == {Write(p) : p \in Products}
Records  == {Record("kubernetes"), Record("k3s"), Record("secret"), Record("helm")}
AllSteps == Runs \union Writes \union Records \union {Check}

States == [pc : Pcs, list : Seq(Products), steps : Seq(AllSteps),
           copy : SUBSET Marks, left : SUBSET (Nodes \union {Groups})]

(* What a request in flight is at.                                          *)
RequestType(r) ==
  /\ ~At(r, "idle") /\ ~Ended(r) => req[r].list # << >>
  /\ req[r].pc \in {"create", "lines"} => req[r].steps # << >> /\ Step(r) \in Writes
  /\ At(r, "lines") => /\ req[r].left # {} /\ req[r].left \subseteq Lines(Step(r)[2])
                       /\ inventory[Step(r)[2]] # Missing

TypeInv ==
  /\ setup \in [kubeadm : BOOLEAN, docker : BOOLEAN, repos : BOOLEAN]
  /\ doc \subseteq Marks
  /\ DOMAIN inventory = Products
  /\ \A p \in Products : inventory[p] = Missing \/ inventory[p] \subseteq Lines(p)
  /\ config \in BOOLEAN
  /\ installed \in [Nodes -> SUBSET Books]
  /\ req \in [Requests -> States]
  /\ \A r \in Requests : RequestType(r)
  /\ faults \in 0..MaxFaults

ElementsOf(s) == {s[i] : i \in 1..Len(s)}

(* The steps that a step builds on.                                         *)
Needs(e) ==
  CASE e \in Runs             -> {Write(e[3])}
    [] e = Record("kubernetes") -> {Run("get_config", "kubernetes"),
                                    Run(IF setup.kubeadm THEN "kubeadm" ELSE "kubernetes", "kubernetes")}
    [] e = Record("k3s")      -> {Run("k3s", "k3s")}
    [] e = Record("secret")   -> IF setup.repos THEN {Run("secret", "private_registries")} ELSE {}
    [] OTHER                  -> {}

(* What a step leaves behind.                                               *)
Done(e) ==
  /\ e \in Writes => inventory[e[2]] = Lines(e[2])
  /\ e \in Runs => /\ \A n \in Targets(e[2], Lines(e[3])) : e[2] \in installed[n]
                   /\ e[2] \in {"get_config", "k3s"} => config

(* Every step to come finds what it builds on, or an earlier one provides it; *)
(* of the product nothing is missing but the steps to come.                 *)
Provided(s) ==
  \A i \in 1..Len(s) : \A e \in Needs(s[i]) : Done(e) \/ \E j \in 1..i-1 : s[j] = e
OnTheWay(product, s) ==
  /\ ElementsOf(s) \subseteq ElementsOf(Steps(product))
  /\ \A e \in ElementsOf(Steps(product)) : Done(e) \/ e \in ElementsOf(s)

(* The marks are true of the machines, but for helm, which is recorded before *)
(* it is installed.                                                         *)
True(marks, s) ==
  /\ "kubernetes" \in marks => config /\ Has(Master, Cluster)
  /\ "managed" \in marks => Everywhere({"kubernetes", "kubeadm"})
  /\ "secret" \in marks /\ setup.repos => Has(Master, {"secret"})
  /\ "helm" \in marks => Has(Master, {"helm"}) \/ Run("helm", "helm") \in ElementsOf(s)

(* The products before the one at hand are installed.                        *)
Exempt(r, i) == IsChain(r) /\ Wanted[r][i] = "hosts"
Before(r, ahead) ==
  \A i \in 1..Len(Wanted[r]) :
    Exempt(r, i) \/ Deployed(Wanted[r][i]) \/ Wanted[r][i] \in ahead

ProgressAs(r, s) ==
  /\ s.pc \in Busy => Provided(s.steps) /\ OnTheWay(Head(s.list), s.steps) /\ True(s.copy, s.steps)
  /\ s.pc \in Busy \union {"read"} => Before(r, ElementsOf(s.list))
  /\ s.pc = "done" => Before(r, {})
Progress(r) == ProgressAs(r, req[r])

(* Requests come one after the other.                                       *)
OneAtATime == \A r, q \in InFlight : r = q
OneWriter  == \A r \in Requests : At(r, "create") => inventory[Step(r)[2]] = Missing

(* No inventory was left without some of its lines: a request is writing it. *)
Writing(r, p) == /\ At(r, "lines") /\ Step(r)[2] = p
                 /\ inventory[p] \union req[r].left = Lines(p)
Sound ==
  \A p \in Products : inventory[p] \in {Missing, Lines(p)} \/ \E r \in Requests : Writing(r, p)

Fulfilled ==
  /\ setup.kubeadm => setup.docker
  /\ setup.docker => Everywhere({"docker"})
  /\ True(doc, << >>)
  /\ \A r \in Requests : Progress(r)

SerialInv == TypeInv /\ OneAtATime /\ OneWriter /\ (Sound => Fulfilled)

-----------------------------------------------------------------------------
(* The order of the steps of a product: each finds what it builds on among    *)
(* those before it.                                                         *)
Supplied(s, given) ==
  \A i \in 1..Len(s) : \A e \in Needs(s[i]) : e \in given \/ \E j \in 1..i-1 : s[j] = e

LEMMA StepKinds ==
  /\ \A p \in Products : Write(p) \in Writes /\ Write(p) \notin Runs \union Records \union {Check}
  /\ \A e \in Runs : e \notin Writes \union Records \union {Check} /\ e[3] \in Products /\ e[2] \in Books
  /\ \A e \in Records : e \notin Writes \union Runs \union {Check}
  /\ Check \notin Writes \union Runs \union Records
  /\ \A e \in AllSteps : /\ e[1] = "write" <=> e \in Writes
                         /\ e[1] = "run" <=> e \in Runs
                         /\ e[1] = "record" <=> e \in Records
                         /\ e[1] = "check" <=> e = Check
  BY DEF Writes, Runs, Records, Check, AllSteps, Write, Run, Record, Products, Books

LEMMA NeedsOf ==
  /\ \A p \in Products : Needs(Write(p)) = {}
  /\ \A e \in Runs : Needs(e) = {Write(e[3])}
  /\ Needs(Check) = {} /\ Needs(Record("helm")) = {}
  /\ Needs(Record("k3s")) = {Run("k3s", "k3s")}
  /\ Needs(Record("secret")) = IF setup.repos THEN {Run("secret", "private_registries")} ELSE {}
  /\ Needs(Record("kubernetes")) =
       {Run("get_config", "kubernetes"), Run(IF setup.kubeadm THEN "kubeadm" ELSE "kubernetes", "kubernetes")}
  <1>1. \A p \in Products : Needs(Write(p)) = {}
    BY StepKinds DEF Needs, Records
  <1>2. ASSUME NEW e \in Runs  PROVE Needs(e) = {Write(e[3])}
    <2>1. e # Record("kubernetes") /\ e # Record("k3s") /\ e # Record("secret")
      BY StepKinds DEF Records
    <2>. QED  BY <2>1 DEF Needs
  <1>3. Needs(Check) = {}
    BY StepKinds DEF Needs, Records
  <1>4. Record("k3s") # Record("secret") /\ Record("k3s") # Record("kubernetes")
        /\ Record("secret") # Record("kubernetes") /\ Record("helm") # Record("kubernetes")
        /\ Record("helm") # Record("secret") /\ Record("helm") # Record("k3s")
    BY DEF Record
  <1>. QED  BY <1>1, <1>2, <1>3, <1>4, StepKinds DEF Needs, Records

LEMMA SuppliedConcat ==
  ASSUME NEW s \in Seq(AllSteps), NEW t \in Seq(AllSteps), NEW given,
         Supplied(s, given), Supplied(t, given \union ElementsOf(s))
  PROVE  /\ s \o t \in Seq(AllSteps) /\ Supplied(s \o t, given)
         /\ ElementsOf(s \o t) = ElementsOf(s) \union ElementsOf(t)
         /\ s # << >> => s \o t # << >>
  <1>1. /\ s \o t \in Seq(AllSteps) /\ Len(s \o t) = Len(s) + Len(t)
        /\ \A i \in 1..Len(s) + Len(t) : (s \o t)[i] = IF i <= Len(s) THEN s[i] ELSE t[i - Len(s)]
    BY ConcatProperties
  <1>2. Len(s) \in Nat /\ Len(t) \in Nat
    BY LenProperties
  <1>3. \A i \in 1..Len(s) : i \in 1..Len(s) + Len(t) /\ (s \o t)[i] = s[i]
    BY <1>1, <1>2
  <1>4. \A i \in 1..Len(t) : i + Len(s) \in 1..Len(s) + Len(t) /\ (s \o t)[i + Len(s)] = t[i]
    BY <1>1, <1>2
  <1>5. ElementsOf(s \o t) = ElementsOf(s) \union ElementsOf(t)
    BY <1>1, <1>2, <1>3, <1>4 DEF ElementsOf
  <1>6. Supplied(s \o t, given)
    <2>. SUFFICES ASSUME NEW i \in 1..Len(s) + Len(t), NEW e \in Needs((s \o t)[i])
                  PROVE  e \in given \/ \E j \in 1..i-1 : (s \o t)[j] = e
      BY <1>1 DEF Supplied
    <2>1. CASE i <= Len(s)
      <3>1. e \in given \/ \E j \in 1..i-1 : s[j] = e
        BY <1>1, <1>2, <2>1 DEF Supplied
      <3>. QED  BY <1>2, <1>3, <2>1, <3>1
    <2>2. CASE i > Len(s)
      <3>. DEFINE k == i - Len(s)
      <3>1. k \in 1..Len(t) /\ (s \o t)[i] = t[k]
        BY <1>1, <1>2, <2>2
      <3>2. e \in given \/ e \in ElementsOf(s) \/ \E j \in 1..k-1 : t[j] = e
        BY <3>1 DEF Supplied
      <3>3. CASE e \in ElementsOf(s)
        BY <1>2, <1>3, <2>2, <3>3 DEF ElementsOf
      <3>4. CASE \E j \in 1..k-1 : t[j] = e
        <4>1. PICK j \in 1..k-1 : t[j] = e
          BY <3>4
        <4>2. j \in 1..Len(t) /\ j + Len(s) \in 1..i-1 /\ (s \o t)[j + Len(s)] = e
          BY <1>2, <1>4, <3>1, <4>1
        <4>. QED  BY <4>2
      <3>. QED  BY <3>2, <3>3, <3>4
    <2>. QED  BY <1>2, <2>1, <2>2
  <1>7. s # << >> => s \o t # << >>
    BY <1>1, <1>2, EmptySeq
  <1>. QED  BY <1>1, <1>5, <1>6, <1>7

LEMMA SuppliedShort ==
  ASSUME NEW given
  PROVE  /\ << >> \in Seq(AllSteps) /\ Supplied(<< >>, given) /\ ElementsOf(<< >>) = {}
         /\ \A a \in AllSteps :
              /\ <<a>> \in Seq(AllSteps) /\ <<a>> # << >> /\ ElementsOf(<<a>>) = {a}
              /\ Needs(a) \subseteq given => Supplied(<<a>>, given)
         /\ \A a, b \in AllSteps :
              /\ <<a, b>> \in Seq(AllSteps) /\ <<a, b>> # << >> /\ ElementsOf(<<a, b>>) = {a, b}
              /\ Needs(a) \subseteq given /\ Needs(b) \subseteq given \union {a}
                   => Supplied(<<a, b>>, given)
  <1>1. << >> \in Seq(AllSteps) /\ Supplied(<< >>, given) /\ ElementsOf(<< >>) = {}
    BY DEF Supplied, ElementsOf
  <1>2. ASSUME NEW a \in AllSteps
        PROVE  /\ <<a>> \in Seq(AllSteps) /\ <<a>> # << >> /\ ElementsOf(<<a>>) = {a}
               /\ Needs(a) \subseteq given => Supplied(<<a>>, given)
    <2>1. \A i \in 1..Len(<<a>>) : i = 1
      OBVIOUS
    <2>. QED  BY <2>1 DEF Supplied, ElementsOf
  <1>3. ASSUME NEW a \in AllSteps, NEW b \in AllSteps
        PROVE  /\ <<a, b>> \in Seq(AllSteps) /\ <<a, b>> # << >> /\ ElementsOf(<<a, b>>) = {a, b}
               /\ Needs(a) \subseteq given /\ Needs(b) \subseteq given \union {a}
                    => Supplied(<<a, b>>, given)
    <2>1. Len(<<a, b>>) = 2 /\ \A i \in 1..2 : i = 1 \/ i = 2
      OBVIOUS
    <2>2. <<a, b>>[1] = a /\ <<a, b>>[2] = b
      OBVIOUS
    <2>3. <<a, b>> \in Seq(AllSteps) /\ <<a, b>> # << >>
      OBVIOUS
    <2>4. ElementsOf(<<a, b>>) = {a, b}
      BY <2>1, <2>2 DEF ElementsOf
    <2>5. ASSUME Needs(a) \subseteq given, Needs(b) \subseteq given \union {a}
          PROVE  Supplied(<<a, b>>, given)
      <3>1. \A i \in 1..2 : \A e \in Needs(<<a, b>>[i]) : e \in given \/ (i = 2 /\ <<a, b>>[1] = e)
        BY <2>1, <2>2, <2>5
      <3>. QED  BY <2>1, <3>1 DEF Supplied
    <2>. QED  BY <2>3, <2>4, <2>5
  <1>. QED  BY <1>1, <1>2, <1>3

(* The steps of every product, in an order that provides what each needs.     *)
LEMMA RegistriesSupplied ==
  ASSUME setup.repos \in BOOLEAN, NEW given
  PROVE  /\ Registries \in Seq(AllSteps) /\ Registries # << >> /\ Supplied(Registries, given)
         /\ ElementsOf(Registries) =
              {Write("private_registries"), Check, Record("secret")} \union
              (IF setup.repos THEN {Run("docker_repository", "private_registries"),
                                    Run("secret", "private_registries")} ELSE {})
  <1>. DEFINE first  == <<Write("private_registries"), Check>>
              middle == IF setup.repos THEN <<Run("docker_repository", "private_registries"),
                                              Run("secret", "private_registries")>> ELSE << >>
              last   == <<Record("secret")>>
  <1>0. /\ {Write("private_registries"), Check, Run("docker_repository", "private_registries"),
            Run("secret", "private_registries"), Record("secret")} \subseteq AllSteps
        /\ Needs(Write("private_registries")) = {} /\ Needs(Check) = {}
        /\ Needs(Run("docker_repository", "private_registries")) = {Write("private_registries")}
        /\ Needs(Run("secret", "private_registries")) = {Write("private_registries")}
        /\ Needs(Record("secret")) \subseteq
             IF setup.repos THEN {Run("secret", "private_registries")} ELSE {}
    BY NeedsOf DEF AllSteps, Runs, Writes, Records, Products, Run
  <1>1. /\ first \in Seq(AllSteps) /\ first # << >> /\ Supplied(first, given)
        /\ ElementsOf(first) = {Write("private_registries"), Check}
    BY <1>0, SuppliedShort
  <1>2. /\ middle \in Seq(AllSteps) /\ Supplied(middle, given \union ElementsOf(first))
        /\ ElementsOf(middle) = IF setup.repos THEN {Run("docker_repository", "private_registries"),
                                                     Run("secret", "private_registries")} ELSE {}
    <2>. DEFINE more == given \union ElementsOf(first)
    <2>1. CASE setup.repos
      BY <1>0, <1>1, <2>1, SuppliedShort
    <2>2. CASE ~setup.repos
      BY <2>2, SuppliedShort
    <2>. QED  BY <2>1, <2>2
  <1>. HIDE DEF first, middle
  <1>3. /\ first \o middle \in Seq(AllSteps) /\ first \o middle # << >>
        /\ Supplied(first \o middle, given)
        /\ ElementsOf(first \o middle) = ElementsOf(first) \union ElementsOf(middle)
    BY <1>1, <1>2, SuppliedConcat
  <1>4. /\ last \in Seq(AllSteps) /\ Supplied(last, given \union ElementsOf(first \o middle))
        /\ ElementsOf(last) = {Record("secret")}
    BY <1>0, <1>2, <1>3, SuppliedShort
  <1>. HIDE DEF last
  <1>5. /\ (first \o middle) \o last \in Seq(AllSteps) /\ (first \o middle) \o last # << >>
        /\ Supplied((first \o middle) \o last, given)
        /\ ElementsOf((first \o middle) \o last) = ElementsOf(first \o middle) \union ElementsOf(last)
    BY <1>3, <1>4, SuppliedConcat
  <1>6. Registries = (first \o middle) \o last
    BY DEF Registries, first, middle, last, Check
  <1>. QED  BY <1>1, <1>2, <1>3, <1>4, <1>5, <1>6

LEMMA KubernetesSupplied ==
  ASSUME setup \in [kubeadm : BOOLEAN, docker : BOOLEAN, repos : BOOLEAN]
  PROVE  /\ Kubernetes \in Seq(AllSteps) /\ Kubernetes # << >> /\ Supplied(Kubernetes, {})
         /\ Run(IF setup.kubeadm THEN "kubeadm" ELSE "kubernetes", "kubernetes") \in ElementsOf(Kubernetes)
         /\ ~setup.kubeadm /\ ~setup.docker => Run("docker", "docker") \in ElementsOf(Kubernetes)
         /\ Record("helm") \notin ElementsOf(Kubernetes)
  <1>. DEFINE book   == IF setup.kubeadm THEN "kubeadm" ELSE "kubernetes"
              first  == <<Write("kubernetes")>>
              docker == IF setup.docker THEN << >> ELSE Docker
              middle == IF setup.kubeadm THEN <<Run("kubeadm", "kubernetes")>>
                        ELSE docker \o <<Run("kubernetes", "kubernetes")>>
              last   == <<Run("get_config", "kubernetes"), Record("kubernetes")>>
              more   == IF setup.repos THEN Registries ELSE << >>
              three  == (first \o middle) \o last
  <1>0. /\ {Write("kubernetes"), Write("docker"), Run("docker", "docker"), Run("kubeadm", "kubernetes"),
            Run("kubernetes", "kubernetes"), Run("get_config", "kubernetes"), Record("kubernetes")}
              \subseteq AllSteps
        /\ Needs(Write("kubernetes")) = {} /\ Needs(Write("docker")) = {}
        /\ Needs(Run("docker", "docker")) = {Write("docker")}
        /\ Needs(Run("kubeadm", "kubernetes")) = {Write("kubernetes")}
        /\ Needs(Run("kubernetes", "kubernetes")) = {Write("kubernetes")}
        /\ Needs(Run("get_config", "kubernetes")) = {Write("kubernetes")}
        /\ Needs(Record("kubernetes")) = {Run("get_config", "kubernetes"), Run(book, "kubernetes")}
    BY NeedsOf DEF AllSteps, Runs, Writes, Records, Products, Run
  <1>. HIDE DEF more
  <1>1. /\ first \in Seq(AllSteps) /\ first # << >> /\ Supplied(first, {})
        /\ ElementsOf(first) = {Write("kubernetes")}
    BY <1>0, SuppliedShort
  <1>2. /\ docker \in Seq(AllSteps) /\ Supplied(docker, ElementsOf(first))
        /\ ElementsOf(docker) = IF setup.docker THEN {} ELSE {Write("docker"), Run("docker", "docker")}
    <2>1. CASE setup.docker
      BY <2>1, SuppliedShort
    <2>2. CASE ~setup.docker
      BY <1>0, <2>2, SuppliedShort DEF Docker
    <2>. QED  BY <2>1, <2>2
  <1>. HIDE DEF docker
  <1>3. /\ middle \in Seq(AllSteps) /\ Supplied(middle, ElementsOf(first))
        /\ ElementsOf(middle) =
             IF setup.kubeadm THEN {Run("kubeadm", "kubernetes")}
             ELSE ElementsOf(docker) \union {Run("kubernetes", "kubernetes")}
    <2>1. CASE setup.kubeadm
      BY <1>0, <1>1, <2>1, SuppliedShort
    <2>2. CASE ~setup.kubeadm
      <3>. DEFINE only == <<Run("kubernetes", "kubernetes")>>
      <3>1. /\ only \in Seq(AllSteps) /\ ElementsOf(only) = {Run("kubernetes", "kubernetes")}
            /\ Supplied(only, ElementsOf(first) \union ElementsOf(docker))
        BY <1>0, <1>1, SuppliedShort
      <3>. HIDE DEF only
      <3>2. /\ docker \o only \in Seq(AllSteps) /\ Supplied(docker \o only, ElementsOf(first))
            /\ ElementsOf(docker \o only) = ElementsOf(docker) \union ElementsOf(only)
        BY <1>2, <3>1, SuppliedConcat
      <3>3. middle = docker \o only
        BY <2>2 DEF only
      <3>. HIDE DEF middle
      <3>. QED  BY <2>2, <3>1, <3>2, <3>3
    <2>. QED  BY <2>1, <2>2
  <1>. HIDE DEF first, middle
  <1>4. /\ first \o middle \in Seq(AllSteps) /\ first \o middle # << >>
        /\ Supplied(first \o middle, {})
        /\ ElementsOf(first \o middle) = ElementsOf(first) \union ElementsOf(middle)
    BY <1>1, <1>3, SuppliedConcat
  <1>5. /\ last \in Seq(AllSteps) /\ Supplied(last, ElementsOf(first \o middle))
        /\ ElementsOf(last) = {Run("get_config", "kubernetes"), Record("kubernetes")}
    <2>1. Needs(Run("get_config", "kubernetes")) \subseteq ElementsOf(first \o middle)
      BY <1>0, <1>1, <1>4
    <2>2. Needs(Record("kubernetes")) \subseteq ElementsOf(first \o middle) \union {Run("get_config", "kubernetes")}
      BY <1>0, <1>3, <1>4
    <2>. QED  BY <1>0, <2>1, <2>2, SuppliedShort
  <1>. HIDE DEF last
  <1>6. /\ three \in Seq(AllSteps) /\ three # << >> /\ Supplied(three, {})
        /\ ElementsOf(three) = ElementsOf(first \o middle) \union ElementsOf(last)
    <2>1. {} \union ElementsOf(first \o middle) = ElementsOf(first \o middle)
      OBVIOUS
    <2>2. Supplied(last, {} \union ElementsOf(first \o middle))
      BY <1>5, <2>1
    <2>3. /\ (first \o middle) \o last \in Seq(AllSteps)
          /\ Supplied((first \o middle) \o last, {}) /\ (first \o middle) \o last # << >>
          /\ ElementsOf((first \o middle) \o last) = ElementsOf(first \o middle) \union ElementsOf(last)
      BY <1>4, <1>5, <2>2, SuppliedConcat
    <2>. QED  BY <2>3
  <1>7. /\ more \in Seq(AllSteps) /\ Supplied(more, ElementsOf(three))
        /\ Record("helm") \notin ElementsOf(more)
    <2>1. CASE setup.repos
      <3>1. Record("helm") \notin {Write("private_registries"), Check, Record("secret"),
              Run("docker_repository", "private_registries"), Run("secret", "private_registries")}
        BY DEF Write, Check, Record, Run
      <3>. QED  BY <2>1, <3>1, RegistriesSupplied DEF more
    <2>2. CASE ~setup.repos
      BY <2>2, SuppliedShort DEF more
    <2>. QED  BY <2>1, <2>2
  <1>. HIDE DEF three
  <1>8. /\ three \o more \in Seq(AllSteps) /\ three \o more # << >> /\ Supplied(three \o more, {})
        /\ ElementsOf(three \o more) = ElementsOf(three) \union ElementsOf(more)
    BY <1>6, <1>7, SuppliedConcat
  <1>9. Kubernetes = three \o more
    BY DEF Kubernetes, three, first, middle, docker, last, more
  <1>10. Run(book, "kubernetes") \in ElementsOf(middle)
    BY <1>3
  <1>11. Record("helm") \notin {Write("kubernetes"), Write("docker"), Run("docker", "docker"),
           Run("kubeadm", "kubernetes"), Run("kubernetes", "kubernetes"),
           Run("get_config", "kubernetes"), Record("kubernetes")}
    BY DEF Write, Record, Run
  <1>. QED  BY <1>1, <1>2, <1>3, <1>4, <1>5, <1>6, <1>7, <1>8, <1>9, <1>10, <1>11

(* The playbooks that a product stands for.                                  *)
Goals(p) ==
  {e \in Runs :
     \/ p \notin {"kubernetes", "private_registries"} /\ e[3] = p
     \/ p = "private_registries" /\ setup.repos /\ e[3] = p
     \/ /\ p = "kubernetes"
        /\ \/ e = Run(IF setup.kubeadm THEN "kubeadm" ELSE "kubernetes", "kubernetes")
           \/ ~setup.kubeadm /\ ~setup.docker /\ e = Run("docker", "docker")}

LEMMA StepsSupplied ==
  ASSUME setup \in [kubeadm : BOOLEAN, docker : BOOLEAN, repos : BOOLEAN], NEW p \in Products
  PROVE  /\ Steps(p) \in Seq(AllSteps) /\ Steps(p) # << >> /\ Supplied(Steps(p), {})
         /\ Goals(p) \subseteq ElementsOf(Steps(p))
         /\ Record("helm") \in ElementsOf(Steps(p)) => p = "helm"
  <1>1. ASSUME NEW b, Run(b, p) \in Runs
        PROVE  /\ Single(b, p) \in Seq(AllSteps) /\ Single(b, p) # << >>
               /\ Supplied(Single(b, p), {}) /\ Run(b, p) \in ElementsOf(Single(b, p))
               /\ Record("helm") \notin ElementsOf(Single(b, p))
    <2>1. {Write(p), Run(b, p)} \subseteq AllSteps /\ Needs(Write(p)) = {} /\ Needs(Run(b, p)) = {Write(p)}
      BY <1>1, NeedsOf DEF AllSteps, Writes, Run
    <2>. DEFINE steps == <<Write(p), Run(b, p)>>
    <2>2. /\ steps \in Seq(AllSteps) /\ steps # << >> /\ ElementsOf(steps) = {Write(p), Run(b, p)}
          /\ Supplied(steps, {})
      BY <2>1, SuppliedShort
    <2>3. Single(b, p) = steps /\ Record("helm") \notin {Write(p), Run(b, p)}
      BY DEF Single, Record, Write, Run
    <2>. HIDE DEF steps
    <2>. QED  BY <2>2, <2>3
  <1>2. CASE p \in {"hosts", "fluentd", "gluster-kubernetes"}
    <2>1. /\ p = "hosts" => Steps(p) = Single("hosts", p)
          /\ p = "fluentd" => Steps(p) = Single("fluentd", p)
          /\ p = "gluster-kubernetes" => Steps(p) = Single("gluster", p)
      BY DEF Steps
    <2>2. /\ p = "hosts" => Goals(p) = {Run("hosts", p)}
          /\ p = "fluentd" => Goals(p) = {Run("fluentd", p)}
          /\ p = "gluster-kubernetes" => Goals(p) = {Run("gluster", p)}
      BY DEF Goals, Runs, Run
    <2>. QED  BY <1>1, <1>2, <2>1, <2>2 DEF Runs
  <1>3. CASE p = "docker"
    <2>1. Docker = Single("docker", "docker")
      BY DEF Docker, Single
    <2>2. Goals(p) = {Run("docker", "docker")}
      BY <1>3 DEF Goals, Runs, Run
    <2>. QED  BY <1>1, <1>3, <2>1, <2>2 DEF Steps, Runs
  <1>4. CASE p = "kubernetes"
    BY <1>4, KubernetesSupplied DEF Steps, Goals
  <1>5. CASE p = "private_registries"
    <2>1. Goals(p) \subseteq ElementsOf(Registries)
      <3>1. setup.repos => Goals(p) = {Run("docker_repository", "private_registries"),
                                       Run("secret", "private_registries")}
        BY <1>5 DEF Goals, Runs, Run
      <3>2. ~setup.repos => Goals(p) = {}
        BY <1>5 DEF Goals
      <3>. QED  BY <3>1, <3>2, RegistriesSupplied
    <2>2. Record("helm") \notin ElementsOf(Registries)
      <3>1. Record("helm") \notin {Write("private_registries"), Check, Record("secret"),
              Run("docker_repository", "private_registries"), Run("secret", "private_registries")}
        BY DEF Write, Check, Record, Run
      <3>. QED  BY <3>1, RegistriesSupplied
    <2>. QED  BY <1>5, <2>1, <2>2, RegistriesSupplied DEF Steps
  <1>6. CASE p = "k3s"
    <2>. DEFINE first == Single("k3s", "k3s")
                last  == <<Record("k3s")>>
    <2>1. /\ first \in Seq(AllSteps) /\ first # << >> /\ Supplied(first, {})
          /\ Run("k3s", "k3s") \in ElementsOf(first) /\ Record("helm") \notin ElementsOf(first)
      BY <1>1, <1>6 DEF Runs
    <2>2. Record("k3s") \in AllSteps /\ Needs(Record("k3s")) \subseteq {} \union ElementsOf(first)
      BY <2>1, NeedsOf DEF AllSteps, Records
    <2>3. /\ last \in Seq(AllSteps) /\ Supplied(last, {} \union ElementsOf(first))
          /\ ElementsOf(last) = {Record("k3s")}
      BY <2>2, SuppliedShort
    <2>4. Steps(p) = first \o last
      BY <1>6 DEF Steps
    <2>5. Goals(p) = {Run("k3s", "k3s")} /\ Record("helm") # Record("k3s")
      BY <1>6 DEF Goals, Runs, Run, Record
    <2>. HIDE DEF first, last
    <2>. QED  BY <2>1, <2>3, <2>4, <2>5, SuppliedConcat
  <1>7. CASE p = "helm"
    <2>1. /\ {Write("helm"), Record("helm"), Run("helm", "helm")} \subseteq AllSteps
          /\ Needs(Write("helm")) = {} /\ Needs(Record("helm")) = {}
          /\ Needs(Run("helm", "helm")) = {Write("helm")}
      BY <1>7, NeedsOf DEF AllSteps, Writes, Records, Runs, Run
    <2>. DEFINE first == <<Write("helm")>>
                last  == <<Record("helm"), Run("helm", "helm")>>
    <2>2. /\ first \in Seq(AllSteps) /\ first # << >>
          /\ Supplied(first, {}) /\ ElementsOf(first) = {Write("helm")}
      BY <2>1, SuppliedShort
    <2>. HIDE DEF first
    <2>3. /\ last \in Seq(AllSteps) /\ ElementsOf(last) = {Record("helm"), Run("helm", "helm")}
          /\ Supplied(last, {} \union ElementsOf(first))
      BY <2>1, <2>2, SuppliedShort
    <2>. HIDE DEF last
    <2>4. /\ first \o last \in Seq(AllSteps) /\ first \o last # << >>
          /\ Supplied(first \o last, {})
          /\ ElementsOf(first \o last) = ElementsOf(first) \union ElementsOf(last)
      BY <2>2, <2>3, SuppliedConcat
    <2>5. Steps(p) = first \o last
      BY <1>7 DEF Steps, first, last
    <2>6. Goals(p) = {Run("helm", "helm")}
      BY <1>7 DEF Goals, Runs, Run
    <2>. QED  BY <1>7, <2>3, <2>4, <2>5, <2>6
  <1>. QED  BY <1>2, <1>3, <1>4, <1>5, <1>6, <1>7 DEF Products

-----------------------------------------------------------------------------
(* The types. A request changes its own state only, and no file goes away.    *)
KeepsFiles == \A p \in Products : inventory[p] # Missing => inventory'[p] # Missing

LEMMA LinesType ==
  ASSUME NEW p \in Products
  PROVE  /\ Lines(p) \subseteq Nodes \union {Groups} /\ Lines(p) # {}
         /\ \A lines \in SUBSET Lines(p) : lines # Missing
  BY LinesAssumption, NodesAssumption DEF Lines

LEMMA OthersKeepTheirType ==
  ASSUME TypeInv, NEW r \in Requests, NEW s \in States, Becomes(r, s), KeepsFiles
  PROVE  /\ req' \in [Requests -> States] /\ req'[r] = s
         /\ \A q \in Requests \ {r} : req'[q] = req[q] /\ RequestType(q)'
  <1>1. req' \in [Requests -> States] /\ req'[r] = s /\ \A q \in Requests \ {r} : req'[q] = req[q]
    BY DEF TypeInv, Becomes
  <1>2. ASSUME NEW q \in Requests \ {r}  PROVE RequestType(q)'
    <2>1. RequestType(q) /\ req'[q] = req[q] /\ req[q] \in States
      BY <1>1 DEF TypeInv
    <2>2. ASSUME At(q, "lines")  PROVE Step(q)[2] \in Products
      BY <2>1, <2>2 DEF RequestType, Writes, Write, At
    <2>. QED  BY <2>1, <2>2 DEF RequestType, At, Ended, Step, KeepsFiles
  <1>. QED  BY <1>1, <1>2

LEMMA IdleType == Idle \in States
  BY DEF Idle, States, Pcs

(* The states a request goes to next.                                       *)
LEMMA NextStates ==
  ASSUME TypeInv, NEW r \in Requests, ~At(r, "idle"), ~Ended(r)
  PROVE  /\ req[r] \in States /\ req[r].list # << >> /\ Head(req[r].list) \in Products
         /\ NextProduct(r) \in States
         /\ \/ NextProduct(r).pc = "done"
            \/ NextProduct(r).pc = "read" /\ NextProduct(r).list # << >>
         /\ AfterError(r) \in States
         /\ \/ AfterError(r).pc = "failed" \/ AfterError(r) = NextProduct(r)
         /\ req[r].steps # << >> =>
              /\ Step(r) \in AllSteps /\ NextStep(r) \in States
              /\ NextStep(r).pc = "work" /\ NextStep(r).list = req[r].list
              /\ NextStep(r).steps = Tail(req[r].steps)
              /\ NextStep(r).copy = req[r].copy /\ NextStep(r).left = req[r].left
  <1>1. req[r] \in States /\ req[r].list # << >> /\ req[r].list \in Seq(Products)
        /\ req[r].steps \in Seq(AllSteps)
    BY DEF TypeInv, RequestType, States
  <1>2. Head(req[r].list) \in Products /\ Tail(req[r].list) \in Seq(Products)
        /\ Len(Tail(req[r].list)) = Len(req[r].list) - 1 /\ Len(req[r].list) \in Nat
    BY <1>1, HeadTailProperties
  <1>3. /\ NextProduct(r) \in States
        /\ \/ NextProduct(r).pc = "done"
           \/ NextProduct(r).pc = "read" /\ NextProduct(r).list # << >>
    <2>1. CASE Len(req[r].list) = 1
      BY <2>1, IdleType DEF NextProduct, Idle, States, Pcs
    <2>2. CASE Len(req[r].list) # 1
      <3>1. NextProduct(r) = [Idle EXCEPT !.pc = "read", !.list = Tail(req[r].list)]
        BY <2>2 DEF NextProduct
      <3>2. Tail(req[r].list) # << >>
        <4>. DEFINE n == Len(req[r].list)
                    t == Tail(req[r].list)
        <4>1. n \in Nat /\ n # 1 /\ Len(t) = n - 1
          BY <1>2, <2>2
        <4>. HIDE DEF n, t
        <4>2. t # << >>
          BY <4>1
        <4>. QED  BY <4>2 DEF t
      <3>3. NextProduct(r) = [pc |-> "read", list |-> Tail(req[r].list), steps |-> << >>,
                              copy |-> {}, left |-> {}]
        BY <3>1 DEF Idle
      <3>. HIDE DEF NextProduct
      <3>4. << >> \in Seq(AllSteps) /\ Tail(req[r].list) \in Seq(Products)
        BY <1>2
      <3>. QED  BY <3>2, <3>3, <3>4 DEF States, Pcs
    <2>. QED  BY <2>1, <2>2
  <1>4. AfterError(r) \in States /\ (AfterError(r).pc = "failed" \/ AfterError(r) = NextProduct(r))
    <2>1. AfterError(r) = NextProduct(r) \/ AfterError(r) = [Idle EXCEPT !.pc = "failed"]
      BY DEF AfterError
    <2>2. [Idle EXCEPT !.pc = "failed"] \in States /\ [Idle EXCEPT !.pc = "failed"].pc = "failed"
      BY IdleType DEF Idle, States, Pcs
    <2>. QED  BY <1>3, <2>1, <2>2
  <1>5. ASSUME req[r].steps # << >>
        PROVE  /\ Step(r) \in AllSteps /\ NextStep(r) \in States
               /\ NextStep(r).pc = "work" /\ NextStep(r).list = req[r].list
               /\ NextStep(r).steps = Tail(req[r].steps)
               /\ NextStep(r).copy = req[r].copy /\ NextStep(r).left = req[r].left
    <2>1. Tail(req[r].steps) \in Seq(AllSteps) /\ Head(req[r].steps) \in AllSteps
      BY <1>1, <1>5, HeadTailProperties
    <2>. QED  BY <1>1, <2>1 DEF Step, NextStep, States, Pcs
  <1>. QED  BY <1>1, <1>2, <1>3, <1>4, <1>5

FilesType ==
  DOMAIN inventory = Products /\ \A p \in Products : inventory[p] = Missing \/ inventory[p] \subseteq Lines(p)

LEMMA NewType ==
  ASSUME TypeInv, NEW r \in Requests, NEW s \in States, Becomes(r, s), KeepsFiles,
         s.pc \in {"read", "work"} => s.list # << >>,
         s.pc \in {"create", "lines"} =>
           s.list # << >> /\ s.steps # << >> /\ Head(s.steps) \in Writes,
         s.pc = "lines" => /\ s.left # {} /\ s.left \subseteq Lines(Head(s.steps)[2])
                           /\ inventory'[Head(s.steps)[2]] # Missing,
         setup' = setup, doc' \subseteq Marks, FilesType', config' \in BOOLEAN,
         installed' \in [Nodes -> SUBSET Books],
         faults' = faults \/ \E what \in Faulty : Fails(what)
  PROVE  TypeInv'
  <1>1. faults' \in 0..MaxFaults
    <2>1. faults \in Nat /\ faults <= MaxFaults /\ MaxFaults \in Nat
      BY BoundAssumption DEF TypeInv
    <2>2. faults' = faults \/ (faults > 0 /\ faults' = faults - 1)
      BY DEF Fails
    <2>. QED  BY <2>1, <2>2
  <1>2. req' \in [Requests -> States] /\ req'[r] = s /\ \A q \in Requests \ {r} : RequestType(q)'
    BY OthersKeepTheirType
  <1>3. RequestType(r)'
    <2>1. s.pc \in Pcs
      BY DEF States
    <2>. QED  BY <1>2, <2>1 DEF RequestType, At, Ended, Step, Pcs
  <1>. QED  BY <1>1, <1>2, <1>3 DEF TypeInv, FilesType

LEMMA InitType == Init => TypeInv
  <1>. SUFFICES ASSUME Init PROVE TypeInv
    OBVIOUS
  <1>1. installed \in [Nodes -> SUBSET Books]
    BY DEF Init, Books
  <1>2. req \in [Requests -> States] /\ \A r \in Requests : req[r].pc = "idle"
    BY IdleType DEF Init, Idle
  <1>3. \A r \in Requests : RequestType(r)
    BY <1>2 DEF RequestType, At
  <1>4. faults \in 0..MaxFaults
    BY BoundAssumption DEF Init
  <1>5. doc \subseteq Marks /\ config \in BOOLEAN /\ DOMAIN inventory = Products
        /\ \A p \in Products : inventory[p] = Missing
    BY DEF Init
  <1>6. setup \in [kubeadm : BOOLEAN, docker : BOOLEAN, repos : BOOLEAN]
    BY DEF Init
  <1>. QED  BY <1>1, <1>2, <1>3, <1>4, <1>5, <1>6 DEF TypeInv

LEMMA StepKeepsType ==
  ASSUME TypeInv, NEW r \in Requests, Begin(r) \/ Work(r)
  PROVE  TypeInv'
  <1>0. /\ req[r] \in States /\ FilesType /\ RequestType(r)
        /\ setup \in [kubeadm : BOOLEAN, docker : BOOLEAN, repos : BOOLEAN]
        /\ doc \subseteq Marks /\ config \in BOOLEAN /\ installed \in [Nodes -> SUBSET Books]
    BY DEF TypeInv, FilesType
  <1>1. ASSUME inventory' = inventory  PROVE KeepsFiles /\ FilesType'
    BY <1>0, <1>1 DEF KeepsFiles, FilesType
  <1>2. ASSUME ~At(r, "idle"), ~Ended(r), NEW s, s = AfterError(r) \/ s = NextProduct(r)
        PROVE  s \in States /\ (s.pc \in {"done", "failed"} \/ (s.pc = "read" /\ s.list # << >>))
    BY <1>2, NextStates
  <1>3. CASE Begin(r)
    <2>. DEFINE s == [Idle EXCEPT !.pc = "read", !.list = Wanted[r]]
    <2>1. s \in States /\ s.pc = "read" /\ s.list # << >>
      BY WantedAssumption, IdleType DEF Idle, States, Pcs
    <2>2. Becomes(r, s)
      BY <1>3 DEF Begin
    <2>. HIDE DEF s
    <2>. QED  BY <1>0, <1>1, <1>3, <2>1, <2>2, NewType DEF Begin
  <1>4. CASE Read(r)
    <2>1. ~At(r, "idle") /\ ~Ended(r) /\ req[r].pc = "read"
      BY <1>4 DEF Read, At, Ended
    <2>2. CASE Works /\ Becomes(r, [req[r] EXCEPT !.pc = "work", !.copy = doc,
                                                  !.steps = Steps(Head(req[r].list))])
      <3>. DEFINE s == [req[r] EXCEPT !.pc = "work", !.copy = doc, !.steps = Steps(Head(req[r].list))]
      <3>1. Steps(Head(req[r].list)) \in Seq(AllSteps) /\ req[r].list # << >>
        BY <1>0, <2>1, NextStates, StepsSupplied
      <3>2. s \in States /\ s.pc = "work" /\ s.list # << >>
        BY <1>0, <3>1 DEF States, Pcs
      <3>. HIDE DEF s
      <3>3. Becomes(r, s)
        BY <2>2 DEF s
      <3>. QED  BY <1>0, <1>1, <1>4, <2>2, <3>2, <3>3, NewType DEF Read, Works
    <2>3. CASE Fails("store") /\ Becomes(r, AfterError(r))
      BY <1>0, <1>1, <1>2, <1>4, <2>1, <2>3, NewType DEF Read, Fails
    <2>. QED  BY <1>4, <2>2, <2>3 DEF Read
  <1>. DEFINE product == Step(r)[2]
  <1>5. CASE FindInventory(r)
    <2>1. ~At(r, "idle") /\ ~Ended(r) /\ req[r].pc = "work" /\ req[r].steps # << >> /\ Step(r)[1] = "write"
      BY <1>5 DEF FindInventory, Doing, At, Ended
    <2>2. /\ NextStep(r) \in States /\ NextStep(r).pc = "work" /\ NextStep(r).list = req[r].list
          /\ Step(r) \in Writes /\ req[r].list # << >>
      BY <2>1, NextStates, StepKinds
    <2>. DEFINE s == [req[r] EXCEPT !.pc = "create"]
    <2>3. s \in States /\ s.pc = "create" /\ s.list = req[r].list /\ s.steps = req[r].steps
      BY <1>0 DEF States, Pcs
    <2>4. Becomes(r, NextStep(r)) \/ Becomes(r, s)
      BY <1>5 DEF FindInventory
    <2>. HIDE DEF s
    <2>. QED  BY <1>0, <1>1, <1>5, <2>1, <2>2, <2>3, <2>4, NewType DEF FindInventory, Step
  <1>6. CASE CreateInventory(r)
    <2>1. ~At(r, "idle") /\ ~Ended(r) /\ req[r].pc = "create"
      BY <1>6 DEF CreateInventory, At, Ended
    <2>2. /\ req[r].list # << >> /\ req[r].steps # << >> /\ Step(r) \in Writes /\ product \in Products
      BY <1>0, <2>1 DEF RequestType, At, Ended, Writes, Write
    <2>3. CASE /\ Works /\ inventory' = [inventory EXCEPT ![product] = {}]
               /\ Becomes(r, [req[r] EXCEPT !.pc = "lines", !.left = Lines(product)])
      <3>. DEFINE s == [req[r] EXCEPT !.pc = "lines", !.left = Lines(product)]
      <3>1. Lines(product) \subseteq Nodes \union {Groups} /\ Lines(product) # {} /\ {} # Missing
        BY <2>2, LinesType
      <3>2. /\ s \in States /\ s.pc = "lines" /\ s.list = req[r].list /\ s.steps = req[r].steps
            /\ s.left = Lines(product)
        BY <1>0, <3>1 DEF States, Pcs
      <3>3. KeepsFiles /\ FilesType' /\ inventory'[product] # Missing
        BY <1>0, <2>2, <2>3, <3>1 DEF KeepsFiles, FilesType
      <3>. HIDE DEF s
      <3>4. Becomes(r, s)
        BY <2>3 DEF s
      <3>. QED  BY <1>0, <1>6, <2>2, <2>3, <3>1, <3>2, <3>3, <3>4, NewType DEF CreateInventory, Works, Step
    <2>4. CASE Fails("disk") /\ inventory' = inventory /\ Becomes(r, AfterError(r))
      BY <1>0, <1>1, <1>2, <1>6, <2>1, <2>4, NewType DEF CreateInventory, Fails
    <2>. QED  BY <1>6, <2>3, <2>4 DEF CreateInventory
  <1>7. CASE WriteLine(r)
    <2>1. ~At(r, "idle") /\ ~Ended(r) /\ req[r].pc = "lines"
      BY <1>7 DEF WriteLine, At, Ended
    <2>2. /\ req[r].list # << >> /\ req[r].steps # << >> /\ Step(r) \in Writes /\ product \in Products
          /\ req[r].left \subseteq Lines(product) /\ inventory[product] # Missing
      BY <1>0, <2>1 DEF RequestType, At, Ended, Writes, Write
    <2>3. ASSUME NEW line \in req[r].left, Works, inventory' = [inventory EXCEPT ![product] = @ \union {line}],
                 Becomes(r, IF req[r].left = {line} THEN [NextStep(r) EXCEPT !.left = {}]
                            ELSE [req[r] EXCEPT !.left = @ \ {line}])
          PROVE  TypeInv'
      <3>1. KeepsFiles /\ FilesType' /\ inventory'[product] # Missing
        <4>1. inventory[product] \subseteq Lines(product)
          BY <1>0, <2>2 DEF FilesType
        <4>2. inventory'[product] = inventory[product] \union {line} /\ DOMAIN inventory' = Products
              /\ \A p \in Products \ {product} : inventory'[p] = inventory[p]
          BY <1>0, <2>2, <2>3 DEF FilesType
        <4>3. inventory'[product] \in SUBSET Lines(product)
          BY <2>2, <4>1, <4>2
        <4>. QED  BY <1>0, <2>2, <4>2, <4>3, LinesType DEF KeepsFiles, FilesType
      <3>2. CASE req[r].left = {line}
        <4>. DEFINE s == [NextStep(r) EXCEPT !.left = {}]
        <4>1. NextStep(r) \in States /\ NextStep(r).pc = "work" /\ NextStep(r).list = req[r].list
          BY <2>1, <2>2, NextStates
        <4>2. s \in States /\ s.pc = "work" /\ s.list = req[r].list
          BY <4>1 DEF States
        <4>3. Becomes(r, s)
          BY <2>3, <3>2
        <4>. HIDE DEF s
        <4>. QED  BY <1>0, <1>7, <2>2, <2>3, <3>1, <4>2, <4>3, NewType DEF WriteLine, Works
      <3>3. CASE req[r].left # {line}
        <4>. DEFINE s == [req[r] EXCEPT !.left = @ \ {line}]
        <4>1. /\ s \in States /\ s.pc = "lines" /\ s.list = req[r].list /\ s.steps = req[r].steps
              /\ s.left = req[r].left \ {line}
          BY <1>0, <2>1 DEF States
        <4>2. s.left # {} /\ s.left \subseteq Lines(product)
          BY <2>2, <2>3, <3>3, <4>1
        <4>3. Becomes(r, s)
          BY <2>3, <3>3
        <4>. HIDE DEF s
        <4>. QED  BY <1>0, <1>7, <2>2, <2>3, <3>1, <4>1, <4>2, <4>3, NewType DEF WriteLine, Works, Step
      <3>. QED  BY <3>2, <3>3
    <2>4. CASE Fails("disk") /\ inventory' = inventory /\ Becomes(r, AfterError(r))
      BY <1>0, <1>1, <1>2, <1>7, <2>1, <2>4, NewType DEF WriteLine, Fails
    <2>. QED  BY <1>7, <2>3, <2>4 DEF WriteLine
  <1>8. CASE RunPlaybook(r)
    <2>1. ~At(r, "idle") /\ ~Ended(r) /\ req[r].pc = "work" /\ req[r].steps # << >> /\ Step(r)[1] = "run"
      BY <1>8 DEF RunPlaybook, Doing, At, Ended
    <2>2. /\ NextStep(r) \in States /\ NextStep(r).pc = "work" /\ NextStep(r).list = req[r].list
          /\ Step(r) \in Runs /\ req[r].list # << >> /\ product \in Books
      BY <2>1, NextStates, StepKinds
    <2>3. ASSUME NEW hosts, RanOn(product, hosts)
          PROVE  installed' \in [Nodes -> SUBSET Books] /\ config' \in BOOLEAN
      BY <1>0, <2>2, <2>3 DEF RanOn
    <2>4. installed' \in [Nodes -> SUBSET Books] /\ config' \in BOOLEAN
      BY <1>8, <2>3 DEF RunPlaybook
    <2>5. Becomes(r, NextStep(r)) \/ Becomes(r, AfterError(r))
      BY <1>8 DEF RunPlaybook
    <2>6. /\ setup' = setup /\ doc' = doc /\ inventory' = inventory
          /\ faults' = faults \/ \E what \in Faulty : Fails(what)
      BY <1>8 DEF RunPlaybook, Works, Fails
    <2>. QED  BY <1>0, <1>1, <1>2, <2>1, <2>2, <2>4, <2>5, <2>6, NewType
  <1>9. CASE CheckKubernetes(r)
    <2>1. ~At(r, "idle") /\ ~Ended(r) /\ req[r].pc = "work" /\ req[r].steps # << >>
      BY <1>9 DEF CheckKubernetes, Doing, At, Ended
    <2>2. /\ NextStep(r) \in States /\ NextStep(r).pc = "work" /\ NextStep(r).list = req[r].list
          /\ req[r].list # << >>
      BY <2>1, NextStates
    <2>3. Becomes(r, NextStep(r)) \/ Becomes(r, AfterError(r))
      BY <1>9 DEF CheckKubernetes
    <2>. QED  BY <1>0, <1>1, <1>2, <1>9, <2>1, <2>2, <2>3, NewType DEF CheckKubernetes
  <1>10. CASE RecordProduct(r)
    <2>1. ~At(r, "idle") /\ ~Ended(r) /\ req[r].pc = "work" /\ req[r].steps # << >> /\ Step(r)[1] = "record"
      BY <1>10 DEF RecordProduct, Doing, At, Ended
    <2>2. /\ NextStep(r) \in States /\ NextStep(r).pc = "work" /\ NextStep(r).list = req[r].list
          /\ req[r].list # << >> /\ Step(r) \in Records /\ NextStep(r).copy = req[r].copy
      BY <2>1, NextStates, StepKinds
    <2>. DEFINE s == [NextStep(r) EXCEPT !.copy = Recorded(@, product)]
    <2>3. s = [NextStep(r) EXCEPT !.copy = Recorded(req[r].copy, product)]
      BY <2>2
    <2>4. Recorded(req[r].copy, product) \subseteq Marks
      <3>1. req[r].copy \subseteq Marks
        BY <1>0 DEF States
      <3>2. product \in {"kubernetes", "k3s", "secret", "helm"}
        BY <2>2 DEF Records, Record
      <3>3. Recorded(req[r].copy, product) \in
              {(req[r].copy \ {"secret"}) \union {"kubernetes", "managed"},
               (req[r].copy \ {"secret", "managed"}) \union {"kubernetes"}, req[r].copy \union {product}}
        BY DEF Recorded
      <3>4. product \in {"secret", "helm"} => Recorded(req[r].copy, product) = req[r].copy \union {product}
        BY DEF Recorded
      <3>5. product = "kubernetes" => Recorded(req[r].copy, product) = (req[r].copy \ {"secret"}) \union {"kubernetes", "managed"}
        BY DEF Recorded
      <3>6. product = "k3s" => Recorded(req[r].copy, product) = (req[r].copy \ {"secret", "managed"}) \union {"kubernetes"}
        BY DEF Recorded
      <3>. QED  BY <3>1, <3>2, <3>4, <3>5, <3>6 DEF Marks
    <2>5. s \in States /\ s.pc = "work" /\ s.list = req[r].list
      BY <2>2, <2>3, <2>4 DEF States
    <2>6. Becomes(r, s)
      BY <1>10 DEF RecordProduct
    <2>. HIDE DEF s
    <2>. QED  BY <1>0, <1>1, <1>10, <2>2, <2>5, <2>6, NewType DEF RecordProduct
  <1>11. CASE Save(r)
    <2>1. ~At(r, "idle") /\ ~Ended(r) /\ req[r].copy \subseteq Marks
      BY <1>0, <1>11 DEF Save, At, Ended, States
    <2>2. Becomes(r, NextProduct(r)) \/ Becomes(r, AfterError(r))
      BY <1>11 DEF Save
    <2>3. doc' \subseteq Marks /\ (faults' = faults \/ \E what \in Faulty : Fails(what))
      BY <1>0, <1>11, <2>1 DEF Save, Works, Fails
    <2>. QED  BY <1>0, <1>1, <1>2, <1>11, <2>1, <2>2, <2>3, NewType DEF Save
  <1>. QED  BY <1>3, <1>4, <1>5, <1>6, <1>7, <1>8, <1>9, <1>10, <1>11 DEF Work

(* For any machines, requests and faults, however many requests are in        *)
(* flight: the document, the files, the configuration of the cluster and what *)
(* is left to write have the types that the operations assume.               *)
THEOREM TypeCorrect == Spec => []TypeOK
  <1>1. TypeInv /\ [Next]_vars => TypeInv'
    <2>. SUFFICES ASSUME TypeInv, [Next]_vars PROVE TypeInv'
      OBVIOUS
    <2>1. CASE Next
      BY <2>1, StepKeepsType DEF Next
    <2>2. CASE UNCHANGED vars
      BY <2>2 DEF vars, TypeInv, RequestType, At, Ended, Step
    <2>. QED  BY <2>1, <2>2
  <1>2. TypeInv => TypeOK
    <2>. SUFFICES ASSUME TypeInv PROVE TypeOK
      OBVIOUS
    <2>1. \A r \in Requests : At(r, "lines") => req[r].left # {} /\ req[r].left \subseteq Lines(Step(r)[2])
      BY DEF TypeInv, RequestType
    <2>. QED  BY <2>1 DEF TypeInv, TypeOK, Marks
  <1>. QED  BY <1>1, <1>2, InitType, PTL DEF Spec

-----------------------------------------------------------------------------
(* From here on requests come one after the other: a client waits for an       *)
(* answer before the next request is sent.                                  *)
OneRequestAtATime == MaxInFlight <= 1

Others(r) ==
  \A q \in Requests \ {r} : req'[q] = req[q] /\ req[q].pc \in {"idle", "done", "failed"}

LEMMA OnlyOne ==
  ASSUME TypeInv, OneAtATime, OneRequestAtATime, NEW r \in Requests, Begin(r) \/ Work(r)
  PROVE  Others(r) /\ setup' = setup
  <1>1. Work(r) => r \in InFlight
    BY DEF Work, Read, FindInventory, CreateInventory, WriteLine, RunPlaybook, CheckKubernetes,
           RecordProduct, Save, Doing, At, InFlight, Ended
  <1>2. Begin(r) => InFlight = {}
    <2>. SUFFICES ASSUME Begin(r), InFlight # {} PROVE FALSE
      OBVIOUS
    <2>1. PICK q : q \in InFlight
      OBVIOUS
    <2>2. InFlight = {q}
      BY <2>1 DEF OneAtATime
    <2>3. Cardinality(InFlight) = 1
      BY <2>2, FS_Singleton
    <2>. QED  BY <2>3, BoundAssumption DEF Begin, OneRequestAtATime
  <1>3. \A q \in Requests \ {r} : req[q].pc \in {"idle", "done", "failed"}
    BY <1>1, <1>2 DEF InFlight, OneAtATime, At, Ended
  <1>4. \E s : req' = [req EXCEPT ![r] = s]
    BY DEF Begin, Work, Read, FindInventory, CreateInventory, WriteLine, RunPlaybook, CheckKubernetes,
           RecordProduct, Save, Becomes
  <1>5. \A q \in Requests \ {r} : req'[q] = req[q]
    BY <1>4 DEF TypeInv
  <1>6. setup' = setup
    BY DEF Begin, Work, Read, FindInventory, CreateInventory, WriteLine, RunPlaybook, CheckKubernetes,
           RecordProduct, Save
  <1>. QED  BY <1>3, <1>5, <1>6 DEF Others

(* What the two steps that write an inventory do.                            *)
Creates(r) ==
  /\ At(r, "create") /\ inventory' = [inventory EXCEPT ![Step(r)[2]] = {}]
  /\ req'[r] = [req[r] EXCEPT !.pc = "lines", !.left = Lines(Step(r)[2])]
Adds(r, line) ==
  /\ At(r, "lines") /\ line \in req[r].left
  /\ inventory' = [inventory EXCEPT ![Step(r)[2]] = @ \union {line}]
  /\ req'[r] = IF req[r].left = {line} THEN [NextStep(r) EXCEPT !.left = {}]
               ELSE [req[r] EXCEPT !.left = @ \ {line}]

LEMMA WhoWrites ==
  ASSUME TypeInv, NEW r \in Requests, Begin(r) \/ Work(r)
  PROVE  /\ At(r, "create")' =>
              FindInventory(r) /\ inventory[Step(r)[2]] = Missing /\ req'[r] = [req[r] EXCEPT !.pc = "create"]
         /\ \/ Creates(r) \/ \E line \in req[r].left : Adds(r, line)
            \/ inventory' = inventory /\ ~At(r, "lines")'
  <1>0. \A s : Becomes(r, s) => req'[r] = s
    BY DEF TypeInv, Becomes
  <1>1. CASE Begin(r)
    BY <1>0, <1>1 DEF Begin, Idle, At
  <1>2. CASE Work(r)
    <2>1. ~At(r, "idle") /\ ~Ended(r)
      BY <1>2 DEF Work, Read, FindInventory, CreateInventory, WriteLine, RunPlaybook, CheckKubernetes,
             RecordProduct, Save, Doing, At, Ended
    <2>2. /\ req[r] \in States /\ AfterError(r).pc \notin {"create", "lines"}
          /\ NextProduct(r).pc \notin {"create", "lines"}
          /\ req[r].steps # << >> => NextStep(r).pc = "work" /\ NextStep(r) \in States
      BY <2>1, NextStates
    <2>3. CASE Read(r)
      <3>1. [req[r] EXCEPT !.pc = "work", !.copy = doc, !.steps = Steps(Head(req[r].list))].pc = "work"
        BY <2>2 DEF States
      <3>. QED  BY <1>0, <2>2, <2>3, <3>1 DEF Read, At
    <2>4. CASE FindInventory(r)
      <3>1. [req[r] EXCEPT !.pc = "create"].pc = "create"
        BY <2>2 DEF States
      <3>2. inventory' = inventory /\ req[r].steps # << >>
        BY <2>4 DEF FindInventory, Doing
      <3>3. CASE inventory[Step(r)[2]] # Missing
        <4>1. req'[r] = NextStep(r)
          BY <1>0, <2>4, <3>3 DEF FindInventory
        <4>. QED  BY <2>2, <3>2, <4>1 DEF At
      <3>4. CASE inventory[Step(r)[2]] = Missing
        <4>1. req'[r] = [req[r] EXCEPT !.pc = "create"]
          BY <1>0, <2>4, <3>4 DEF FindInventory
        <4>. QED  BY <2>4, <3>1, <3>2, <3>4, <4>1 DEF At
      <3>. QED  BY <3>3, <3>4
    <2>5. CASE CreateInventory(r)
      <3>1. [req[r] EXCEPT !.pc = "lines", !.left = Lines(Step(r)[2])].pc = "lines"
        BY <2>2 DEF States
      <3>. QED  BY <1>0, <2>2, <2>5, <3>1 DEF CreateInventory, Creates, At
    <2>6. CASE WriteLine(r)
      <3>1. req[r].steps # << >> /\ req[r].pc = "lines"
        BY <2>6 DEF WriteLine, At, TypeInv, RequestType
      <3>2. CASE \E line \in req[r].left : Adds(r, line)
        <4>1. PICK line \in req[r].left : Adds(r, line)
          BY <3>2
        <4>2. [NextStep(r) EXCEPT !.left = {}].pc = "work" /\ [req[r] EXCEPT !.left = @ \ {line}].pc = "lines"
          BY <2>2, <3>1 DEF States
        <4>. QED  BY <4>1, <4>2 DEF Adds, At
      <3>3. CASE inventory' = inventory /\ Becomes(r, AfterError(r))
        BY <1>0, <2>2, <3>3 DEF At
      <3>4. \/ \E line \in req[r].left : Adds(r, line)
            \/ inventory' = inventory /\ Becomes(r, AfterError(r))
        BY <1>0, <2>6 DEF WriteLine, Adds
      <3>. QED  BY <3>2, <3>3, <3>4
    <2>7. CASE RunPlaybook(r)
      <3>1. inventory' = inventory /\ (Becomes(r, NextStep(r)) \/ Becomes(r, AfterError(r))) /\ req[r].steps # << >>
        BY <2>7 DEF RunPlaybook, Doing
      <3>. QED  BY <1>0, <2>2, <3>1 DEF At
    <2>8. CASE CheckKubernetes(r)
      <3>1. inventory' = inventory /\ (Becomes(r, NextStep(r)) \/ Becomes(r, AfterError(r))) /\ req[r].steps # << >>
        BY <2>8 DEF CheckKubernetes, Doing
      <3>. QED  BY <1>0, <2>2, <3>1 DEF At
    <2>9. CASE RecordProduct(r)
      <3>1. inventory' = inventory /\ req[r].steps # << >>
            /\ Becomes(r, [NextStep(r) EXCEPT !.copy = Recorded(@, Step(r)[2])])
        BY <2>9 DEF RecordProduct, Doing
      <3>2. [NextStep(r) EXCEPT !.copy = Recorded(@, Step(r)[2])].pc = "work"
        BY <2>2, <3>1 DEF States
      <3>. QED  BY <1>0, <3>1, <3>2 DEF At
    <2>10. CASE Save(r)
      BY <1>0, <2>2, <2>10 DEF Save, At
    <2>. QED  BY <1>2, <2>3, <2>4, <2>5, <2>6, <2>7, <2>8, <2>9, <2>10 DEF Work
  <1>. QED  BY <1>1, <1>2

LEMMA StaysOne ==
  ASSUME TypeInv, OneAtATime, OneWriter, OneRequestAtATime, NEW r \in Requests, Begin(r) \/ Work(r)
  PROVE  OneAtATime' /\ OneWriter'
  <1>1. Others(r)
    BY OnlyOne
  <1>2. OneAtATime'
    BY <1>1 DEF Others, OneAtATime, InFlight, At, Ended
  <1>3. ASSUME At(r, "create")'  PROVE (inventory[Step(r)[2]] = Missing)'
    <2>1. FindInventory(r) /\ inventory[Step(r)[2]] = Missing /\ req'[r] = [req[r] EXCEPT !.pc = "create"]
      BY <1>3, WhoWrites
    <2>2. Step(r)' = Step(r)
      BY <2>1 DEF Step, TypeInv, States
    <2>. QED  BY <2>1, <2>2 DEF FindInventory
  <1>4. OneWriter'
    BY <1>1, <1>3 DEF Others, OneWriter, At
  <1>. QED  BY <1>2, <1>4

(* A file that an error leaves without some lines stays so, and a file that is *)
(* complete is not emptied.                                                 *)
LEMMA SoundBefore ==
  ASSUME TypeInv, TypeInv', OneAtATime, OneWriter, OneRequestAtATime, NEW r \in Requests, Begin(r) \/ Work(r), Sound'
  PROVE  Sound
  <1>1. Others(r) /\ \A q \in Requests \ {r} : ~At(q, "lines") /\ ~At(q, "lines")'
    BY OnlyOne DEF Others, At
  <1>2. CASE inventory' = inventory /\ ~At(r, "lines")'
    BY <1>1, <1>2 DEF Sound, Writing
  <1>. DEFINE product == Step(r)[2]
  <1>3. CASE Creates(r)
    <2>1. product \in Products /\ inventory[product] = Missing
      BY <1>3 DEF Creates, OneWriter, TypeInv, RequestType, Writes, Write, At
    <2>2. Step(r)' = Step(r)
      BY <1>3 DEF Creates, Step, TypeInv, States
    <2>3. ASSUME NEW p \in Products \ {product}  PROVE inventory[p] \in {Missing, Lines(p)}
      <3>1. inventory'[p] = inventory[p]
        BY <1>3, <2>1 DEF Creates, TypeInv
      <3>. QED  BY <1>1, <2>2, <3>1 DEF Sound, Writing
    <2>. QED  BY <2>1, <2>3 DEF Sound
  <1>4. CASE \E line \in req[r].left : Adds(r, line)
    <2>1. PICK line \in req[r].left : Adds(r, line)
      BY <1>4
    <2>2. /\ product \in Products /\ req[r].left \subseteq Lines(product) /\ req[r].steps # << >>
          /\ req[r] \in States /\ At(r, "lines")
      BY <2>1 DEF Adds, TypeInv, RequestType, Writes, Write, At
    <2>3. /\ inventory'[product] = inventory[product] \union {line}
          /\ \A p \in Products \ {product} : inventory'[p] = inventory[p]
      BY <2>1, <2>2 DEF Adds, TypeInv
    <2>4. CASE req[r].left = {line}
      <3>1. ~At(r, "lines")'
        <4>1. NextStep(r) \in States /\ NextStep(r).pc = "work"
          BY <2>2, NextStates DEF At, Ended
        <4>. QED  BY <2>1, <2>4, <4>1 DEF Adds, At, States
      <3>2. \A p \in Products : inventory'[p] \in {Missing, Lines(p)}
        BY <1>1, <3>1 DEF Sound, Writing
      <3>3. inventory'[product] # Missing
        BY <2>2, <2>3, LinesType DEF TypeInv, RequestType
      <3>4. inventory[product] \union req[r].left = Lines(product)
        BY <2>2, <2>3, <2>4, <3>2, <3>3
      <3>. QED  BY <2>2, <2>3, <3>2, <3>4 DEF Sound, Writing
    <2>5. CASE req[r].left # {line}
      <3>1. Step(r)' = Step(r) /\ req'[r].left = req[r].left \ {line}
        BY <2>1, <2>2, <2>5 DEF Adds, Step, States
      <3>2. \A p \in Products \ {product} : inventory[p] \in {Missing, Lines(p)}
        BY <1>1, <2>3, <3>1 DEF Sound, Writing
      <3>3. inventory'[product] # Missing
        <4>1. TypeInv' => RequestType(r)'
          BY DEF TypeInv
        <4>2. At(r, "lines")'
          BY <2>1, <2>2, <2>5 DEF Adds, At, States
        <4>. QED  BY <3>1, <4>1, <4>2 DEF RequestType
      <3>4. \/ inventory'[product] = Lines(product)
            \/ inventory'[product] \union req'[r].left = Lines(product)
        BY <1>1, <2>2, <3>3 DEF Sound, Writing
      <3>5. inventory[product] \union req[r].left = Lines(product)
        <4>1. inventory'[product] \union req'[r].left = inventory[product] \union req[r].left
          BY <2>1, <2>3, <3>1
        <4>2. req'[r].left \subseteq Lines(product)
          BY <2>2, <3>1
        <4>. QED  BY <3>4, <4>1, <4>2
      <3>. QED  BY <2>2, <3>2, <3>5 DEF Sound, Writing
    <2>. QED  BY <2>4, <2>5
  <1>. QED  BY <1>2, <1>3, <1>4, WhoWrites

(* What a step of any request does not take back.                            *)
Grows ==
  /\ setup' = setup
  /\ config => config'
  /\ \A n \in Nodes : installed[n] \subseteq installed'[n]
  /\ \A p \in Products : inventory[p] = Lines(p) => inventory'[p] = Lines(p)

LEMMA StepGrows ==
  ASSUME TypeInv, OneWriter, NEW r \in Requests, Begin(r) \/ Work(r)
  PROVE  Grows
  <1>1. setup' = setup
    BY DEF Begin, Work, Read, FindInventory, CreateInventory, WriteLine, RunPlaybook, CheckKubernetes,
           RecordProduct, Save
  <1>2. (config => config') /\ \A n \in Nodes : installed[n] \subseteq installed'[n]
    <2>1. CASE config' = config /\ installed' = installed
      BY <2>1
    <2>2. CASE \E book, hosts : RanOn(book, hosts)
      BY <2>2 DEF RanOn
    <2>3. RunPlaybook(r) => \E book, hosts : RanOn(book, hosts)
      BY DEF RunPlaybook
    <2>4. RunPlaybook(r) \/ (config' = config /\ installed' = installed)
      BY DEF Begin, Work, Read, FindInventory, CreateInventory, WriteLine, CheckKubernetes, RecordProduct, Save
    <2>. QED  BY <2>1, <2>2, <2>3, <2>4
  <1>3. ASSUME NEW p \in Products, inventory[p] = Lines(p)  PROVE inventory'[p] = Lines(p)
    <2>0. inventory[p] # Missing /\ DOMAIN inventory = Products
      BY <1>3, LinesType DEF TypeInv
    <2>1. CASE Creates(r)
      <3>1. Step(r)[2] # p
        BY <2>0, <2>1 DEF Creates, OneWriter
      <3>. QED  BY <1>3, <2>0, <2>1, <3>1 DEF Creates
    <2>2. CASE \E line \in req[r].left : Adds(r, line)
      <3>1. PICK line \in req[r].left : Adds(r, line)
        BY <2>2
      <3>2. line \in Lines(Step(r)[2])
        BY <3>1 DEF Adds, TypeInv, RequestType
      <3>3. inventory'[p] = IF Step(r)[2] = p THEN inventory[p] \union {line} ELSE inventory[p]
        BY <2>0, <3>1 DEF Adds
      <3>. QED  BY <1>3, <3>2, <3>3
    <2>3. CASE inventory' = inventory
      BY <1>3, <2>3
    <2>. QED  BY <2>1, <2>2, <2>3, WhoWrites
  <1>. QED  BY <1>1, <1>2, <1>3 DEF Grows

LEMMA HasGrows ==
  ASSUME Grows
  PROVE  /\ \A n \in Nodes, some \in SUBSET Books : Has(n, some) => Has(n, some)'
         /\ \A some \in SUBSET Books : Everywhere(some) => Everywhere(some)'
  BY DEF Grows, Has, Everywhere

LEMMA DoneGrows ==
  ASSUME Grows
  PROVE  \A e : Done(e) => Done(e)'
  <1>. SUFFICES ASSUME NEW e, Done(e) PROVE Done(e)'
    OBVIOUS
  <1>1. e \in Writes => e[2] \in Products
    BY DEF Writes, Write
  <1>2. e \in Runs => Targets(e[2], Lines(e[3])) \subseteq Nodes
    BY NodesAssumption DEF Targets, Lines, OnAll
  <1>. QED  BY <1>1, <1>2 DEF Grows, Done

LEMMA NeedsStay ==
  ASSUME Grows  PROVE \A e : Needs(e)' = Needs(e)
  BY DEF Grows, Needs

LEMMA DeployedGrows ==
  ASSUME Grows, NEW p \in Products, Deployed(p)
  PROVE  Deployed(p)'
  BY HasGrows, NodesAssumption DEF Grows, Deployed, Products, Books

LEMMA TrueGrows ==
  ASSUME Grows, NEW marks, NEW s, True(marks, s)
  PROVE  True(marks, s)'
  <1>1. ElementsOf(s)' = ElementsOf(s)
    BY DEF ElementsOf
  <1>. QED  BY <1>1, HasGrows, NodesAssumption DEF Grows, True, Books, Cluster

LEMMA BeforeGrows ==
  ASSUME Grows, NEW r \in Requests, NEW ahead, Before(r, ahead)
  PROVE  Before(r, ahead)'
  <1>1. \A i \in 1..Len(Wanted[r]) : Wanted[r][i] \in Products
    BY WantedAssumption
  <1>2. \A i : Exempt(r, i)' = Exempt(r, i)
    BY DEF Exempt, IsChain
  <1>. QED  BY <1>1, <1>2, DeployedGrows DEF Before

LEMMA ProgressGrows ==
  ASSUME Grows, NEW r \in Requests, NEW s, ProgressAs(r, s)
  PROVE  ProgressAs(r, s)'
  <1>1. Provided(s.steps) => Provided(s.steps)'
    BY DoneGrows, NeedsStay DEF Provided
  <1>2. Steps(Head(s.list))' = Steps(Head(s.list))
    BY DEF Grows, Steps, Kubernetes, Registries
  <1>3. OnTheWay(Head(s.list), s.steps) => OnTheWay(Head(s.list), s.steps)'
    BY <1>2, DoneGrows DEF OnTheWay, ElementsOf
  <1>4. True(s.copy, s.steps) => True(s.copy, s.steps)'
    BY TrueGrows
  <1>5. /\ Before(r, ElementsOf(s.list)) => Before(r, ElementsOf(s.list))'
        /\ Before(r, {}) => Before(r, {})'
    BY BeforeGrows
  <1>. QED  BY <1>1, <1>3, <1>4, <1>5 DEF ProgressAs

-----------------------------------------------------------------------------
(* What a playbook that has run over a complete inventory leaves behind.      *)
LEMMA TargetsOf ==
  \A e \in Runs : Targets(e[2], Lines(e[3])) = IF e[2] \in OnAll \union {"kubeadm"} THEN Nodes ELSE {Master}
  <1>. SUFFICES ASSUME NEW e \in Runs
                PROVE  Targets(e[2], Lines(e[3])) = IF e[2] \in OnAll \union {"kubeadm"} THEN Nodes ELSE {Master}
    OBVIOUS
  <1>1. Lines(e[3]) \ {Groups} = Nodes
    BY LinesAssumption DEF Lines
  <1>2. CASE e[2] \in OnAll
    <2>1. Targets(e[2], Lines(e[3])) = Lines(e[3]) \ {Groups}
      BY <1>2 DEF Targets
    <2>. QED  BY <1>1, <1>2, <2>1
  <1>3. CASE e[2] \notin OnAll
    <2>1. e[3] \notin {"hosts", "docker"}
      BY <1>3 DEF Runs, Run, OnAll
    <2>2. Groups \in Lines(e[3])
      BY <2>1 DEF Lines
    <2>. QED  BY <1>1, <1>3, <2>2 DEF Targets
  <1>. QED  BY <1>2, <1>3

LEMMA DoneRun ==
  ASSUME NEW e \in Runs, Done(e)
  PROVE  /\ e[2] \in OnAll \union {"kubeadm"} => \A some : e[2] \in some => Everywhere(some)
         /\ \A some : e[2] \in some => Has(Master, some)
         /\ e[2] \in {"get_config", "k3s"} => config
  BY TargetsOf, NodesAssumption DEF Done, Everywhere, Has

LEMMA GoalsDeploy ==
  ASSUME NEW p \in Products, setup.kubeadm \in BOOLEAN, \A e \in Goals(p) : Done(e),
         setup.kubeadm => setup.docker, setup.docker => Everywhere({"docker"})
  PROVE  Deployed(p)
  <1>1. ASSUME NEW b, Run(b, p) \in Goals(p)
        PROVE  /\ b \in OnAll \union {"kubeadm"} => \A some : b \in some => Everywhere(some)
               /\ \A some : b \in some => Has(Master, some)
    <2>1. Run(b, p)[2] = b /\ Run(b, p) \in Runs
      BY <1>1 DEF Run, Goals
    <2>. QED  BY <1>1, <2>1, DoneRun
  <1>2. CASE p = "hosts"
    BY <1>1, <1>2 DEF Goals, Runs, Run, Deployed, OnAll
  <1>3. CASE p = "docker"
    BY <1>1, <1>3 DEF Goals, Runs, Run, Deployed, OnAll
  <1>4. CASE p = "kubernetes"
    <2>1. Everywhere({"docker"})
      <3>1. ASSUME ~setup.docker  PROVE Everywhere({"docker"})
        <4>1. Run("docker", "docker") \in Goals(p) /\ Run("docker", "docker")[2] = "docker"
          BY <1>4, <3>1 DEF Goals, Runs, Run
        <4>2. Run("docker", "docker") \in Runs
          BY DEF Runs
        <4>. QED  BY <4>1, <4>2, DoneRun DEF OnAll
      <3>. QED  BY <3>1
    <2>2. Everywhere({"kubernetes", "kubeadm"})
      <3>1. CASE setup.kubeadm
        BY <1>1, <1>4, <3>1 DEF Goals, Runs
      <3>2. CASE ~setup.kubeadm
        BY <1>1, <1>4, <3>2 DEF Goals, Runs, OnAll
      <3>. QED  BY <3>1, <3>2
    <2>. QED  BY <1>4, <2>1, <2>2 DEF Deployed
  <1>5. CASE p = "private_registries"
    <2>1. ASSUME setup.repos  PROVE Everywhere({"docker_repository"}) /\ Has(Master, {"secret"})
      <3>1. Run("docker_repository", p) \in Goals(p) /\ Run("secret", p) \in Goals(p)
        BY <1>5, <2>1 DEF Goals, Runs, Run
      <3>. QED  BY <1>1, <3>1 DEF OnAll
    <2>. QED  BY <1>5, <2>1 DEF Deployed
  <1>6. CASE p = "gluster-kubernetes"
    BY <1>1, <1>6 DEF Goals, Runs, Run, Deployed, OnAll
  <1>7. CASE p \in {"k3s", "helm", "fluentd"}
    <2>1. Run(p, p) \in Goals(p)
      BY <1>7 DEF Goals, Runs, Run
    <2>. QED  BY <1>1, <1>7, <2>1 DEF Deployed
  <1>. QED  BY <1>2, <1>3, <1>4, <1>5, <1>6, <1>7 DEF Products

(* A sequence without its first element.                                     *)
LEMMA WithoutFirst ==
  ASSUME NEW S, NEW s \in Seq(S), s # << >>
  PROVE  /\ Tail(s) \in Seq(S) /\ Len(s) \in Nat \ {0} /\ Len(Tail(s)) = Len(s) - 1 /\ Head(s) = s[1]
         /\ \A i \in 1..Len(s) - 1 : Tail(s)[i] = s[i + 1]
         /\ \A i \in 2..Len(s) : Tail(s)[i - 1] = s[i]
         /\ ElementsOf(s) = {Head(s)} \union ElementsOf(Tail(s))
         /\ Len(s) = 1 => ElementsOf(s) = {Head(s)}
  <1>1. Len(s) \in Nat \ {0} /\ Head(s) = s[1]
    BY EmptySeq, LenProperties
  <1>2. /\ Tail(s) \in Seq(S) /\ Len(Tail(s)) = Len(s) - 1
        /\ \A i \in 1..Len(s) - 1 : Tail(s)[i] = s[i + 1]
    BY HeadTailProperties
  <1>3. \A i \in 2..Len(s) : Tail(s)[i - 1] = s[i]
    <2>. SUFFICES ASSUME NEW i \in 2..Len(s) PROVE Tail(s)[i - 1] = s[i]
      OBVIOUS
    <2>1. i - 1 \in 1..Len(s) - 1 /\ (i - 1) + 1 = i
      BY <1>1
    <2>. QED  BY <1>2, <2>1
  <1>4. ElementsOf(s) = {Head(s)} \union ElementsOf(Tail(s))
    <2>1. ASSUME NEW x \in ElementsOf(s)  PROVE x = Head(s) \/ x \in ElementsOf(Tail(s))
      <3>1. PICK i \in 1..Len(s) : x = s[i]
        BY DEF ElementsOf
      <3>2. CASE i = 1
        BY <1>1, <3>1, <3>2
      <3>3. CASE i # 1
        <4>1. i \in 2..Len(s) /\ i - 1 \in 1..Len(Tail(s))
          BY <1>1, <1>2, <3>1, <3>3
        <4>. QED  BY <1>3, <3>1, <4>1 DEF ElementsOf
      <3>. QED  BY <3>2, <3>3
    <2>2. Head(s) \in ElementsOf(s)
      BY <1>1 DEF ElementsOf
    <2>3. ASSUME NEW x \in ElementsOf(Tail(s))  PROVE x \in ElementsOf(s)
      <3>1. PICK i \in 1..Len(Tail(s)) : x = Tail(s)[i]
        BY DEF ElementsOf
      <3>2. i \in 1..Len(s) - 1 /\ i + 1 \in 1..Len(s)
        BY <1>1, <1>2, <3>1
      <3>. QED  BY <1>2, <3>1, <3>2 DEF ElementsOf
    <2>. QED  BY <2>1, <2>2, <2>3
  <1>5. Len(s) = 1 => ElementsOf(s) = {Head(s)}
    BY <1>1 DEF ElementsOf
  <1>. QED  BY <1>1, <1>2, <1>3, <1>4, <1>5

(* A step is done: the steps after it find what they build on.                *)
LEMMA Advance ==
  ASSUME Grows, NEW s \in Seq(AllSteps), s # << >>, Provided(s), Done(Head(s))'
  PROVE  /\ Provided(Tail(s))'
         /\ \A p \in Products : OnTheWay(p, s) => OnTheWay(p, Tail(s))'
         /\ \A marks : True(marks, s) => True(marks, Tail(s))'
  <1>0. /\ Tail(s) \in Seq(AllSteps) /\ Len(s) \in Nat \ {0} /\ Len(Tail(s)) = Len(s) - 1 /\ Head(s) = s[1]
        /\ \A i \in 1..Len(s) - 1 : Tail(s)[i] = s[i + 1]
        /\ \A i \in 2..Len(s) : Tail(s)[i - 1] = s[i]
        /\ ElementsOf(s) = {Head(s)} \union ElementsOf(Tail(s))
    BY WithoutFirst
  <1>1. \A i \in 1..Len(Tail(s)) : \A e \in Needs(Tail(s)[i]) : Done(e)' \/ \E j \in 1..i-1 : Tail(s)[j] = e
    <2>. SUFFICES ASSUME NEW i \in 1..Len(Tail(s)), NEW e \in Needs(Tail(s)[i]), ~Done(e)'
                  PROVE  \E j \in 1..i-1 : Tail(s)[j] = e
      OBVIOUS
    <2>1. i + 1 \in 1..Len(s) /\ Tail(s)[i] = s[i + 1]
      BY <1>0
    <2>2. ~Done(e)
      BY DoneGrows
    <2>3. PICK j \in 1..(i + 1) - 1 : s[j] = e
      BY <2>1, <2>2 DEF Provided
    <2>4. j # 1
      BY <1>0, <2>3
    <2>5. j \in 2..Len(s) /\ j - 1 \in 1..i-1
      BY <1>0, <2>3, <2>4
    <2>. QED  BY <1>0, <2>3, <2>5
  <1>2. Provided(Tail(s))'
    BY <1>1, NeedsStay DEF Provided
  <1>3. ASSUME NEW p \in Products, OnTheWay(p, s)  PROVE OnTheWay(p, Tail(s))'
    <2>1. Steps(p)' = Steps(p)
      BY DEF Grows, Steps, Kubernetes, Registries
    <2>2. ElementsOf(Steps(p))' = ElementsOf(Steps(p)) /\ ElementsOf(Tail(s))' = ElementsOf(Tail(s))
      BY <2>1 DEF ElementsOf
    <2>3. \A e \in ElementsOf(Steps(p)) : Done(e)' \/ e \in ElementsOf(Tail(s))
      BY <1>0, <1>3, DoneGrows DEF OnTheWay
    <2>. QED  BY <1>0, <1>3, <2>2, <2>3 DEF OnTheWay
  <1>4. ASSUME NEW marks, True(marks, s)  PROVE True(marks, Tail(s))'
    <2>1. Has(Master, {"helm"}) => Has(Master, {"helm"})'
      BY HasGrows, NodesAssumption DEF Books
    <2>2. Head(s) = Run("helm", "helm") => Has(Master, {"helm"})'
      <3>1. Run("helm", "helm") \in Runs /\ Run("helm", "helm")[2] = "helm" /\ Run("helm", "helm")[3] = "helm"
        BY DEF Runs, Run
      <3>2. Targets("helm", Lines("helm")) = {Master}
        BY <3>1, TargetsOf DEF OnAll
      <3>3. (Targets("helm", Lines("helm")) = {Master})'
        BY <3>2
      <3>. QED  BY <3>1, <3>2 DEF Done, Has
    <2>3. ElementsOf(Tail(s))' = ElementsOf(Tail(s))
      BY DEF ElementsOf
    <2>. QED  BY <1>0, <1>4, <2>1, <2>2, <2>3, HasGrows, NodesAssumption DEF True, Grows, Books, Cluster
  <1>. QED  BY <1>2, <1>3, <1>4

(* The products of a chain go on when the one at hand is installed, or when it *)
(* is "hosts", whose error is dropped.                                      *)
LEMMA NextProductProgress ==
  ASSUME TypeInv, NEW r \in Requests, ~At(r, "idle"), ~Ended(r), Before(r, ElementsOf(req[r].list)),
         Deployed(Head(req[r].list)) \/ (IsChain(r) /\ Head(req[r].list) = "hosts")
  PROVE  ProgressAs(r, NextProduct(r))
  <1>. DEFINE list == req[r].list
  <1>1. list \in Seq(Products) /\ list # << >>
    BY NextStates DEF States
  <1>2. /\ ElementsOf(list) = {Head(list)} \union ElementsOf(Tail(list))
        /\ Len(list) = 1 => ElementsOf(list) = {Head(list)}
    BY <1>1, WithoutFirst
  <1>3. ASSUME NEW ahead, ElementsOf(list) \subseteq {Head(list)} \union ahead  PROVE Before(r, ahead)
    BY <1>3 DEF Before, Exempt
  <1>4. CASE Len(list) = 1
    <2>1. NextProduct(r).pc = "done"
      BY <1>4 DEF NextProduct, Idle
    <2>2. Before(r, {})
      BY <1>2, <1>3, <1>4
    <2>. QED  BY <2>1, <2>2 DEF ProgressAs, Busy
  <1>5. CASE Len(list) # 1
    <2>1. NextProduct(r).pc = "read" /\ NextProduct(r).list = Tail(list)
      BY <1>5 DEF NextProduct, Idle
    <2>2. Before(r, ElementsOf(Tail(list)))
      BY <1>2, <1>3
    <2>. QED  BY <2>1, <2>2 DEF ProgressAs, Busy
  <1>. QED  BY <1>4, <1>5

LEMMA AfterErrorProgress ==
  ASSUME TypeInv, NEW r \in Requests, ~At(r, "idle"), ~Ended(r), Progress(r)
  PROVE  ProgressAs(r, AfterError(r)) /\ Before(r, ElementsOf(req[r].list))
  <1>1. Before(r, ElementsOf(req[r].list))
    BY DEF Progress, ProgressAs, TypeInv, States, Pcs, Busy, At, Ended
  <1>2. CASE IsChain(r) /\ Head(req[r].list) = "hosts"
    BY <1>1, <1>2, NextProductProgress DEF AfterError
  <1>3. CASE ~(IsChain(r) /\ Head(req[r].list) = "hosts")
    <2>1. AfterError(r).pc = "failed"
      BY <1>3 DEF AfterError, Idle
    <2>. QED  BY <1>1, <2>1 DEF ProgressAs, Busy
  <1>. QED  BY <1>2, <1>3

(* What is recorded next in the copy of the document is true by then.         *)
LEMMA RecordTrue ==
  ASSUME TypeInv, NEW s \in Seq(AllSteps), s # << >>, Head(s) \in Records, NEW p \in Products,
         NEW copy, Provided(s), OnTheWay(p, s), True(copy, s)
  PROVE  True(Recorded(copy, Head(s)[2]), Tail(s))
  <1>0. /\ Len(s) \in Nat \ {0} /\ Head(s) = s[1] /\ ElementsOf(s) = {Head(s)} \union ElementsOf(Tail(s))
    BY WithoutFirst
  <1>1. True(copy, Tail(s))
    <2>1. Head(s) # Run("helm", "helm")
      BY DEF Records, Record, Run
    <2>. QED  BY <1>0, <2>1 DEF True
  <1>2. \A e \in Needs(Head(s)) : Done(e)
    BY <1>0 DEF Provided
  <1>3. CASE Head(s) = Record("kubernetes")
    <2>. DEFINE book == IF setup.kubeadm THEN "kubeadm" ELSE "kubernetes"
    <2>1. Done(Run("get_config", "kubernetes")) /\ Done(Run(book, "kubernetes"))
      BY <1>2, <1>3, NeedsOf
    <2>2. /\ Run("get_config", "kubernetes") \in Runs /\ Run("get_config", "kubernetes")[2] = "get_config"
          /\ Run(book, "kubernetes") \in Runs /\ Run(book, "kubernetes")[2] = book
          /\ book \in {"kubernetes", "kubeadm"}
      BY DEF Runs, Run
    <2>. HIDE DEF book
    <2>3. config /\ Everywhere({"kubernetes", "kubeadm"}) /\ Has(Master, Cluster)
      BY <2>1, <2>2, DoneRun DEF OnAll, Cluster
    <2>4. Recorded(copy, "kubernetes") = (copy \ {"secret"}) \union {"kubernetes", "managed"}
      BY DEF Recorded
    <2>5. Head(s)[2] = "kubernetes"
      BY <1>3 DEF Record
    <2>. QED  BY <1>1, <2>3, <2>4, <2>5 DEF True
  <1>4. CASE Head(s) = Record("k3s")
    <2>1. Done(Run("k3s", "k3s"))
      BY <1>2, <1>4, NeedsOf
    <2>2. Run("k3s", "k3s") \in Runs /\ Run("k3s", "k3s")[2] = "k3s"
      BY DEF Runs, Run
    <2>3. config /\ Has(Master, Cluster)
      BY <2>1, <2>2, DoneRun DEF Cluster
    <2>4. Recorded(copy, "k3s") = (copy \ {"secret", "managed"}) \union {"kubernetes"}
      BY DEF Recorded
    <2>5. Head(s)[2] = "k3s"
      BY <1>4 DEF Record
    <2>. QED  BY <1>1, <2>3, <2>4, <2>5 DEF True
  <1>5. CASE Head(s) = Record("secret")
    <2>1. setup.repos => Has(Master, {"secret"})
      <3>1. Run("secret", "private_registries") \in Runs /\ Run("secret", "private_registries")[2] = "secret"
        BY DEF Runs, Run
      <3>2. setup.repos => Done(Run("secret", "private_registries"))
        BY <1>2, <1>5, NeedsOf
      <3>. QED  BY <3>1, <3>2, DoneRun
    <2>2. Recorded(copy, "secret") = copy \union {"secret"}
      BY DEF Recorded
    <2>3. Head(s)[2] = "secret"
      BY <1>5 DEF Record
    <2>. QED  BY <1>1, <2>1, <2>2, <2>3 DEF True
  <1>6. CASE Head(s) = Record("helm")
    <2>1. p = "helm"
      BY <1>0, <1>6, StepsSupplied DEF OnTheWay, TypeInv
    <2>2. Run("helm", "helm") \in Goals(p) /\ Run("helm", "helm")[2] = "helm" /\ Run("helm", "helm") \in Runs
      BY <2>1 DEF Goals, Runs, Run
    <2>3. Done(Run("helm", "helm")) \/ Run("helm", "helm") \in ElementsOf(s)
      BY <2>2, StepsSupplied DEF OnTheWay, TypeInv
    <2>4. Has(Master, {"helm"}) \/ Run("helm", "helm") \in ElementsOf(Tail(s))
      <3>1. Run("helm", "helm") # Head(s)
        BY <1>6 DEF Run, Record
      <3>. QED  BY <1>0, <2>2, <2>3, <3>1, DoneRun
    <2>5. Recorded(copy, "helm") = copy \union {"helm"}
      BY DEF Recorded
    <2>6. Head(s)[2] = "helm"
      BY <1>6 DEF Record
    <2>. QED  BY <1>1, <2>4, <2>5, <2>6 DEF True
  <1>. QED  BY <1>3, <1>4, <1>5, <1>6 DEF Records

(* A step of a request is done, and the request goes on to the next.          *)
LEMMA NextStepProgress ==
  ASSUME TypeInv, NEW r \in Requests, At(r, "work") \/ At(r, "lines"), req[r].steps # << >>, Progress(r), Grows,
         NEW e, e = Step(r), Done(e)', NEW s, s.pc = "work", s.list = req[r].list, s.steps = Tail(req[r].steps),
         s.copy = req[r].copy
  PROVE  ProgressAs(r, s)'
  <1>1. PICK steps : steps = req[r].steps
    OBVIOUS
  <1>2. PICK copy : copy = req[r].copy
    OBVIOUS
  <1>3. /\ steps \in Seq(AllSteps) /\ steps # << >> /\ Head(steps) = e /\ Head(s.list) \in Products
    BY <1>1, NextStates DEF States, Step, At, Ended
  <1>4. /\ Provided(steps) /\ OnTheWay(Head(s.list), steps) /\ True(copy, steps)
        /\ Before(r, ElementsOf(s.list))
    BY <1>1, <1>2 DEF Progress, ProgressAs, Busy, At
  <1>5. Done(Head(steps))'
    BY <1>3
  <1>6. Provided(Tail(steps))' /\ OnTheWay(Head(s.list), Tail(steps))' /\ True(copy, Tail(steps))'
    BY <1>3, <1>4, <1>5, Advance
  <1>7. Before(r, ElementsOf(s.list))'
    BY <1>4, BeforeGrows
  <1>. QED  BY <1>1, <1>2, <1>6, <1>7 DEF ProgressAs, Busy

LEMMA StepProgress ==
  ASSUME TypeInv, OneAtATime, OneWriter, OneRequestAtATime, Sound, Fulfilled,
         NEW r \in Requests, Begin(r) \/ Work(r)
  PROVE  Progress(r)'
  <1>0. /\ Grows /\ Progress(r) /\ req[r] \in States /\ RequestType(r) /\ FilesType
        /\ \A s : Becomes(r, s) => req'[r] = s
    BY StepGrows DEF Fulfilled, TypeInv, Becomes, FilesType
  <1>1. ASSUME NEW s, req'[r] = s, ProgressAs(r, s)  PROVE Progress(r)'
    <2>1. ProgressAs(r, s)'
      BY <1>0, <1>1, ProgressGrows
    <2>. QED  BY <1>1, <2>1 DEF Progress, ProgressAs
  <1>2. ASSUME ~At(r, "idle"), ~Ended(r), Becomes(r, AfterError(r))  PROVE Progress(r)'
    <2>1. PICK s : s = AfterError(r)
      OBVIOUS
    <2>. QED  BY <1>0, <1>1, <1>2, <2>1, AfterErrorProgress
  <1>3. ASSUME At(r, "work"), req[r].steps # << >>, NEW e, e = Step(r), Done(e)', Becomes(r, NextStep(r))
        PROVE  Progress(r)'
    <2>1. PICK s : s = NextStep(r)
      OBVIOUS
    <2>2. /\ s.pc = "work" /\ s.list = req[r].list /\ s.steps = Tail(req[r].steps)
          /\ s.copy = req[r].copy
      BY <1>3, <2>1, NextStates DEF At, Ended
    <2>3. ProgressAs(r, s)'
      BY <1>0, <1>3, <2>2, NextStepProgress
    <2>4. req'[r] = s
      BY <1>0, <1>3, <2>1
    <2>. QED  BY <2>3, <2>4 DEF Progress, ProgressAs
  <1>4. CASE Begin(r)
    <2>1. PICK s : s = [Idle EXCEPT !.pc = "read", !.list = Wanted[r]]
      OBVIOUS
    <2>2. s.pc = "read" /\ s.list = Wanted[r]
      BY <2>1 DEF Idle
    <2>3. Before(r, ElementsOf(s.list))
      BY <2>2 DEF Before, ElementsOf
    <2>4. ProgressAs(r, s)
      BY <2>2, <2>3 DEF ProgressAs, Busy
    <2>. QED  BY <1>0, <1>1, <1>4, <2>1, <2>4 DEF Begin
  <1>5. CASE Read(r)
    <2>1. ~At(r, "idle") /\ ~Ended(r) /\ At(r, "read")
      BY <1>5 DEF Read, At, Ended
    <2>2. CASE Becomes(r, [req[r] EXCEPT !.pc = "work", !.copy = doc, !.steps = Steps(Head(req[r].list))])
      <3>1. PICK s : s = [req[r] EXCEPT !.pc = "work", !.copy = doc, !.steps = Steps(Head(req[r].list))]
        OBVIOUS
      <3>2. /\ s.pc = "work" /\ s.copy = doc /\ s.list = req[r].list /\ s.steps = Steps(Head(s.list))
            /\ Head(s.list) \in Products
        BY <1>0, <2>1, <3>1, NextStates DEF States
      <3>3. Supplied(s.steps, {})
        BY <3>2, StepsSupplied DEF TypeInv
      <3>4. Provided(s.steps)
        BY <3>3 DEF Supplied, Provided
      <3>5. OnTheWay(Head(s.list), s.steps)
        BY <3>2 DEF OnTheWay
      <3>6. True(s.copy, s.steps)
        <4>1. Run("helm", "helm") \notin ElementsOf(<< >>)
          BY DEF ElementsOf
        <4>. QED  BY <3>2, <4>1 DEF Fulfilled, True
      <3>7. Before(r, ElementsOf(s.list))
        BY <1>0, <2>1, <3>2 DEF Progress, ProgressAs, At
      <3>8. ProgressAs(r, s)
        BY <3>2, <3>4, <3>5, <3>6, <3>7 DEF ProgressAs
      <3>. QED  BY <1>0, <1>1, <2>2, <3>1, <3>8
    <2>. QED  BY <1>2, <1>5, <2>1, <2>2 DEF Read
  <1>6. CASE FindInventory(r)
    <2>1. /\ At(r, "work") /\ req[r].steps # << >> /\ Step(r) \in Writes /\ inventory' = inventory
          /\ ~At(r, "idle") /\ ~Ended(r)
      BY <1>6, NextStates, StepKinds DEF FindInventory, Doing, At, Ended
    <2>2. PICK e : e = Step(r)
      OBVIOUS
    <2>3. e \in Writes /\ e[2] \in Products /\ e \notin Runs
      BY <2>1, <2>2, StepKinds DEF Writes, Write
    <2>4. CASE inventory[e[2]] # Missing
      <3>1. ~\E q \in Requests : Writing(q, e[2])
        <4>1. \A q \in Requests : ~At(q, "lines")
          BY <2>1, OnlyOne DEF Others, At
        <4>. QED  BY <4>1 DEF Writing
      <3>2. inventory[e[2]] = Lines(e[2])
        BY <2>3, <2>4, <3>1 DEF Sound
      <3>3. Done(e)'
        BY <2>1, <2>3, <3>2 DEF Done
      <3>4. Becomes(r, NextStep(r))
        BY <1>6, <2>2, <2>4 DEF FindInventory
      <3>. QED  BY <1>3, <2>1, <2>2, <3>3, <3>4
    <2>5. CASE inventory[e[2]] = Missing
      <3>1. PICK s : s = [req[r] EXCEPT !.pc = "create"]
        OBVIOUS
      <3>2. s.pc = "create" /\ s.list = req[r].list /\ s.steps = req[r].steps /\ s.copy = req[r].copy
        BY <1>0, <3>1 DEF States
      <3>3. ProgressAs(r, s)
        BY <1>0, <2>1, <3>2 DEF Progress, ProgressAs, Busy, At
      <3>4. Becomes(r, s)
        BY <1>6, <2>2, <2>5, <3>1 DEF FindInventory
      <3>. QED  BY <1>0, <1>1, <3>3, <3>4
    <2>. QED  BY <2>4, <2>5
  <1>7. CASE CreateInventory(r)
    <2>1. At(r, "create") /\ ~At(r, "idle") /\ ~Ended(r)
      BY <1>7 DEF CreateInventory, At, Ended
    <2>2. CASE Becomes(r, [req[r] EXCEPT !.pc = "lines", !.left = Lines(Step(r)[2])])
      <3>1. PICK s : s = [req[r] EXCEPT !.pc = "lines", !.left = Lines(Step(r)[2])]
        OBVIOUS
      <3>2. s.pc = "lines" /\ s.list = req[r].list /\ s.steps = req[r].steps /\ s.copy = req[r].copy
        BY <1>0, <3>1 DEF States
      <3>3. ProgressAs(r, s)
        BY <1>0, <2>1, <3>2 DEF Progress, ProgressAs, Busy, At
      <3>. QED  BY <1>0, <1>1, <2>2, <3>1, <3>3
    <2>. QED  BY <1>2, <1>7, <2>1, <2>2 DEF CreateInventory
  <1>8. CASE WriteLine(r)
    <2>1. At(r, "lines") /\ ~At(r, "idle") /\ ~Ended(r)
      BY <1>8 DEF WriteLine, At, Ended
    <2>2. PICK e : e = Step(r)
      OBVIOUS
    <2>3. /\ req[r].steps # << >> /\ e \in Writes /\ e[2] \in Products /\ e \notin Runs
          /\ req[r].left \subseteq Lines(e[2]) /\ inventory[e[2]] # Missing
      <3>1. /\ req[r].steps # << >> /\ e \in Writes
            /\ req[r].left \subseteq Lines(e[2]) /\ inventory[e[2]] # Missing
        BY <1>0, <2>1, <2>2 DEF RequestType, At
      <3>2. PICK p \in Products : e = Write(p)
        BY <3>1 DEF Writes
      <3>. QED  BY <3>1, <3>2, StepKinds DEF Write
    <2>4. ASSUME NEW line \in req[r].left, inventory' = [inventory EXCEPT ![e[2]] = @ \union {line}],
                 req[r].left = {line}, Becomes(r, [NextStep(r) EXCEPT !.left = {}])
          PROVE  Progress(r)'
      <3>1. inventory[e[2]] \union {line} = Lines(e[2])
        <4>1. inventory[e[2]] = Lines(e[2]) \/ inventory[e[2]] \union req[r].left = Lines(e[2])
          <5>1. ASSUME NEW q \in Requests, Writing(q, e[2])  PROVE q = r
            <6>1. At(q, "lines")
              BY <5>1 DEF Writing
            <6>. QED  BY <6>1, OnlyOne DEF Others, At
          <5>. QED  BY <2>3, <5>1 DEF Sound, Writing
        <4>. QED  BY <2>3, <2>4, <4>1
      <3>2. Done(e)'
        BY <1>0, <2>3, <2>4, <3>1 DEF Done, FilesType
      <3>3. PICK s : s = [NextStep(r) EXCEPT !.left = {}]
        OBVIOUS
      <3>4. /\ s.pc = "work" /\ s.list = req[r].list /\ s.steps = Tail(req[r].steps)
            /\ s.copy = req[r].copy
        BY <2>1, <2>3, <3>3, NextStates DEF States
      <3>5. ProgressAs(r, s)'
        BY <1>0, <2>1, <2>2, <2>3, <3>2, <3>4, NextStepProgress
      <3>6. req'[r] = s
        BY <1>0, <2>4, <3>3
      <3>. QED  BY <3>5, <3>6 DEF Progress, ProgressAs
    <2>5. ASSUME NEW line \in req[r].left, Becomes(r, [req[r] EXCEPT !.left = @ \ {line}])
          PROVE  Progress(r)'
      <3>1. PICK s : s = [req[r] EXCEPT !.left = @ \ {line}]
        OBVIOUS
      <3>2. s.pc = "lines" /\ s.list = req[r].list /\ s.steps = req[r].steps /\ s.copy = req[r].copy
        BY <1>0, <2>1, <3>1 DEF States, At
      <3>3. ProgressAs(r, s)
        BY <1>0, <2>1, <3>2 DEF Progress, ProgressAs, Busy, At
      <3>. QED  BY <1>0, <1>1, <2>5, <3>1, <3>3
    <2>6. \/ \E line \in req[r].left : /\ inventory' = [inventory EXCEPT ![e[2]] = @ \union {line}]
                                       /\ req[r].left = {line} /\ Becomes(r, [NextStep(r) EXCEPT !.left = {}])
          \/ \E line \in req[r].left : Becomes(r, [req[r] EXCEPT !.left = @ \ {line}])
          \/ Becomes(r, AfterError(r))
      BY <1>8, <2>2 DEF WriteLine
    <2>. QED  BY <1>2, <2>1, <2>4, <2>5, <2>6
  <1>9. CASE RunPlaybook(r)
    <2>1. /\ At(r, "work") /\ req[r].steps # << >> /\ Step(r) \in Runs /\ ~At(r, "idle") /\ ~Ended(r)
      BY <1>9, NextStates, StepKinds DEF RunPlaybook, Doing, At, Ended
    <2>2. PICK e : e = Step(r)
      OBVIOUS
    <2>3. CASE RanOn(e[2], Targets(e[2], inventory[e[3]])) /\ Becomes(r, NextStep(r))
      <3>1. inventory[e[3]] = Lines(e[3])
        <4>1. Provided(req[r].steps) /\ e = req[r].steps[1] /\ Len(req[r].steps) \in Nat \ {0}
          BY <1>0, <2>1, <2>2, WithoutFirst DEF Progress, ProgressAs, Busy, At, Step, States
        <4>2. Done(Write(e[3]))
          BY <2>1, <2>2, <4>1, NeedsOf DEF Provided
        <4>3. Write(e[3]) \in Writes /\ Write(e[3])[2] = e[3]
          BY <2>1, <2>2, StepKinds DEF Write, Writes
        <4>. QED  BY <4>2, <4>3 DEF Done
      <3>2. /\ Targets(e[2], Lines(e[3])) \subseteq Nodes
            /\ e[2] \in {"get_config", "k3s"} => Targets(e[2], Lines(e[3])) = {Master}
        BY <2>1, <2>2, TargetsOf, NodesAssumption DEF OnAll
      <3>3. e \notin Writes
        BY <2>1, <2>2, StepKinds
      <3>4. Done(e)'
        <4>1. \A n \in Targets(e[2], Lines(e[3])) : e[2] \in installed'[n]
          BY <2>3, <3>1, <3>2 DEF RanOn
        <4>2. e[2] \in {"get_config", "k3s"} => config'
          BY <2>3, <3>1, <3>2 DEF RanOn
        <4>3. Targets(e[2], Lines(e[3]))' = Targets(e[2], Lines(e[3]))
          BY DEF Targets, Lines
        <4>. QED  BY <3>3, <4>1, <4>2, <4>3 DEF Done
      <3>. QED  BY <1>3, <2>1, <2>2, <2>3, <3>4
    <2>4. \/ RanOn(e[2], Targets(e[2], inventory[e[3]])) /\ Becomes(r, NextStep(r))
          \/ Becomes(r, AfterError(r))
      BY <1>9, <2>2 DEF RunPlaybook
    <2>. QED  BY <1>2, <2>1, <2>3, <2>4
  <1>10. CASE CheckKubernetes(r)
    <2>1. /\ At(r, "work") /\ req[r].steps # << >> /\ Step(r) = Check /\ ~At(r, "idle") /\ ~Ended(r)
      BY <1>10, NextStates, StepKinds DEF CheckKubernetes, Doing, At, Ended
    <2>2. PICK e : e = Step(r)
      OBVIOUS
    <2>3. Done(e)'
      BY <2>1, <2>2, StepKinds DEF Done
    <2>4. Becomes(r, NextStep(r)) \/ Becomes(r, AfterError(r))
      BY <1>10 DEF CheckKubernetes
    <2>. QED  BY <1>2, <1>3, <2>1, <2>2, <2>3, <2>4
  <1>11. CASE RecordProduct(r)
    <2>1. /\ At(r, "work") /\ req[r].steps # << >> /\ Step(r) \in Records /\ ~At(r, "idle") /\ ~Ended(r)
      BY <1>11, NextStates, StepKinds DEF RecordProduct, Doing, At, Ended
    <2>2. PICK e : e = Step(r)
      OBVIOUS
    <2>3. PICK copy : copy = Recorded(req[r].copy, e[2])
      OBVIOUS
    <2>4. Done(e)'
      BY <2>1, <2>2, StepKinds DEF Done
    <2>5. PICK t : t = NextStep(r)
      OBVIOUS
    <2>6. /\ t.pc = "work" /\ t.list = req[r].list /\ t.steps = Tail(req[r].steps)
          /\ t.copy = req[r].copy /\ t \in States /\ Head(t.list) \in Products
      BY <2>1, <2>5, NextStates
    <2>7. ProgressAs(r, t)'
      BY <1>0, <2>1, <2>2, <2>4, <2>6, NextStepProgress
    <2>8. True(copy, t.steps)'
      <3>1. req[r].steps \in Seq(AllSteps) /\ Head(req[r].steps) = e
        BY <1>0, <2>2 DEF States, Step
      <3>2. Provided(req[r].steps) /\ OnTheWay(Head(t.list), req[r].steps) /\ True(req[r].copy, req[r].steps)
        BY <1>0, <2>1, <2>6 DEF Progress, ProgressAs, Busy, At
      <3>3. True(copy, t.steps)
        BY <2>1, <2>2, <2>3, <2>6, <3>1, <3>2, RecordTrue
      <3>. QED  BY <1>0, <3>3, TrueGrows
    <2>9. req'[r] = [t EXCEPT !.copy = copy]
      BY <1>0, <1>11, <2>2, <2>3, <2>5, <2>6 DEF RecordProduct
    <2>10. /\ req'[r].pc = t.pc /\ req'[r].list = t.list /\ req'[r].steps = t.steps /\ req'[r].copy = copy
      BY <2>6, <2>9 DEF States
    <2>. QED  BY <2>6, <2>7, <2>8, <2>10 DEF Progress, ProgressAs
  <1>12. CASE Save(r)
    <2>1. At(r, "work") /\ ~At(r, "idle") /\ ~Ended(r) /\ req[r].steps = << >>
      BY <1>12 DEF Save, At, Ended
    <2>2. CASE Becomes(r, NextProduct(r))
      <3>1. PICK s : s = NextProduct(r)
        OBVIOUS
      <3>2. PICK p \in Products : p = Head(req[r].list)
        BY <2>1, NextStates
      <3>3. \A e \in Goals(p) : Done(e)
        <4>1. OnTheWay(p, << >>)
          BY <1>0, <2>1, <3>2 DEF Progress, ProgressAs, Busy, At
        <4>2. ElementsOf(<< >>) = {}
          BY DEF ElementsOf
        <4>. QED  BY <4>1, <4>2, StepsSupplied DEF OnTheWay, TypeInv
      <3>4. Deployed(Head(req[r].list))
        BY <3>2, <3>3, GoalsDeploy DEF Fulfilled, TypeInv
      <3>5. ProgressAs(r, s)
        BY <1>0, <2>1, <3>1, <3>4, AfterErrorProgress, NextProductProgress
      <3>. QED  BY <1>0, <1>1, <2>2, <3>1, <3>5
    <2>. QED  BY <1>2, <1>12, <2>1, <2>2 DEF Save
  <1>. QED  BY <1>4, <1>5, <1>6, <1>7, <1>8, <1>9, <1>10, <1>11, <1>12 DEF Work

(* What holds of requests that come one after the other, beside the types: as  *)
(* long as no inventory was left without some of its lines, each step to come *)
(* of the request in flight finds what it builds on, its copy of the document *)
(* and the document itself are true, and the products before the one at hand  *)
(* are installed.                                                           *)
THEOREM SerialInvariant == ASSUME OneRequestAtATime PROVE Spec => []SerialInv
  <1>1. Init => SerialInv
    <2>. SUFFICES ASSUME Init PROVE SerialInv
      OBVIOUS
    <2>1. TypeInv
      BY InitType
    <2>2. \A r \in Requests : req[r].pc = "idle"
      BY DEF Init, Idle
    <2>3. OneAtATime /\ OneWriter
      BY <2>2 DEF OneAtATime, OneWriter, InFlight, At
    <2>4. True(doc, << >>)
      BY DEF Init, True
    <2>5. \A r \in Requests : Progress(r)
      BY <2>2 DEF Progress, ProgressAs, Busy
    <2>6. (setup.kubeadm => setup.docker) /\ (setup.docker => Everywhere({"docker"}))
      BY DEF Init, Everywhere, Has
    <2>. QED  BY <2>1, <2>3, <2>4, <2>5, <2>6 DEF SerialInv, Fulfilled
  <1>2. SerialInv /\ [Next]_vars => SerialInv'
    <2>. SUFFICES ASSUME SerialInv, [Next]_vars PROVE SerialInv'
      OBVIOUS
    <2>. USE DEF SerialInv
    <2>1. ASSUME NEW r \in Requests, Begin(r) \/ Work(r)  PROVE SerialInv'
      <3>1. TypeInv' /\ OneAtATime' /\ OneWriter' /\ Grows /\ Others(r)
        BY <2>1, StepKeepsType, StaysOne, StepGrows, OnlyOne
      <3>2. ASSUME Sound'  PROVE Fulfilled'
        <4>1. Sound /\ Fulfilled
          BY <2>1, <3>1, <3>2, SoundBefore
        <4>2. ASSUME NEW q \in Requests \ {r}  PROVE Progress(q)'
          <5>1. PICK s : s = req[q]
            OBVIOUS
          <5>2. ProgressAs(q, s)'
            BY <3>1, <4>1, <5>1, ProgressGrows DEF Fulfilled, Progress, ProgressAs
          <5>3. req'[q] = s
            BY <3>1, <5>1 DEF Others
          <5>. QED  BY <5>2, <5>3 DEF Progress, ProgressAs
        <4>3. Progress(r)'
          BY <2>1, <4>1, StepProgress
        <4>4. True(doc, << >>)'
          <5>1. PICK d : d = doc'
            OBVIOUS
          <5>2. True(d, << >>)
            <6>1. doc' = doc \/ (Save(r) /\ doc' = req[r].copy)
              BY <2>1 DEF Begin, Work, Read, FindInventory, CreateInventory, WriteLine, RunPlaybook,
                     CheckKubernetes, RecordProduct, Save
            <6>2. Save(r) => True(req[r].copy, << >>)
              BY <4>1 DEF Save, At, Fulfilled, Progress, ProgressAs, Busy
            <6>. QED  BY <4>1, <5>1, <6>1, <6>2 DEF Fulfilled
          <5>3. True(d, << >>)'
            BY <3>1, <5>2, TrueGrows
          <5>. QED  BY <5>1, <5>3 DEF True
        <4>5. (setup.kubeadm => setup.docker)' /\ (setup.docker => Everywhere({"docker"}))'
          BY <3>1, <4>1, HasGrows DEF Fulfilled, Grows, Books
        <4>. QED  BY <4>2, <4>3, <4>4, <4>5 DEF Fulfilled
      <3>. QED  BY <3>1, <3>2
    <2>2. CASE UNCHANGED vars
      <3>1. TypeInv' /\ OneAtATime' /\ OneWriter'
        BY <2>2 DEF vars, TypeInv, RequestType, At, Ended, Step, OneAtATime, OneWriter, InFlight
      <3>2. Sound' => Sound
        BY <2>2 DEF vars, Sound, Writing, At, Step
      <3>3. Grows
        BY <2>2 DEF vars, Grows
      <3>4. ASSUME Fulfilled  PROVE Fulfilled'
        <4>1. ASSUME NEW q \in Requests  PROVE Progress(q)'
          <5>1. PICK s : s = req[q]
            OBVIOUS
          <5>2. ProgressAs(q, s)'
            BY <3>3, <3>4, <5>1, ProgressGrows DEF Fulfilled, Progress, ProgressAs
          <5>3. req'[q] = s
            BY <2>2, <5>1 DEF vars
          <5>. QED  BY <5>2, <5>3 DEF Progress, ProgressAs
        <4>2. True(doc, << >>)'
          <5>1. PICK d : d = doc
            OBVIOUS
          <5>2. True(d, << >>)'
            BY <3>3, <3>4, <5>1, TrueGrows DEF Fulfilled
          <5>. QED  BY <2>2, <5>1, <5>2 DEF True, vars
        <4>3. (setup.kubeadm => setup.docker)' /\ (setup.docker => Everywhere({"docker"}))'
          BY <3>3, <3>4, HasGrows DEF Fulfilled, Grows, Books
        <4>. QED  BY <4>1, <4>2, <4>3 DEF Fulfilled
      <3>. QED  BY <3>1, <3>2, <3>4
    <2>. QED  BY <2>1, <2>2 DEF Next
  <1>. QED  BY <1>1, <1>2, PTL DEF Spec

LEMMA WholeIsSound == Whole => Sound
  BY DEF Whole, Sound

(* For any machines, chains and faults, with one request in flight: the        *)
(* products of a request that was answered "done" are on the machines they    *)
(* are for, unless a full disk left an inventory without some of its lines.   *)
THEOREM DoneMeansDeployed == ASSUME OneRequestAtATime PROVE Spec => []DoneIsDeployed
  <1>1. SerialInv => DoneIsDeployed
    <2>. SUFFICES ASSUME SerialInv, Whole, NEW r \in Requests, At(r, "done"), NEW i \in 1..Len(Wanted[r]),
                         ~(IsChain(r) /\ Wanted[r][i] = "hosts")
                  PROVE  Deployed(Wanted[r][i])
      BY DEF DoneIsDeployed
    <2>1. Before(r, {})
      BY WholeIsSound DEF SerialInv, Fulfilled, Progress, ProgressAs, At
    <2>. QED  BY <2>1 DEF Before, Exempt
  <1>. QED  BY <1>1, SerialInvariant, PTL

(* The same for the stored document: the configuration file, the cluster, the  *)
(* secret and helm that it records are there.                                *)
THEOREM RecordedMeansThere == ASSUME OneRequestAtATime PROVE Spec => []RecordedIsThere
  <1>1. SerialInv => RecordedIsThere
    <2>. SUFFICES ASSUME SerialInv, Whole PROVE RecordedIsThere
      BY DEF RecordedIsThere
    <2>1. True(doc, << >>)
      BY WholeIsSound DEF SerialInv, Fulfilled
    <2>2. ElementsOf(<< >>) = {}
      BY DEF ElementsOf
    <2>. QED  BY <2>1, <2>2 DEF True, RecordedIsThere
  <1>. QED  BY <1>1, SerialInvariant, PTL
=============================================================================
