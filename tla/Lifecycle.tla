----------------------------- MODULE Lifecycle ------------------------------
(***************************************************************************)
(* What the engine promises about infrastructures, their machines and the   *)
(* answers of the requests, whatever goroutines, providers and repositories *)
(* do below. Deployments implements it.                                     *)
(***************************************************************************)
EXTENDS FiniteSets

CONSTANTS
  Infras,     \* the infrastructures of all requests
  Creations,  \* requests that create infrastructures
  InfrasOf,   \* the infrastructures of a creation
  Deletions,  \* requests that delete an infrastructure
  Target      \* the infrastructure a deletion is for

VARIABLES
  life,      \* unknown, pending, failed, listed, deleting or unlisted
  machines,  \* of each infrastructure: "some" when a machine or a drive of it
             \* is there, "all" when nothing is missing
  told,      \* the answer to each creation
  ended      \* the answer to each deletion

vars == <<life, machines, told, ended>>

Init ==
  /\ life = [i \in Infras |-> "unknown"]
  /\ machines \in [Infras -> SUBSET {"all"}]
  /\ told = [c \in Creations |-> "idle"]
  /\ ended = [w \in Deletions |-> "idle"]

Ask(c) ==
  /\ told[c] = "idle"
  /\ told' = [told EXCEPT ![c] = "open"]
  /\ life' = [i \in Infras |-> IF i \in InfrasOf[c] THEN "pending" ELSE life[i]]
  /\ UNCHANGED <<machines, ended>>

(* Machines come and go while an infrastructure is created.                 *)
Build(i) ==
  /\ life[i] = "pending"
  /\ \E m \in SUBSET {"some", "all"} : machines' = [machines EXCEPT ![i] = m]
  /\ UNCHANGED <<life, told, ended>>

(* Only a complete infrastructure is listed; the list may miss it.           *)
Succeed(i) ==
  /\ life[i] = "pending" /\ "all" \in machines[i]
  /\ \E l \in {"listed", "unlisted"} : life' = [life EXCEPT ![i] = l]
  /\ UNCHANGED <<machines, told, ended>>

GiveUp(i) ==
  /\ life[i] = "pending"
  /\ life' = [life EXCEPT ![i] = "failed"]
  /\ UNCHANGED <<machines, told, ended>>

(* A creation is done when all of its infrastructures exist or did; it is    *)
(* undone when nothing is left of those that came to exist.                 *)
Existed(i) == life[i] \in {"listed", "deleting", "unlisted"}
Gone(i)    == life[i] = "unlisted" /\ "some" \notin machines[i]

Tell(c) ==
  /\ told[c] = "open"
  /\ \A i \in InfrasOf[c] : life[i] # "pending"
  /\ \/ (\A i \in InfrasOf[c] : Existed(i)) /\ told' = [told EXCEPT ![c] = "done"]
     \/ /\ \E i \in InfrasOf[c] : life[i] = "failed"
        /\ \/ told' = [told EXCEPT ![c] = "failed"]
           \/ /\ \A i \in InfrasOf[c] : life[i] = "failed" \/ Gone(i)
              /\ told' = [told EXCEPT ![c] = "undone"]
  /\ UNCHANGED <<life, machines, ended>>

(* The machines of a listed infrastructure stay until its deletion is asked   *)
(* for.                                                                     *)
StartDelete(w) ==
  LET i == Target[w] IN
    /\ ended[w] = "idle" /\ Existed(i)
    /\ life' = [life EXCEPT ![i] = IF @ = "listed" THEN "deleting" ELSE @]
    /\ \E e \in {"open", "failed"} : ended' = [ended EXCEPT ![w] = e]
    /\ UNCHANGED <<machines, told>>

(* From then on they only go away.                                         *)
Shrink(i) ==
  /\ life[i] = "deleting"
  /\ \E m \in SUBSET machines[i] : machines' = [machines EXCEPT ![i] = m]
  /\ UNCHANGED <<life, told, ended>>

(* It leaves the list when none is left.                                    *)
Unlist(w) ==
  LET i == Target[w] IN
    /\ ended[w] = "open" /\ life[i] = "deleting" /\ "some" \notin machines[i]
    /\ life' = [life EXCEPT ![i] = "unlisted"]
    /\ \E e \in {"done", "failed"} : ended' = [ended EXCEPT ![w] = e]
    /\ UNCHANGED <<machines, told>>

FailDelete(w) ==
  /\ ended[w] = "open"
  /\ ended' = [ended EXCEPT ![w] = "failed"]
  /\ UNCHANGED <<life, machines, told>>

Next ==
  \/ \E c \in Creations : Ask(c) \/ Tell(c)
  \/ \E i \in Infras : Build(i) \/ Succeed(i) \/ GiveUp(i) \/ Shrink(i)
  \/ \E w \in Deletions : StartDelete(w) \/ Unlist(w) \/ FailDelete(w)

Spec == Init /\ [][Next]_vars
=============================================================================
