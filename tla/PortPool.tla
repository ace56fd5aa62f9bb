------------------------------ MODULE PortPool ------------------------------
(***************************************************************************)
(* What a port allocator promises its callers: a port has at most one       *)
(* holder, every free port of the range can be had, and a request is        *)
(* refused only when nothing is free.                                       *)
(***************************************************************************)
EXTENDS Integers

CONSTANTS Ports,     \* the ports of the range
          Requests,  \* the port numbers a caller may name
          NoPort     \* the answer of a refused request

VARIABLES held,    \* the ports that are taken
          reply    \* the answer of the last call: a port, or NoPort

vars == <<held, reply>>

Init == held = {} /\ reply = NoPort

(* Any free port may be granted; a refusal means that there is none.        *)
Acquire ==
  \/ \E port \in Ports \ held : held' = held \union {port} /\ reply' = port
  \/ Ports \subseteq held /\ held' = held /\ reply' = NoPort

(* A given port is granted exactly when it is a free port of the range.     *)
Claim(port) ==
  \/ port \in Ports \ held /\ held' = held \union {port} /\ reply' = port
  \/ port \notin Ports \ held /\ held' = held /\ reply' = NoPort

Release(port) == held' = held \ {port} /\ reply' = NoPort

Next == Acquire \/ \E port \in Requests : Claim(port) \/ Release(port)

Spec == Init /\ [][Next]_vars
=============================================================================
