----------------------------- MODULE StatusPoll -----------------------------
(***************************************************************************)
(* WaitForStatusChange (utils/utils.go:75-87): a caller polls a resource of *)
(* a provider every few seconds while the provider changes its status, and  *)
(* is told the last status seen, whether the time was up, and whether the   *)
(* last request failed. Time passes only while the caller sleeps.           *)
(***************************************************************************)
EXTENDS Naturals

CONSTANTS
  Statuses,  \* what the getter can return
  Awaited,   \* the status that is expected to go away
  Interval,  \* seconds between two polls (3)
  Timeouts   \* the timeouts of the callers, in seconds

ASSUME StatusAssumption == Awaited \in Statuses
ASSUME TimeAssumption == Interval \in Nat \ {0} /\ Timeouts \subseteq Nat \ {0}

VARIABLES
  remote,   \* the status at the provider
  timeout,  \* the timeout of the call
  waited,   \* seconds slept
  current,  \* currentStatus, the last status the getter returned
  failed,   \* the last call of the getter returned an error
  pc        \* "poll", "sleep" or "done"

vars == <<remote, timeout, waited, current, failed, pc>>

Init ==
  /\ remote \in Statuses
  /\ timeout \in Timeouts
  /\ waited = 0
  /\ current = Awaited
  /\ failed = FALSE
  /\ pc = "poll"

(* The provider acts on its own.                                            *)
Change ==
  /\ remote' \in Statuses \ {remote}
  /\ UNCHANGED <<timeout, waited, current, failed, pc>>

(* The condition of the loop, on what the getter has just returned.         *)
KeepsWaitingLonger(status, error) ==  \* mutant: one interval too many
  status = Awaited /\ waited <= timeout /\ ~error

KeepsWaiting(status, error) == status = Awaited /\ waited < timeout /\ ~error

(* A getter that fails returns any status: some return none, some the last  *)
(* they know.                                                               *)
Poll ==
  /\ pc = "poll"
  /\ failed' \in BOOLEAN
  /\ current' \in IF failed' THEN Statuses ELSE {remote}
  /\ pc' = IF KeepsWaiting(current', failed') THEN "sleep" ELSE "done"
  /\ UNCHANGED <<remote, timeout, waited>>

SleepUncounted ==  \* mutant: the time slept is not added
  /\ pc = "sleep"
  /\ pc' = "poll"
  /\ UNCHANGED <<remote, timeout, waited, current, failed>>

Sleep ==
  /\ pc = "sleep"
  /\ waited' = waited + Interval
  /\ pc' = "poll"
  /\ UNCHANGED <<remote, timeout, current, failed>>

Next == Change \/ Poll \/ Sleep

Spec == Init /\ [][Next]_vars

(* The goroutine of the caller is scheduled.                                *)
FairSpec == Spec /\ WF_vars(Poll) /\ WF_vars(Sleep)

(* The boolean of the result.                                               *)
TimedOutLate == waited > timeout  \* mutant: the boundary is missed

TimedOut == waited >= timeout

-----------------------------------------------------------------------------
(* The types of the variables.                                              *)
TypeOK ==
  /\ remote \in Statuses
  /\ timeout \in Timeouts
  /\ waited \in Nat
  /\ current \in Statuses
  /\ failed \in BOOLEAN
  /\ pc \in {"poll", "sleep", "done"}

(* A caller that sees no error and no timeout may take it that the status    *)
(* changed: all callers go on without looking at it again                   *)
(* (infrastructure/cloudsigma/deployer.go:309-327,                          *)
(* provision/kubernetes/kubernetes_client.go:433-456).                      *)
AnswerIsChange == pc = "done" /\ ~failed /\ ~TimedOut => current # Awaited

(* The caller sleeps less than one interval beyond its timeout.             *)
WaitIsBounded == waited < timeout + Interval

(* The call returns, whatever the provider does.                            *)
PollEnds == <>(pc = "done")
=============================================================================
