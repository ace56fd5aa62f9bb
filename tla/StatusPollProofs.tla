-------------------------- MODULE StatusPollProofs --------------------------
(***************************************************************************)
(* What WaitForStatusChange guarantees its callers, for every timeout, every *)
(* interval and every provider.                                             *)
(***************************************************************************)
EXTENDS StatusPoll, TLAPS

(* The loop sleeps only before the time is up, so one interval is the most   *)
(* it can be late; it ends on a change, an error or the end of the time.     *)
PollInvariant ==
  /\ TypeOK
  /\ pc = "sleep" => waited < timeout
  /\ waited < timeout + Interval
  /\ pc = "done" => ~KeepsWaiting(current, failed)

LEMMA InitEstablishesPollInvariant == Init => PollInvariant
<1> SUFFICES ASSUME Init PROVE PollInvariant
  OBVIOUS
<1>1. TypeOK
  BY StatusAssumption, TimeAssumption DEF Init, TypeOK
<1>2. waited < timeout + Interval
  BY TimeAssumption DEF Init
<1> QED
  BY <1>1, <1>2 DEF Init, PollInvariant

LEMMA NextKeepsPollInvariant == PollInvariant /\ [Next]_vars => PollInvariant'
<1> SUFFICES ASSUME PollInvariant, [Next]_vars PROVE PollInvariant'
  OBVIOUS
<1> USE StatusAssumption, TimeAssumption
<1>1. CASE Change
  BY <1>1 DEF Change, PollInvariant, TypeOK, KeepsWaiting
<1>2. CASE Poll
  <2>1. current' \in Statuses
    BY <1>2 DEF Poll, PollInvariant, TypeOK
  <2>2. TypeOK'
    BY <1>2, <2>1 DEF Poll, PollInvariant, TypeOK
  <2>3. pc' = "sleep" => waited' < timeout'
    BY <1>2 DEF Poll, PollInvariant, KeepsWaiting
  <2>4. waited' < timeout' + Interval
    BY <1>2 DEF Poll, PollInvariant
  <2>5. pc' = "done" => ~KeepsWaiting(current, failed)'
    BY <1>2 DEF Poll, KeepsWaiting
  <2> QED
    BY <2>2, <2>3, <2>4, <2>5 DEF PollInvariant
<1>3. CASE Sleep
  BY <1>3 DEF Sleep, PollInvariant, TypeOK, KeepsWaiting
<1>4. CASE UNCHANGED vars
  BY <1>4 DEF vars, PollInvariant, TypeOK, KeepsWaiting
<1> QED
  BY <1>1, <1>2, <1>3, <1>4 DEF Next

(* A caller that is told neither of a timeout nor of an error has seen the   *)
(* status change (utils/utils.go:81-86).                                    *)
THEOREM PollAnswerIsChange == Spec => []AnswerIsChange
<1>1. PollInvariant => AnswerIsChange
  BY TimeAssumption DEF PollInvariant, TypeOK, AnswerIsChange, KeepsWaiting, TimedOut
<1> QED
  BY <1>1, InitEstablishesPollInvariant, NextKeepsPollInvariant, PTL DEF Spec

(* No caller sleeps an interval beyond its timeout.                          *)
THEOREM PollWaitIsBounded == Spec => []WaitIsBounded
<1>1. PollInvariant => WaitIsBounded
  BY DEF PollInvariant, WaitIsBounded
<1> QED
  BY <1>1, InitEstablishesPollInvariant, NextKeepsPollInvariant, PTL DEF Spec
=============================================================================
