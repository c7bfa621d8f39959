---------------------------- MODULE BreakerProofs ----------------------------
(* Proofs about Breaker, for any number of callers and any thresholds. *)
EXTENDS Breaker, TLAPS

\* How far each caller is: the requests sent agree with the attempts counted, and
\* a caller sleeps only when it has an attempt left.
CallInv ==
  \A c \in Caller :
    /\ sent[c] <= MaxAttempts
    /\ pc[c] = "check" => sent[c] = attempt[c]
    /\ pc[c] \in {"rpc", "sleep"} => sent[c] = attempt[c] + 1
    /\ pc[c] = "sleep" => attempt[c] < MaxAttempts - 1
    /\ pc[c] = "bad" => sent[c] = MaxAttempts

BreakerInv == TypeOK /\ CallInv /\ (tripped <=> failures >= Threshold)

LEMMA InitBreaker == Init => BreakerInv
<1> SUFFICES ASSUME Init PROVE BreakerInv
  OBVIOUS
<1>1. tripped \in BOOLEAN /\ cancelled \in BOOLEAN /\ probe \in [Caller -> BOOLEAN]
  BY Zenon DEF Init
<1>2. TypeOK /\ CallInv
  BY <1>1, BreakerAssumption DEF Init, TypeOK, CallInv, Health
<1>3. ~tripped /\ ~(failures >= Threshold)
  BY BreakerAssumption DEF Init
<1> QED BY <1>2, <1>3 DEF BreakerInv

LEMMA NextBreaker == BreakerInv /\ [Next]_vars => BreakerInv'
<1> SUFFICES ASSUME BreakerInv, [Next]_vars PROVE BreakerInv'
  OBVIOUS
<1> USE BreakerAssumption DEF BreakerInv, TypeOK, CallInv, Goto
<1>1. ASSUME NEW c \in Caller, Call(c) PROVE BreakerInv'
  BY <1>1 DEF Call, Allow, breaker
<1>2. ASSUME NEW c \in Caller, Direct(c) PROVE BreakerInv'
  BY <1>2 DEF Direct, breaker
<1>3. ASSUME NEW c \in Caller, Send(c) PROVE BreakerInv'
  BY <1>3 DEF Send, breaker
<1>4. ASSUME NEW c \in Caller, Reply(c) PROVE BreakerInv'
  BY <1>4 DEF Reply, LastAttempt, breaker, Health
<1>5. ASSUME NEW c \in Caller, Wake(c) PROVE BreakerInv'
  BY <1>5 DEF Wake, breaker
<1>6. ASSUME NEW c \in Caller, RecordSuccess(c) PROVE BreakerInv'
  <2>1. tripped' \in BOOLEAN
    BY <1>6, Zenon DEF RecordSuccess
  <2>2. ~tripped' /\ ~(failures' >= Threshold)
    BY <1>6 DEF RecordSuccess
  <2>3. TypeOK' /\ CallInv'
    BY <1>6, <2>1 DEF RecordSuccess
  <2> QED BY <2>2, <2>3
<1>7. ASSUME NEW c \in Caller, RecordFailure(c) PROVE BreakerInv'
  <2>1. failures' \in 0..MaxFailures /\ (failures' >= Threshold <=> failures + 1 >= Threshold)
    BY <1>7 DEF RecordFailure
  <2>2. tripped' \in BOOLEAN /\ (tripped' <=> failures' >= Threshold)
    <3>1. failures >= Threshold => failures + 1 >= Threshold
      OBVIOUS
    <3> QED BY <1>7, <2>1, <3>1, Zenon DEF RecordFailure, TripsAt
  <2>3. CallInv'
    BY <1>7 DEF RecordFailure
  <2> QED BY <1>7, <2>1, <2>2, <2>3 DEF RecordFailure
<1>8. ASSUME NEW c \in Caller, DirectReply(c) PROVE BreakerInv'
  BY <1>8 DEF DirectReply, breaker
<1>9. ASSUME Tick PROVE BreakerInv'
  BY <1>9 DEF Tick, calls
<1>10. ASSUME Cancel PROVE BreakerInv'
  BY <1>10 DEF Cancel, calls, breaker
<1>11. ASSUME RemoteChanges PROVE BreakerInv'
  BY <1>11 DEF RemoteChanges, calls, breaker
<1>12. ASSUME UNCHANGED vars PROVE BreakerInv'
  BY <1>12 DEF vars, calls, breaker
<1> QED BY <1>1, <1>2, <1>3, <1>4, <1>5, <1>6, <1>7, <1>8, <1>9, <1>10, <1>11, <1>12
       DEF Next, Continue

\* Counters and callers stay within their types: no caller sends a request more than
\* MaxAttempts allows, however calls, cancellation and outages interleave.
THEOREM BreakerTypes == Spec => []TypeOK
<1>1. BreakerInv => TypeOK
  BY DEF BreakerInv
<1> QED BY <1>1, InitBreaker, NextBreaker, PTL DEF Spec

\* The circuit is open exactly after Threshold recorded failures in a row, and
\* each of these stands for a call that used up its attempts.
THEOREM OpensAfterThreshold == Spec => []OpenAfterThreshold
<1>1. BreakerInv => OpenAfterThreshold
  BY DEF BreakerInv, CallInv, OpenAfterThreshold
<1> QED BY <1>1, InitBreaker, NextBreaker, PTL DEF Spec

=============================================================================
