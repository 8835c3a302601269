------------------------ MODULE CircuitBreakerProofs ------------------------
(***************************************************************************)
(* Proofs about the circuit breaker, for every set of datasources and of   *)
(* requests, every threshold above zero and every recovery timeout.        *)
(***************************************************************************)
EXTENDS CircuitBreaker, TLAPS

\* The two facts are inductive together: a circuit's state and its failure count
\* move in the same critical section.
BreakerInv == TypeOK /\ TrippedIffThresholdReached

\* A new breaker satisfies the invariant.
LEMMA BreakerInit == Init => BreakerInv
  BY ThresholdAssumption, RecoveryAssumption
  DEF Init, BreakerInv, TypeOK, TrippedIffThresholdReached, NoFailure

\* allow, record_success, record_failure and the passing of time preserve it.
LEMMA BreakerStep == BreakerInv /\ [Next]_vars => BreakerInv'
<1> SUFFICES ASSUME BreakerInv, [Next]_vars PROVE BreakerInv'
    OBVIOUS
<1> USE ThresholdAssumption, RecoveryAssumption DEF BreakerInv, TypeOK, TrippedIffThresholdReached
<1>1. ASSUME NEW r \in Requests, NEW d \in Datasources, AllowGranted(r, d) PROVE BreakerInv'
    BY <1>1 DEF AllowGranted
<1>2. ASSUME NEW r \in Requests, NEW d \in Datasources, AllowRejected(r, d) PROVE BreakerInv'
    BY <1>2 DEF AllowRejected, vars
<1>3. ASSUME NEW r \in Requests, NEW d \in Datasources, RecordSuccess(r, d) PROVE BreakerInv'
    BY <1>3 DEF RecordSuccess
<1>4. ASSUME NEW r \in Requests, NEW d \in Datasources, RecordFailure(r, d) PROVE BreakerInv'
  <2>1. TypeOK'
      BY <1>4 DEF RecordFailure, CountFailure, NoFailure
  <2>2. TrippedIffThresholdReached'
      BY <1>4 DEF RecordFailure, CountFailure
  <2> QED BY <2>1, <2>2
<1>5. CASE Tick
  <2>1. \A t \in {NoFailure} \cup 0..RecoveryTimeout + 1 :
            Aged(t) \in {NoFailure} \cup 0..RecoveryTimeout + 1
      BY DEF Aged, NoFailure
  <2> QED BY <1>5, <2>1 DEF Tick
<1>6. CASE UNCHANGED vars
    BY <1>6 DEF vars
<1> QED BY <1>1, <1>2, <1>3, <1>4, <1>5, <1>6 DEF Next

\* Every reachable state of the breaker is well typed.
THEOREM BreakerTypeCorrect == Spec => []TypeOK
<1>1. BreakerInv => TypeOK
    BY DEF BreakerInv
<1> QED BY <1>1, BreakerInit, BreakerStep, PTL DEF Spec

\* allow, record_success and record_failure keep the state and the failure count
\* of a circuit in step: it is tripped or under test exactly when the count has
\* reached the threshold.
THEOREM BreakerTrips == Spec => []TrippedIffThresholdReached
<1>1. BreakerInv => TrippedIffThresholdReached
    BY DEF BreakerInv
<1> QED BY <1>1, BreakerInit, BreakerStep, PTL DEF Spec

\* record_failure on a half-open circuit always reopens it, whatever the
\* threshold: the count it increments was never reset by allow.
THEOREM BreakerReopens == Spec => OneFailureReopens
<1>1. BreakerInv /\ [Next]_vars =>
          [\A r \in Requests, d \in Datasources :
             state[d] = "HalfOpen" /\ RecordFailure(r, d) => state'[d] = "Open"]_vars
  <2> SUFFICES ASSUME BreakerInv, NEW r \in Requests, NEW d \in Datasources,
                      state[d] = "HalfOpen", RecordFailure(r, d)
               PROVE  state'[d] = "Open"
      OBVIOUS
  <2> QED BY ThresholdAssumption
          DEF BreakerInv, TypeOK, TrippedIffThresholdReached, RecordFailure, CountFailure
<1> QED BY <1>1, BreakerInit, BreakerStep, PTL DEF Spec, OneFailureReopens
=============================================================================
