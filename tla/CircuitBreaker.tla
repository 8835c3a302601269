--------------------------- MODULE CircuitBreaker ---------------------------
(***************************************************************************)
(* The per-datasource circuit breaker of fuse-server                       *)
(* (crates/fuse-server/src/circuit_breaker.rs) and the requests that       *)
(* consult it: a request asks `allow`, runs when admitted, and reports its *)
(* outcome with `record_success` or `record_failure`, possibly long after  *)
(* other requests have moved the circuit.                                  *)
(*                                                                         *)
(* Each method holds the mutex of `breakers` throughout and is one step.   *)
(* A datasource with no entry in the map behaves as the default entry      *)
(* `allow` and `record_failure` insert (Closed, no failures), so the model *)
(* keeps one entry per datasource.  `last_success` is never read.          *)
(***************************************************************************)
EXTENDS Integers

CONSTANTS Datasources,
          Requests,
          FailureThreshold, \* CircuitBreaker::failure_threshold
          RecoveryTimeout   \* CircuitBreaker::recovery_timeout, in ticks

ASSUME ThresholdAssumption == FailureThreshold \in Nat \ {0}
ASSUME RecoveryAssumption == RecoveryTimeout \in Nat

VARIABLES state,         \* CircuitState of each datasource
          failure_count, \* failures since the last success, saturating
          elapsed,       \* last_failure.elapsed(), saturating; NoFailure is None
          admitted       \* the datasource each running request was let into

vars == <<state, failure_count, elapsed, admitted>>

NoFailure == -1
Nowhere == "nowhere"

ASSUME NowhereAssumption == Nowhere \notin Datasources

\* The code only compares the count with the threshold and the elapsed time with
\* the recovery timeout, so both may stop counting one step beyond.
CountFailure(n) == IF n < FailureThreshold THEN n + 1 ELSE n
Aged(t) == IF t \in 0..RecoveryTimeout THEN t + 1 ELSE t

Recovered(d) == elapsed[d] = NoFailure \/ elapsed[d] > RecoveryTimeout

Init ==
    /\ state = [d \in Datasources |-> "Closed"]
    /\ failure_count = [d \in Datasources |-> 0]
    /\ elapsed = [d \in Datasources |-> NoFailure]
    /\ admitted = [r \in Requests |-> Nowhere]

\* Mutant of AllowGranted: the half-open phase starts with a clean count.
AllowGrantedResets(r, d) ==
    /\ admitted[r] = Nowhere
    /\ \/ state[d] \in {"Closed", "HalfOpen"} /\ UNCHANGED <<state, failure_count>>
       \/ /\ state[d] = "Open" /\ Recovered(d)
          /\ state' = [state EXCEPT ![d] = "HalfOpen"]
          /\ failure_count' = [failure_count EXCEPT ![d] = 0]
    /\ admitted' = [admitted EXCEPT ![r] = d]
    /\ UNCHANGED elapsed

\* CircuitBreaker::allow answering TRUE.  An open circuit whose recovery time has
\* passed becomes half-open; a half-open one admits every request.
AllowGranted(r, d) ==
    /\ admitted[r] = Nowhere
    /\ \/ state[d] \in {"Closed", "HalfOpen"} /\ UNCHANGED state
       \/ state[d] = "Open" /\ Recovered(d) /\ state' = [state EXCEPT ![d] = "HalfOpen"]
    /\ admitted' = [admitted EXCEPT ![r] = d]
    /\ UNCHANGED <<failure_count, elapsed>>

\* Mutant of AllowRejected: a rejected request restarts the recovery timer.
AllowRejectedRestarts(r, d) ==
    /\ admitted[r] = Nowhere
    /\ state[d] = "Open"
    /\ ~Recovered(d)
    /\ elapsed' = [elapsed EXCEPT ![d] = 0]
    /\ UNCHANGED <<state, failure_count, admitted>>

\* CircuitBreaker::allow answering FALSE.
AllowRejected(r, d) ==
    /\ admitted[r] = Nowhere
    /\ state[d] = "Open"
    /\ ~Recovered(d)
    /\ UNCHANGED vars

\* Mutant of RecordSuccess: a success takes one failure off the count.
RecordSuccessDecrements(r, d) ==
    /\ admitted[r] = d
    /\ failure_count' = [failure_count EXCEPT ![d] = @ - 1]
    /\ state' = [state EXCEPT ![d] = "Closed"]
    /\ admitted' = [admitted EXCEPT ![r] = Nowhere]
    /\ UNCHANGED elapsed

\* CircuitBreaker::record_success
RecordSuccess(r, d) ==
    /\ admitted[r] = d
    /\ failure_count' = [failure_count EXCEPT ![d] = 0]
    /\ state' = [state EXCEPT ![d] = "Closed"]
    /\ admitted' = [admitted EXCEPT ![r] = Nowhere]
    /\ UNCHANGED elapsed

\* CircuitBreaker::record_failure
RecordFailure(r, d) ==
    /\ admitted[r] = d
    /\ failure_count' = [failure_count EXCEPT ![d] = CountFailure(@)]
    /\ elapsed' = [elapsed EXCEPT ![d] = 0]
    /\ state' = [state EXCEPT ![d] = IF failure_count'[d] >= FailureThreshold THEN "Open" ELSE @]
    /\ admitted' = [admitted EXCEPT ![r] = Nowhere]

Tick ==
    /\ elapsed' = [d \in Datasources |-> Aged(elapsed[d])]
    /\ UNCHANGED <<state, failure_count, admitted>>

Report(r, d) == RecordSuccess(r, d) \/ RecordFailure(r, d)

Next ==
    \/ \E r \in Requests, d \in Datasources :
          AllowGranted(r, d) \/ AllowRejected(r, d) \/ RecordSuccess(r, d) \/ RecordFailure(r, d)
    \/ Tick

\* Time passes, admitted requests report, and clients keep asking for every
\* datasource: what the recovery of a circuit relies on.
Fairness ==
    /\ WF_vars(Tick)
    /\ \A r \in Requests, d \in Datasources : WF_vars(Report(r, d))
    /\ \A d \in Datasources : SF_vars(\E r \in Requests : AllowGranted(r, d))

Spec == Init /\ [][Next]_vars
FairSpec == Spec /\ Fairness

-----------------------------------------------------------------------------

TypeOK ==
    /\ state \in [Datasources -> {"Closed", "Open", "HalfOpen"}]
    /\ failure_count \in [Datasources -> 0..FailureThreshold]
    /\ elapsed \in [Datasources -> {NoFailure} \cup 0..RecoveryTimeout + 1]
    /\ admitted \in [Requests -> Datasources \cup {Nowhere}]

\* A circuit is tripped or under test exactly when the failures counted since the
\* last success have reached the threshold, however late reports arrive: the
\* count survives the half-open phase.
TrippedIffThresholdReached ==
    \A d \in Datasources : state[d] # "Closed" <=> failure_count[d] >= FailureThreshold

\* Because the count survives, one failure reported during the half-open phase is
\* enough to reopen the circuit, whatever the threshold.
OneFailureReopens ==
    [][\A r \in Requests, d \in Datasources :
          state[d] = "HalfOpen" /\ RecordFailure(r, d) => state'[d] = "Open"]_vars

\* An open circuit is not open for ever: with time passing and requests being
\* made, some allow or some late report moves it on.
OpenCircuitsRecover == \A d \in Datasources : (state[d] = "Open") ~> (state[d] # "Open")
=============================================================================
