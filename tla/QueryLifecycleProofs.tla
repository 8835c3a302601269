------------------------ MODULE QueryLifecycleProofs ------------------------
(***************************************************************************)
(* Proofs about the life of a query, for every set of query ids.           *)
(***************************************************************************)
EXTENDS QueryLifecycle, TLAPS

\* A query that is not registered yet, or that was answered without being
\* registered, is in nobody's hands.  The invariants of the map need it: the
\* entry an answered query must not leave behind could otherwise be there before
\* the query is.
UnregisteredIsUnknown ==
    \A q \in Queries : phase[q] \in {"idle", "ctes"} \/ outcome[q] = "rejected"
                       => q \notin running /\ q \notin cancelled

\* Only an answered query has been rejected.
RejectedIsAnswered ==
    \A q \in Queries : outcome[q] = "rejected" => phase[q] = "answered"

LifecycleInv ==
    /\ TypeOK
    /\ ReachableUntilDecided
    /\ AnsweredIsUnregistered
    /\ UnregisteredIsUnknown
    /\ RejectedIsAnswered

\* A server that has started satisfies the invariant.
LEMMA LifecycleInit == Init => LifecycleInv
  BY DEF Init, LifecycleInv, TypeOK, ReachableUntilDecided, AnsweredIsUnregistered,
         UnregisteredIsUnknown, RejectedIsAnswered,
         Phases, Registered, Outcomes, ServerStates

\* Every step of a handler, a cancel or the shutdown preserves the invariant.
LEMMA LifecycleStep == LifecycleInv /\ [Next]_vars => LifecycleInv'
<1> SUFFICES ASSUME LifecycleInv, [Next]_vars PROVE LifecycleInv'
    OBVIOUS
<1> USE DEF LifecycleInv, TypeOK, ReachableUntilDecided, AnsweredIsUnregistered,
            UnregisteredIsUnknown, RejectedIsAnswered,
            Phases, Registered, Awaiting, Outcomes, ServerStates
<1>1. ASSUME NEW q \in Queries, Receive(q) PROVE LifecycleInv'
    BY <1>1 DEF Receive
<1>2. ASSUME NEW q \in Queries, AnswerEarly(q) PROVE LifecycleInv'
    BY <1>2 DEF AnswerEarly
<1>3. ASSUME NEW q \in Queries, Register(q) PROVE LifecycleInv'
    BY <1>3 DEF Register
<1>4. ASSUME NEW q \in Queries, Resolve(q) PROVE LifecycleInv'
    BY <1>4 DEF Resolve
<1>5. ASSUME NEW q \in Queries, NEW o \in Outcomes, Decide(q, o) PROVE LifecycleInv'
    BY <1>5 DEF Decide
<1>6. ASSUME NEW q \in Queries, Finish(q) PROVE LifecycleInv'
    BY <1>6 DEF Finish
<1>7. ASSUME NEW q \in Queries, Disconnect(q) PROVE LifecycleInv'
    BY <1>7 DEF Disconnect
<1>8. ASSUME NEW q \in Queries, CancelQuery(q) PROVE LifecycleInv'
    BY <1>8 DEF CancelQuery
<1>9. CASE Signal
    BY <1>9 DEF Signal
<1>10. CASE DrainEnds
    BY <1>10 DEF DrainEnds
<1>11. CASE CancelRemaining
    BY <1>11 DEF CancelRemaining
<1>12. CASE Stop
    BY <1>12 DEF Stop
<1>13. CASE UNCHANGED vars
    BY <1>13 DEF vars
<1> QED
    BY <1>1, <1>2, <1>3, <1>4, <1>5, <1>6, <1>7, <1>8, <1>9, <1>10, <1>11, <1>12, <1>13 DEF Next

\* The inductive invariant holds throughout.
LEMMA LifecycleInvariant == Spec => []LifecycleInv
    BY LifecycleInit, LifecycleStep, PTL DEF Spec

\* Every reachable state is well typed.
THEOREM LifecycleTypeCorrect == Spec => []TypeOK
<1>1. LifecycleInv => TypeOK
    BY DEF LifecycleInv
<1> QED BY <1>1, LifecycleInvariant, PTL

\* query_handler, cancel_query and cancel_all never leave a registered query out
\* of reach: it is in RunningQueries or its token has fired.
THEOREM RegisteredQueriesAreReachable == Spec => []ReachableUntilDecided
<1>1. LifecycleInv => ReachableUntilDecided
    BY DEF LifecycleInv
<1> QED BY <1>1, LifecycleInvariant, PTL

\* query_handler removes its entry on every path that answers: an answered query
\* is not in RunningQueries.
THEOREM AnsweredQueriesAreUnregistered == Spec => []AnsweredIsUnregistered
<1>1. LifecycleInv => AnsweredIsUnregistered
    BY DEF LifecycleInv
<1> QED BY <1>1, LifecycleInvariant, PTL
=============================================================================
