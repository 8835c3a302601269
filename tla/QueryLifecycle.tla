--------------------------- MODULE QueryLifecycle ---------------------------
(***************************************************************************)
(* The life of a query in fuse-server: query_handler from the moment the   *)
(* request is received to its answer, the RunningQueries map through which *)
(* DELETE /api/fuse/query/:id cancels it, and the drain that main.rs runs  *)
(* when the process is told to stop.                                       *)
(*                                                                         *)
(* Every access to RunningQueries is one critical section.  Handlers run   *)
(* on a multi-threaded runtime: other tasks may act between any two        *)
(* critical sections of a handler, and at every await.  What a connector   *)
(* returns is abstracted to whether it returns and whether with an error.  *)
(* Time is abstracted to the order in which timers fire.                   *)
(***************************************************************************)
EXTENDS FiniteSets

CONSTANTS Queries  \* query ids; QUERY_COUNTER never hands out one twice

VARIABLES phase,     \* how far the handler of each query has come
          running,   \* RunningQueries::inner: the ids it holds
          cancelled, \* the queries whose CancellationToken has fired
          outcome,   \* what the select! of each handler produced
          server     \* where shutdown_signal stands

vars == <<phase, running, cancelled, outcome, server>>

\* ctes: resolve_ctes and validation, before the query is registered
\* resolving: registered, executing IN (SELECT ...) subqueries
\* executing: inside the select! of execution, timeout and cancellation
\* decided: the select! has produced a result, running_queries.remove not yet run
\* answered, dropped: a response was sent; the client left and the future is gone
Phases == {"idle", "ctes", "resolving", "executing", "decided", "answered", "dropped"}
Awaiting == {"ctes", "resolving", "executing"}
Registered == {"resolving", "executing", "decided"}
Outcomes == {"none", "rejected", "ok", "error", "timeout", "cancelled"}
ServerStates == {"serving", "draining", "checking", "stopping", "stopped"}

\* axum stops accepting when shutdown_signal returns, not when the signal arrives.
Accepting == server \in {"serving", "draining", "checking"}

Live(q) == phase[q] \in Awaiting \cup {"decided"}

Init ==
    /\ phase = [q \in Queries |-> "idle"]
    /\ running = {}
    /\ cancelled = {}
    /\ outcome = [q \in Queries |-> "none"]
    /\ server = "serving"

-----------------------------------------------------------------------------
(* query_handler *)

\* The request arrives and its text is parsed.
Receive(q) ==
    /\ phase[q] = "idle"
    /\ Accepting
    /\ phase' = [phase EXCEPT ![q] = "ctes"]
    /\ UNCHANGED <<running, cancelled, outcome, server>>

\* A result cache hit, a statement that is not a query, a parse error, an unknown
\* datasource or a tenant without access: answered without being registered.
AnswerEarly(q) ==
    /\ phase[q] = "ctes"
    /\ phase' = [phase EXCEPT ![q] = "answered"]
    /\ outcome' = [outcome EXCEPT ![q] = "rejected"]
    /\ UNCHANGED <<running, cancelled, server>>

\* CTEs are resolved, the datasources are known: RunningQueries::insert.
Register(q) ==
    /\ phase[q] = "ctes"
    /\ phase' = [phase EXCEPT ![q] = "resolving"]
    /\ running' = running \cup {q}
    /\ UNCHANGED <<cancelled, outcome, server>>

\* The IN (SELECT ...) subqueries have answered.  They are awaited outside the
\* select!, so neither the timeout nor a cancellation interrupts them.
Resolve(q) ==
    /\ phase[q] = "resolving"
    /\ phase' = [phase EXCEPT ![q] = "executing"]
    /\ UNCHANGED <<running, cancelled, outcome, server>>

\* Mutant of Decide: the cancellation branch of the select! is missing.
DecideIgnoresCancel(q, o) ==
    /\ phase[q] = "executing"
    /\ o \in {"ok", "error", "timeout"}
    /\ outcome' = [outcome EXCEPT ![q] = o]
    /\ phase' = [phase EXCEPT ![q] = "decided"]
    /\ UNCHANGED <<running, cancelled, server>>

\* Mutant of Decide: the execution is not wrapped in tokio::time::timeout.
DecideWithoutTimeout(q, o) ==
    /\ phase[q] = "executing"
    /\ o \in {"ok", "error"} \/ (o = "cancelled" /\ q \in cancelled)
    /\ outcome' = [outcome EXCEPT ![q] = o]
    /\ phase' = [phase EXCEPT ![q] = "decided"]
    /\ UNCHANGED <<running, cancelled, server>>

\* The select!: whichever ready branch it picks.
Decide(q, o) ==
    /\ phase[q] = "executing"
    /\ o \in {"ok", "error", "timeout"} \/ (o = "cancelled" /\ q \in cancelled)
    /\ outcome' = [outcome EXCEPT ![q] = o]
    /\ phase' = [phase EXCEPT ![q] = "decided"]
    /\ UNCHANGED <<running, cancelled, server>>

\* Mutant of Finish: only successful queries are removed from the map.
FinishKeepsFailed(q) ==
    /\ phase[q] = "decided"
    /\ running' = IF outcome[q] = "ok" THEN running \ {q} ELSE running
    /\ phase' = [phase EXCEPT ![q] = "answered"]
    /\ UNCHANGED <<cancelled, outcome, server>>

\* Mutant of Finish: a query that timed out is set aside to be tried again.
FinishRetries(q) ==
    /\ phase[q] = "decided"
    /\ running' = running \ {q}
    /\ phase' = [phase EXCEPT ![q] = IF outcome[q] = "timeout" THEN "retry" ELSE "answered"]
    /\ UNCHANGED <<cancelled, outcome, server>>

\* RunningQueries::remove, then the response; a result over the size or tenant
\* limits is answered with an error (413, 429).
Finish(q) ==
    /\ phase[q] = "decided"
    /\ running' = running \ {q}
    /\ phase' = [phase EXCEPT ![q] = "answered"]
    /\ \/ UNCHANGED outcome
       \/ outcome[q] = "ok" /\ outcome' = [outcome EXCEPT ![q] = "error"]
    /\ UNCHANGED <<cancelled, server>>

\* The client closes its connection: hyper drops the handler's future at the
\* await it is suspended in, and nothing after that await runs.
Disconnect(q) ==
    /\ phase[q] \in Awaiting
    /\ phase' = [phase EXCEPT ![q] = "dropped"]
    /\ UNCHANGED <<running, cancelled, outcome, server>>

-----------------------------------------------------------------------------
(* cancel_query *)

\* Mutant of CancelQuery: the entry is removed and its token never fired.
CancelQueryDropsToken(q) ==
    /\ q \in running
    /\ running' = running \ {q}
    /\ UNCHANGED <<phase, cancelled, outcome, server>>

\* RunningQueries::cancel finds the query: the token fires, the answer is 200.
CancelQuery(q) ==
    /\ q \in running
    /\ running' = running \ {q}
    /\ cancelled' = cancelled \cup {q}
    /\ UNCHANGED <<phase, outcome, server>>

-----------------------------------------------------------------------------
(* shutdown_signal *)

Signal ==
    /\ server = "serving"
    /\ server' = "draining"
    /\ UNCHANGED <<phase, running, cancelled, outcome>>

\* Mutant of DrainEnds: the loop waits for the count alone, without a deadline.
DrainEndsWithoutDeadline ==
    /\ server = "draining"
    /\ running = {}
    /\ server' = "checking"
    /\ UNCHANGED <<phase, running, cancelled, outcome>>

\* The polling loop ends: the count is zero, or the ten seconds are over.
DrainEnds ==
    /\ server = "draining"
    /\ server' = "checking"
    /\ UNCHANGED <<phase, running, cancelled, outcome>>

\* RunningQueries::cancel_all when the count read again is not zero.
CancelRemaining ==
    /\ server = "checking"
    /\ cancelled' = cancelled \cup running
    /\ running' = {}
    /\ server' = "stopping"
    /\ UNCHANGED <<phase, outcome>>

\* axum returns from serve once no handler is left.
Stop ==
    /\ server = "stopping"
    /\ \A q \in Queries : ~Live(q)
    /\ server' = "stopped"
    /\ UNCHANGED <<phase, running, cancelled, outcome>>

Next ==
    \/ \E q \in Queries :
          \/ Receive(q) \/ AnswerEarly(q) \/ Register(q) \/ Resolve(q)
          \/ \E o \in Outcomes : Decide(q, o)
          \/ Finish(q) \/ Disconnect(q) \/ CancelQuery(q)
    \/ Signal \/ DrainEnds \/ CancelRemaining \/ Stop

Spec == Init /\ [][Next]_vars

\* What the server guarantees with connectors that may never answer: its timers
\* fire, its tasks are scheduled, and a fired token is noticed.
ServerFairness ==
    /\ \A q \in Queries :
          /\ WF_vars(Decide(q, "timeout"))
          /\ WF_vars(Decide(q, "cancelled"))
          /\ WF_vars(Finish(q))
    /\ WF_vars(DrainEnds)
    /\ WF_vars(CancelRemaining)
    /\ WF_vars(Stop)

\* What a cancellation may rely on: that a fired token is noticed.  The timeout is
\* the client's choice and may be far away.
CancelFairness == \A q \in Queries : WF_vars(Decide(q, "cancelled")) /\ WF_vars(Finish(q))

\* In addition, the connectors asked during CTE and IN resolution answer.
ResolutionFairness ==
    \A q \in Queries : WF_vars(AnswerEarly(q) \/ Register(q)) /\ WF_vars(Resolve(q))

-----------------------------------------------------------------------------

TypeOK ==
    /\ phase \in [Queries -> Phases]
    /\ running \subseteq Queries
    /\ cancelled \subseteq Queries
    /\ outcome \in [Queries -> Outcomes]
    /\ server \in ServerStates

\* No registered query is out of reach: until its result is decided, it can be
\* found in the map or its token has fired already.  cancel, cancel_all and
\* remove all take entries out of the map, from different tasks.
ReachableUntilDecided ==
    \A q \in Queries : phase[q] \in Registered => q \in running \/ q \in cancelled

\* An answered query is not in the map: it cannot hold up a drain, be listed as
\* running, or be cancelled after the fact.
AnsweredIsUnregistered == \A q \in Queries : phase[q] = "answered" => q \notin running

\* A cancellation waits neither for the connectors nor for the timeout: an
\* executing query whose token has fired is answered.
CancelTakesEffect ==
    CancelFairness =>
        \A q \in Queries :
            (phase[q] = "executing" /\ q \in cancelled) ~> (phase[q] \in {"answered", "dropped"})

\* The execution of a query ends although its connectors may never answer.
ExecutionEnds ==
    ServerFairness =>
        \A q \in Queries : (phase[q] = "executing") ~> (phase[q] \in {"answered", "dropped"})

\* Once told to stop, the server stops, whatever clients do and whatever entries
\* disconnected clients left in the map.
ShutdownCompletes ==
    ServerFairness /\ ResolutionFairness => ((server = "draining") ~> (server = "stopped"))
=============================================================================
