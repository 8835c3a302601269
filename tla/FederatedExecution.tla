------------------------- MODULE FederatedExecution -------------------------
(***************************************************************************)
(* What query_handler awaits inside its select!: execute_single,           *)
(* execute_union and execute_join of fuse-server, with the pool statistics *)
(* they keep per connector.                                                *)
(*                                                                         *)
(* A single-source query and a join run inside the handler's own future: a *)
(* timeout, a cancellation or a client that leaves drops them where they   *)
(* stand.  A union spawns one task per source, under a semaphore of the    *)
(* query, and only awaits their handles: the tasks outlive the query.      *)
(*                                                                         *)
(* Which names of a query the registry has when it starts is left open:    *)
(* query_handler has looked all of its own up before, but the body of a    *)
(* WITH expression is executed as it stands.                               *)
(***************************************************************************)
EXTENDS Integers, FiniteSets, SequencesExt

CONSTANTS Queries,
          Datasources,
          Kind,        \* "single", "union" or "join", for each query
          Refs,        \* the datasource of each source of the query, in order
          Concurrency  \* AdaptiveParallelism::concurrency_for, for each datasource

ASSUME PlanAssumption ==
    /\ Kind \in [Queries -> {"single", "union", "join"}]
    /\ \A q \in Queries :
          /\ Refs[q] \in Seq(Datasources)
          /\ Kind[q] = "single" => Len(Refs[q]) = 1
          /\ Kind[q] = "join" => Len(Refs[q]) = 2
          /\ Kind[q] = "union" => Len(Refs[q]) >= 2
ASSUME ConcurrencyAssumption == Concurrency \in [Datasources -> Nat \ {0}]

VARIABLES exec,   \* the execution as a whole
          task,   \* the work for each source of each query
          active, \* PoolState::active of each connector
          merged, \* union: the sources whose rows were merged, in order
          errors  \* union: the sources reported in partial_errors, in order

vars == <<exec, task, active, merged, errors>>

Sources(q) == DOMAIN Refs[q]
Slots == UNION {{q} \X Sources(q) : q \in Queries}
Ended == {"ok", "failed"}

\* The sources of a union that have a task; the others are not in the registry.
Spawned(q) == {i \in Sources(q) : task[q][i] # "skipped"}

\* The permits of the query's semaphore, while there are tasks to take them.
Permits(q) == Max({Concurrency[Refs[q][i]] : i \in Spawned(q)})

Calling(q) == {i \in Sources(q) : task[q][i] = "calling"}
Uses(q, d) == Cardinality({i \in Sources(q) : Refs[q][i] = d})

\* The slots that hold an acquisition of d: those whose connector is being called,
\* and those of a join, which releases both sides only when both have ended.
Held(d) ==
    {s \in Slots : /\ Refs[s[1]][s[2]] = d
                   /\ \/ task[s[1]][s[2]] = "calling"
                      \/ Kind[s[1]] = "join" /\ exec[s[1]] = "running" /\ task[s[1]][s[2]] \in Ended}
\* Those that were never given back: of dropped futures and of panicked tasks.
Leaked(d) == {s \in Slots : Refs[s[1]][s[2]] = d /\ task[s[1]][s[2]] \in {"leaked", "panicked"}}

SaturatingSub(a, b) == IF a > b THEN a - b ELSE 0

Init ==
    /\ exec = [q \in Queries |-> "idle"]
    /\ task = [q \in Queries |-> [i \in Sources(q) |-> "none"]]
    /\ active = [d \in Datasources |-> 0]
    /\ merged = [q \in Queries |-> <<>>]
    /\ errors = [q \in Queries |-> <<>>]

\* A union leaves out the sources that the registry does not have and spawns a
\* task for each of the others.
Start(q, found) ==
    /\ exec[q] = "idle"
    /\ Kind[q] = "union" \/ Range(Refs[q]) \subseteq found
    /\ exec' = [exec EXCEPT ![q] = "running"]
    /\ task' = [task EXCEPT ![q] =
                    [i \in Sources(q) |-> IF Refs[q][i] \in found THEN "queued" ELSE "skipped"]]
    /\ UNCHANGED <<active, merged, errors>>

\* A single-source query or a join with an unknown name is an error at once.
Refuse(q) ==
    /\ exec[q] = "idle"
    /\ Kind[q] # "union"
    /\ exec' = [exec EXCEPT ![q] = "failed"]
    /\ UNCHANGED <<task, active, merged, errors>>

\* chaos::maybe_fail before the pool is touched.  A single-source query or a join
\* fails as a whole.
FailBeforeCall(q) ==
    /\ Kind[q] # "union"
    /\ exec[q] = "running"
    /\ \A i \in Sources(q) : task[q][i] = "queued"
    /\ exec' = [exec EXCEPT ![q] = "failed"]
    /\ task' = [task EXCEPT ![q] = [i \in Sources(q) |-> "failed"]]
    /\ UNCHANGED <<active, merged, errors>>

\* execute_single and execute_join: pool_tracker.acquire for every source, then
\* the calls.
Call(q) ==
    /\ Kind[q] # "union"
    /\ exec[q] = "running"
    /\ \A i \in Sources(q) : task[q][i] = "queued"
    /\ task' = [task EXCEPT ![q] = [i \in Sources(q) |-> "calling"]]
    /\ active' = [d \in Datasources |-> active[d] + Uses(q, d)]
    /\ UNCHANGED <<exec, merged, errors>>

\* execute_single: the connector answers, the pool is released, the result is
\* returned, all in one poll.
SingleReturns(q, r) ==
    /\ Kind[q] = "single"
    /\ exec[q] = "running"
    /\ task[q][1] = "calling"
    /\ task' = [task EXCEPT ![q][1] = r]
    /\ active' = [active EXCEPT ![Refs[q][1]] = SaturatingSub(@, 1)]
    /\ exec' = [exec EXCEPT ![q] = r]
    /\ UNCHANGED <<merged, errors>>

\* execute_join: one side answers or runs into its own timeout.
JoinSideReturns(q, i, r) ==
    /\ Kind[q] = "join"
    /\ exec[q] = "running"
    /\ task[q][i] = "calling"
    /\ task' = [task EXCEPT ![q][i] = r]
    /\ UNCHANGED <<exec, active, merged, errors>>

\* execute_join: both sides have ended; both are released.  A join of two answers
\* still fails when there is no join key or the hash join fails.
JoinReturns(q) ==
    /\ Kind[q] = "join"
    /\ exec[q] = "running"
    /\ \A i \in Sources(q) : task[q][i] \in Ended
    /\ active' = [d \in Datasources |-> SaturatingSub(active[d], Uses(q, d))]
    /\ \/ (\A i \in Sources(q) : task[q][i] = "ok") /\ exec' = [exec EXCEPT ![q] = "ok"]
       \/ exec' = [exec EXCEPT ![q] = "failed"]
    /\ UNCHANGED <<task, merged, errors>>

-----------------------------------------------------------------------------
(* The spawned tasks of execute_union.  None of these looks at exec. *)

\* A permit is free: the task takes it, acquires from the pool and calls.
TaskCalls(q, i) ==
    /\ Kind[q] = "union"
    /\ task[q][i] = "queued"
    /\ Cardinality(Calling(q)) < Permits(q)
    /\ task' = [task EXCEPT ![q][i] = "calling"]
    /\ active' = [active EXCEPT ![Refs[q][i]] = @ + 1]
    /\ UNCHANGED <<exec, merged, errors>>

\* chaos::maybe_fail inside the task: it ends without touching the pool.
TaskFailsBeforeCall(q, i) ==
    /\ Kind[q] = "union"
    /\ task[q][i] = "queued"
    /\ Cardinality(Calling(q)) < Permits(q)
    /\ task' = [task EXCEPT ![q][i] = "failed"]
    /\ UNCHANGED <<exec, active, merged, errors>>

\* Mutant of TaskReturns: a failed call returns before the release.
TaskReturnsEarly(q, i, r) ==
    /\ Kind[q] = "union"
    /\ task[q][i] = "calling"
    /\ task' = [task EXCEPT ![q][i] = r]
    /\ active' = IF r = "ok" THEN [active EXCEPT ![Refs[q][i]] = SaturatingSub(@, 1)] ELSE active
    /\ UNCHANGED <<exec, merged, errors>>

\* Mutant of TaskReturns: the task stops with the query it works for.
TaskReturnsWhileRunning(q, i, r) ==
    /\ Kind[q] = "union"
    /\ exec[q] = "running"
    /\ task[q][i] = "calling"
    /\ task' = [task EXCEPT ![q][i] = r]
    /\ active' = [active EXCEPT ![Refs[q][i]] = SaturatingSub(@, 1)]
    /\ UNCHANGED <<exec, merged, errors>>

\* Mutant of TaskReturns: the pool is released twice, without saturation.
TaskReturnsTwice(q, i, r) ==
    /\ Kind[q] = "union"
    /\ task[q][i] = "calling"
    /\ task' = [task EXCEPT ![q][i] = r]
    /\ active' = [active EXCEPT ![Refs[q][i]] = @ - 2]
    /\ UNCHANGED <<exec, merged, errors>>

\* The connector answers or the per-connector timeout fires; the task releases.
TaskReturns(q, i, r) ==
    /\ Kind[q] = "union"
    /\ task[q][i] = "calling"
    /\ task' = [task EXCEPT ![q][i] = r]
    /\ active' = [active EXCEPT ![Refs[q][i]] = SaturatingSub(@, 1)]
    /\ UNCHANGED <<exec, merged, errors>>

\* The connector panics: the permit is dropped with the task, the release is not
\* reached.
TaskPanics(q, i) ==
    /\ Kind[q] = "union"
    /\ task[q][i] = "calling"
    /\ task' = [task EXCEPT ![q][i] = "panicked"]
    /\ UNCHANGED <<exec, active, merged, errors>>

-----------------------------------------------------------------------------
(* execute_union collecting its handles *)

\* The handles that have not been awaited yet.
Waiting(q) == Spawned(q) \ (Range(merged[q]) \cup Range(errors[q]))

\* What a task that ended in the normal way gave is added to the rows or to
\* partial_errors.
Collect(q, i) ==
    /\ task[q][i] \in Ended
    /\ IF task[q][i] = "ok"
       THEN merged' = [merged EXCEPT ![q] = Append(@, i)] /\ UNCHANGED errors
       ELSE errors' = [errors EXCEPT ![q] = Append(@, i)] /\ UNCHANGED merged

\* Mutant of AwaitHandle: results are taken in the order they arrive.
AwaitHandleAsReady(q) ==
    /\ Kind[q] = "union"
    /\ exec[q] = "running"
    /\ \E i \in Waiting(q) : Collect(q, i)
    /\ UNCHANGED <<exec, task, active>>

\* The next handle in the order of the sources has its result.
AwaitHandle(q) ==
    /\ Kind[q] = "union"
    /\ exec[q] = "running"
    /\ Waiting(q) # {}
    /\ Collect(q, Min(Waiting(q)))
    /\ UNCHANGED <<exec, task, active>>

\* The next handle is that of a task that panicked: the JoinError ends the union,
\* whatever the other sources have given or would give.
AwaitPanicked(q) ==
    /\ Kind[q] = "union"
    /\ exec[q] = "running"
    /\ Waiting(q) # {}
    /\ task[q][Min(Waiting(q))] = "panicked"
    /\ exec' = [exec EXCEPT ![q] = "panicked"]
    /\ UNCHANGED <<task, active, merged, errors>>

\* Mutant of UnionReturns: any failed source makes the union an error.
UnionReturnsIfNoneFailed(q) ==
    /\ Kind[q] = "union"
    /\ exec[q] = "running"
    /\ Waiting(q) = {}
    /\ exec' = [exec EXCEPT ![q] = IF errors[q] = <<>> THEN "ok" ELSE "failed"]
    /\ UNCHANGED <<task, active, merged, errors>>

\* All handles are awaited: an error when there were failures only, or when the
\* record batches cannot be aligned (union_batches); otherwise the merged rows, none
\* of them when every source was left out.
UnionReturns(q) ==
    /\ Kind[q] = "union"
    /\ exec[q] = "running"
    /\ Waiting(q) = {}
    /\ IF merged[q] = <<>> /\ errors[q] # <<>>
       THEN exec' = [exec EXCEPT ![q] = "failed"]
       ELSE \/ exec' = [exec EXCEPT ![q] = "ok"]
            \/ merged[q] # <<>> /\ exec' = [exec EXCEPT ![q] = "unaligned"]
    /\ UNCHANGED <<task, active, merged, errors>>

-----------------------------------------------------------------------------

\* Timeout, cancellation, disconnection or a panic: the future of the query is dropped.
\* Calls made inside it vanish with their acquisitions; spawned tasks go on.
Drop(q) ==
    /\ exec[q] = "running"
    /\ exec' = [exec EXCEPT ![q] = "dropped"]
    /\ task' = IF Kind[q] = "union" THEN task
               ELSE [task EXCEPT ![q] =
                        [i \in Sources(q) |-> IF task[q][i] = "queued" THEN "gone" ELSE "leaked"]]
    /\ UNCHANGED <<active, merged, errors>>

Next ==
    \E q \in Queries :
        \/ \E found \in SUBSET Datasources : Start(q, found)
        \/ Refuse(q) \/ FailBeforeCall(q) \/ Call(q) \/ JoinReturns(q) \/ Drop(q)
        \/ AwaitHandle(q) \/ AwaitPanicked(q) \/ UnionReturns(q)
        \/ \E r \in Ended : SingleReturns(q, r)
        \/ \E i \in Sources(q) :
              \/ TaskCalls(q, i) \/ TaskFailsBeforeCall(q, i) \/ TaskPanics(q, i)
              \/ \E r \in Ended : JoinSideReturns(q, i, r) \/ TaskReturns(q, i, r)

Spec == Init /\ [][Next]_vars

\* Every call ends, at the latest with its per-connector timeout, and the runtime
\* keeps polling the tasks.
Fairness ==
    \A q \in Queries :
        /\ WF_vars(AwaitHandle(q) \/ AwaitPanicked(q))
        /\ WF_vars(UnionReturns(q))
        /\ WF_vars(JoinReturns(q))
        /\ WF_vars(Call(q))
        /\ \A i \in Sources(q) :
              /\ WF_vars(TaskCalls(q, i))
              /\ WF_vars(TaskReturns(q, i, "failed"))
              /\ WF_vars(JoinSideReturns(q, i, "failed"))

FairSpec == Spec /\ Fairness

-----------------------------------------------------------------------------

TypeOK ==
    /\ exec \in [Queries -> {"idle", "running", "dropped", "unaligned", "panicked"} \cup Ended]
    /\ \A q \in Queries :
          task[q] \in [Sources(q) -> {"none", "queued", "skipped", "calling", "leaked", "panicked", "gone"}
                                      \cup Ended]
    /\ active \in [Datasources -> Nat]
    /\ \A q \in Queries : merged[q] \in Seq(Sources(q)) /\ errors[q] \in Seq(Sources(q))

\* The pool statistics count every acquisition in use once, plus exactly the ones
\* that dropped futures and panicked tasks never gave back: no release is lost or
\* made twice on any other path, and saturating_sub never hides a miscount.
PoolIsAccounted == \A d \in Datasources : active[d] = Cardinality(Held(d) \cup Leaked(d))

\* A union that succeeds has merged every source that answered and reports every
\* one that failed, and only the ones the registry did not have are passed over in
\* silence; it has no rows to show only when it has left all of them out.  A union
\* is an error only when all the others have failed, when the batches that came
\* cannot be aligned, or when a task panicked: one source that fails never costs
\* the rows of another.
UnionAccountsForSources ==
    \A q \in Queries : Kind[q] = "union" =>
        /\ exec[q] = "ok" =>
              /\ \A i \in Sources(q) :
                    /\ task[q][i] \in {"ok", "failed", "skipped"}
                    /\ task[q][i] = "ok" <=> i \in Range(merged[q])
                    /\ task[q][i] = "failed" <=> i \in Range(errors[q])
              /\ merged[q] = <<>> => Spawned(q) = {}
        /\ exec[q] = "failed" =>
              Spawned(q) # {} /\ \A i \in Spawned(q) : task[q][i] = "failed"
        /\ exec[q] = "unaligned" => \E i \in Sources(q) : task[q][i] = "ok"
        /\ exec[q] = "panicked" => \E i \in Sources(q) : task[q][i] = "panicked"

\* The rows of a union come in the order of its sources, whatever order the
\* connectors answer in.
UnionKeepsSourceOrder ==
    \A q \in Queries : \A i, j \in DOMAIN merged[q] : i < j => merged[q][i] < merged[q][j]

\* The tasks of a union end and give back their permits even when the query that
\* spawned them is gone, and behind tasks that panicked.
SpawnedTasksEnd ==
    \A q \in Queries : \A i \in Sources(q) :
        Kind[q] = "union" /\ task[q][i] = "queued" ~> task[q][i] \in Ended \cup {"panicked"}
=============================================================================
