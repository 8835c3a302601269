-------------------------- MODULE MaterializedViews --------------------------
(***************************************************************************)
(* One name of the materialized view registry, the handlers that define,   *)
(* refresh and delete the view of that name, the change tracker (CDC) that *)
(* marks it, and the background scheduler that refreshes stale views.      *)
(*                                                                         *)
(* A view is an object behind an Arc: replacing the view of a name makes a *)
(* new object, and a handler that holds the old one goes on writing to it. *)
(* Rows are abstracted to the query they answer, the version of the source *)
(* they were read from and the kind of task that read them.  Executing a   *)
(* query is an await; everything else may happen before the result         *)
(* arrives.                                                                *)
(*                                                                         *)
(* ServerNext is the server as main wires it, which starts no scheduler;   *)
(* Next adds the RefreshScheduler.                                         *)
(***************************************************************************)
EXTENDS Integers, Sequences

CONSTANTS Queries,      \* the queries views are defined with
          Handlers,     \* requests that await an execution
          MaxObjects,   \* bound on the views ever defined
          MaxVersion    \* bound on the changes of the source

ASSUME MaxVersionAssumption == MaxVersion \in Nat /\ MaxObjects \in Nat

VARIABLES version,  \* of the source data
          objects,  \* the MaterializedViews ever made
          current,  \* the object registered under the name; 0 if there is none
          task,     \* the requests
          sched,    \* the scheduler
          owed,     \* a change has been made whose event is not ingested yet
          pending   \* the name is in pending_refresh of the change tracker

vars == <<version, objects, current, task, sched, owed, pending>>

NoRows == [query |-> "none", version |-> -1, by |-> "none"]
Failed == [query |-> "failed", version |-> -1, by |-> "none"]
Rows == [query: Queries, version: 0..MaxVersion, by: {"create", "refresh", "poll"}]

\* MaterializedView::new: never refreshed, so it needs a refresh.
NewView(q) == [query |-> q, rows |-> NoRows, stale |-> TRUE]

Idle == [step |-> "idle", view |-> 0, query |-> "none", got |-> NoRows]

Init ==
    /\ version = 0
    /\ objects = <<>>
    /\ current = 0
    /\ task = [h \in Handlers |-> Idle]
    /\ sched = Idle
    /\ owed = FALSE
    /\ pending = FALSE

\* Mutant of Stored: an error replaces the rows.
StoredClearing(v, got) ==
    IF v = 0 THEN objects
    ELSE [objects EXCEPT ![v] = [@ EXCEPT !.rows = IF got = Failed THEN NoRows ELSE got,
                                          !.stale = FALSE]]

\* set_results and set_error of the view object v: an error keeps the old rows
\* and leaves last_refresh alone.
Stored(v, got) ==
    IF v = 0 \/ got = Failed THEN objects
    ELSE [objects EXCEPT ![v] = [@ EXCEPT !.rows = got, !.stale = FALSE]]

\* MaterializedViewRegistry::register replaces the view of the name.
Register(q) ==
    /\ Len(objects) < MaxObjects
    /\ objects' = Append(objects, NewView(q))
    /\ current' = Len(objects) + 1

-----------------------------------------------------------------------------
(* The handlers *)

\* POST /api/fuse/views and CREATE VIEW.
CreateView(q) ==
    /\ Register(q)
    /\ UNCHANGED <<version, task, sched, owed, pending>>

\* CREATE MATERIALIZED VIEW: register, and execute the query ...
CreateStart(h, q) ==
    /\ task[h].step = "idle"
    /\ Register(q)
    /\ task' = [task EXCEPT ![h] = [step |-> "create", view |-> 0, query |-> q, got |-> NoRows]]
    /\ UNCHANGED <<version, sched, owed, pending>>

\* ... and store the rows in the view the registry has under the name by then.
CreateFinish(h) ==
    /\ task[h].step = "create"
    /\ task[h].got # NoRows
    /\ objects' = Stored(current, task[h].got)
    /\ task' = [task EXCEPT ![h] = Idle]
    /\ UNCHANGED <<version, current, sched, owed, pending>>

\* REFRESH MATERIALIZED VIEW and POST /api/fuse/views/:name/refresh: get the
\* view, execute its query ...
RefreshStart(h) ==
    /\ task[h].step = "idle"
    /\ current # 0
    /\ task' = [task EXCEPT ![h] = [step |-> "refresh", view |-> current,
                                    query |-> objects[current].query, got |-> NoRows]]
    /\ UNCHANGED <<version, objects, current, sched, owed, pending>>

\* Mutant of RefreshFinish: the view is looked up again.
RefreshFinishByName(h) ==
    /\ task[h].step = "refresh"
    /\ task[h].got # NoRows
    /\ objects' = Stored(current, task[h].got)
    /\ task' = [task EXCEPT ![h] = Idle]
    /\ UNCHANGED <<version, current, sched, owed, pending>>

\* ... and store the rows in the view that was got.
RefreshFinish(h) ==
    /\ task[h].step = "refresh"
    /\ task[h].got # NoRows
    /\ objects' = Stored(task[h].view, task[h].got)
    /\ task' = [task EXCEPT ![h] = Idle]
    /\ UNCHANGED <<version, current, sched, owed, pending>>

\* The connector answers with the rows of this moment, or with an error.
Executed(h, got) ==
    /\ task[h].step # "idle"
    /\ task[h].got = NoRows
    /\ task' = [task EXCEPT ![h].got = got]
    /\ UNCHANGED <<version, objects, current, sched, owed, pending>>

\* Mutant of DeleteView: the object goes as well.
DeleteViewObject ==
    /\ current # 0
    /\ current' = 0
    /\ objects' = SubSeq(objects, 1, current - 1)
    /\ UNCHANGED <<version, task, sched, owed, pending>>

\* DELETE /api/fuse/views/:name.  Who holds the object keeps it.
DeleteView ==
    /\ current # 0
    /\ current' = 0
    /\ UNCHANGED <<version, objects, task, sched, owed, pending>>

-----------------------------------------------------------------------------
(* Changes of the source *)

\* A table the view depends on changes, and an event is on its way.
Change ==
    /\ version < MaxVersion
    /\ version' = version + 1
    /\ owed' = TRUE
    /\ UNCHANGED <<objects, current, task, sched, pending>>

\* POST /api/fuse/cdc/events: record_change marks the view, whose dependencies
\* have been registered.
IngestEvent ==
    /\ owed
    /\ owed' = FALSE
    /\ pending' = TRUE
    /\ UNCHANGED <<version, objects, current, task, sched>>

\* POST /api/fuse/cdc/refresh: take_pending, and the view's last_refresh is
\* forgotten.
TriggerRefresh ==
    /\ pending
    /\ pending' = FALSE
    /\ objects' = IF current = 0 THEN objects ELSE [objects EXCEPT ![current].stale = TRUE]
    /\ UNCHANGED <<version, current, task, sched, owed>>

\* The refresh interval of the view has elapsed.
IntervalElapses ==
    /\ current # 0
    /\ ~objects[current].stale
    /\ objects' = [objects EXCEPT ![current].stale = TRUE]
    /\ UNCHANGED <<version, current, task, sched, owed, pending>>

-----------------------------------------------------------------------------
(* The scheduler *)

\* A poll finds the view stale and executes its query.
Poll ==
    /\ sched.step = "idle"
    /\ current # 0
    /\ objects[current].stale
    /\ sched' = [step |-> "poll", view |-> 0, query |-> objects[current].query, got |-> NoRows]
    /\ UNCHANGED <<version, objects, current, task, owed, pending>>

PollExecuted(got) ==
    /\ sched.step # "idle"
    /\ sched.got = NoRows
    /\ sched' = [sched EXCEPT !.got = got]
    /\ UNCHANGED <<version, objects, current, task, owed, pending>>

\* Mutant of PollFinish: the first error ends the task of the scheduler.
PollFinishUnlessFailed ==
    /\ sched.step # "idle"
    /\ sched.got \notin {NoRows, Failed}
    /\ objects' = Stored(current, sched.got)
    /\ sched' = Idle
    /\ UNCHANGED <<version, current, task, owed, pending>>

\* The rows go to the view the registry has under the name by then, if any.
PollFinish ==
    /\ sched.step # "idle"
    /\ sched.got # NoRows
    /\ objects' = Stored(current, sched.got)
    /\ sched' = Idle
    /\ UNCHANGED <<version, current, task, owed, pending>>

-----------------------------------------------------------------------------

Define == \E q \in Queries : CreateView(q) \/ \E h \in Handlers : CreateStart(h, q)

Read(t) == [query |-> t.query, version |-> version, by |-> t.step]

HandlerStep ==
    \/ \E h \in Handlers : \/ CreateFinish(h) \/ RefreshStart(h) \/ RefreshFinish(h)
                           \/ Executed(h, Read(task[h])) \/ Executed(h, Failed)
    \/ DeleteView

SourceStep == Change \/ IngestEvent \/ TriggerRefresh \/ IntervalElapses

SchedulerStep ==
    \/ Poll
    \/ PollExecuted(Read(sched))
    \/ PollExecuted(Failed)
    \/ PollFinish

ServerNext == Define \/ HandlerStep \/ SourceStep
Next == ServerNext \/ SchedulerStep

ServerSpec == Init /\ [][ServerNext]_vars
Spec == Init /\ [][Next]_vars

\* The scheduler polls for ever, connectors answer, time passes, and executions
\* do not fail for ever.
FairSpec ==
    /\ Spec
    /\ WF_vars(Poll) /\ WF_vars(PollFinish) /\ WF_vars(IntervalElapses)
    /\ WF_vars(PollExecuted(Read(sched)) \/ PollExecuted(Failed))
    /\ SF_vars(PollExecuted(Read(sched)))

-----------------------------------------------------------------------------

View == [query: Queries, rows: Rows \cup {NoRows}, stale: BOOLEAN]

Task == [step: {"idle", "create", "refresh", "poll"}, view: 0..MaxObjects,
         query: Queries \cup {"none"}, got: Rows \cup {NoRows, Failed}]

TypeOK ==
    /\ version \in 0..MaxVersion
    /\ objects \in Seq(View)
    /\ current \in 0..Len(objects)
    /\ task \in [Handlers -> Task]
    /\ sched \in Task /\ sched.step \in {"idle", "poll"}
    /\ owed \in BOOLEAN /\ pending \in BOOLEAN
    /\ \A h \in Handlers : task[h].view \in 0..Len(objects)

\* "A materialized view stores the results of a SQL or PPL query"
\* (materialized.rs): the rows of a view are the answer to its own query.
\* CREATE MATERIALIZED VIEW breaks it.
ViewShowsItsQuery ==
    \A i \in 1..Len(objects) : objects[i].rows # NoRows => objects[i].rows.query = objects[i].query

\* What holds of all handlers and the scheduler, whatever views replace each other
\* while executions are in flight: a REFRESH stores in a view only rows of the
\* view's own query, because it keeps the object whose query it executes; CREATE
\* and the scheduler, which look the name up again, may instead store those of an
\* earlier view of the name, never of a later one.
ViewShowsAQueryOfItsName ==
    \A i \in 1..Len(objects) : objects[i].rows # NoRows =>
        \/ objects[i].rows.query = objects[i].query
        \/ /\ objects[i].rows.by # "refresh"
           /\ \E j \in 1..i - 1 : objects[j].query = objects[i].rows.query

\* The data of the view under the name.
Shown == IF current = 0 THEN NoRows ELSE objects[current].rows

\* With the scheduler running, every version of the source is shown sooner or
\* later, unless the view is deleted or replaced first.
ChangesAreShown ==
    \A n \in 1..MaxVersion, i \in 1..MaxObjects :
        version >= n /\ current = i ~> current # i \/ Shown.version >= n

\* A populated view stays populated, whatever fails and whoever refreshes it
\* ("Keep stale data - better than nothing", materialized.rs), until a new view
\* takes its name; and what it shows is something a defining query returned.
StaleDataIsKept ==
    [][\A i \in 1..Len(objects) :
           objects[i].rows # NoRows => /\ objects'[i].rows # NoRows
                                       /\ objects'[i].rows.query \in Queries]_vars
==============================================================================
