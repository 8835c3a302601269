----------------------- MODULE MaterializedViewsProofs -----------------------
(***************************************************************************)
(* Proof of what a view can show, for any number of requests, views and    *)
(* versions.  A REFRESH keeps the object it got together with its query;   *)
(* objects are never removed and their queries never change, so the two    *)
(* still belong together when the rows arrive.  CREATE and the scheduler   *)
(* keep only the query; it is the query of some view of the name, and the  *)
(* view they find later, if any, is that one or one made after it.         *)
(***************************************************************************)
EXTENDS MaterializedViews, TLAPS

\* What a task in flight holds: the rows it got answer its query; a refresh holds
\* the object with that query; for the others an object that is not newer than
\* the registered one has it.
Grounded(t) ==
    /\ t.got \notin {NoRows, Failed} => t.got.query = t.query /\ t.got.by = t.step
    /\ t.step = "refresh" => /\ t.view \in 1..Len(objects)
                             /\ t.query = objects[t.view].query
    /\ t.step \in {"create", "poll"} =>
           \E j \in 1..Len(objects) : objects[j].query = t.query /\ (current # 0 => j <= current)

TasksGrounded == \A h \in Handlers : Grounded(task[h])

ViewsInv ==
    /\ TypeOK
    /\ Len(objects) <= MaxObjects
    /\ TasksGrounded
    /\ Grounded(sched)
    /\ ViewShowsAQueryOfItsName

\* The markers for no rows and for a failure are not rows.
LEMMA RowsAreRows == NoRows \notin Rows /\ Failed \notin Rows
  BY DEF NoRows, Failed, Rows

\* A task that does nothing holds nothing.
LEMMA IdleTask == /\ Idle \in Task /\ Idle.step = "idle" /\ Idle.view = 0 /\ Idle.got = NoRows
  BY MaxVersionAssumption DEF Idle, Task

\* An empty registry satisfies the invariant.
LEMMA ViewsInit == Init => ViewsInv
<1> SUFFICES ASSUME Init PROVE ViewsInv
    OBVIOUS
<1>1. objects = <<>> /\ objects \in Seq(View) /\ Len(objects) = 0
    BY DEF Init
<1>2. TypeOK
    <2>1. task \in [Handlers -> Task] /\ sched \in Task /\ sched.step = "idle" /\ \A h \in Handlers : task[h].view = 0
        BY IdleTask DEF Init
    <2>2. version \in 0..MaxVersion /\ current \in 0..Len(objects)
        BY <1>1, MaxVersionAssumption DEF Init
    <2>3. owed \in BOOLEAN /\ pending \in BOOLEAN
        BY DEF Init
    <2> QED
        BY <1>1, <2>1, <2>2, <2>3 DEF TypeOK
<1>3. TasksGrounded /\ Grounded(sched)
    BY IdleTask DEF Init, TasksGrounded, Grounded
<1>4. ViewShowsAQueryOfItsName
    BY <1>1 DEF ViewShowsAQueryOfItsName
<1> QED
    BY <1>1, <1>2, <1>3, <1>4, MaxVersionAssumption DEF ViewsInv

-----------------------------------------------------------------------------

\* Steps that leave the queries and rows of all objects alone, and the registered
\* object or its absence, keep what a task holds and what the views show.
LEMMA SameViews ==
    ASSUME ViewsInv, objects' \in Seq(View), Len(objects') = Len(objects),
           \A i \in 1..Len(objects) : /\ objects'[i].query = objects[i].query
                                      /\ objects'[i].rows = objects[i].rows,
           current' \in {0, current}
    PROVE  /\ ViewShowsAQueryOfItsName'
           /\ task' = task => TasksGrounded'
           /\ sched' = sched => Grounded(sched)'
<1>1. Len(objects) \in Nat
    BY DEF ViewsInv, TypeOK
<1>2. ViewShowsAQueryOfItsName'
    BY <1>1 DEF ViewsInv, ViewShowsAQueryOfItsName
<1>3. ASSUME task' = task PROVE TasksGrounded'
    <2> SUFFICES ASSUME NEW h \in Handlers PROVE Grounded(task[h])'
        BY DEF TasksGrounded
    <2> QED
        BY <1>1, <1>3 DEF ViewsInv, TasksGrounded, Grounded
<1>4. ASSUME sched' = sched PROVE Grounded(sched)'
    BY <1>1, <1>4 DEF ViewsInv, Grounded
<1> QED
    BY <1>2, <1>3, <1>4

\* set_results changes the rows of one object, and nothing about its query.
LEMMA StoredViews ==
    ASSUME TypeOK, NEW v \in 0..Len(objects), NEW got \in Rows \cup {Failed}
    PROVE  /\ Stored(v, got) \in Seq(View)
           /\ Len(Stored(v, got)) = Len(objects)
           /\ \A i \in 1..Len(objects) :
                  /\ Stored(v, got)[i].query = objects[i].query
                  /\ Stored(v, got)[i].rows = IF i = v /\ got # Failed THEN got ELSE objects[i].rows
<1>1. objects \in Seq(View)
    BY DEF TypeOK
<1>2. CASE v = 0 \/ got = Failed
    BY <1>1, <1>2 DEF Stored
<1>3. CASE v # 0 /\ got # Failed
    <2>1. v \in 1..Len(objects) /\ objects[v] \in View /\ got \in Rows
        BY <1>1, <1>3
    <2>2. [objects[v] EXCEPT !.rows = got, !.stale = FALSE] \in View
        BY <2>1 DEF View
    <2>3. Stored(v, got) = [objects EXCEPT ![v] = [objects[v] EXCEPT !.rows = got, !.stale = FALSE]]
        BY <1>3 DEF Stored
    <2> QED
        BY <1>1, <1>3, <2>1, <2>2, <2>3 DEF View
<1> QED
    BY <1>2, <1>3

\* Storing the rows that a task holds: in the object a refresh holds, or for the
\* others in the registered one.  What the views show stays explained, and what
\* the other tasks hold is not touched.
LEMMA StoreStep ==
    ASSUME ViewsInv, NEW t \in Task, Grounded(t), t.step # "idle", t.got # NoRows,
           NEW v \in 0..Len(objects),
           v = IF t.step = "refresh" THEN t.view ELSE current,
           objects' = Stored(v, t.got), current' = current
    PROVE  /\ objects' \in Seq(View) /\ Len(objects') = Len(objects)
           /\ ViewShowsAQueryOfItsName'
           /\ task' = task => TasksGrounded'
           /\ \A k \in Handlers : task'[k] = task[k] => Grounded(task[k])'
           /\ sched' = sched => Grounded(sched)'
<1> DEFINE got == t.got
<1>1. got \in Rows \cup {Failed} /\ Len(objects) \in Nat /\ objects \in Seq(View)
    BY RowsAreRows DEF Task, ViewsInv, TypeOK
<1>2. /\ objects' \in Seq(View)
      /\ Len(objects') = Len(objects)
      /\ \A i \in 1..Len(objects) :
             /\ objects'[i].query = objects[i].query
             /\ objects'[i].rows = IF i = v /\ got # Failed THEN got ELSE objects[i].rows
    BY <1>1, StoredViews DEF ViewsInv
<1>3. ViewShowsAQueryOfItsName'
    <2> SUFFICES ASSUME NEW i \in 1..Len(objects), objects'[i].rows # NoRows
                 PROVE  \/ objects'[i].rows.query = objects'[i].query
                        \/ /\ objects'[i].rows.by # "refresh"
                           /\ \E j \in 1..i - 1 : objects'[j].query = objects'[i].rows.query
        BY <1>2 DEF ViewShowsAQueryOfItsName
    <2>1. CASE i = v /\ got # Failed
        <3>1. /\ objects'[i].rows = got /\ got.query = t.query /\ got.by = t.step
              /\ objects'[i].query = objects[i].query
            BY <1>2, <2>1 DEF Grounded
        <3>2. CASE t.step = "refresh"
            BY <2>1, <3>1, <3>2 DEF Grounded
        <3>3. CASE t.step # "refresh"
            <4>1. t.step \in {"create", "poll"} /\ current = i /\ current # 0
                BY <1>1, <2>1, <3>3 DEF Task
            <4>2. PICK j \in 1..Len(objects) : objects[j].query = t.query /\ j <= i
                BY <4>1 DEF Grounded
            <4>3. CASE j = i
                BY <3>1, <4>2, <4>3
            <4>4. CASE j # i
                <5>1. j \in 1..i - 1 /\ objects'[j].query = t.query
                    BY <1>1, <1>2, <4>2, <4>4
                <5> QED
                    BY <3>1, <3>3, <5>1
            <4> QED
                BY <4>3, <4>4
        <3> QED
            BY <3>2, <3>3
    <2>2. CASE ~(i = v /\ got # Failed)
        <3>1. objects'[i].rows = objects[i].rows /\ objects'[i].query = objects[i].query
            BY <1>2, <2>2
        <3>2. \A j \in 1..i - 1 : objects'[j].query = objects[j].query
            BY <1>1, <1>2
        <3> QED
            BY <3>1, <3>2 DEF ViewsInv, ViewShowsAQueryOfItsName
    <2> QED
        BY <2>1, <2>2
<1>4. ASSUME NEW k \in Handlers, task'[k] = task[k] PROVE Grounded(task[k])'
    BY <1>1, <1>2, <1>4 DEF ViewsInv, TasksGrounded, Grounded
<1>5. ASSUME sched' = sched PROVE Grounded(sched)'
    BY <1>1, <1>2, <1>5 DEF ViewsInv, Grounded
<1>6. ASSUME task' = task PROVE TasksGrounded'
    BY <1>4, <1>6 DEF TasksGrounded
<1> QED
    BY <1>2, <1>3, <1>4, <1>5, <1>6

\* register adds an object, makes it the registered one and changes no other.
LEMMA RegisterViews ==
    ASSUME ViewsInv, NEW q \in Queries, Register(q)
    PROVE  /\ objects' \in Seq(View)
           /\ Len(objects') = Len(objects) + 1 /\ Len(objects') <= MaxObjects
           /\ \A i \in 1..Len(objects) : objects'[i] = objects[i]
           /\ objects'[Len(objects')] = NewView(q)
           /\ current' = Len(objects')
           /\ ViewShowsAQueryOfItsName'
           /\ \A k \in Handlers : task'[k] = task[k] => Grounded(task[k])'
           /\ sched' = sched => Grounded(sched)'
<1>1. /\ objects \in Seq(View) /\ NewView(q) \in View
      /\ MaxObjects \in Nat /\ Len(objects) \in Nat /\ Len(objects) < MaxObjects
    BY MaxVersionAssumption DEF ViewsInv, TypeOK, View, NewView, Register
<1>2. /\ objects' \in Seq(View)
      /\ Len(objects') = Len(objects) + 1
      /\ \A i \in 1..Len(objects) : objects'[i] = objects[i]
      /\ objects'[Len(objects) + 1] = NewView(q)
      /\ current' = Len(objects) + 1
    BY <1>1 DEF Register
<1>3. ViewShowsAQueryOfItsName'
    <2> SUFFICES ASSUME NEW i \in 1..Len(objects'), objects'[i].rows # NoRows
                 PROVE  \/ objects'[i].rows.query = objects'[i].query
                        \/ /\ objects'[i].rows.by # "refresh"
                           /\ \E j \in 1..i - 1 : objects'[j].query = objects'[i].rows.query
        BY DEF ViewShowsAQueryOfItsName
    <2>1. i \in 1..Len(objects)
        BY <1>1, <1>2 DEF NewView
    <2>2. \A j \in 1..i - 1 : objects'[j] = objects[j]
        BY <1>1, <1>2, <2>1
    <2> QED
        BY <1>2, <2>1, <2>2 DEF ViewsInv, ViewShowsAQueryOfItsName
<1>4. ASSUME NEW k \in Handlers, task'[k] = task[k] PROVE Grounded(task[k])'
    BY <1>1, <1>2, <1>4 DEF ViewsInv, TasksGrounded, Grounded
<1>5. ASSUME sched' = sched PROVE Grounded(sched)'
    BY <1>1, <1>2, <1>5 DEF ViewsInv, Grounded
<1> QED
    BY <1>1, <1>2, <1>3, <1>4, <1>5

\* POST of a definition registers a view without rows.
LEMMA CreateViewStep ==
    ASSUME ViewsInv, NEW q \in Queries, CreateView(q) PROVE ViewsInv'
<1>1. Register(q) /\ UNCHANGED <<version, task, sched, owed, pending>>
    BY DEF CreateView
<1>2. TypeOK'
    BY <1>1, RegisterViews DEF ViewsInv, TypeOK
<1>3. TasksGrounded'
    BY <1>1, RegisterViews DEF TasksGrounded
<1> QED
    BY <1>1, <1>2, <1>3, RegisterViews DEF ViewsInv

\* CREATE MATERIALIZED VIEW keeps the query of the view it has registered.
LEMMA CreateStartStep ==
    ASSUME ViewsInv, NEW h \in Handlers, NEW q \in Queries, CreateStart(h, q) PROVE ViewsInv'
<1> DEFINE t == [step |-> "create", view |-> 0, query |-> q, got |-> NoRows]
<1>1. Register(q) /\ UNCHANGED <<version, sched, owed, pending>> /\ task' = [task EXCEPT ![h] = t]
    BY DEF CreateStart
<1>2. t \in Task
    BY MaxVersionAssumption DEF Task
<1>3. /\ task' \in [Handlers -> Task] /\ task'[h] = t
      /\ \A k \in Handlers \ {h} : task'[k] = task[k]
    BY <1>1, <1>2 DEF ViewsInv, TypeOK
<1>4. /\ objects' \in Seq(View) /\ Len(objects') \in Nat /\ Len(objects) \in Nat
      /\ Len(objects') = Len(objects) + 1 /\ current' = Len(objects')
      /\ objects'[Len(objects')].query = q
    <2>1. Len(objects) \in Nat
        BY DEF ViewsInv, TypeOK
    <2>2. /\ objects' \in Seq(View) /\ Len(objects') = Len(objects) + 1
          /\ current' = Len(objects') /\ objects'[Len(objects')] = NewView(q)
        BY <1>1, RegisterViews
    <2> QED
        BY <2>1, <2>2 DEF NewView
<1>5. TypeOK'
    BY <1>1, <1>3, <1>4 DEF ViewsInv, TypeOK
<1>6. TasksGrounded'
    <2> SUFFICES ASSUME NEW k \in Handlers PROVE Grounded(task[k])'
        BY DEF TasksGrounded
    <2>1. CASE k = h
        BY <1>3, <1>4, <2>1 DEF Grounded
    <2>2. CASE k # h
        BY <1>1, <1>3, <2>2, RegisterViews
    <2> QED
        BY <2>1, <2>2
<1> QED
    BY <1>1, <1>5, <1>6, RegisterViews DEF ViewsInv

\* REFRESH takes the object and its query together.
LEMMA RefreshStartStep ==
    ASSUME ViewsInv, NEW h \in Handlers, RefreshStart(h) PROVE ViewsInv'
<1>1. /\ objects \in Seq(View) /\ Len(objects) \in Nat /\ Len(objects) <= MaxObjects
      /\ MaxObjects \in Nat /\ current \in 1..Len(objects) /\ objects[current] \in View
      /\ UNCHANGED <<version, objects, current, sched, owed, pending>>
    BY MaxVersionAssumption DEF ViewsInv, TypeOK, RefreshStart
<1>2. /\ task'[h] = [step |-> "refresh", view |-> current, query |-> objects[current].query, got |-> NoRows]
      /\ \A k \in Handlers \ {h} : task'[k] = task[k]
    BY DEF RefreshStart, ViewsInv, TypeOK
<1>3. task'[h] \in Task
    BY <1>1, <1>2 DEF Task, View
<1>4. TypeOK'
    BY <1>1, <1>2, <1>3 DEF ViewsInv, TypeOK, RefreshStart
<1>5. TasksGrounded'
    <2> SUFFICES ASSUME NEW k \in Handlers PROVE Grounded(task[k])'
        BY DEF TasksGrounded
    <2>1. CASE k = h
        BY <1>1, <1>2, <2>1 DEF Grounded
    <2>2. CASE k # h
        BY <1>1, <1>2, <2>2 DEF ViewsInv, TasksGrounded, Grounded
    <2> QED
        BY <2>1, <2>2
<1>6. ViewShowsAQueryOfItsName' /\ Grounded(sched)'
    BY <1>1, SameViews
<1> QED
    BY <1>1, <1>4, <1>5, <1>6 DEF ViewsInv

\* A task that gets rows, or an error: the rows answer the query that was asked.
LEMMA GotStep ==
    ASSUME ViewsInv, NEW t \in Task, Grounded(t), t.step # "idle", NEW g,
           g = Failed \/ g = Read(t)
    PROVE  [t EXCEPT !.got = g] \in Task /\ Grounded([t EXCEPT !.got = g])
<1>1. t.query \in Queries
    <2>1. objects \in Seq(View)
        BY DEF ViewsInv, TypeOK
    <2>2. PICK j \in 1..Len(objects) : objects[j].query = t.query
        BY DEF Grounded, Task
    <2>3. objects[j] \in View
        BY <2>1
    <2> QED
        BY <2>2, <2>3 DEF View
<1>2. g = Failed \/ (g \in Rows /\ g.query = t.query /\ g.by = t.step)
    <2>1. version \in 0..MaxVersion
        BY DEF ViewsInv, TypeOK
    <2>2. t.step \in {"create", "refresh", "poll"}
        BY DEF Task
    <2>3. Read(t) \in Rows /\ Read(t).query = t.query /\ Read(t).by = t.step
        BY <1>1, <2>1, <2>2 DEF Read, Rows
    <2> QED
        BY <2>3
<1> DEFINE u == [t EXCEPT !.got = g]
<1>3. u \in Task /\ u.step = t.step /\ u.view = t.view /\ u.query = t.query /\ u.got = g
    BY <1>2 DEF Task
<1>4. Grounded(u)
    BY <1>2, <1>3 DEF Grounded
<1> QED
    BY <1>3, <1>4

\* The query of a request ends, with rows or without.
LEMMA ExecutedStep ==
    ASSUME ViewsInv, NEW h \in Handlers,
           Executed(h, Read(task[h])) \/ Executed(h, Failed)
    PROVE  ViewsInv'
<1>1. /\ task[h].step # "idle" /\ task[h] \in Task /\ Grounded(task[h])
      /\ objects \in Seq(View)
      /\ UNCHANGED <<version, objects, current, sched, owed, pending>>
    BY DEF ViewsInv, TypeOK, TasksGrounded, Executed
<1>2. PICK g : /\ g = Failed \/ g = Read(task[h])
               /\ task' = [task EXCEPT ![h].got = g]
    BY DEF Executed
<1>3. /\ task'[h] = [task[h] EXCEPT !.got = g]
      /\ \A k \in Handlers \ {h} : task'[k] = task[k]
    BY <1>2 DEF ViewsInv, TypeOK
<1>4. [task[h] EXCEPT !.got = g] \in Task /\ Grounded([task[h] EXCEPT !.got = g])
    BY <1>1, <1>2, GotStep
<1>5. task' \in [Handlers -> Task] /\ task'[h].view = task[h].view
    BY <1>1, <1>2, <1>3, <1>4 DEF ViewsInv, TypeOK, Task
<1>6. TypeOK'
    BY <1>1, <1>3, <1>5 DEF ViewsInv, TypeOK
<1>7. TasksGrounded'
    <2> SUFFICES ASSUME NEW k \in Handlers PROVE Grounded(task[k])'
        BY DEF TasksGrounded
    <2>1. CASE k = h
        BY <1>1, <1>3, <1>4, <2>1 DEF Grounded
    <2>2. CASE k # h
        BY <1>1, <1>3, <2>2 DEF ViewsInv, TasksGrounded, Grounded
    <2> QED
        BY <2>1, <2>2
<1>8. ViewShowsAQueryOfItsName' /\ Grounded(sched)'
    BY <1>1, SameViews
<1> QED
    BY <1>1, <1>6, <1>7, <1>8 DEF ViewsInv

\* The rows are stored in the object the refresh holds, or in the registered one.
LEMMA FinishStep ==
    ASSUME ViewsInv, NEW h \in Handlers, CreateFinish(h) \/ RefreshFinish(h) PROVE ViewsInv'
<1> DEFINE t == task[h]
           v == IF t.step = "refresh" THEN t.view ELSE current
<1>1. /\ t \in Task /\ Grounded(t) /\ t.step # "idle" /\ t.got # NoRows
      /\ v \in 0..Len(objects) /\ objects' = Stored(v, t.got)
      /\ UNCHANGED <<version, current, sched, owed, pending>>
      /\ task' = [task EXCEPT ![h] = Idle]
    BY DEF ViewsInv, TypeOK, TasksGrounded, CreateFinish, RefreshFinish
<1> HIDE DEF t, v
<1>2. /\ objects' \in Seq(View) /\ Len(objects') = Len(objects)
      /\ ViewShowsAQueryOfItsName'
      /\ \A k \in Handlers : task'[k] = task[k] => Grounded(task[k])'
      /\ Grounded(sched)'
    <2>1. v = IF t.step = "refresh" THEN t.view ELSE current
        BY DEF v
    <2> QED
        BY <1>1, <2>1, StoreStep
<1>3. /\ task' \in [Handlers -> Task] /\ task'[h] = Idle
      /\ \A k \in Handlers \ {h} : task'[k] = task[k]
    BY <1>1, IdleTask DEF ViewsInv, TypeOK
<1>4. TypeOK'
    BY <1>1, <1>2, <1>3, IdleTask DEF ViewsInv, TypeOK
<1>5. TasksGrounded'
    <2> SUFFICES ASSUME NEW k \in Handlers PROVE Grounded(task[k])'
        BY DEF TasksGrounded
    <2>1. CASE k = h
        BY <1>3, <2>1, IdleTask DEF Grounded
    <2>2. CASE k # h
        BY <1>2, <1>3, <2>2
    <2> QED
        BY <2>1, <2>2
<1> QED
    BY <1>1, <1>2, <1>4, <1>5 DEF ViewsInv

\* The scheduler keeps the query of the registered view.
LEMMA PollStep == ASSUME ViewsInv, Poll PROVE ViewsInv'
<1>1. /\ objects \in Seq(View) /\ Len(objects) \in Nat
      /\ current \in 1..Len(objects) /\ objects[current] \in View
      /\ UNCHANGED <<version, objects, current, task, owed, pending>>
      /\ sched' = [step |-> "poll", view |-> 0, query |-> objects[current].query, got |-> NoRows]
    BY DEF ViewsInv, TypeOK, Poll
<1>2. sched' \in Task
    BY <1>1, MaxVersionAssumption DEF Task, View
<1>3. TypeOK'
    BY <1>1, <1>2 DEF ViewsInv, TypeOK
<1>4. Grounded(sched)'
    BY <1>1 DEF Grounded
<1>5. ViewShowsAQueryOfItsName' /\ TasksGrounded'
    BY <1>1, SameViews
<1> QED
    BY <1>1, <1>3, <1>4, <1>5 DEF ViewsInv

\* The query of the scheduler ends, with rows or without.
LEMMA PollExecutedStep ==
    ASSUME ViewsInv, PollExecuted(Read(sched)) \/ PollExecuted(Failed) PROVE ViewsInv'
<1>1. /\ sched.step # "idle" /\ sched \in Task /\ Grounded(sched) /\ objects \in Seq(View)
      /\ UNCHANGED <<version, objects, current, task, owed, pending>>
    BY DEF ViewsInv, TypeOK, PollExecuted
<1>2. PICK g : (g = Failed \/ g = Read(sched)) /\ sched' = [sched EXCEPT !.got = g]
    BY DEF PollExecuted
<1>3. sched' \in Task /\ Grounded([sched EXCEPT !.got = g]) /\ sched'.step = sched.step
    <2>1. [sched EXCEPT !.got = g] \in Task /\ Grounded([sched EXCEPT !.got = g])
        BY <1>1, <1>2, GotStep
    <2> QED
        BY <1>1, <1>2, <2>1 DEF Task
<1>4. TypeOK'
    BY <1>1, <1>3 DEF ViewsInv, TypeOK
<1>5. Grounded(sched)'
    BY <1>1, <1>2, <1>3 DEF Grounded
<1>6. ViewShowsAQueryOfItsName' /\ TasksGrounded'
    BY <1>1, SameViews
<1> QED
    BY <1>1, <1>4, <1>5, <1>6 DEF ViewsInv

\* The scheduler stores what it got in the view it finds under the name.
LEMMA PollFinishStep == ASSUME ViewsInv, PollFinish PROVE ViewsInv'
<1>1. /\ sched \in Task /\ Grounded(sched) /\ sched.step = "poll" /\ sched.got # NoRows
      /\ current \in 0..Len(objects) /\ objects' = Stored(current, sched.got)
      /\ current = IF sched.step = "refresh" THEN sched.view ELSE current
      /\ UNCHANGED <<version, current, task, owed, pending>>
      /\ sched' = Idle
    BY DEF ViewsInv, TypeOK, PollFinish
<1>2. /\ objects' \in Seq(View) /\ Len(objects') = Len(objects)
      /\ ViewShowsAQueryOfItsName' /\ TasksGrounded'
    BY <1>1, StoreStep
<1>3. TypeOK'
    BY <1>1, <1>2, IdleTask DEF ViewsInv, TypeOK
<1>4. Grounded(sched)'
    BY <1>1, IdleTask DEF Grounded
<1> QED
    BY <1>2, <1>3, <1>4 DEF ViewsInv

\* Marking a view as stale touches neither its query nor its rows.
LEMMA MarkStep ==
    ASSUME ViewsInv, TriggerRefresh \/ IntervalElapses PROVE ViewsInv'
<1>1. /\ objects \in Seq(View) /\ Len(objects) \in Nat /\ current \in 0..Len(objects)
      /\ UNCHANGED <<version, current, task, sched, owed>>
      /\ \/ objects' = objects
         \/ current # 0 /\ objects' = [objects EXCEPT ![current].stale = TRUE]
    BY DEF ViewsInv, TypeOK, TriggerRefresh, IntervalElapses
<1>2. /\ objects' \in Seq(View) /\ Len(objects') = Len(objects)
      /\ \A i \in 1..Len(objects) : /\ objects'[i].query = objects[i].query
                                    /\ objects'[i].rows = objects[i].rows
    <2>1. CASE objects' = objects
        BY <1>1, <2>1
    <2>2. CASE current # 0 /\ objects' = [objects EXCEPT ![current].stale = TRUE]
        <3>1. current \in 1..Len(objects) /\ objects[current] \in View
            BY <1>1, <2>2
        <3>2. [objects[current] EXCEPT !.stale = TRUE] \in View
            BY <3>1 DEF View
        <3> QED
            BY <1>1, <2>2, <3>1, <3>2 DEF View
    <2> QED
        BY <1>1, <2>1, <2>2
<1>3. TypeOK'
    <2>1. pending' \in BOOLEAN
        BY DEF ViewsInv, TypeOK, TriggerRefresh, IntervalElapses
    <2> QED
        BY <1>1, <1>2, <2>1 DEF ViewsInv, TypeOK
<1>4. ViewShowsAQueryOfItsName' /\ TasksGrounded' /\ Grounded(sched)'
    BY <1>1, <1>2, SameViews
<1> QED
    BY <1>2, <1>3, <1>4 DEF ViewsInv

\* Deleting a view, changes of the source and their events touch no object.
LEMMA OtherStep ==
    ASSUME ViewsInv, DeleteView \/ Change \/ IngestEvent \/ UNCHANGED vars PROVE ViewsInv'
<1>1. /\ UNCHANGED <<objects, task, sched>> /\ current' \in {0, current}
      /\ objects \in Seq(View) /\ Len(objects) \in Nat /\ current \in 0..Len(objects)
    BY DEF ViewsInv, TypeOK, DeleteView, Change, IngestEvent, vars
<1>2. TypeOK'
    <2>1. version' \in 0..MaxVersion
        BY MaxVersionAssumption DEF ViewsInv, TypeOK, DeleteView, Change, IngestEvent, vars
    <2>2. owed' \in BOOLEAN /\ pending' \in BOOLEAN
        BY DEF ViewsInv, TypeOK, DeleteView, Change, IngestEvent, vars
    <2> QED
        BY <1>1, <2>1, <2>2 DEF ViewsInv, TypeOK
<1>3. ViewShowsAQueryOfItsName' /\ TasksGrounded' /\ Grounded(sched)'
    BY <1>1, SameViews
<1> QED
    BY <1>1, <1>2, <1>3 DEF ViewsInv

\* Every step preserves the invariant.
LEMMA ViewsStep == ViewsInv /\ [Next]_vars => ViewsInv'
    BY CreateViewStep, CreateStartStep, RefreshStartStep, ExecutedStep, FinishStep, PollStep,
       PollExecutedStep, PollFinishStep, MarkStep, OtherStep
    DEF Next, ServerNext, Define, HandlerStep, SourceStep, SchedulerStep

\* Every reachable state of the registry, the requests and the scheduler is well
\* typed.
THEOREM ViewsTypeCorrect == Spec => []TypeOK
<1>1. ViewsInv => TypeOK
    BY DEF ViewsInv
<1> QED
    BY <1>1, ViewsInit, ViewsStep, PTL DEF Spec

\* Whatever views replace each other under a name while CREATE, REFRESH and the
\* scheduler execute queries: a REFRESH stores in a view only rows of the view's
\* own query, and the others only rows of its own or of an earlier view's.
THEOREM ViewsShowTheirQueries == Spec => []ViewShowsAQueryOfItsName
<1>1. ViewsInv => ViewShowsAQueryOfItsName
    BY DEF ViewsInv
<1> QED
    BY <1>1, ViewsInit, ViewsStep, PTL DEF Spec
==============================================================================
