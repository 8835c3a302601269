--------------------------- MODULE CteResolution ---------------------------
(***************************************************************************)
(* WITH and WITH RECURSIVE in fuse-server: resolve_ctes executes the       *)
(* common table expressions of a query one after the other and puts their  *)
(* rows into the connector registry, which all queries share, as temporary *)
(* connectors under the names the query gave them; the main query then     *)
(* finds them there like any datasource.                                   *)
(*                                                                         *)
(* Rows are abstracted to where they come from: the datasource, or the     *)
(* query and the name of the expression that selected them from a          *)
(* datasource, and how often a recursive part was applied to them.  Every  *)
(* part of a query may read any registered name: datasources, its own      *)
(* expressions and those that other queries left in the registry.  A       *)
(* temporary connector (MemoryConnector) returns its rows as they are.     *)
(*                                                                         *)
(* The registry never gives up or replaces a connector and a temporary     *)
(* connector never changes, so looking a connector up and executing on it  *)
(* may be one step; registering what was selected is a later one.          *)
(***************************************************************************)
EXTENDS Integers, Sequences, FiniteSets

CONSTANTS CteQueries,
          CteNames,      \* names a query may use, names of datasources among them
          Configured,    \* the names of the datasources of the configuration
          CtePrograms,   \* [ctes: Seq(CteExpressions), main: the names main reads]
          MaxIterations, \* MAX_ITERATIONS of execute_recursive_cte
          Depth          \* how often a recursive part yields rows from fresh ones

ASSUME CteNumbersAssumption == MaxIterations \in Nat /\ Depth \in Nat
ASSUME CteNamesAssumption == Configured \subseteq CteNames

\* An expression selects from the names it reads: from one or by a join ("plain"),
\* by UNION ALL, or as the base of a recursion whose other part reads `again`.
CteExpressions == [name : CteNames, kind : {"plain", "union", "recursive"},
                   reads : SUBSET CteNames, again : SUBSET CteNames]

ASSUME CteProgramsAssumption ==
    \A p \in CtePrograms : p.ctes \in Seq(CteExpressions) /\ p.main \in SUBSET CteNames

VARIABLES connectors, \* ConnectorRegistry::inner: what is behind each name
          program,    \* the query text each handler works on
          at,         \* which expression it has come to
          step,       \* where it stands in that expression
          working,    \* working_set of execute_recursive_cte
          gathered,   \* the rows to register: all_batches of execute_recursive_cte
          iteration,
          failed,     \* an expression of this query was not executed
          answer      \* what the main query returned

cteVars == <<connectors, program, at, step, working, gathered, iteration, failed, answer>>

\* `by` is the query whose expression the rows were selected for.
Absent == [found |-> FALSE, by |-> "datasource", rows |-> {}]
Holding(by, rows) == [found |-> TRUE, by |-> by, rows |-> rows]

\* What a query gets that reads these names.
Read(names) == [m \in CteNames |-> IF m \in names THEN connectors[m] ELSE Absent]
NothingRead == [m \in CteNames |-> Absent]

DatasourceRow(d) == [of |-> d, by |-> "datasource", gen |-> 0]
BaseRow(q, n) == [of |-> n, by |-> q, gen |-> 0]
Datasource(d) == Holding("datasource", {DatasourceRow(d)})

\* What an expression n of q gets from a connector: a selection of a datasource, or
\* all the rows of a temporary connector.
Selected(q, n, c) == {IF r.by = "datasource" THEN BaseRow(q, n) ELSE r : r \in c.rows}

Reading(q, n, names) == UNION {Selected(q, n, connectors[m]) : m \in names}

\* One application of a recursive part to the rows it reads.
Recur(rows) == {[r EXCEPT !.gen = @ + 1] : r \in {s \in rows : s.gen < Depth}}

Current(q) == program[q].ctes[at[q]]

\* A datasource may have no rows to select, and a join may match none.
MayBeEmpty(e) == e.reads \cap Configured # {} \/ (e.kind = "plain" /\ Cardinality(e.reads) > 1)

\* The rows that selecting from the names held may yield; a join with nothing is empty.
Bodies(q, e, held) ==
    LET all == Reading(q, e.name, held)
    IN  {rows \in {{}, all} :
            /\ rows # all => MayBeEmpty(e)
            /\ rows # {} => e.kind = "union" \/ \A m \in held : connectors[m].rows # {}}

\* The names in the text after the expressions, or when there are none (it cannot be
\* parsed) those in the whole text.
MainNames(q) ==
    LET ctes == program[q].ctes
    IN  IF program[q].main # {} THEN program[q].main
        ELSE UNION {ctes[i].reads \cup ctes[i].again : i \in 1..Len(ctes)}

CteInit ==
    /\ connectors = [n \in CteNames |->
                        IF n \in Configured THEN Datasource(n) ELSE Absent]
    /\ program \in [CteQueries -> CtePrograms]
    /\ at = [q \in CteQueries |-> 1]
    /\ step = [q \in CteQueries |-> "next"]
    /\ working = [q \in CteQueries |-> {}]
    /\ gathered = [q \in CteQueries |-> {}]
    /\ iteration = [q \in CteQueries |-> 0]
    /\ failed = [q \in CteQueries |-> FALSE]
    /\ answer = [q \in CteQueries |-> [status |-> "none", read |-> NothingRead]]

\* Mutant of Registered: the connector of an earlier query is replaced.
RegisteredReplacing(q, n, rows) == [connectors EXCEPT ![n] = Holding(q, rows)]

\* ConnectorRegistry::register; resolve_ctes ignores that a taken name is refused.
Registered(q, n, rows) ==
    IF connectors[n].found THEN connectors
    ELSE [connectors EXCEPT ![n] = Holding(q, rows)]

\* The next expression cannot be parsed, or a connector it reads is missing or fails:
\* it is skipped.
SkipCte(q) ==
    /\ step[q] = "next"
    /\ at[q] <= Len(program[q].ctes)
    /\ at' = [at EXCEPT ![q] = @ + 1]
    /\ failed' = [failed EXCEPT ![q] = TRUE]
    /\ UNCHANGED <<connectors, program, step, working, gathered, iteration, answer>>

\* A regular expression is executed.  A union leaves out the names nobody holds and
\* those whose connectors fail, and fails when all that are held do.
PlainCte(q) ==
    LET e == Current(q)
        there == {m \in e.reads : connectors[m].found}
    IN /\ step[q] = "next"
       /\ at[q] <= Len(program[q].ctes)
       /\ e.kind # "recursive"
       /\ e.reads # {}
       /\ \E held \in SUBSET there :
             /\ IF e.kind = "union" THEN held # {} \/ there = {} ELSE held = e.reads
             /\ \E rows \in Bodies(q, e, held) : gathered' = [gathered EXCEPT ![q] = rows]
       /\ step' = [step EXCEPT ![q] = "register"]
       /\ UNCHANGED <<connectors, program, at, working, iteration, failed, answer>>

\* The base of a recursive expression is executed: it reads one name.
RecursiveBase(q) ==
    LET e == Current(q)
    IN /\ step[q] = "next"
       /\ at[q] <= Len(program[q].ctes)
       /\ e.kind = "recursive"
       /\ \E m \in CteNames : e.reads = {m} /\ connectors[m].found
       /\ \E rows \in Bodies(q, e, e.reads) :
             /\ working' = [working EXCEPT ![q] = rows]
             /\ gathered' = [gathered EXCEPT ![q] = rows]
       /\ iteration' = [iteration EXCEPT ![q] = 0]
       /\ step' = [step EXCEPT ![q] = "iterate"]
       /\ UNCHANGED <<connectors, program, at, failed, answer>>

\* Mutant of Iterating: no limit on the iterations.
IteratingWithoutLimit(q) == step[q] = "iterate" /\ working[q] # {}

\* Another round of the loop of execute_recursive_cte.
Iterating(q) == step[q] = "iterate" /\ working[q] # {} /\ iteration[q] < MaxIterations

\* The working set is offered to the registry, then the recursive part, a selection
\* or a join of two, runs on whatever the registry holds under the names it reads.
\* The guard keeps the count within its bound; it is taken modulo the bound so that
\* it is finite without the guard.
Iterate(q) ==
    LET e == Current(q)
        registry == Registered(q, e.name, working[q])
        parts == {Recur(Selected(q, e.name, registry[m])) : m \in e.again}
    IN /\ Iterating(q)
       /\ Cardinality(e.again) \in 1..2
       /\ \A m \in e.again : registry[m].found
       /\ {} \notin parts
       /\ connectors' = registry
       /\ working' = [working EXCEPT ![q] = UNION parts]
       /\ gathered' = [gathered EXCEPT ![q] = @ \cup UNION parts]
       /\ iteration' = [iteration EXCEPT ![q] = (@ + 1) % (MaxIterations + 1)]
       /\ UNCHANGED <<program, at, step, failed, answer>>

\* The recursive part yields nothing, joins more than two names, or a connector it
\* reads is missing or fails: the loop ends with what has been gathered.
LastIteration(q) ==
    /\ Iterating(q)
    /\ Current(q).again # {}
    /\ connectors' = Registered(q, Current(q).name, working[q])
    /\ step' = [step EXCEPT ![q] = "register"]
    /\ UNCHANGED <<program, at, working, gathered, iteration, failed, answer>>

\* The recursive part reads no name, so it cannot be parsed: execute_recursive_cte
\* returns None, and leaves the working set it has just registered behind.
AbandonRecursion(q) ==
    /\ Iterating(q)
    /\ Current(q).again = {}
    /\ connectors' = Registered(q, Current(q).name, working[q])
    /\ at' = [at EXCEPT ![q] = @ + 1]
    /\ step' = [step EXCEPT ![q] = "next"]
    /\ failed' = [failed EXCEPT ![q] = TRUE]
    /\ UNCHANGED <<program, working, gathered, iteration, answer>>

\* The loop condition ends the loop.
LeaveLoop(q) ==
    /\ step[q] = "iterate"
    /\ ~Iterating(q)
    /\ step' = [step EXCEPT ![q] = "register"]
    /\ UNCHANGED <<connectors, program, at, working, gathered, iteration, failed, answer>>

\* Mutant of RegisterGathered: an empty result is not registered.
RegisterGatheredUnlessEmpty(q) ==
    /\ step[q] = "register"
    /\ connectors' = IF gathered[q] = {} THEN connectors
                     ELSE Registered(q, Current(q).name, gathered[q])
    /\ at' = [at EXCEPT ![q] = @ + 1]
    /\ step' = [step EXCEPT ![q] = "next"]
    /\ UNCHANGED <<program, working, gathered, iteration, failed, answer>>

\* Mutant of RegisterGathered: the final result replaces the first working set.
RegisterGatheredReplacing(q) ==
    /\ step[q] = "register"
    /\ connectors' = [connectors EXCEPT ![Current(q).name] = Holding(q, gathered[q])]
    /\ at' = [at EXCEPT ![q] = @ + 1]
    /\ step' = [step EXCEPT ![q] = "next"]
    /\ UNCHANGED <<program, working, gathered, iteration, failed, answer>>

\* Mutant of RegisterGathered: the position is advanced twice.
RegisterGatheredSkips(q) ==
    /\ step[q] = "register"
    /\ connectors' = Registered(q, Current(q).name, gathered[q])
    /\ at' = [at EXCEPT ![q] = @ + 2]
    /\ step' = [step EXCEPT ![q] = "next"]
    /\ UNCHANGED <<program, working, gathered, iteration, failed, answer>>

\* resolve_ctes registers the rows the expression yielded.
RegisterGathered(q) ==
    /\ step[q] = "register"
    /\ connectors' = Registered(q, Current(q).name, gathered[q])
    /\ at' = [at EXCEPT ![q] = @ + 1]
    /\ step' = [step EXCEPT ![q] = "next"]
    /\ UNCHANGED <<program, working, gathered, iteration, failed, answer>>

\* The names the main query reads are looked up (404 when one is absent) and read.
MainQuery(q) ==
    LET names == MainNames(q)
    IN /\ step[q] = "next"
       /\ at[q] > Len(program[q].ctes)
       /\ answer' = [answer EXCEPT ![q] =
                        IF \A m \in names : connectors[m].found
                        THEN [status |-> "ok", read |-> Read(names)]
                        ELSE [status |-> "not found", read |-> NothingRead]]
       /\ step' = [step EXCEPT ![q] = "answered"]
       /\ UNCHANGED <<connectors, program, at, working, gathered, iteration, failed>>

CteStep(q) ==
    \/ SkipCte(q) \/ PlainCte(q) \/ RecursiveBase(q)
    \/ Iterate(q) \/ LastIteration(q) \/ AbandonRecursion(q) \/ LeaveLoop(q)
    \/ RegisterGathered(q) \/ MainQuery(q)

CteNext == \E q \in CteQueries : CteStep(q)

CteSpec == CteInit /\ [][CteNext]_cteVars

\* Connectors answer, with rows or with an error, and handlers are scheduled.
CteFairness == \A q \in CteQueries : WF_cteVars(CteStep(q))

-----------------------------------------------------------------------------

CteRows == [of : CteNames, by : CteQueries \cup {"datasource"}, gen : 0..Depth]
CteContents == [found : BOOLEAN, by : CteQueries \cup {"datasource"}, rows : SUBSET CteRows]
CteAnswers == [status : {"none", "ok", "not found"}, read : [CteNames -> CteContents]]
CteSteps == {"next", "iterate", "register", "answered"}

CteTypeOK ==
    /\ connectors \in [CteNames -> CteContents]
    /\ program \in [CteQueries -> CtePrograms]
    /\ at \in [CteQueries -> Nat]
    /\ \A q \in CteQueries : at[q] \in 1..Len(program[q].ctes) + 1
    /\ step \in [CteQueries -> CteSteps]
    /\ working \in [CteQueries -> SUBSET CteRows]
    /\ gathered \in [CteQueries -> SUBSET CteRows]
    /\ iteration \in [CteQueries -> 0..MaxIterations]
    /\ failed \in [CteQueries -> BOOLEAN]
    /\ answer \in [CteQueries -> CteAnswers]

\* A name holds what one execution of one expression selected: its body or the base
\* of its recursion, from the names that part reads.
OneSelection(n) ==
    \E q \in CteQueries : \E i \in 1..Len(program[q].ctes) :
        /\ connectors[n].by = q
        /\ program[q].ctes[i].name = n
        /\ connectors[n].rows \subseteq Reading(q, n, program[q].ctes[i].reads)

\* Queries that use one name at the same time iterate over each other's rows; still,
\* what a name holds is the selection of one expression of one query, and what an
\* answer read under a name is what the name holds ever after, so that all answers
\* agree on it.  The expression may be another query's.
AnswersAreWhole ==
    /\ \A n \in CteNames \ Configured : connectors[n].found => OneSelection(n)
    /\ \A q \in CteQueries : answer[q].status = "ok" =>
          answer[q].read = Read(MainNames(q))

\* An expression with the name of a configured datasource never hides it from the
\* queries that do not define that name: they read the datasource.
DatasourcesAreNotHidden ==
    \A q \in CteQueries :
        \A d \in Configured \ {program[q].ctes[i].name : i \in 1..Len(program[q].ctes)} :
            answer[q].status = "ok" /\ d \in MainNames(q) =>
                answer[q].read[d] = Datasource(d)

\* A query whose expressions were all executed and that reads only them and
\* datasources finds every name, be the results empty and whichever query took the
\* names first.
ResolvedCtesAreFound ==
    \A q \in CteQueries :
        LET ctes == program[q].ctes
        IN  /\ step[q] = "answered" /\ ~failed[q]
            /\ MainNames(q) \subseteq Configured \cup {ctes[i].name : i \in 1..Len(ctes)}
            => answer[q].status = "ok"

\* Resolution ends: the limit stops a recursive part that is applied to the same
\* rows again and again because its new working set is refused by the registry.
CtesAreResolved ==
    CteFairness => \A q \in CteQueries : <>(step[q] = "answered")

\* "Parse WITH clauses, execute each CTE, register results as temp connectors": a
\* query that reads its recursive expression gets the rows that were gathered.
RecursiveResultIsRead ==
    \A q \in CteQueries :
        LET e == program[q].ctes[1]
        IN  /\ answer[q].status = "ok" /\ ~failed[q]
            /\ Len(program[q].ctes) = 1
            /\ e.kind = "recursive" /\ e.name \notin Configured /\ MainNames(q) = {e.name}
            => answer[q].read[e.name].rows = gathered[q]
=============================================================================
