------------------------ MODULE CteResolutionProofs ------------------------
(***************************************************************************)
(* Proofs about CteResolution for every set of queries, names and          *)
(* programs.  What makes the invariants inductive is where the rows behind *)
(* a name can come from: until somebody holds the name of an expression,   *)
(* the query that works on it has nothing but what the expression's body   *)
(* or base selected, and afterwards nothing it gathers, mixed as it may    *)
(* be, gets into the registry.  What a selection read stays readable,      *)
(* because a connector is never replaced.                                  *)
(***************************************************************************)
EXTENDS CteResolution, TLAPS

InExpression(q) == step[q] \in {"iterate", "register"}

\* A query in an expression works on what its body or base selected for as long as
\* the name is free.
Grounded(q) ==
    InExpression(q) =>
        /\ at[q] \in 1..Len(program[q].ctes)
        /\ \/ connectors[Current(q).name].found
           \/ /\ gathered[q] \subseteq Reading(q, Current(q).name, Current(q).reads)
              /\ step[q] = "iterate" =>
                    working[q] \subseteq Reading(q, Current(q).name, Current(q).reads)

\* The expressions that a query has executed are in the registry.
Resolved(q) ==
    ~failed[q] => \A i \in 1..at[q] - 1 : connectors[program[q].ctes[i].name].found

AbsentIsEmpty == \A n \in CteNames : ~connectors[n].found => connectors[n].rows = {}

DatasourcesHeld == \A d \in Configured : connectors[d] = Datasource(d)

\* The two halves of AnswersAreWhole; the names of an answer are held.
SelectionsAreOne == \A n \in CteNames \ Configured : connectors[n].found => OneSelection(n)

AnswersAreHeld ==
    \A q \in CteQueries : answer[q].status = "ok" =>
        /\ answer[q].read = Read(MainNames(q))
        /\ \A m \in CteNames \cap MainNames(q) : connectors[m].found

CteInv ==
    /\ CteTypeOK
    /\ \A q \in CteQueries : Grounded(q)
    /\ \A q \in CteQueries : Resolved(q)
    /\ AbsentIsEmpty
    /\ DatasourcesHeld
    /\ SelectionsAreOne
    /\ AnswersAreHeld
    /\ ResolvedCtesAreFound

\* What a step does to the registry: held names keep their connectors, and what it
\* adds is sound.
RegistryKept ==
    /\ connectors' \in [CteNames -> CteContents]
    /\ \A m \in CteNames : connectors[m].found => connectors'[m] = connectors[m]
    /\ AbsentIsEmpty'
    /\ DatasourcesHeld'
    /\ SelectionsAreOne'

-----------------------------------------------------------------------------

\* An element of a sequence over a set is in the set.
LEMMA ElementOfSequence ==
    ASSUME NEW S, NEW e \in Seq(S), NEW i \in 1..Len(e)
    PROVE  e[i] \in S
OBVIOUS

\* The length of a sequence is a number.
LEMMA SequenceLength ==
    ASSUME NEW S, NEW e \in Seq(S)
    PROVE  Len(e) \in Nat
OBVIOUS

\* The expressions of a query are expressions of the model.
LEMMA ExpressionType ==
    ASSUME CteTypeOK, NEW q \in CteQueries
    PROVE  /\ program[q].ctes \in Seq(CteExpressions)
           /\ Len(program[q].ctes) \in Nat
           /\ \A i \in 1..Len(program[q].ctes) :
                 /\ program[q].ctes[i] \in CteExpressions
                 /\ program[q].ctes[i].name \in CteNames
                 /\ program[q].ctes[i].reads \in SUBSET CteNames
                 /\ program[q].ctes[i].again \in SUBSET CteNames
<1>1. program[q] \in CtePrograms
    BY DEF CteTypeOK
<1>2. program[q].ctes \in Seq(CteExpressions)
    BY <1>1, CteProgramsAssumption
<1>3. Len(program[q].ctes) \in Nat
    BY <1>2, SequenceLength
<1>4. ASSUME NEW e \in CteExpressions
      PROVE  e.name \in CteNames /\ e.reads \in SUBSET CteNames /\ e.again \in SUBSET CteNames
    BY DEF CteExpressions
<1>5. \A i \in 1..Len(program[q].ctes) : program[q].ctes[i] \in CteExpressions
    BY <1>2, ElementOfSequence
<1> QED BY <1>2, <1>3, <1>4, <1>5

\* The rows an expression of a query selects have the type of rows.
LEMMA SelectedType ==
    ASSUME NEW q \in CteQueries, NEW n \in CteNames, NEW c \in CteContents
    PROVE  Selected(q, n, c) \in SUBSET CteRows
<1>1. BaseRow(q, n) \in CteRows
    BY CteNumbersAssumption DEF BaseRow, CteRows
<1>2. c.rows \in SUBSET CteRows
    BY DEF CteContents
<1> QED BY <1>1, <1>2 DEF Selected

\* What a query reads under some names are rows.
LEMMA ReadingType ==
    ASSUME CteTypeOK, NEW q \in CteQueries, NEW n \in CteNames, NEW names \in SUBSET CteNames
    PROVE  Reading(q, n, names) \in SUBSET CteRows
<1>1. \A m \in names : Selected(q, n, connectors[m]) \in SUBSET CteRows
    BY SelectedType DEF CteTypeOK
<1> QED BY <1>1 DEF Reading

\* One application of the recursive part yields rows.
LEMMA RecurType ==
    ASSUME NEW rows \in SUBSET CteRows
    PROVE  Recur(rows) \in SUBSET CteRows
<1>1. ASSUME NEW r \in CteRows, r.gen < Depth
      PROVE  [r EXCEPT !.gen = @ + 1] \in CteRows
    BY <1>1, CteNumbersAssumption DEF CteRows
<1> QED BY <1>1 DEF Recur

\* What can be read now can be read later.
LEMMA ReadingGrows ==
    ASSUME AbsentIsEmpty, NEW q, NEW n, NEW names \in SUBSET CteNames,
           \A m \in CteNames : connectors[m].found => connectors'[m] = connectors[m]
    PROVE  Reading(q, n, names) \subseteq Reading(q, n, names)'
<1> SUFFICES ASSUME NEW r \in Reading(q, n, names)
             PROVE  r \in Reading(q, n, names)'
    OBVIOUS
<1>1. PICK m \in names : r \in Selected(q, n, connectors[m])
    BY DEF Reading
<1>2. connectors[m].found
    <2> SUFFICES ASSUME ~connectors[m].found PROVE FALSE
        OBVIOUS
    <2>1. connectors[m].rows = {}
        BY DEF AbsentIsEmpty
    <2> QED BY <1>1, <2>1 DEF Selected
<1>3. r \in Selected(q, n, connectors'[m])
    BY <1>1, <1>2
<1> QED BY <1>3 DEF Reading, Selected, BaseRow

\* What ConnectorRegistry::register does to the registry: a name that is held keeps
\* its connector, a free one gets the rows offered, the others are left alone.
LEMMA RegisteredEffect ==
    ASSUME CteTypeOK, NEW q \in CteQueries, NEW n \in CteNames, NEW rows \in SUBSET CteRows
    PROVE  /\ Registered(q, n, rows) \in [CteNames -> CteContents]
           /\ Registered(q, n, rows)[n].found
           /\ \A m \in CteNames : connectors[m].found => Registered(q, n, rows)[m] = connectors[m]
           /\ \A m \in CteNames : m # n => Registered(q, n, rows)[m] = connectors[m]
           /\ ~connectors[n].found => Registered(q, n, rows)[n] = Holding(q, rows)
<1>1. connectors \in [CteNames -> CteContents]
    BY DEF CteTypeOK
<1>2. Holding(q, rows) \in CteContents /\ Holding(q, rows).found
    BY DEF Holding, CteContents
<1>3. CASE connectors[n].found
    BY <1>1, <1>3 DEF Registered
<1>4. CASE ~connectors[n].found
    BY <1>1, <1>2, <1>4 DEF Registered
<1> QED BY <1>3, <1>4

\* A step that leaves the registry alone keeps it.
LEMMA UntouchedIsKept ==
    ASSUME CteInv, connectors' = connectors, program' = program
    PROVE  RegistryKept
<1>1. connectors' \in [CteNames -> CteContents]
    BY DEF CteInv, CteTypeOK
<1>2. AbsentIsEmpty' /\ DatasourcesHeld'
    BY DEF CteInv, AbsentIsEmpty, DatasourcesHeld, Datasource, Holding, DatasourceRow
<1>3. SelectionsAreOne'
    BY DEF CteInv, SelectionsAreOne, OneSelection, Reading, Selected, BaseRow
<1> QED BY <1>1, <1>2, <1>3 DEF RegistryKept

\* Registering under a free name what its expression selected, or any rows under a
\* held one, keeps the registry sound.
LEMMA RegisterKeeps ==
    ASSUME CteInv, NEW q \in CteQueries, at[q] \in 1..Len(program[q].ctes),
           NEW rows \in SUBSET CteRows,
           \/ connectors[Current(q).name].found
           \/ rows \subseteq Reading(q, Current(q).name, Current(q).reads),
           program' = program,
           connectors' = Registered(q, Current(q).name, rows)
    PROVE  RegistryKept /\ connectors'[Current(q).name].found
<1> DEFINE n == Current(q).name
           reads == Current(q).reads
<1>1. CteTypeOK
    BY DEF CteInv
<1>2. n \in CteNames /\ reads \in SUBSET CteNames
    BY <1>1, ExpressionType DEF Current
<1>3. n = program[q].ctes[at[q]].name /\ reads = program[q].ctes[at[q]].reads
    BY DEF Current
<1>4. /\ connectors[n].found \/ rows \subseteq Reading(q, n, reads)
      /\ connectors' = Registered(q, n, rows)
    OBVIOUS
<1> HIDE DEF n, reads
<1>5. /\ connectors' \in [CteNames -> CteContents]
      /\ connectors'[n].found
      /\ \A m \in CteNames : connectors[m].found => connectors'[m] = connectors[m]
      /\ \A m \in CteNames : m # n => connectors'[m] = connectors[m]
      /\ ~connectors[n].found => connectors'[n] = Holding(q, rows)
    BY <1>1, <1>2, <1>4, RegisteredEffect
<1>6. AbsentIsEmpty
    BY DEF CteInv
<1>7. AbsentIsEmpty'
    BY <1>5, <1>6 DEF AbsentIsEmpty
<1>8. DatasourcesHeld'
    <2>1. ASSUME NEW d \in Configured PROVE connectors'[d] = Datasource(d)
        <3>1. connectors[d] = Datasource(d)
            BY DEF CteInv, DatasourcesHeld
        <3>2. d \in CteNames /\ connectors[d].found
            BY <3>1, CteNamesAssumption DEF Datasource, Holding
        <3> QED BY <1>5, <3>1, <3>2
    <2> QED BY <2>1 DEF DatasourcesHeld, Datasource, Holding, DatasourceRow
<1>9. SelectionsAreOne'
    <2>1. ASSUME NEW m \in CteNames \ Configured, connectors[m].found
          PROVE  OneSelection(m)'
        <3>1. connectors'[m] = connectors[m]
            BY <1>5, <2>1
        <3>2. OneSelection(m)
            BY <2>1 DEF CteInv, SelectionsAreOne
        <3> PICK p \in CteQueries : \E i \in 1..Len(program[p].ctes) :
                  /\ connectors[m].by = p
                  /\ program[p].ctes[i].name = m
                  /\ connectors[m].rows \subseteq Reading(p, m, program[p].ctes[i].reads)
            BY <3>2 DEF OneSelection
        <3>3. PICK i \in 1..Len(program[p].ctes) :
                  /\ connectors[m].by = p
                  /\ program[p].ctes[i].name = m
                  /\ connectors[m].rows \subseteq Reading(p, m, program[p].ctes[i].reads)
            OBVIOUS
        <3>4. PICK from \in SUBSET CteNames : from = program[p].ctes[i].reads
            BY <1>1, <3>3, ExpressionType
        <3>5. Reading(p, m, from) \subseteq Reading(p, m, from)'
            BY <1>5, <1>6, ReadingGrows
        <3>6. connectors'[m].rows \subseteq Reading(p, m, from)'
            BY <3>1, <3>3, <3>4, <3>5
        <3>7. from = program'[p].ctes[i].reads
            BY <3>4
        <3>8. connectors'[m].rows \subseteq Reading(p, m, program[p].ctes[i].reads)'
            BY <3>6, <3>7 DEF Reading, Selected, BaseRow
        <3> QED BY <3>1, <3>3, <3>8 DEF OneSelection
    <2>2. ASSUME NEW m \in CteNames \ Configured, connectors'[m].found, ~connectors[m].found
          PROVE  OneSelection(m)'
        <3>1. m = n /\ connectors'[m] = Holding(q, rows)
            BY <1>5, <2>2
        <3>2. rows \subseteq Reading(q, m, reads)
            BY <1>4, <2>2, <3>1
        <3>3. PICK from \in SUBSET CteNames : from = reads
            BY <1>2
        <3>4. Reading(q, m, from) \subseteq Reading(q, m, from)'
            BY <1>5, <1>6, ReadingGrows
        <3>5. rows \subseteq Reading(q, m, from)'
            BY <3>2, <3>3, <3>4
        <3>6. PICK i \in 1..Len(program[q].ctes) :
                  program[q].ctes[i].name = m /\ program[q].ctes[i].reads = from
            BY <1>3, <3>1, <3>3
        <3>7. program'[q].ctes[i].name = m /\ program'[q].ctes[i].reads = from
            BY <3>6
        <3>8. rows \subseteq Reading(q, m, program[q].ctes[i].reads)'
            BY <3>5, <3>7 DEF Reading, Selected, BaseRow
        <3>9. connectors'[m].by = q /\ connectors'[m].rows = rows
            BY <3>1 DEF Holding
        <3> QED BY <3>6, <3>7, <3>8, <3>9 DEF OneSelection
    <2> QED BY <2>1, <2>2 DEF SelectionsAreOne
<1> QED BY <1>5, <1>7, <1>8, <1>9 DEF RegistryKept, n

-----------------------------------------------------------------------------

\* A query that keeps its place stays grounded while the registry grows.
LEMMA StaysGrounded ==
    ASSUME CteInv, RegistryKept, NEW p \in CteQueries, program' = program,
           at'[p] = at[p], step'[p] = step[p],
           working'[p] = working[p], gathered'[p] = gathered[p]
    PROVE  Grounded(p)'
<1> SUFFICES ASSUME InExpression(p)' PROVE Grounded(p)'
    BY DEF Grounded
<1>1. InExpression(p)
    BY DEF InExpression
<1>2. Grounded(p) /\ CteTypeOK /\ AbsentIsEmpty
    BY DEF CteInv
<1>3. at[p] \in 1..Len(program[p].ctes)
    BY <1>1, <1>2 DEF Grounded
<1>4. PICK n \in CteNames, from \in SUBSET CteNames :
          n = Current(p).name /\ from = Current(p).reads
    BY <1>2, <1>3, ExpressionType DEF Current
<1>5. n = Current(p)'.name /\ from = Current(p)'.reads
    BY <1>4 DEF Current
<1>6. \A m \in CteNames : connectors[m].found => connectors'[m] = connectors[m]
    BY DEF RegistryKept
<1>7. CASE connectors[n].found
    <2>1. connectors'[Current(p)'.name].found
        BY <1>5, <1>6, <1>7
    <2> QED BY <1>3, <2>1 DEF Grounded
<1>8. CASE ~connectors[n].found
    <2>1. /\ gathered[p] \subseteq Reading(p, n, from)
          /\ step[p] = "iterate" => working[p] \subseteq Reading(p, n, from)
        BY <1>1, <1>2, <1>4, <1>8 DEF Grounded
    <2>2. Reading(p, n, from) \subseteq Reading(p, n, from)'
        BY <1>2, <1>6, ReadingGrows
    <2>3. Reading(p, n, from)' = Reading(p, Current(p).name, Current(p).reads)'
        BY <1>5 DEF Reading, Selected, BaseRow
    <2>4. /\ gathered'[p] \subseteq Reading(p, Current(p).name, Current(p).reads)'
          /\ step'[p] = "iterate" =>
                working'[p] \subseteq Reading(p, Current(p).name, Current(p).reads)'
        BY <2>1, <2>2, <2>3
    <2> QED BY <1>3, <2>4 DEF Grounded
<1> QED BY <1>7, <1>8

\* A query that keeps its place has its expressions still in the registry.
LEMMA StaysResolved ==
    ASSUME CteInv, RegistryKept, NEW p \in CteQueries, program' = program,
           at'[p] = at[p], failed'[p] = failed[p]
    PROVE  Resolved(p)'
<1> SUFFICES ASSUME ~failed[p], NEW i \in 1..at[p] - 1
             PROVE  connectors'[program[p].ctes[i].name].found
    BY DEF Resolved
<1>1. CteTypeOK /\ Resolved(p)
    BY DEF CteInv
<1>2. at[p] \in 1..Len(program[p].ctes) + 1 /\ Len(program[p].ctes) \in Nat
    BY <1>1, ExpressionType DEF CteTypeOK
<1>3. i \in 1..Len(program[p].ctes)
    BY <1>2
<1>4. program[p].ctes[i].name \in CteNames
    BY <1>1, <1>3, ExpressionType
<1>5. connectors[program[p].ctes[i].name].found
    BY <1>1 DEF Resolved
<1> QED BY <1>4, <1>5 DEF RegistryKept

\* An answer stays what the registry holds.
LEMMA AnswersStayHeld ==
    ASSUME CteInv, RegistryKept, NEW p \in CteQueries, program' = program,
           answer'[p] = answer[p], answer'[p].status = "ok"
    PROVE  /\ answer'[p].read = Read(MainNames(p))'
           /\ \A m \in CteNames \cap MainNames(p)' : connectors'[m].found
<1>1. /\ answer[p].read = Read(MainNames(p))
      /\ \A m \in CteNames \cap MainNames(p) : connectors[m].found
    BY DEF CteInv, AnswersAreHeld
<1>2. MainNames(p)' = MainNames(p)
    BY DEF MainNames
<1>3. \A m \in CteNames \cap MainNames(p) : connectors'[m] = connectors[m]
    BY <1>1 DEF RegistryKept
<1>4. Read(MainNames(p))' = Read(MainNames(p))
    BY <1>2, <1>3 DEF Read, Absent
<1> QED BY <1>1, <1>2, <1>3, <1>4

\* A step of one query that answers nothing: what is left to show is about the types
\* and that query.
LEMMA StepKeeps ==
    ASSUME CteInv, RegistryKept, CteTypeOK', NEW q \in CteQueries,
           program' = program, answer' = answer,
           \A p \in CteQueries : p # q => /\ at'[p] = at[p]
                                         /\ step'[p] = step[p]
                                         /\ working'[p] = working[p]
                                         /\ gathered'[p] = gathered[p]
                                         /\ failed'[p] = failed[p],
           step'[q] # "answered",
           Grounded(q)', Resolved(q)'
    PROVE  CteInv'
<1>1. \A p \in CteQueries : Grounded(p)'
    <2>1. ASSUME NEW p \in CteQueries PROVE Grounded(p)'
        <3>1. CASE p = q
            BY <3>1
        <3>2. CASE p # q
            BY <3>2, StaysGrounded
        <3> QED BY <3>1, <3>2
    <2> QED BY <2>1
<1>2. \A p \in CteQueries : Resolved(p)'
    <2>1. ASSUME NEW p \in CteQueries PROVE Resolved(p)'
        <3>1. CASE p = q
            BY <3>1
        <3>2. CASE p # q
            BY <3>2, StaysResolved
        <3> QED BY <3>1, <3>2
    <2> QED BY <2>1
<1>3. AnswersAreHeld'
    BY AnswersStayHeld DEF AnswersAreHeld
<1>4. ResolvedCtesAreFound'
    <2>1. ASSUME NEW p \in CteQueries, step'[p] = "answered"
          PROVE  step[p] = "answered" /\ failed'[p] = failed[p]
        BY <2>1
    <2>2. \A p \in CteQueries : MainNames(p)' = MainNames(p)
        BY DEF MainNames
    <2>3. ResolvedCtesAreFound
        BY DEF CteInv
    <2> QED BY <2>1, <2>2, <2>3 DEF ResolvedCtesAreFound
<1> QED BY <1>1, <1>2, <1>3, <1>4 DEF CteInv, RegistryKept

-----------------------------------------------------------------------------

\* The initial states satisfy the invariant.
LEMMA CteInitInv == CteInit => CteInv
<1> SUFFICES ASSUME CteInit PROVE CteInv
    OBVIOUS
<1>1. \A n \in CteNames : connectors[n] = IF n \in Configured THEN Datasource(n) ELSE Absent
    BY DEF CteInit
<1>2. Absent \in CteContents /\ \A n \in CteNames : Datasource(n) \in CteContents
    <2>1. \A n \in CteNames : DatasourceRow(n) \in CteRows
        BY CteNumbersAssumption DEF DatasourceRow, CteRows
    <2> QED BY <2>1 DEF Datasource, Holding, Absent, CteContents
<1>3. CteTypeOK
    <2>1. connectors \in [CteNames -> CteContents]
        BY <1>2 DEF CteInit
    <2>2. \A q \in CteQueries : Len(program[q].ctes) \in Nat
        <3>1. ASSUME NEW q \in CteQueries PROVE Len(program[q].ctes) \in Nat
            <4>1. program[q].ctes \in Seq(CteExpressions)
                BY CteProgramsAssumption DEF CteInit
            <4> QED BY <4>1, SequenceLength
        <3> QED BY <3>1
    <2>3. failed \in [CteQueries -> BOOLEAN]
        BY DEF CteInit
    <2>4. answer \in [CteQueries -> CteAnswers]
        <3>1. [status |-> "none", read |-> NothingRead] \in CteAnswers
            BY <1>2 DEF NothingRead, CteAnswers
        <3> QED BY <3>1 DEF CteInit
    <2>5. /\ program \in [CteQueries -> CtePrograms]
          /\ at \in [CteQueries -> Nat]
          /\ step \in [CteQueries -> CteSteps]
          /\ working \in [CteQueries -> SUBSET CteRows]
          /\ gathered \in [CteQueries -> SUBSET CteRows]
          /\ iteration \in [CteQueries -> 0..MaxIterations]
        BY CteNumbersAssumption DEF CteInit, CteSteps
    <2>6. \A q \in CteQueries : at[q] \in 1..Len(program[q].ctes) + 1
        <3>1. ASSUME NEW q \in CteQueries PROVE at[q] \in 1..Len(program[q].ctes) + 1
            <4>1. at[q] = 1
                BY DEF CteInit
            <4>2. Len(program[q].ctes) \in Nat
                BY <2>2
            <4> QED BY <4>1, <4>2
        <3> QED BY <3>1
    <2> QED BY <2>1, <2>3, <2>4, <2>5, <2>6 DEF CteTypeOK
<1>4. ASSUME NEW q \in CteQueries PROVE Grounded(q) /\ Resolved(q)
    <2>1. at[q] = 1 /\ step[q] = "next"
        BY DEF CteInit
    <2> QED BY <2>1 DEF Grounded, InExpression, Resolved
<1>5. AbsentIsEmpty /\ DatasourcesHeld /\ SelectionsAreOne
    <2>1. AbsentIsEmpty
        <3>1. ASSUME NEW n \in CteNames, ~connectors[n].found PROVE connectors[n].rows = {}
            <4>1. Datasource(n).found /\ Absent.rows = {}
                BY DEF Datasource, Holding, Absent
            <4>2. connectors[n] = Datasource(n) \/ connectors[n] = Absent
                BY <1>1
            <4> QED BY <3>1, <4>1, <4>2
        <3> QED BY <3>1 DEF AbsentIsEmpty
    <2>2. DatasourcesHeld
        BY <1>1, CteNamesAssumption DEF DatasourcesHeld
    <2>3. SelectionsAreOne
        BY <1>1 DEF SelectionsAreOne, Absent
    <2> QED BY <2>1, <2>2, <2>3
<1>6. AnswersAreHeld /\ ResolvedCtesAreFound
    BY DEF CteInit, AnswersAreHeld, ResolvedCtesAreFound
<1> QED BY <1>3, <1>4, <1>5, <1>6 DEF CteInv

-----------------------------------------------------------------------------

\* Going on to the next expression.
LEMMA NextExpression ==
    ASSUME CteTypeOK, NEW q \in CteQueries, at[q] <= Len(program[q].ctes),
           program' = program, at' = [at EXCEPT ![q] = @ + 1]
    PROVE  /\ at' \in [CteQueries -> Nat]
           /\ \A p \in CteQueries : at'[p] \in 1..Len(program'[p].ctes) + 1
           /\ at'[q] = at[q] + 1
           /\ \A p \in CteQueries : p # q => at'[p] = at[p]
<1>1. at \in [CteQueries -> Nat] /\ \A p \in CteQueries : at[p] \in 1..Len(program[p].ctes) + 1
    BY DEF CteTypeOK
<1>2. Len(program[q].ctes) \in Nat
    BY ExpressionType
<1> QED BY <1>1, <1>2

\* An expression that cannot be executed is skipped.
LEMMA SkipCteStep ==
    ASSUME CteInv, NEW q \in CteQueries, SkipCte(q)
    PROVE  CteInv'
<1>1. CteTypeOK
    BY DEF CteInv
<1>2. RegistryKept
    BY UntouchedIsKept DEF SkipCte
<1>3. /\ at' \in [CteQueries -> Nat]
      /\ \A p \in CteQueries : at'[p] \in 1..Len(program'[p].ctes) + 1
      /\ \A p \in CteQueries : p # q => at'[p] = at[p]
    BY <1>1, NextExpression DEF SkipCte
<1>4. /\ failed' \in [CteQueries -> BOOLEAN]
      /\ failed'[q]
      /\ \A p \in CteQueries : p # q => failed'[p] = failed[p]
    BY <1>1 DEF CteTypeOK, SkipCte
<1>5. CteTypeOK'
    BY <1>1, <1>3, <1>4 DEF CteTypeOK, SkipCte
<1>6. Grounded(q)' /\ Resolved(q)' /\ step'[q] # "answered"
    BY <1>4 DEF Grounded, InExpression, Resolved, SkipCte
<1> QED BY <1>2, <1>3, <1>4, <1>5, <1>6, StepKeeps DEF SkipCte

\* What an expression selects is what it may read.
LEMMA BodiesRead ==
    ASSUME NEW q \in CteQueries, NEW e, NEW held \in SUBSET e.reads, NEW rows \in Bodies(q, e, held)
    PROVE  rows \subseteq Reading(q, e.name, e.reads)
<1>1. rows \subseteq Reading(q, e.name, held)
    BY DEF Bodies
<1> QED BY <1>1 DEF Reading

\* What the body of the current expression selects are rows that it reads.
LEMMA CurrentBodies ==
    ASSUME CteTypeOK, NEW q \in CteQueries, at[q] \in 1..Len(program[q].ctes),
           NEW held \in SUBSET Current(q).reads, NEW rows \in Bodies(q, Current(q), held)
    PROVE  /\ rows \in SUBSET CteRows
           /\ rows \subseteq Reading(q, Current(q).name, Current(q).reads)
<1>1. rows \subseteq Reading(q, Current(q).name, Current(q).reads)
    BY BodiesRead
<1>2. Current(q).name \in CteNames /\ Current(q).reads \in SUBSET CteNames
    BY ExpressionType DEF Current
<1> QED BY <1>1, <1>2, ReadingType

\* What the current expression reads is the same while nothing is registered.
LEMMA ReadingUnchanged ==
    ASSUME NEW q \in CteQueries, connectors' = connectors, program' = program, at' = at
    PROVE  /\ Current(q)' = Current(q)
           /\ Reading(q, Current(q).name, Current(q).reads)' =
                 Reading(q, Current(q).name, Current(q).reads)
<1>1. Current(q)' = Current(q)
    BY DEF Current
<1> QED BY <1>1 DEF Reading, Selected, BaseRow

\* A regular expression has selected what it will register.
LEMMA PlainCteStep ==
    ASSUME CteInv, NEW q \in CteQueries, PlainCte(q)
    PROVE  CteInv'
<1>1. CteTypeOK
    BY DEF CteInv
<1>2. at[q] \in 1..Len(program[q].ctes)
    BY <1>1 DEF CteTypeOK, PlainCte
<1> PICK held \in SUBSET Current(q).reads :
          \E rows \in Bodies(q, Current(q), held) : gathered' = [gathered EXCEPT ![q] = rows]
    BY DEF PlainCte
<1>3. PICK rows \in Bodies(q, Current(q), held) : gathered' = [gathered EXCEPT ![q] = rows]
    OBVIOUS
<1>4. rows \in SUBSET CteRows /\ rows \subseteq Reading(q, Current(q).name, Current(q).reads)
    BY <1>1, <1>2, <1>3, CurrentBodies
<1>5. RegistryKept
    BY UntouchedIsKept DEF PlainCte
<1>6. /\ gathered' \in [CteQueries -> SUBSET CteRows]
      /\ gathered'[q] = rows
      /\ \A p \in CteQueries : p # q => gathered'[p] = gathered[p]
    BY <1>1, <1>3, <1>4 DEF CteTypeOK
<1>7. /\ step' \in [CteQueries -> CteSteps]
      /\ step'[q] = "register"
      /\ \A p \in CteQueries : p # q => step'[p] = step[p]
    BY <1>1 DEF CteTypeOK, CteSteps, PlainCte
<1>8. CteTypeOK'
    BY <1>1, <1>6, <1>7 DEF CteTypeOK, PlainCte
<1>9. Grounded(q)'
    <2>1. gathered'[q] \subseteq Reading(q, Current(q).name, Current(q).reads)'
        BY <1>4, <1>6, ReadingUnchanged DEF PlainCte
    <2>2. at'[q] \in 1..Len(program'[q].ctes) /\ step'[q] # "iterate"
        BY <1>2, <1>7 DEF PlainCte
    <2> QED BY <2>1, <2>2 DEF Grounded
<1>10. Resolved(q)'
    BY <1>5, StaysResolved DEF PlainCte
<1> QED BY <1>5, <1>6, <1>7, <1>8, <1>9, <1>10, StepKeeps DEF PlainCte

\* A recursion begins with what its base selected.
LEMMA RecursiveBaseStep ==
    ASSUME CteInv, NEW q \in CteQueries, RecursiveBase(q)
    PROVE  CteInv'
<1>1. CteTypeOK
    BY DEF CteInv
<1>2. at[q] \in 1..Len(program[q].ctes)
    BY <1>1 DEF CteTypeOK, RecursiveBase
<1>3. PICK rows \in Bodies(q, Current(q), Current(q).reads) :
          /\ working' = [working EXCEPT ![q] = rows]
          /\ gathered' = [gathered EXCEPT ![q] = rows]
    BY DEF RecursiveBase
<1>4. rows \in SUBSET CteRows /\ rows \subseteq Reading(q, Current(q).name, Current(q).reads)
    BY <1>1, <1>2, <1>3, CurrentBodies
<1>5. RegistryKept
    BY UntouchedIsKept DEF RecursiveBase
<1>6. /\ working' \in [CteQueries -> SUBSET CteRows]
      /\ gathered' \in [CteQueries -> SUBSET CteRows]
      /\ working'[q] = rows /\ gathered'[q] = rows
      /\ \A p \in CteQueries : p # q => working'[p] = working[p] /\ gathered'[p] = gathered[p]
    BY <1>1, <1>3, <1>4 DEF CteTypeOK
<1>7. /\ step' \in [CteQueries -> CteSteps]
      /\ step'[q] = "iterate"
      /\ \A p \in CteQueries : p # q => step'[p] = step[p]
    BY <1>1 DEF CteTypeOK, CteSteps, RecursiveBase
<1>8. iteration' \in [CteQueries -> 0..MaxIterations]
    BY <1>1, CteNumbersAssumption DEF CteTypeOK, RecursiveBase
<1>9. CteTypeOK'
    BY <1>1, <1>6, <1>7, <1>8 DEF CteTypeOK, RecursiveBase
<1>10. Grounded(q)'
    <2>1. /\ gathered'[q] \subseteq Reading(q, Current(q).name, Current(q).reads)'
          /\ working'[q] \subseteq Reading(q, Current(q).name, Current(q).reads)'
        BY <1>4, <1>6, ReadingUnchanged DEF RecursiveBase
    <2>2. at'[q] \in 1..Len(program'[q].ctes)
        BY <1>2 DEF RecursiveBase
    <2> QED BY <2>1, <2>2 DEF Grounded
<1>11. Resolved(q)'
    BY <1>5, StaysResolved DEF RecursiveBase
<1> QED BY <1>5, <1>6, <1>7, <1>9, <1>10, <1>11, StepKeeps DEF RecursiveBase

\* A query in a recursion offers its working set to the registry.
LEMMA WorkingSetRegisters ==
    ASSUME CteInv, NEW q \in CteQueries, step[q] = "iterate", program' = program,
           connectors' = Registered(q, Current(q).name, working[q])
    PROVE  /\ at[q] \in 1..Len(program[q].ctes)
           /\ RegistryKept
           /\ connectors'[Current(q).name].found
<1>1. Grounded(q) /\ InExpression(q)
    BY DEF CteInv, InExpression
<1>2. at[q] \in 1..Len(program[q].ctes)
    BY <1>1 DEF Grounded
<1>3. \/ connectors[Current(q).name].found
      \/ working[q] \subseteq Reading(q, Current(q).name, Current(q).reads)
    BY <1>1 DEF Grounded
<1>4. working[q] \in SUBSET CteRows
    BY DEF CteInv, CteTypeOK
<1> QED BY <1>2, <1>3, <1>4, RegisterKeeps

\* A round of the recursion: afterwards the name is held, by whomever.
LEMMA IterateStep ==
    ASSUME CteInv, NEW q \in CteQueries, Iterate(q)
    PROVE  CteInv'
<1> DEFINE n == Current(q).name
           rows == UNION {Recur(Selected(q, n, connectors'[m])) : m \in Current(q).again}
<1>1. CteTypeOK
    BY DEF CteInv
<1>2. /\ step[q] = "iterate" /\ program' = program
      /\ connectors' = Registered(q, n, working[q])
      /\ working' = [working EXCEPT ![q] = rows]
      /\ gathered' = [gathered EXCEPT ![q] = @ \cup rows]
    BY DEF Iterate, Iterating
<1>3. at[q] \in 1..Len(program[q].ctes) /\ RegistryKept /\ connectors'[n].found
    BY <1>2, WorkingSetRegisters
<1>4. n \in CteNames /\ Current(q).again \in SUBSET CteNames
    BY <1>1, <1>3, ExpressionType DEF Current
<1>5. rows \in SUBSET CteRows
    <2>1. ASSUME NEW m \in Current(q).again
          PROVE  Recur(Selected(q, n, connectors'[m])) \in SUBSET CteRows
        <3>1. connectors'[m] \in CteContents
            BY <1>3, <1>4 DEF RegistryKept
        <3>2. Selected(q, n, connectors'[m]) \in SUBSET CteRows
            BY <1>4, <3>1, SelectedType
        <3> QED BY <3>2, RecurType
    <2> QED BY <2>1
<1> HIDE DEF rows
<1>6. /\ working' \in [CteQueries -> SUBSET CteRows]
      /\ gathered' \in [CteQueries -> SUBSET CteRows]
      /\ \A p \in CteQueries : p # q => working'[p] = working[p] /\ gathered'[p] = gathered[p]
    BY <1>1, <1>2, <1>5 DEF CteTypeOK
<1>7. iteration' \in [CteQueries -> 0..MaxIterations]
    <2>1. iteration \in [CteQueries -> 0..MaxIterations]
        BY <1>1 DEF CteTypeOK
    <2>2. (iteration[q] + 1) % (MaxIterations + 1) \in 0..MaxIterations
        BY <2>1, CteNumbersAssumption
    <2>3. iteration' = [iteration EXCEPT ![q] = (iteration[q] + 1) % (MaxIterations + 1)]
        BY DEF Iterate
    <2> QED BY <2>1, <2>2, <2>3
<1>8. CteTypeOK'
    BY <1>1, <1>3, <1>6, <1>7 DEF CteTypeOK, RegistryKept, Iterate
<1>9. Grounded(q)'
    <2>1. Current(q)' = Current(q) /\ at' = at
        BY DEF Current, Iterate
    <2> QED BY <1>2, <1>3, <2>1 DEF Grounded
<1>10. Resolved(q)'
    BY <1>3, StaysResolved DEF Iterate
<1>11. step'[q] # "answered"
    BY <1>2 DEF Iterate
<1> QED BY <1>3, <1>6, <1>8, <1>9, <1>10, <1>11, StepKeeps DEF Iterate

\* The last round.
LEMMA LastIterationStep ==
    ASSUME CteInv, NEW q \in CteQueries, LastIteration(q)
    PROVE  CteInv'
<1>1. CteTypeOK
    BY DEF CteInv
<1>2. step[q] = "iterate"
    BY DEF LastIteration, Iterating
<1>3. at[q] \in 1..Len(program[q].ctes) /\ RegistryKept /\ connectors'[Current(q).name].found
    BY <1>2, WorkingSetRegisters DEF LastIteration
<1>4. /\ step' \in [CteQueries -> CteSteps]
      /\ step'[q] = "register"
      /\ \A p \in CteQueries : p # q => step'[p] = step[p]
    BY <1>1 DEF CteTypeOK, CteSteps, LastIteration
<1>5. CteTypeOK'
    BY <1>1, <1>3, <1>4 DEF CteTypeOK, RegistryKept, LastIteration
<1>6. Grounded(q)'
    <2>1. Current(q)' = Current(q) /\ at' = at /\ program' = program
        BY DEF Current, LastIteration
    <2> QED BY <1>3, <2>1 DEF Grounded
<1>7. Resolved(q)'
    BY <1>3, StaysResolved DEF LastIteration
<1> QED BY <1>3, <1>4, <1>5, <1>6, <1>7, StepKeeps DEF LastIteration

\* An abandoned recursion leaves its first working set behind.
LEMMA AbandonRecursionStep ==
    ASSUME CteInv, NEW q \in CteQueries, AbandonRecursion(q)
    PROVE  CteInv'
<1>1. CteTypeOK
    BY DEF CteInv
<1>2. step[q] = "iterate"
    BY DEF AbandonRecursion, Iterating
<1>3. at[q] \in 1..Len(program[q].ctes) /\ RegistryKept
    BY <1>2, WorkingSetRegisters DEF AbandonRecursion
<1>4. /\ step' \in [CteQueries -> CteSteps]
      /\ step'[q] = "next"
      /\ \A p \in CteQueries : p # q => step'[p] = step[p]
    BY <1>1 DEF CteTypeOK, CteSteps, AbandonRecursion
<1>5. /\ at' \in [CteQueries -> Nat]
      /\ \A p \in CteQueries : at'[p] \in 1..Len(program'[p].ctes) + 1
      /\ \A p \in CteQueries : p # q => at'[p] = at[p]
    <2>1. at[q] <= Len(program[q].ctes)
        BY <1>3
    <2> QED BY <1>1, <2>1, NextExpression DEF AbandonRecursion
<1>6. /\ failed' \in [CteQueries -> BOOLEAN]
      /\ failed'[q]
      /\ \A p \in CteQueries : p # q => failed'[p] = failed[p]
    BY <1>1 DEF CteTypeOK, AbandonRecursion
<1>7. CteTypeOK'
    BY <1>1, <1>3, <1>4, <1>5, <1>6 DEF CteTypeOK, RegistryKept, AbandonRecursion
<1>8. Grounded(q)' /\ Resolved(q)'
    BY <1>4, <1>6 DEF Grounded, InExpression, Resolved
<1> QED BY <1>3, <1>4, <1>5, <1>6, <1>7, <1>8, StepKeeps DEF AbandonRecursion

\* The loop ends; what was gathered is still to be registered.
LEMMA LeaveLoopStep ==
    ASSUME CteInv, NEW q \in CteQueries, LeaveLoop(q)
    PROVE  CteInv'
<1>1. CteTypeOK
    BY DEF CteInv
<1>2. RegistryKept
    BY UntouchedIsKept DEF LeaveLoop
<1>3. /\ step' \in [CteQueries -> CteSteps]
      /\ step'[q] = "register"
      /\ \A p \in CteQueries : p # q => step'[p] = step[p]
    BY <1>1 DEF CteTypeOK, CteSteps, LeaveLoop
<1>4. CteTypeOK'
    BY <1>1, <1>3 DEF CteTypeOK, LeaveLoop
<1>5. Grounded(q)'
    <2>1. Grounded(q) /\ InExpression(q)
        BY DEF CteInv, InExpression, LeaveLoop
    <2>2. /\ Current(q)' = Current(q)
          /\ Reading(q, Current(q).name, Current(q).reads)' =
                Reading(q, Current(q).name, Current(q).reads)
        BY ReadingUnchanged DEF LeaveLoop
    <2>3. connectors' = connectors /\ gathered' = gathered /\ at' = at /\ program' = program
        BY DEF LeaveLoop
    <2> QED BY <1>3, <2>1, <2>2, <2>3 DEF Grounded
<1>6. Resolved(q)'
    BY <1>2, StaysResolved DEF LeaveLoop
<1> QED BY <1>2, <1>3, <1>4, <1>5, <1>6, StepKeeps DEF LeaveLoop

\* What was gathered is registered only where the name is still free, and then it is
\* what the body or base selected.
LEMMA RegisterGatheredStep ==
    ASSUME CteInv, NEW q \in CteQueries, RegisterGathered(q)
    PROVE  CteInv'
<1>1. CteTypeOK
    BY DEF CteInv
<1>2. Grounded(q) /\ InExpression(q)
    BY DEF CteInv, InExpression, RegisterGathered
<1>3. /\ at[q] \in 1..Len(program[q].ctes)
      /\ \/ connectors[Current(q).name].found
         \/ gathered[q] \subseteq Reading(q, Current(q).name, Current(q).reads)
      /\ gathered[q] \in SUBSET CteRows
    BY <1>1, <1>2 DEF Grounded, CteTypeOK
<1>4. RegistryKept /\ connectors'[Current(q).name].found
    BY <1>3, RegisterKeeps DEF RegisterGathered
<1>5. /\ step' \in [CteQueries -> CteSteps]
      /\ step'[q] = "next"
      /\ \A p \in CteQueries : p # q => step'[p] = step[p]
    BY <1>1 DEF CteTypeOK, CteSteps, RegisterGathered
<1>6. /\ at' \in [CteQueries -> Nat]
      /\ \A p \in CteQueries : at'[p] \in 1..Len(program'[p].ctes) + 1
      /\ at'[q] = at[q] + 1
      /\ \A p \in CteQueries : p # q => at'[p] = at[p]
    <2>1. at[q] <= Len(program[q].ctes)
        BY <1>3
    <2> QED BY <1>1, <2>1, NextExpression DEF RegisterGathered
<1>7. CteTypeOK'
    BY <1>1, <1>4, <1>5, <1>6 DEF CteTypeOK, RegistryKept, RegisterGathered
<1>8. Grounded(q)'
    BY <1>5 DEF Grounded, InExpression
<1>9. Resolved(q)'
    <2> SUFFICES ASSUME ~failed[q], NEW i \in 1..at[q]
                 PROVE  connectors'[program[q].ctes[i].name].found
        BY <1>3, <1>6 DEF Resolved, RegisterGathered
    <2>1. CASE i = at[q]
        BY <1>4, <2>1 DEF Current
    <2>2. CASE i # at[q]
        <3>1. i \in 1..at[q] - 1 /\ i \in 1..Len(program[q].ctes)
            BY <1>1, <1>3, <2>2, ExpressionType
        <3>2. connectors[program[q].ctes[i].name].found
            BY <3>1 DEF CteInv, Resolved
        <3>3. program[q].ctes[i].name \in CteNames
            BY <1>1, <3>1, ExpressionType
        <3> QED BY <1>4, <3>2, <3>3 DEF RegistryKept
    <2> QED BY <2>1, <2>2
<1> QED BY <1>4, <1>5, <1>6, <1>7, <1>8, <1>9, StepKeeps DEF RegisterGathered

\* The main query answers what the registry holds; it finds what was resolved.
LEMMA MainQueryStep ==
    ASSUME CteInv, NEW q \in CteQueries, MainQuery(q)
    PROVE  CteInv'
<1> DEFINE ok == \A m \in MainNames(q) : connectors[m].found
           reply == IF ok THEN [status |-> "ok", read |-> Read(MainNames(q))]
                    ELSE [status |-> "not found", read |-> NothingRead]
<1>1. CteTypeOK
    BY DEF CteInv
<1>2. /\ answer' = [answer EXCEPT ![q] = reply]
      /\ program' = program /\ connectors' = connectors
    BY DEF MainQuery
<1>3. Absent \in CteContents
    BY DEF Absent, CteContents
<1>4. Read(MainNames(q)) \in [CteNames -> CteContents] /\ NothingRead \in [CteNames -> CteContents]
    BY <1>1, <1>3 DEF CteTypeOK, Read, NothingRead
<1>5. reply \in CteAnswers
    BY <1>4 DEF CteAnswers
<1>6. RegistryKept
    BY <1>2, UntouchedIsKept
<1>7. /\ step' \in [CteQueries -> CteSteps]
      /\ step'[q] = "answered"
      /\ \A p \in CteQueries : p # q => step'[p] = step[p]
    BY <1>1 DEF CteTypeOK, CteSteps, MainQuery
<1> HIDE DEF reply
<1>8. /\ answer' \in [CteQueries -> CteAnswers]
      /\ answer'[q] = reply
      /\ \A p \in CteQueries : p # q => answer'[p] = answer[p]
    BY <1>1, <1>2, <1>5 DEF CteTypeOK
<1>9. CteTypeOK'
    BY <1>1, <1>7, <1>8 DEF CteTypeOK, MainQuery
<1>10. \A p \in CteQueries : Grounded(p)'
    <2>1. ASSUME NEW p \in CteQueries PROVE Grounded(p)'
        <3>1. CASE p = q
            BY <1>7, <3>1 DEF Grounded, InExpression
        <3>2. CASE p # q
            BY <1>6, <1>7, <3>2, StaysGrounded DEF MainQuery
        <3> QED BY <3>1, <3>2
    <2> QED BY <2>1
<1>11. \A p \in CteQueries : Resolved(p)'
    BY <1>6, StaysResolved DEF MainQuery
<1>12. \A p \in CteQueries : MainNames(p)' = MainNames(p) /\ Read(MainNames(p))' = Read(MainNames(p))
    BY <1>2 DEF MainNames, Read, Absent
<1>13. AnswersAreHeld'
    <2>1. ASSUME NEW p \in CteQueries, answer'[p].status = "ok"
          PROVE  /\ answer'[p].read = Read(MainNames(p))'
                 /\ \A m \in CteNames \cap MainNames(p)' : connectors'[m].found
        <3>1. CASE p = q
            BY <1>2, <1>8, <1>12, <2>1, <3>1 DEF reply
        <3>2. CASE p # q
            BY <1>2, <1>6, <1>8, <2>1, <3>2, AnswersStayHeld
        <3> QED BY <3>1, <3>2
    <2> QED BY <2>1 DEF AnswersAreHeld
<1>14. ResolvedCtesAreFound'
    <2>1. ASSUME ~failed[q],
                 MainNames(q) \subseteq Configured \cup
                     {program[q].ctes[i].name : i \in 1..Len(program[q].ctes)}
          PROVE  ok
        <3>1. Len(program[q].ctes) = at[q] - 1
            <4>1. /\ at[q] \in 1..Len(program[q].ctes) + 1
                  /\ Len(program[q].ctes) \in Nat
                BY <1>1, ExpressionType DEF CteTypeOK
            <4>2. at[q] > Len(program[q].ctes)
                BY DEF MainQuery
            <4> QED BY <4>1, <4>2
        <3>2. \A i \in 1..Len(program[q].ctes) : connectors[program[q].ctes[i].name].found
            BY <2>1, <3>1 DEF CteInv, Resolved
        <3>3. \A d \in Configured : connectors[d].found
            <4>1. \A d \in Configured : connectors[d] = Datasource(d)
                BY DEF CteInv, DatasourcesHeld
            <4>2. \A d \in Configured : Datasource(d).found
                BY DEF Datasource, Holding
            <4> QED BY <4>1, <4>2
        <3> QED BY <2>1, <3>2, <3>3
    <2> HIDE DEF ok
    <2>2. ok => answer'[q].status = "ok"
        BY <1>8 DEF reply
    <2>3. ASSUME NEW p \in CteQueries, step'[p] = "answered", ~failed[p],
                 MainNames(p) \subseteq Configured \cup
                     {program[p].ctes[i].name : i \in 1..Len(program[p].ctes)}
          PROVE  answer'[p].status = "ok"
        <3>1. CASE p = q
            BY <2>1, <2>2, <2>3, <3>1
        <3>2. CASE p # q
            BY <1>7, <1>8, <2>3, <3>2 DEF CteInv, ResolvedCtesAreFound
        <3> QED BY <3>1, <3>2
    <2>4. failed' = failed
        BY DEF MainQuery
    <2> QED BY <1>2, <1>12, <2>3, <2>4 DEF ResolvedCtesAreFound
<1> QED BY <1>6, <1>9, <1>10, <1>11, <1>13, <1>14 DEF CteInv, RegistryKept

-----------------------------------------------------------------------------

\* Every step preserves the invariant.
LEMMA CteNextInv == CteInv /\ [CteNext]_cteVars => CteInv'
<1> SUFFICES ASSUME CteInv, [CteNext]_cteVars PROVE CteInv'
    OBVIOUS
<1>1. ASSUME NEW q \in CteQueries, CteStep(q) PROVE CteInv'
    BY <1>1, SkipCteStep, PlainCteStep, RecursiveBaseStep, IterateStep, LastIterationStep,
       AbandonRecursionStep, LeaveLoopStep, RegisterGatheredStep, MainQueryStep DEF CteStep
<1>2. CASE UNCHANGED cteVars
    <2>1. /\ connectors' = connectors /\ program' = program /\ at' = at /\ step' = step
          /\ working' = working /\ gathered' = gathered /\ iteration' = iteration
          /\ failed' = failed /\ answer' = answer
        BY <1>2 DEF cteVars
    <2>2. CteTypeOK'
        BY <2>1 DEF CteInv, CteTypeOK
    <2>3. RegistryKept
        BY <2>1, UntouchedIsKept
    <2>4. \A p \in CteQueries : Grounded(p)' /\ Resolved(p)'
        BY <2>1, <2>3, StaysGrounded, StaysResolved
    <2>5. AnswersAreHeld'
        BY <2>1, <2>3, AnswersStayHeld DEF AnswersAreHeld
    <2>6. ResolvedCtesAreFound'
        <3>1. \A p \in CteQueries : MainNames(p)' = MainNames(p)
            BY <2>1 DEF MainNames
        <3> QED BY <2>1, <3>1 DEF CteInv, ResolvedCtesAreFound
    <2> QED BY <2>2, <2>3, <2>4, <2>5, <2>6 DEF CteInv, RegistryKept
<1> QED BY <1>1, <1>2 DEF CteNext

\* The inductive invariant holds throughout.
LEMMA CteInvariant == CteSpec => []CteInv
BY CteInitInv, CteNextInv, PTL DEF CteSpec

\* The registry, the positions in the WITH lists and the recursions stay well formed,
\* whatever the queries' WITH clauses (resolve_ctes, execute_recursive_cte).
THEOREM CteTypeCorrect == CteSpec => []CteTypeOK
<1>1. CteInv => CteTypeOK
    BY DEF CteInv
<1> QED BY <1>1, CteInvariant, PTL

\* Whatever the queries' expressions read, a name holds the selection of one expression
\* of one query, and what an answer read under a name is what the name holds ever
\* after: ConnectorRegistry::register refuses a taken name, and until it is taken the
\* query that works on it has only what its body or base selected.
THEOREM CteAnswersWhole == CteSpec => []AnswersAreWhole
<1>1. CteInv => AnswersAreWhole
    BY DEF CteInv, SelectionsAreOne, AnswersAreHeld, AnswersAreWhole
<1> QED BY <1>1, CteInvariant, PTL

\* A query that does not define the name of a configured datasource reads the datasource
\* under it, whatever expressions other queries give that name.
THEOREM CteDatasourcesVisible == CteSpec => []DatasourcesAreNotHidden
<1>1. CteInv => DatasourcesAreNotHidden
    <2> SUFFICES ASSUME CteInv, NEW q \in CteQueries, NEW d \in Configured,
                        answer[q].status = "ok", d \in MainNames(q)
                 PROVE  answer[q].read[d] = Datasource(d)
        BY DEF DatasourcesAreNotHidden
    <2>1. answer[q].read = Read(MainNames(q))
        BY DEF CteInv, AnswersAreHeld
    <2>2. connectors[d] = Datasource(d) /\ d \in CteNames
        BY CteNamesAssumption DEF CteInv, DatasourcesHeld
    <2> QED BY <2>1, <2>2 DEF Read
<1> QED BY <1>1, CteInvariant, PTL

\* A query all of whose expressions were executed finds every name it reads if those
\* are its expressions and datasources, although other queries register the same names.
THEOREM CteResolvedFound == CteSpec => []ResolvedCtesAreFound
<1>1. CteInv => ResolvedCtesAreFound
    BY DEF CteInv
<1> QED BY <1>1, CteInvariant, PTL

=============================================================================
