-------------------------- MODULE TransactionsProofs --------------------------
(***************************************************************************)
(* Proofs about transactions, for all sets of ids, writes and requests and *)
(* every limit.  The argument: a write that has been issued is in one      *)
(* place, one transaction's buffer or one COMMIT's list, and a write that  *)
(* is there has not been written, discarded or reported yet.               *)
(***************************************************************************)
EXTENDS Transactions, FiniteSetTheorems, TLAPS

\* The write is in position i of the buffer of t; of the list of r.
BufferedAt(w, t, i) == i \in 1..Len(writes[t]) /\ writes[t][i] = w
QueuedAt(w, r, i) == i \in 1..Len(commit[r].left) /\ commit[r].left[i] = w

\* A write is in one position of one buffer at most, and in one position of one
\* list at most, and not in both.
OnePlace ==
    \A w \in Writes :
        /\ \A t, u \in Txns : \A i, j \in Nat :
               BufferedAt(w, t, i) /\ BufferedAt(w, u, j) => t = u /\ i = j
        /\ \A r, s \in Requests : \A i, j \in Nat :
               QueuedAt(w, r, i) /\ QueuedAt(w, s, j) => r = s /\ i = j
        /\ \A t \in Txns, r \in Requests : \A i, j \in Nat :
               ~(BufferedAt(w, t, i) /\ QueuedAt(w, r, j))

\* A write that waits in a buffer or a list has been issued, and nothing else
\* has happened to it.
WaitingIsUntouched ==
    \A w \in Writes :
        (\E i \in Nat : (\E t \in Txns : BufferedAt(w, t, i)) \/ (\E r \in Requests : QueuedAt(w, r, i)))
        => /\ w \in sent
           /\ w \notin discarded
           /\ written[w] = 0
           /\ \A r \in Requests : w \notin commit[r].results \cup commit[r].errors

\* Nothing has happened to a write that has not been issued.
UnsentIsUntouched ==
    \A w \in Writes \ sent :
        /\ w \notin discarded
        /\ written[w] = 0
        /\ \A r \in Requests : w \notin commit[r].results \cup commit[r].errors

\* A COMMIT that goes on has reported, or still has in its list, all it took.
TakenIsTracked ==
    \A r \in Requests : commit[r].state \in {"flushing", "answered"} =>
        \A w \in Writes : w \in commit[r].taken <=>
            \/ w \in commit[r].results \cup commit[r].errors
            \/ \E i \in Nat : QueuedAt(w, r, i)

\* Results and errors, as in AnswerIsExact.
ReportsAreTrue ==
    \A r \in Requests :
        /\ commit[r].results \cap commit[r].errors = {}
        /\ \A w \in commit[r].results : written[w] = Batches[w]

\* What is stored is reported, or was in flight when its COMMIT was dropped.
StoredIsAnsweredFor ==
    \A w \in Writes : written[w] # 0 =>
        \E r \in Requests : \/ w \in commit[r].results \cup commit[r].errors
                            \/ commit[r].state = "dropped" /\ w \in commit[r].taken

\* A handler that has not taken anything has nothing to report.
FreshCommits == \A r \in Requests : commit[r].state = "idle" =>
                    commit[r].results = {} /\ commit[r].errors = {}

TransactionsInv ==
    /\ TypeOK
    /\ OnePlace
    /\ WaitingIsUntouched
    /\ UnsentIsUntouched
    /\ TakenIsTracked
    /\ ReportsAreTrue
    /\ StoredIsAnsweredFor
    /\ FreshCommits
    /\ WrittenAtMostOnce
    /\ RolledBackNotWritten

-----------------------------------------------------------------------------

\* What Append and Tail do to positions.
LEMMA AppendPositions ==
    ASSUME NEW S, NEW s \in Seq(S), NEW e \in S
    PROVE  /\ Append(s, e) \in Seq(S)
           /\ Len(Append(s, e)) = Len(s) + 1
           /\ \A i \in 1..Len(s) : Append(s, e)[i] = s[i]
           /\ Append(s, e)[Len(s) + 1] = e
  OBVIOUS

\* What is left of a sequence without its first element is one position on.
LEMMA TailPositions ==
    ASSUME NEW S, NEW s \in Seq(S), s # <<>>
    PROVE  /\ Head(s) \in S /\ Head(s) = s[1]
           /\ Tail(s) \in Seq(S)
           /\ Len(s) \in Nat \ {0}
           /\ Len(Tail(s)) = Len(s) - 1
           /\ \A i \in 1..Len(s) - 1 : Tail(s)[i] = s[i + 1]
  OBVIOUS

\* An empty store satisfies the invariant.
LEMMA TransactionsInit == Init => TransactionsInv
<1> SUFFICES ASSUME Init PROVE TransactionsInv
    OBVIOUS
<1> USE DEF Init, Commit
<1>1. TypeOK
    BY DEF TypeOK, Commits, CommitStates
<1>2. OnePlace /\ WaitingIsUntouched
    BY DEF OnePlace, WaitingIsUntouched, BufferedAt, QueuedAt
<1>3. UnsentIsUntouched /\ TakenIsTracked /\ ReportsAreTrue /\ FreshCommits
    BY DEF UnsentIsUntouched, TakenIsTracked, ReportsAreTrue, FreshCommits
<1>4. WrittenAtMostOnce /\ RolledBackNotWritten /\ StoredIsAnsweredFor
    BY BatchesAssumption DEF WrittenAtMostOnce, RolledBackNotWritten, StoredIsAnsweredFor
<1> QED
    BY <1>1, <1>2, <1>3, <1>4 DEF TransactionsInv

\* BEGIN touches no write.
LEMMA BeginStep ==
    ASSUME TransactionsInv, NEW t \in Txns, Begin(t) PROVE TransactionsInv'
<1> USE DEF TransactionsInv, Begin
<1>1. TypeOK'
    BY DEF TypeOK
<1>2. OnePlace' /\ WaitingIsUntouched' /\ TakenIsTracked'
    <2>1. OnePlace'
        BY DEF OnePlace, BufferedAt, QueuedAt
    <2>2. WaitingIsUntouched'
        BY DEF WaitingIsUntouched, BufferedAt, QueuedAt
    <2>3. TakenIsTracked'
        BY DEF TakenIsTracked, QueuedAt
    <2> QED
        BY <2>1, <2>2, <2>3
<1>3. UnsentIsUntouched' /\ ReportsAreTrue' /\ StoredIsAnsweredFor' /\ FreshCommits'
    BY DEF UnsentIsUntouched, ReportsAreTrue, StoredIsAnsweredFor, FreshCommits
<1>4. WrittenAtMostOnce' /\ RolledBackNotWritten'
    BY DEF WrittenAtMostOnce, RolledBackNotWritten
<1> QED
    BY <1>1, <1>2, <1>3, <1>4

\* add_write puts a write that is nowhere yet at the end of one buffer.
LEMMA AddWriteStep ==
    ASSUME TransactionsInv, NEW t \in Txns, NEW w \in Writes, AddWrite(t, w)
    PROVE  TransactionsInv'
<1> USE DEF TransactionsInv
<1>1. /\ writes[t] \in Seq(Writes)
      /\ Len(writes[t]) \in Nat
      /\ Len(writes'[t]) = Len(writes[t]) + 1
      /\ \A i \in 1..Len(writes[t]) : writes'[t][i] = writes[t][i]
      /\ writes'[t][Len(writes[t]) + 1] = w
      /\ \A u \in Txns \ {t} : writes'[u] = writes[u]
      /\ writes' \in [Txns -> Seq(Writes)]
    BY AppendPositions DEF AddWrite, TypeOK
<1>2. TypeOK'
    BY <1>1 DEF AddWrite, TypeOK
<1>3. ASSUME NEW v \in Writes, NEW u \in Txns, NEW i \in Nat
      PROVE  BufferedAt(v, u, i)' <=> \/ BufferedAt(v, u, i)
                                      \/ v = w /\ u = t /\ i = Len(writes[t]) + 1
    <2>1. CASE u = t
        BY <2>1, <1>1 DEF BufferedAt
    <2>2. CASE u # t
        BY <2>2, <1>1 DEF BufferedAt
    <2> QED
        BY <2>1, <2>2
<1>4. \A v \in Writes, r \in Requests : \A i \in Nat : QueuedAt(v, r, i)' <=> QueuedAt(v, r, i)
    BY DEF AddWrite, QueuedAt
<1>5. \A i \in Nat : /\ \A u \in Txns : ~BufferedAt(w, u, i)
                     /\ \A r \in Requests : ~QueuedAt(w, r, i)
    BY DEF AddWrite, WaitingIsUntouched
<1>6. OnePlace'
    BY <1>3, <1>4, <1>5 DEF OnePlace
<1>7. WaitingIsUntouched'
    BY <1>3, <1>4 DEF AddWrite, WaitingIsUntouched, UnsentIsUntouched
<1>8. UnsentIsUntouched' /\ ReportsAreTrue' /\ FreshCommits'
    BY DEF AddWrite, UnsentIsUntouched, ReportsAreTrue, FreshCommits
<1>9. TakenIsTracked'
    BY <1>4 DEF AddWrite, TakenIsTracked
<1>10. WrittenAtMostOnce' /\ RolledBackNotWritten' /\ StoredIsAnsweredFor'
    BY DEF AddWrite, WrittenAtMostOnce, RolledBackNotWritten, StoredIsAnsweredFor
<1> QED
    BY <1>2, <1>6, <1>7, <1>8, <1>9, <1>10

\* take moves a whole buffer into the list of one COMMIT.
LEMMA CommitTakeStep ==
    ASSUME TransactionsInv, NEW r \in Requests, NEW t \in Txns, CommitTake(r, t)
    PROVE  TransactionsInv'
<1> USE DEF TransactionsInv
<1>1. /\ writes' \in [Txns -> Seq(Writes)]
      /\ writes'[t] = <<>>
      /\ \A u \in Txns \ {t} : writes'[u] = writes[u]
      /\ \A s \in Requests \ {r} : commit'[s] = commit[s]
      /\ commit'[r].state = "flushing"
      /\ commit'[r].left = writes[t]
      /\ commit'[r].taken = Elements(writes[t])
      /\ commit'[r].results = {} /\ commit'[r].errors = {}
      /\ commit[r].left = <<>>
      /\ commit[r].results = {} /\ commit[r].errors = {}
    BY DEF CommitTake, Commit, TypeOK, Commits, FreshCommits
<1>2. Elements(writes[t]) \in SUBSET Writes
    BY DEF Elements, TypeOK
<1>3. TypeOK'
    BY <1>1, <1>2 DEF CommitTake, Commit, TypeOK, Commits, CommitStates
<1>4. \A v \in Writes, u \in Txns : \A i \in Nat :
          BufferedAt(v, u, i)' <=> u # t /\ BufferedAt(v, u, i)
    BY <1>1 DEF BufferedAt
<1>5. \A v \in Writes, s \in Requests : \A i \in Nat :
          QueuedAt(v, s, i)' <=> IF s = r THEN BufferedAt(v, t, i) ELSE QueuedAt(v, s, i)
    BY <1>1 DEF BufferedAt, QueuedAt
<1>6. OnePlace'
    BY <1>4, <1>5 DEF OnePlace
<1>7. WaitingIsUntouched'
    BY <1>1, <1>4, <1>5 DEF CommitTake, WaitingIsUntouched
<1>8. UnsentIsUntouched' /\ ReportsAreTrue' /\ FreshCommits'
    BY <1>1 DEF CommitTake, UnsentIsUntouched, ReportsAreTrue, FreshCommits
<1>9. TakenIsTracked'
    <2>1. \A v \in Writes : v \in commit'[r].taken <=> \E i \in Nat : BufferedAt(v, t, i)
        BY <1>1 DEF Elements, BufferedAt, TypeOK
    <2>2. ASSUME NEW s \in Requests, s # r, NEW v \in Writes
          PROVE  (\E i \in Nat : QueuedAt(v, s, i)') <=> \E i \in Nat : QueuedAt(v, s, i)
        BY <2>2, <1>5
    <2> QED
        BY <1>1, <1>5, <2>1, <2>2 DEF TakenIsTracked
<1>10. WrittenAtMostOnce' /\ RolledBackNotWritten'
    BY DEF CommitTake, WrittenAtMostOnce, RolledBackNotWritten
<1>11. StoredIsAnsweredFor'
    BY <1>1 DEF CommitTake, StoredIsAnsweredFor
<1> QED
    BY <1>3, <1>6, <1>7, <1>8, <1>9, <1>10, <1>11

\* The list of r loses its first write, w: the others of it are one position on.
FirstRemoved(r, w) ==
    /\ w \in Writes /\ QueuedAt(w, r, 1)
    /\ Tail(commit[r].left) \in Seq(Writes)
    /\ \A v \in Writes, s \in Requests : \A i \in Nat :
           QueuedAt(v, s, i)' <=> IF s = r THEN i # 0 /\ QueuedAt(v, r, i + 1)
                                           ELSE QueuedAt(v, s, i)
    /\ \A s \in Requests : \A i \in Nat : ~QueuedAt(w, s, i)'
    /\ \A v \in Writes \ {w} :
           (\E i \in Nat : QueuedAt(v, r, i)') <=> \E i \in Nat : QueuedAt(v, r, i)

\* A step of the loop removes the first write of one list; what is left of the
\* lists is where it was, one position earlier.
LEMMA FlushPositions ==
    ASSUME TransactionsInv, NEW r \in Requests, commit[r].left # <<>>,
           NEW w, w = Head(commit[r].left),
           \A s \in Requests \ {r} : commit'[s] = commit[s],
           commit'[r].left = Tail(commit[r].left), writes' = writes
    PROVE  FirstRemoved(r, w) /\ OnePlace'
<1>1. commit[r].left \in Seq(Writes)
    BY DEF TransactionsInv, TypeOK, Commits
<1>2. /\ w \in Writes /\ w = commit[r].left[1]
      /\ Tail(commit[r].left) \in Seq(Writes)
      /\ Len(commit[r].left) \in Nat \ {0}
      /\ Len(Tail(commit[r].left)) = Len(commit[r].left) - 1
      /\ \A i \in 1..Len(commit[r].left) - 1 : Tail(commit[r].left)[i] = commit[r].left[i + 1]
    BY <1>1, TailPositions
<1>3. QueuedAt(w, r, 1)
    BY <1>2 DEF QueuedAt
<1>4. ASSUME NEW v \in Writes, NEW i \in Nat
      PROVE  QueuedAt(v, r, i)' <=> i # 0 /\ QueuedAt(v, r, i + 1)
    BY <1>2 DEF QueuedAt
<1>5. \A v \in Writes, s \in Requests \ {r} : \A i \in Nat : QueuedAt(v, s, i)' <=> QueuedAt(v, s, i)
    BY DEF QueuedAt
<1>6. ASSUME NEW s \in Requests, NEW i \in Nat, QueuedAt(w, s, i)' PROVE FALSE
    <2>1. CASE s = r
        <3>1. QueuedAt(w, r, i + 1) /\ i + 1 # 1 /\ i + 1 \in Nat
            BY <1>2, <1>4, <1>6, <2>1
        <3> QED
            BY <1>2, <1>3, <3>1 DEF TransactionsInv, OnePlace
    <2>2. CASE s # r
        BY <1>2, <1>3, <1>5, <1>6, <2>2 DEF TransactionsInv, OnePlace
    <2> QED
        BY <2>1, <2>2
<1>7. ASSUME NEW v \in Writes \ {w}
      PROVE  (\E i \in Nat : QueuedAt(v, r, i)') <=> \E i \in Nat : QueuedAt(v, r, i)
    <2>1. ASSUME NEW i \in Nat, QueuedAt(v, r, i) PROVE \E j \in Nat : QueuedAt(v, r, j)'
        <3>1. i \in Nat \ {0, 1}
            BY <1>2, <2>1 DEF QueuedAt
        <3>2. QueuedAt(v, r, i - 1)'
            BY <1>4, <2>1, <3>1
        <3> QED
            BY <3>1, <3>2
    <2> QED
        BY <1>4, <2>1
<1>8. FirstRemoved(r, w)
    BY <1>2, <1>3, <1>4, <1>5, <1>6, <1>7 DEF FirstRemoved
<1>9. OnePlace'
    <2> DEFINE before(s, i) == IF s = r THEN i + 1 ELSE i
    <2> SUFFICES ASSUME NEW v \in Writes
                 PROVE  /\ \A t, u \in Txns : \A i, j \in Nat :
                               BufferedAt(v, t, i)' /\ BufferedAt(v, u, j)' => t = u /\ i = j
                        /\ \A q, s \in Requests : \A i, j \in Nat :
                               QueuedAt(v, q, i)' /\ QueuedAt(v, s, j)' => q = s /\ i = j
                        /\ \A t \in Txns, s \in Requests : \A i, j \in Nat :
                               ~(BufferedAt(v, t, i)' /\ QueuedAt(v, s, j)')
        BY Zenon DEF OnePlace
    <2>1. \A t \in Txns : \A i \in Nat : BufferedAt(v, t, i)' <=> BufferedAt(v, t, i)
        BY DEF BufferedAt
    <2>2. \A s \in Requests : \A i \in Nat :
              before(s, i) \in Nat /\ (QueuedAt(v, s, i)' => QueuedAt(v, s, before(s, i)))
        BY <1>4, <1>5
    <2>3. \A t, u \in Txns : \A i, j \in Nat :
              BufferedAt(v, t, i)' /\ BufferedAt(v, u, j)' => t = u /\ i = j
        BY <2>1 DEF TransactionsInv, OnePlace
    <2>4. ASSUME NEW q \in Requests, NEW s \in Requests, NEW i \in Nat, NEW j \in Nat,
                 QueuedAt(v, q, i)', QueuedAt(v, s, j)'
          PROVE  q = s /\ i = j
        <3>1. QueuedAt(v, q, before(q, i)) /\ QueuedAt(v, s, before(s, j))
            BY <2>2, <2>4
        <3>2. before(q, i) \in Nat /\ before(s, j) \in Nat
            BY <2>2
        <3> HIDE DEF before
        <3>3. q = s /\ before(q, i) = before(s, j)
            BY <3>1, <3>2 DEF TransactionsInv, OnePlace
        <3> QED
            BY <3>3 DEF before
    <2>5. ASSUME NEW t \in Txns, NEW s \in Requests, NEW i \in Nat, NEW j \in Nat,
                 BufferedAt(v, t, i)', QueuedAt(v, s, j)'
          PROVE  FALSE
        <3>1. QueuedAt(v, s, before(s, j)) /\ before(s, j) \in Nat
            BY <2>2, <2>5
        <3>2. BufferedAt(v, t, i)
            BY <2>1, <2>5
        <3> HIDE DEF before
        <3> QED
            BY <3>1, <3>2 DEF TransactionsInv, OnePlace
    <2> QED
        BY <2>3, <2>4, <2>5
<1> QED
    BY <1>8, <1>9

\* A successful write: the first of the list is stored and reported.
LEMMA FlushSucceedsStep ==
    ASSUME TransactionsInv, NEW r \in Requests, FlushSucceeds(r)
    PROVE  TransactionsInv'
<1> USE DEF TransactionsInv
<1>1. PICK w \in Writes : w = Head(commit[r].left)
    BY TailPositions DEF FlushSucceeds, TypeOK, Commits
<1>2. /\ commit[r].state = "flushing" /\ commit[r].left # <<>>
      /\ \A s \in Requests \ {r} : commit'[s] = commit[s]
      /\ commit'[r] = Commit("flushing", commit[r].taken, Tail(commit[r].left),
                             commit[r].results \cup {w}, commit[r].errors)
    BY <1>1 DEF FlushSucceeds, TypeOK, Commits
<1>3. /\ commit'[r].left = Tail(commit[r].left)
      /\ commit'[r].state = "flushing"
      /\ commit'[r].taken = commit[r].taken
      /\ commit'[r].results = commit[r].results \cup {w}
      /\ commit'[r].errors = commit[r].errors
    BY <1>2 DEF Commit
<1>4. FirstRemoved(r, w) /\ OnePlace'
    <2>1. writes' = writes
        BY DEF FlushSucceeds
    <2> HIDE DEF TransactionsInv
    <2> QED
        BY <1>1, <1>2, <1>3, <2>1, FlushPositions
<1>5. \A v \in Writes, t \in Txns : \A i \in Nat : BufferedAt(v, t, i)' <=> BufferedAt(v, t, i)
    BY DEF FlushSucceeds, BufferedAt
<1>6. /\ w \in sent /\ w \notin discarded /\ written[w] = 0
      /\ \A s \in Requests : w \notin commit[s].results \cup commit[s].errors
      /\ \A t \in Txns : \A i \in Nat : ~BufferedAt(w, t, i)
    BY <1>4 DEF FirstRemoved, WaitingIsUntouched, OnePlace
<1>7. /\ written' \in [Writes -> Nat] /\ written'[w] = Batches[w]
      /\ \A v \in Writes \ {w} : written'[v] = written[v]
    <2>1. written' = [written EXCEPT ![w] = @ + Batches[w]] /\ Batches[w] \in Nat
        BY <1>1, BatchesAssumption DEF FlushSucceeds
    <2> QED
        BY <1>6, <2>1 DEF TypeOK
<1>8. TypeOK'
    <2>1. commit'[r] \in Commits
        <3>1. /\ commit[r].taken \subseteq Writes /\ commit[r].results \subseteq Writes
              /\ commit[r].errors \subseteq Writes
            BY DEF TypeOK, Commits
        <3>2. w \in Writes /\ Tail(commit[r].left) \in Seq(Writes)
            BY <1>4 DEF FirstRemoved
        <3> HIDE DEF TransactionsInv
        <3> QED
            BY <1>2, <3>1, <3>2 DEF Commit, Commits, CommitStates
    <2>2. commit' \in [Requests -> Commits]
        BY <2>1 DEF FlushSucceeds, TypeOK
    <2> QED
        BY <1>2, <1>3, <1>7, <2>2 DEF FlushSucceeds, TypeOK
<1>9. OnePlace'
    BY <1>4
<1>10. WaitingIsUntouched'
    <2> SUFFICES ASSUME NEW v \in Writes, NEW i \in Nat,
                        \/ \E t \in Txns : BufferedAt(v, t, i)'
                        \/ \E s \in Requests : QueuedAt(v, s, i)'
                 PROVE  /\ v \in sent' /\ v \notin discarded' /\ written'[v] = 0
                        /\ \A s \in Requests : v \notin commit'[s].results \cup commit'[s].errors
        BY Zenon DEF WaitingIsUntouched
    <2>1. v # w
        BY <1>4, <1>5, <1>6 DEF FirstRemoved
    <2>2. \E k \in Nat : \/ \E t \in Txns : BufferedAt(v, t, k)
                         \/ \E s \in Requests : QueuedAt(v, s, k)
        BY <1>4, <1>5 DEF FirstRemoved
    <2>3. /\ v \in sent /\ v \notin discarded /\ written[v] = 0
          /\ \A s \in Requests : v \notin commit[s].results \cup commit[s].errors
        BY <2>2 DEF WaitingIsUntouched
    <2> QED
        BY <1>2, <1>3, <1>7, <2>1, <2>3 DEF FlushSucceeds
<1>11. UnsentIsUntouched'
    <2> SUFFICES ASSUME NEW v \in Writes \ sent
                 PROVE  /\ v \notin discarded /\ written'[v] = 0
                        /\ \A s \in Requests : v \notin commit'[s].results \cup commit'[s].errors
        BY DEF FlushSucceeds, UnsentIsUntouched
    <2>1. v # w /\ v \notin discarded /\ written[v] = 0
        BY <1>6 DEF UnsentIsUntouched
    <2>2. \A s \in Requests : v \notin commit[s].results \cup commit[s].errors
        BY DEF UnsentIsUntouched
    <2> QED
        BY <1>2, <1>3, <1>7, <2>1, <2>2
<1>12. TakenIsTracked'
    <2>1. ASSUME NEW v \in Writes
          PROVE  v \in commit'[r].taken <=> \/ v \in commit'[r].results \cup commit'[r].errors
                                            \/ \E i \in Nat : QueuedAt(v, r, i)'
        <3>1. v \in commit[r].taken <=> \/ v \in commit[r].results \cup commit[r].errors
                                        \/ \E i \in Nat : QueuedAt(v, r, i)
            BY <1>2 DEF TakenIsTracked
        <3>2. /\ v = w => \E i \in Nat : QueuedAt(v, r, i)
              /\ v # w => ((\E i \in Nat : QueuedAt(v, r, i)') <=> \E i \in Nat : QueuedAt(v, r, i))
            BY <1>4 DEF FirstRemoved
        <3> HIDE DEF TransactionsInv
        <3> QED
            BY <1>3, <3>1, <3>2
    <2>2. ASSUME NEW s \in Requests \ {r}, NEW v \in Writes, NEW i \in Nat
          PROVE  QueuedAt(v, s, i)' <=> QueuedAt(v, s, i)
        BY <1>4 DEF FirstRemoved
    <2> QED
        BY <1>2, <2>1, <2>2 DEF TakenIsTracked
<1>13. ReportsAreTrue'
    <2> SUFFICES ASSUME NEW s \in Requests
                 PROVE  /\ commit'[s].results \cap commit'[s].errors = {}
                        /\ \A v \in commit'[s].results : written'[v] = Batches[v]
        BY DEF ReportsAreTrue
    <2>1. commit[s].results \subseteq Writes /\ commit[s].errors \subseteq Writes
        BY DEF TypeOK, Commits
    <2>2. /\ \A v \in commit[s].results : v # w /\ written'[v] = Batches[v]
          /\ w \notin commit[s].errors
          /\ commit[s].results \cap commit[s].errors = {}
        BY <1>6, <1>7, <2>1 DEF ReportsAreTrue
    <2> QED
        BY <1>2, <1>3, <1>7, <2>2
<1>14. StoredIsAnsweredFor'
    <2> SUFFICES ASSUME NEW v \in Writes, written'[v] # 0
                 PROVE  \E s \in Requests : \/ v \in commit'[s].results \cup commit'[s].errors
                                            \/ commit'[s].state = "dropped" /\ v \in commit'[s].taken
        BY DEF StoredIsAnsweredFor
    <2>1. CASE v = w
        BY <1>3, <2>1
    <2>2. CASE v # w
        <3>1. PICK s \in Requests : \/ v \in commit[s].results \cup commit[s].errors
                                    \/ commit[s].state = "dropped" /\ v \in commit[s].taken
            BY <1>7, <2>2 DEF StoredIsAnsweredFor
        <3> QED
            BY <1>2, <1>3, <3>1
    <2> QED
        BY <2>1, <2>2
<1>15. FreshCommits'
    BY <1>2, <1>3 DEF FreshCommits
<1>16. WrittenAtMostOnce' /\ RolledBackNotWritten'
    <2>1. Batches[w] \in Nat /\ discarded \subseteq Writes /\ discarded' = discarded
        BY BatchesAssumption DEF FlushSucceeds, TypeOK
    <2> QED
        BY <1>6, <1>7, <2>1 DEF WrittenAtMostOnce, RolledBackNotWritten
<1> QED
    BY <1>8, <1>9, <1>10, <1>11, <1>12, <1>13, <1>14, <1>15, <1>16

\* A failed write: the first of the list is reported, and some of its
\* batches are stored.
LEMMA FlushFailsStep ==
    ASSUME TransactionsInv, NEW r \in Requests, FlushFails(r)
    PROVE  TransactionsInv'
<1> USE DEF TransactionsInv
<1>1. PICK w \in Writes : w = Head(commit[r].left)
    BY TailPositions DEF FlushFails, TypeOK, Commits
<1>2. /\ commit[r].state = "flushing" /\ commit[r].left # <<>>
      /\ \A s \in Requests \ {r} : commit'[s] = commit[s]
      /\ commit'[r] = Commit("flushing", commit[r].taken, Tail(commit[r].left),
                             commit[r].results, commit[r].errors \cup {w})
    BY <1>1 DEF FlushFails, TypeOK, Commits
<1>3. /\ commit'[r].left = Tail(commit[r].left)
      /\ commit'[r].state = "flushing"
      /\ commit'[r].taken = commit[r].taken
      /\ commit'[r].results = commit[r].results
      /\ commit'[r].errors = commit[r].errors \cup {w}
    BY <1>2 DEF Commit
<1>4. FirstRemoved(r, w) /\ OnePlace'
    <2>1. writes' = writes
        BY DEF FlushFails
    <2> HIDE DEF TransactionsInv
    <2> QED
        BY <1>1, <1>2, <1>3, <2>1, FlushPositions
<1>5. \A v \in Writes, t \in Txns : \A i \in Nat : BufferedAt(v, t, i)' <=> BufferedAt(v, t, i)
    BY DEF FlushFails, BufferedAt
<1>6. /\ w \in sent /\ w \notin discarded /\ written[w] = 0
      /\ \A s \in Requests : w \notin commit[s].results \cup commit[s].errors
      /\ \A t \in Txns : \A i \in Nat : ~BufferedAt(w, t, i)
    BY <1>4 DEF FirstRemoved, WaitingIsUntouched, OnePlace
<1>7. /\ written' \in [Writes -> Nat] /\ written'[w] <= Batches[w]
       /\ \A v \in Writes \ {w} : written'[v] = written[v]
    <2>1. PICK stored \in 0..Batches[w] : written' = [written EXCEPT ![w] = @ + stored]
        BY <1>1 DEF FlushFails
    <2>2. Batches[w] \in Nat /\ stored \in Nat /\ stored <= Batches[w]
        BY <2>1, BatchesAssumption
    <2> QED
        BY <1>6, <2>1, <2>2 DEF TypeOK
<1>8. TypeOK'
    <2>1. commit'[r] \in Commits
        <3>1. /\ commit[r].taken \subseteq Writes /\ commit[r].results \subseteq Writes
              /\ commit[r].errors \subseteq Writes
            BY DEF TypeOK, Commits
        <3>2. w \in Writes /\ Tail(commit[r].left) \in Seq(Writes)
            BY <1>4 DEF FirstRemoved
        <3> HIDE DEF TransactionsInv
        <3> QED
            BY <1>2, <3>1, <3>2 DEF Commit, Commits, CommitStates
    <2>2. commit' \in [Requests -> Commits]
        BY <2>1 DEF FlushFails, TypeOK
    <2> QED
        BY <1>2, <1>3, <1>7, <2>2 DEF FlushFails, TypeOK
<1>9. OnePlace'
    BY <1>4
<1>10. WaitingIsUntouched'
    <2> SUFFICES ASSUME NEW v \in Writes, NEW i \in Nat,
                        \/ \E t \in Txns : BufferedAt(v, t, i)'
                        \/ \E s \in Requests : QueuedAt(v, s, i)'
                 PROVE  /\ v \in sent' /\ v \notin discarded' /\ written'[v] = 0
                        /\ \A s \in Requests : v \notin commit'[s].results \cup commit'[s].errors
        BY Zenon DEF WaitingIsUntouched
    <2>1. v # w
        BY <1>4, <1>5, <1>6 DEF FirstRemoved
    <2>2. \E k \in Nat : \/ \E t \in Txns : BufferedAt(v, t, k)
                         \/ \E s \in Requests : QueuedAt(v, s, k)
        BY <1>4, <1>5 DEF FirstRemoved
    <2>3. /\ v \in sent /\ v \notin discarded /\ written[v] = 0
          /\ \A s \in Requests : v \notin commit[s].results \cup commit[s].errors
        BY <2>2 DEF WaitingIsUntouched
    <2> QED
        BY <1>2, <1>3, <1>7, <2>1, <2>3 DEF FlushFails
<1>11. UnsentIsUntouched'
    <2> SUFFICES ASSUME NEW v \in Writes \ sent
                 PROVE  /\ v \notin discarded /\ written'[v] = 0
                        /\ \A s \in Requests : v \notin commit'[s].results \cup commit'[s].errors
        BY DEF FlushFails, UnsentIsUntouched
    <2>1. v # w /\ v \notin discarded /\ written[v] = 0
        BY <1>6 DEF UnsentIsUntouched
    <2>2. \A s \in Requests : v \notin commit[s].results \cup commit[s].errors
        BY DEF UnsentIsUntouched
    <2> QED
        BY <1>2, <1>3, <1>7, <2>1, <2>2
<1>12. TakenIsTracked'
    <2>1. ASSUME NEW v \in Writes
          PROVE  v \in commit'[r].taken <=> \/ v \in commit'[r].results \cup commit'[r].errors
                                            \/ \E i \in Nat : QueuedAt(v, r, i)'
        <3>1. v \in commit[r].taken <=> \/ v \in commit[r].results \cup commit[r].errors
                                        \/ \E i \in Nat : QueuedAt(v, r, i)
            BY <1>2 DEF TakenIsTracked
        <3>2. /\ v = w => \E i \in Nat : QueuedAt(v, r, i)
              /\ v # w => ((\E i \in Nat : QueuedAt(v, r, i)') <=> \E i \in Nat : QueuedAt(v, r, i))
            BY <1>4 DEF FirstRemoved
        <3> HIDE DEF TransactionsInv
        <3> QED
            BY <1>3, <3>1, <3>2
    <2>2. ASSUME NEW s \in Requests \ {r}, NEW v \in Writes, NEW i \in Nat
          PROVE  QueuedAt(v, s, i)' <=> QueuedAt(v, s, i)
        BY <1>4 DEF FirstRemoved
    <2> QED
        BY <1>2, <2>1, <2>2 DEF TakenIsTracked
<1>13. ReportsAreTrue' /\ FreshCommits'
    <2>1. \A s \in Requests : /\ commit[s].results \subseteq Writes
                              /\ w \notin commit[s].results
                              /\ commit'[s].results = commit[s].results
                              /\ commit'[s].errors \subseteq commit[s].errors \cup {w}
        BY <1>2, <1>3, <1>6 DEF TypeOK, Commits
    <2>2. ReportsAreTrue'
        BY <1>7, <2>1 DEF ReportsAreTrue
    <2> QED
        BY <1>2, <1>3, <2>2 DEF FreshCommits
<1>14. StoredIsAnsweredFor'
    <2> SUFFICES ASSUME NEW v \in Writes, written'[v] # 0
                 PROVE  \E s \in Requests : \/ v \in commit'[s].results \cup commit'[s].errors
                                            \/ commit'[s].state = "dropped" /\ v \in commit'[s].taken
        BY DEF StoredIsAnsweredFor
    <2>1. CASE v = w
        BY <1>3, <2>1
    <2>2. CASE v # w
        <3>1. PICK s \in Requests : \/ v \in commit[s].results \cup commit[s].errors
                                    \/ commit[s].state = "dropped" /\ v \in commit[s].taken
            BY <1>7, <2>2 DEF StoredIsAnsweredFor
        <3> QED
            BY <1>2, <1>3, <3>1
    <2> QED
        BY <2>1, <2>2
<1>15. WrittenAtMostOnce' /\ RolledBackNotWritten'
    BY <1>6, <1>7 DEF FlushFails, WrittenAtMostOnce, RolledBackNotWritten, TypeOK
<1> QED
    BY <1>8, <1>9, <1>10, <1>11, <1>12, <1>13, <1>15, <1>14

\* The answer changes no list and no report.
LEMMA AnswerStep ==
    ASSUME TransactionsInv, NEW r \in Requests, Answer(r)
    PROVE  TransactionsInv'
<1> USE DEF TransactionsInv
<1>1. /\ \A s \in Requests \ {r} : commit'[s] = commit[s]
      /\ commit'[r] = Commit("answered", commit[r].taken, commit[r].left,
                             commit[r].results, commit[r].errors)
      /\ commit[r].state = "flushing" /\ commit[r].left = <<>>
    BY DEF Answer, TypeOK
<1>2. /\ \A s \in Requests : /\ commit'[s].left = commit[s].left
                             /\ commit'[s].taken = commit[s].taken
                             /\ commit'[s].results = commit[s].results
                             /\ commit'[s].errors = commit[s].errors
      /\ commit'[r].state = "answered"
    BY <1>1 DEF Commit
<1>3. \A v \in Writes, s \in Requests : \A i \in Nat : QueuedAt(v, s, i)' <=> QueuedAt(v, s, i)
    BY <1>2 DEF QueuedAt
<1>4. \A v \in Writes, t \in Txns : \A i \in Nat : BufferedAt(v, t, i)' <=> BufferedAt(v, t, i)
    BY DEF Answer, BufferedAt
<1>5. commit' \in [Requests -> Commits]
    BY <1>1 DEF Answer, Commit, TypeOK, Commits, CommitStates
<1>6. TypeOK'
    BY <1>1, <1>2, <1>5 DEF Answer, TypeOK
<1>7. OnePlace'
    BY <1>3, <1>4 DEF OnePlace
<1>8. WaitingIsUntouched'
    BY <1>2, <1>3, <1>4 DEF Answer, WaitingIsUntouched
<1>9. UnsentIsUntouched' /\ ReportsAreTrue' /\ StoredIsAnsweredFor'
    BY <1>1, <1>2 DEF Answer, UnsentIsUntouched, ReportsAreTrue, StoredIsAnsweredFor
<1>10. TakenIsTracked' /\ FreshCommits'
    BY <1>1, <1>2, <1>3 DEF TakenIsTracked, FreshCommits
<1>11. WrittenAtMostOnce' /\ RolledBackNotWritten'
    BY DEF Answer, WrittenAtMostOnce, RolledBackNotWritten
<1> QED
    BY <1>6, <1>7, <1>8, <1>9, <1>10, <1>11

\* A dropped COMMIT forgets its list; the write in flight may be stored, and no
\* list or buffer holds it any more.
LEMMA DisconnectStep ==
    ASSUME TransactionsInv, NEW r \in Requests, Disconnect(r)
    PROVE  TransactionsInv'
<1> USE DEF TransactionsInv
<1>1. PICK w \in Writes : w = Head(commit[r].left) /\ w = commit[r].left[1]
    BY TailPositions DEF Disconnect, TypeOK, Commits
<1>2. /\ \A s \in Requests \ {r} : commit'[s] = commit[s]
      /\ commit'[r] = Commit("dropped", commit[r].taken, <<>>, commit[r].results, commit[r].errors)
    BY DEF Disconnect, TypeOK
<1>3. /\ \A s \in Requests : /\ commit'[s].taken = commit[s].taken
                             /\ commit'[s].results = commit[s].results
                             /\ commit'[s].errors = commit[s].errors
      /\ commit'[r].state = "dropped" /\ commit'[r].left = <<>>
    BY <1>2 DEF Commit
<1>4. QueuedAt(w, r, 1)
    <2>1. Len(commit[r].left) \in Nat \ {0}
        BY TailPositions DEF Disconnect, TypeOK, Commits
    <2> QED
        BY <1>1, <2>1 DEF QueuedAt
<1>5. \A v \in Writes, s \in Requests : \A i \in Nat :
          QueuedAt(v, s, i)' <=> s # r /\ QueuedAt(v, s, i)
    BY <1>2, <1>3 DEF QueuedAt
<1>6. \A v \in Writes, t \in Txns : \A i \in Nat : BufferedAt(v, t, i)' <=> BufferedAt(v, t, i)
    BY DEF Disconnect, BufferedAt
<1>7. /\ w \in sent /\ w \notin discarded /\ written[w] = 0
      /\ \A s \in Requests : w \notin commit[s].results \cup commit[s].errors
      /\ \A t \in Txns : \A i \in Nat : ~BufferedAt(w, t, i)
      /\ \A s \in Requests \ {r} : \A i \in Nat : ~QueuedAt(w, s, i)
    BY <1>4 DEF WaitingIsUntouched, OnePlace
<1>8. /\ written' \in [Writes -> Nat] /\ written'[w] <= Batches[w]
      /\ \A v \in Writes \ {w} : written'[v] = written[v]
    <2>1. PICK stored \in 0..Batches[w] : written' = [written EXCEPT ![w] = @ + stored]
        BY <1>1 DEF Disconnect
    <2>2. Batches[w] \in Nat /\ stored \in Nat /\ stored <= Batches[w]
        BY <2>1, BatchesAssumption
    <2> QED
        BY <1>7, <2>1, <2>2 DEF TypeOK
<1>9. TypeOK'
    <2>1. commit'[r] \in Commits
        BY <1>2 DEF Commit, TypeOK, Commits, CommitStates
    <2>2. commit' \in [Requests -> Commits]
        BY <2>1 DEF Disconnect, TypeOK
    <2> QED
        BY <1>2, <1>3, <1>8, <2>2 DEF Disconnect, TypeOK
<1>10. OnePlace'
    BY <1>5, <1>6 DEF OnePlace
<1>11. WaitingIsUntouched'
    <2> SUFFICES ASSUME NEW v \in Writes, NEW i \in Nat,
                        \/ \E t \in Txns : BufferedAt(v, t, i)'
                        \/ \E s \in Requests : QueuedAt(v, s, i)'
                 PROVE  /\ v \in sent' /\ v \notin discarded' /\ written'[v] = 0
                        /\ \A s \in Requests : v \notin commit'[s].results \cup commit'[s].errors
        BY Zenon DEF WaitingIsUntouched
    <2>1. v # w
        BY <1>5, <1>6, <1>7
    <2>2. /\ v \in sent /\ v \notin discarded /\ written[v] = 0
          /\ \A s \in Requests : v \notin commit[s].results \cup commit[s].errors
        BY <1>5, <1>6 DEF WaitingIsUntouched
    <2> QED
        BY <1>3, <1>8, <2>1, <2>2 DEF Disconnect
<1>12. UnsentIsUntouched'
    <2> SUFFICES ASSUME NEW v \in Writes \ sent
                 PROVE  /\ v \notin discarded /\ written'[v] = 0
                        /\ \A s \in Requests : v \notin commit'[s].results \cup commit'[s].errors
        BY DEF Disconnect, UnsentIsUntouched
    <2> QED
        BY <1>3, <1>7, <1>8 DEF UnsentIsUntouched
<1>13. TakenIsTracked' /\ FreshCommits'
    BY <1>2, <1>3, <1>5 DEF TakenIsTracked, FreshCommits
<1>14. ReportsAreTrue'
    <2> SUFFICES ASSUME NEW s \in Requests
                 PROVE  /\ commit'[s].results \cap commit'[s].errors = {}
                        /\ \A v \in commit'[s].results : written'[v] = Batches[v]
        BY DEF ReportsAreTrue
    <2>1. commit[s].results \subseteq Writes
        BY DEF TypeOK, Commits
    <2> QED
        BY <1>3, <1>7, <1>8, <2>1 DEF ReportsAreTrue
<1>15. StoredIsAnsweredFor'
    <2> SUFFICES ASSUME NEW v \in Writes, written'[v] # 0
                 PROVE  \E s \in Requests : \/ v \in commit'[s].results \cup commit'[s].errors
                                            \/ commit'[s].state = "dropped" /\ v \in commit'[s].taken
        BY DEF StoredIsAnsweredFor
    <2>1. CASE v = w
        <3>1. commit[r].state = "flushing" /\ w \in commit[r].taken
            BY <1>4 DEF Disconnect, TakenIsTracked
        <3> QED
            BY <1>3, <2>1, <3>1
    <2>2. CASE v # w
        <3>1. PICK s \in Requests : \/ v \in commit[s].results \cup commit[s].errors
                                    \/ commit[s].state = "dropped" /\ v \in commit[s].taken
            BY <1>8, <2>2 DEF StoredIsAnsweredFor
        <3> QED
            BY <1>2, <1>3, <3>1
    <2> QED
        BY <2>1, <2>2
<1>16. WrittenAtMostOnce' /\ RolledBackNotWritten'
    BY <1>7, <1>8 DEF Disconnect, WrittenAtMostOnce, RolledBackNotWritten, TypeOK
<1> QED
    BY <1>9, <1>10, <1>11, <1>12, <1>13, <1>14, <1>15, <1>16

\* ROLLBACK discards a whole buffer.
LEMMA RollbackStep ==
    ASSUME TransactionsInv, NEW t \in Txns, Rollback(t)
    PROVE  TransactionsInv'
<1> USE DEF TransactionsInv
<1>1. /\ writes' \in [Txns -> Seq(Writes)]
      /\ writes'[t] = <<>>
      /\ \A u \in Txns \ {t} : writes'[u] = writes[u]
      /\ Elements(writes[t]) \subseteq Writes
      /\ commit' = commit /\ written' = written /\ sent' = sent
      /\ discarded' = discarded \cup Elements(writes[t])
    BY DEF Rollback, Elements, TypeOK
<1>2. \A v \in Writes : v \in Elements(writes[t]) <=> \E i \in Nat : BufferedAt(v, t, i)
    BY DEF Elements, BufferedAt, TypeOK
<1>3. TypeOK'
    BY <1>1 DEF Rollback, TypeOK
<1>4. \A v \in Writes, u \in Txns : \A i \in Nat :
          BufferedAt(v, u, i)' <=> u # t /\ BufferedAt(v, u, i)
    BY <1>1 DEF BufferedAt
<1>5. \A v \in Writes, r \in Requests : \A i \in Nat : QueuedAt(v, r, i)' <=> QueuedAt(v, r, i)
    BY <1>1 DEF QueuedAt
<1>6. OnePlace'
    BY <1>4, <1>5 DEF OnePlace
<1>7. WaitingIsUntouched'
    <2> SUFFICES ASSUME NEW v \in Writes, NEW i \in Nat,
                        \/ \E u \in Txns : BufferedAt(v, u, i)'
                        \/ \E s \in Requests : QueuedAt(v, s, i)'
                 PROVE  /\ v \in sent' /\ v \notin discarded' /\ written'[v] = 0
                        /\ \A s \in Requests : v \notin commit'[s].results \cup commit'[s].errors
        BY Zenon DEF WaitingIsUntouched
    <2>1. v \notin Elements(writes[t])
        BY <1>2, <1>4, <1>5 DEF OnePlace
    <2>2. /\ v \in sent /\ v \notin discarded /\ written[v] = 0
          /\ \A s \in Requests : v \notin commit[s].results \cup commit[s].errors
        BY <1>4, <1>5 DEF WaitingIsUntouched
    <2> QED
        BY <1>1, <2>1, <2>2
<1>8. \A v \in Elements(writes[t]) : v \in Writes /\ v \in sent /\ written[v] = 0
    BY <1>1, <1>2 DEF WaitingIsUntouched
<1>9. UnsentIsUntouched' /\ RolledBackNotWritten'
    BY <1>1, <1>8 DEF UnsentIsUntouched, RolledBackNotWritten
<1>10. TakenIsTracked'
    BY <1>1, <1>5 DEF TakenIsTracked
<1>11. ReportsAreTrue' /\ FreshCommits' /\ WrittenAtMostOnce' /\ StoredIsAnsweredFor'
    BY <1>1 DEF ReportsAreTrue, FreshCommits, WrittenAtMostOnce, StoredIsAnsweredFor
<1> QED
    BY <1>3, <1>6, <1>7, <1>9, <1>10, <1>11

\* Every step of a request preserves the invariant.
LEMMA TransactionsStep == TransactionsInv /\ [Next]_vars => TransactionsInv'
<1> SUFFICES ASSUME TransactionsInv, [Next]_vars PROVE TransactionsInv'
    OBVIOUS
<1>1. CASE HandlerStep
    BY <1>1, BeginStep, RollbackStep, CommitTakeStep, FlushSucceedsStep, FlushFailsStep,
       AnswerStep, DisconnectStep DEF HandlerStep
<1>2. ASSUME NEW t \in Txns, NEW w \in Writes, AddWrite(t, w) PROVE TransactionsInv'
    BY <1>2, AddWriteStep
<1>3. CASE UNCHANGED vars
    <2> USE <1>3 DEF vars, TransactionsInv
    <2>1. TypeOK'
        BY DEF TypeOK
    <2>2. OnePlace' /\ WaitingIsUntouched' /\ TakenIsTracked'
        <3>1. OnePlace'
            BY DEF OnePlace, BufferedAt, QueuedAt
        <3>2. WaitingIsUntouched'
            BY DEF WaitingIsUntouched, BufferedAt, QueuedAt
        <3>3. TakenIsTracked'
            BY DEF TakenIsTracked, QueuedAt
        <3> QED
            BY <3>1, <3>2, <3>3
    <2>3. UnsentIsUntouched' /\ ReportsAreTrue' /\ StoredIsAnsweredFor' /\ FreshCommits'
        BY DEF UnsentIsUntouched, ReportsAreTrue, StoredIsAnsweredFor, FreshCommits
    <2>4. WrittenAtMostOnce' /\ RolledBackNotWritten'
        BY DEF WrittenAtMostOnce, RolledBackNotWritten
    <2> QED
        BY <2>1, <2>2, <2>3, <2>4
<1> QED
    BY <1>1, <1>2, <1>3 DEF Next

\* The inductive invariant holds throughout.
LEMMA TransactionsInvariant == Spec => []TransactionsInv
  BY TransactionsInit, TransactionsStep, PTL DEF Spec

\* Every state of the store, the COMMIT handlers and the datasources is well
\* formed.
THEOREM TransactionsTypeCorrect == Spec => []TypeOK
<1>1. TransactionsInv => TypeOK
    BY DEF TransactionsInv
<1> QED
    BY <1>1, TransactionsInvariant, PTL

\* No write reaches its datasource twice: take removes the transaction from the
\* store, so of all COMMITs and ROLLBACKs of an id only one gets its writes.
THEOREM CommitWritesOnce == Spec => []WrittenAtMostOnce
<1>1. TransactionsInv => WrittenAtMostOnce
    BY DEF TransactionsInv
<1> QED
    BY <1>1, TransactionsInvariant, PTL

\* A write that ROLLBACK has discarded never reaches a datasource.
THEOREM RollbackWritesNothing == Spec => []RolledBackNotWritten
<1>1. TransactionsInv => RolledBackNotWritten
    BY DEF TransactionsInv
<1> QED
    BY <1>1, TransactionsInvariant, PTL

\* The answer to COMMIT names every write it took once, the results are stored to
\* the last batch, and what is stored at all is reported by its COMMIT, unless the
\* client left it.
THEOREM CommitReportsExactly == Spec => []AnswerIsExact
<1>1. TransactionsInv => AnswerIsExact
    <2> SUFFICES ASSUME TransactionsInv, NEW r \in Requests, commit[r].state = "answered"
                 PROVE  commit[r].results \cup commit[r].errors = commit[r].taken
        BY DEF TransactionsInv, ReportsAreTrue, StoredIsAnsweredFor, AnswerIsExact
    <2>1. /\ commit[r].results \subseteq Writes /\ commit[r].errors \subseteq Writes
          /\ commit[r].taken \subseteq Writes /\ commit[r].left = <<>>
        BY DEF TransactionsInv, TypeOK, Commits
    <2>2. \A w \in Writes : \A i \in Nat : ~QueuedAt(w, r, i)
        BY <2>1 DEF QueuedAt
    <2> QED
        BY <2>1, <2>2 DEF TransactionsInv, TakenIsTracked
<1> QED
    BY <1>1, TransactionsInvariant, PTL

\* The check against MAX_ACTIVE_TRANSACTIONS in begin bounds the store.
THEOREM ActiveTransactionsBounded == Spec => []ActiveBounded
<1> DEFINE Bound == IsFiniteSet(active) /\ ActiveBounded
<1>1. Init => Bound
    BY FS_EmptySet, MaxActiveAssumption DEF Init, ActiveBounded
<1>2. Bound /\ [Next]_vars => Bound'
    <2> SUFFICES ASSUME Bound, [Next]_vars PROVE Bound'
        OBVIOUS
    <2>1. ASSUME NEW t \in Txns, Begin(t) PROVE Bound'
        <3>1. IsFiniteSet(active') /\ Cardinality(active') = Cardinality(active) + 1
            BY <2>1, FS_AddElement DEF Begin
        <3>2. Cardinality(active) \in Nat /\ Cardinality(active) < MaxActive
            BY <2>1, FS_CardinalityType DEF Begin
        <3> QED
            BY <3>1, <3>2, MaxActiveAssumption DEF ActiveBounded
    <2>2. ASSUME NEW t \in Txns, active' = active \ {t} PROVE Bound'
        <3>1. /\ IsFiniteSet(active')
              /\ Cardinality(active') \in {Cardinality(active), Cardinality(active) - 1}
            BY <2>2, FS_RemoveElement
        <3>2. Cardinality(active) \in Nat
            BY FS_CardinalityType
        <3> QED
            BY <3>1, <3>2, MaxActiveAssumption DEF ActiveBounded
    <2>3. CASE active' = active
        BY <2>3 DEF ActiveBounded
    <2> QED
        BY <2>1, <2>2, <2>3 DEF Next, HandlerStep, Rollback, CommitTake, FlushSucceeds,
           FlushFails, Answer, Disconnect, AddWrite, vars
<1> QED
    BY <1>1, <1>2, PTL DEF Spec
=============================================================================
