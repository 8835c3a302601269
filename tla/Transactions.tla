----------------------------- MODULE Transactions -----------------------------
(***************************************************************************)
(* The transaction store and the BEGIN, COMMIT and ROLLBACK statements of  *)
(* query_handler.  A COMMIT takes the buffered writes out of the store and *)
(* flushes them one after the other, with an await at each; other requests *)
(* run in between, and the client may go away, which drops the handler.    *)
(*                                                                         *)
(* Two systems are specified over the same state.  Spec is the store used  *)
(* as its interface offers: writes are buffered with add_write.            *)
(* ServerSpec is the server as it is wired: add_write has no caller, and   *)
(* INSERT INTO ... SELECT writes to the datasource at once.                *)
(***************************************************************************)
EXTENDS Integers, FiniteSets, Sequences

CONSTANTS Txns,       \* transaction ids
          Writes,     \* the writes clients issue, each a PendingWrite of its own
          Requests,   \* COMMIT requests
          Batches,    \* the record batches of each write, stored one after the other
          MaxActive   \* MAX_ACTIVE_TRANSACTIONS

ASSUME BatchesAssumption == Batches \in [Writes -> Nat]
ASSUME MaxActiveAssumption == MaxActive \in Nat \ {0}

VARIABLES active,     \* the keys of TransactionStore::txns
          writes,     \* Transaction::writes of each key
          commit,     \* the COMMIT handlers
          written,    \* how many batches write_batches has stored of each write
          sent,       \* the writes issued so far
          discarded   \* the writes a ROLLBACK has thrown away

vars == <<active, writes, commit, written, sent, discarded>>

CommitStates == {"idle", "flushing", "answered", "dropped"}

\* A COMMIT handler: the writes it has taken, those it still has to flush, and
\* the results and errors it has collected.
Commits == [state: CommitStates, taken: SUBSET Writes, left: Seq(Writes),
            results: SUBSET Writes, errors: SUBSET Writes]

Commit(state, taken, left, results, errors) ==
    [state |-> state, taken |-> taken, left |-> left, results |-> results, errors |-> errors]

Elements(s) == {s[i] : i \in 1..Len(s)}

Init ==
    /\ active = {}
    /\ writes = [t \in Txns |-> <<>>]
    /\ commit = [r \in Requests |-> Commit("idle", {}, <<>>, {}, {})]
    /\ written = [w \in Writes |-> 0]
    /\ sent = {}
    /\ discarded = {}

\* BEGIN [id].  A known id, or a full store, is refused and changes nothing.
Begin(t) ==
    /\ t \notin active
    /\ Cardinality(active) < MaxActive
    /\ active' = active \cup {t}
    /\ UNCHANGED <<writes, commit, written, sent, discarded>>

\* add_write; refused when there is no such transaction.
AddWrite(t, w) ==
    /\ w \notin sent
    /\ t \in active
    /\ writes' = [writes EXCEPT ![t] = Append(@, w)]
    /\ sent' = sent \cup {w}
    /\ UNCHANGED <<active, commit, written, discarded>>

\* Mutant of CommitTake: the transaction is read and left in the store.
CommitTakeCopies(r, t) ==
    /\ commit[r].state = "idle"
    /\ t \in active
    /\ commit' = [commit EXCEPT ![r] =
                      Commit("flushing", Elements(writes[t]), writes[t], {}, {})]
    /\ UNCHANGED <<active, writes, written, sent, discarded>>

\* COMMIT id: take.  An unknown id is refused and changes nothing.
CommitTake(r, t) ==
    /\ commit[r].state = "idle"
    /\ t \in active
    /\ active' = active \ {t}
    /\ writes' = [writes EXCEPT ![t] = <<>>]
    /\ commit' = [commit EXCEPT ![r] =
                      Commit("flushing", Elements(writes[t]), writes[t], {}, {})]
    /\ UNCHANGED <<written, sent, discarded>>

\* Mutant of FlushFails: the first error ends the loop.
FlushFailsAndStops(r) ==
    /\ commit[r].state = "flushing"
    /\ commit[r].left # <<>>
    /\ commit' = [commit EXCEPT ![r] =
                      Commit("flushing", @.taken, <<>>, @.results, @.errors \cup {Head(@.left)})]
    /\ UNCHANGED <<active, writes, written, sent, discarded>>

\* Mutant of FlushFails: a write that fails goes back to the end of the list.
FlushFailsForever(r) ==
    /\ commit[r].state = "flushing"
    /\ commit[r].left # <<>>
    /\ commit' = [commit EXCEPT ![r].left = Append(Tail(@), Head(@))]
    /\ UNCHANGED <<active, writes, written, sent, discarded>>

\* The loop of COMMIT: write_batches of the next write returns Ok ...
FlushSucceeds(r) ==
    /\ commit[r].state = "flushing"
    /\ commit[r].left # <<>>
    /\ written' = [written EXCEPT ![Head(commit[r].left)] = @ + Batches[Head(commit[r].left)]]
    /\ commit' = [commit EXCEPT ![r] =
                      Commit("flushing", @.taken, Tail(@.left),
                             @.results \cup {Head(@.left)}, @.errors)]
    /\ UNCHANGED <<active, writes, sent, discarded>>

\* ... or Err: the connectors store one batch after the other and stop at the first
\* that fails, with the earlier ones stored; when only the confirmation is lost, all
\* are.  Or its datasource is not registered, and nothing is stored.
FlushFails(r) ==
    /\ commit[r].state = "flushing"
    /\ commit[r].left # <<>>
    /\ \E stored \in 0..Batches[Head(commit[r].left)] :
           written' = [written EXCEPT ![Head(commit[r].left)] = @ + stored]
    /\ commit' = [commit EXCEPT ![r] =
                      Commit("flushing", @.taken, Tail(@.left), @.results,
                             @.errors \cup {Head(@.left)})]
    /\ UNCHANGED <<active, writes, sent, discarded>>

\* Mutant of Answer: the answer does not wait for the last writes.
AnswerEarly(r) ==
    /\ commit[r].state = "flushing"
    /\ commit' = [commit EXCEPT ![r] =
                      Commit("answered", @.taken, @.left, @.results, @.errors)]
    /\ UNCHANGED <<active, writes, written, sent, discarded>>

\* "committed": true, with the results and the errors.
Answer(r) ==
    /\ commit[r].state = "flushing"
    /\ commit[r].left = <<>>
    /\ commit' = [commit EXCEPT ![r] =
                      Commit("answered", @.taken, @.left, @.results, @.errors)]
    /\ UNCHANGED <<active, writes, written, sent, discarded>>

\* The client disconnects and the handler is dropped at an await: the write in
\* flight may have been stored or a part of it, and the ones after it are gone.
Disconnect(r) ==
    /\ commit[r].state = "flushing"
    /\ commit[r].left # <<>>
    /\ \E stored \in 0..Batches[Head(commit[r].left)] :
           written' = [written EXCEPT ![Head(commit[r].left)] = @ + stored]
    /\ commit' = [commit EXCEPT ![r] =
                      Commit("dropped", @.taken, <<>>, @.results, @.errors)]
    /\ UNCHANGED <<active, writes, sent, discarded>>

\* Mutant of Rollback: the caller is told, and the transaction stays.
RollbackKeeps(t) ==
    /\ t \in active
    /\ discarded' = discarded \cup Elements(writes[t])
    /\ UNCHANGED <<active, writes, commit, written, sent>>

\* ROLLBACK id.  An unknown id is refused and changes nothing.
Rollback(t) ==
    /\ t \in active
    /\ active' = active \ {t}
    /\ writes' = [writes EXCEPT ![t] = <<>>]
    /\ discarded' = discarded \cup Elements(writes[t])
    /\ UNCHANGED <<commit, written, sent>>

\* INSERT INTO ... SELECT and CREATE TABLE ... AS SELECT: the rows go to
\* write_batches of the destination, which may fail half-way, whatever
\* transactions are active.
Insert(w) ==
    /\ w \notin sent
    /\ sent' = sent \cup {w}
    /\ \E stored \in 0..Batches[w] : written' = [written EXCEPT ![w] = @ + stored]
    /\ UNCHANGED <<active, writes, commit, discarded>>

HandlerStep ==
    \/ \E t \in Txns : Begin(t) \/ Rollback(t)
    \/ \E r \in Requests, t \in Txns : CommitTake(r, t)
    \/ \E r \in Requests : FlushSucceeds(r) \/ FlushFails(r) \/ Answer(r) \/ Disconnect(r)

Next == HandlerStep \/ \E t \in Txns, w \in Writes : AddWrite(t, w)

ServerNext == HandlerStep \/ \E w \in Writes : Insert(w)

Spec == Init /\ [][Next]_vars

\* A handler that is not dropped goes on: write_batches returns, and the runtime
\* polls the handler again.
FairSpec ==
    /\ Spec
    /\ \A r \in Requests : WF_vars(FlushSucceeds(r) \/ FlushFails(r) \/ Answer(r))

ServerSpec == Init /\ [][ServerNext]_vars

-----------------------------------------------------------------------------

TypeOK ==
    /\ active \subseteq Txns
    /\ writes \in [Txns -> Seq(Writes)]
    /\ commit \in [Requests -> Commits]
    /\ written \in [Writes -> Nat]
    /\ sent \subseteq Writes
    /\ discarded \subseteq Writes
    /\ \A r \in Requests : commit[r].state # "flushing" => commit[r].left = <<>>

\* The store never holds more transactions than MAX_ACTIVE_TRANSACTIONS.
ActiveBounded == Cardinality(active) <= MaxActive

\* However many COMMITs and ROLLBACKs of the same and of reused ids race, no
\* batch of a write reaches its datasource twice: take hands the write to one
\* COMMIT only, and a write that failed half-way is not tried again.
WrittenAtMostOnce == \A w \in Writes : written[w] <= Batches[w]

\* What a ROLLBACK has discarded never reaches a datasource.
RolledBackNotWritten == \A w \in discarded : written[w] = 0

\* The answer to COMMIT accounts for every write it took, as a result or as an
\* error and not as both, however many of them failed; those it reports as results
\* are stored to the last batch.  An error does not say that nothing was stored, but
\* nothing is stored in silence: what has reached a datasource, were it one batch,
\* is a write that its COMMIT reports, unless the client left that COMMIT.
AnswerIsExact ==
    /\ \A r \in Requests :
          /\ commit[r].state = "answered" => commit[r].results \cup commit[r].errors = commit[r].taken
          /\ commit[r].results \cap commit[r].errors = {}
          /\ \A w \in commit[r].results : written[w] = Batches[w]
    /\ \A w \in Writes : written[w] # 0 =>
          \E r \in Requests : \/ w \in commit[r].results \cup commit[r].errors
                              \/ commit[r].state = "dropped" /\ w \in commit[r].taken

\* A COMMIT comes to an end: it is answered, or its client has gone.
CommitsEnd ==
    \A r \in Requests : commit[r].state = "flushing" ~> commit[r].state \in {"answered", "dropped"}

\* "Buffers write operations between BEGIN and COMMIT" (transaction.rs): while a
\* transaction is active, only a COMMIT makes a write visible.
WritesAreBuffered ==
    [][active # {} /\ written' # written => \E r \in Requests : commit[r].state = "flushing"]_vars
=============================================================================
