------------------------------ MODULE Webhooks ------------------------------
(***************************************************************************)
(* Webhook subscriptions of fuse-server: the registry, POST /{id}/test,    *)
(* which runs the query of a subscription and delivers the result to the   *)
(* callback when the condition holds, with retries, and the bounded queue  *)
(* of deliveries that failed for good.                                     *)
(*                                                                         *)
(* The registry's map and the dead-letter queue have a lock each; a test   *)
(* holds neither while it waits for the connector, for the callback or for *)
(* a backoff.  The receiver is modelled by what arrives there: an attempt  *)
(* may arrive although its answer is lost or comes after the timeout.      *)
(* Payloads, timestamps and last_error are left out, and with them what    *)
(* update_after_eval records about a query that did not fire.              *)
(***************************************************************************)
EXTENDS Integers, Sequences, FiniteSets, SequencesExt

CONSTANTS Tests,      \* calls of test_webhook
          MaxSubs,    \* bound: subscriptions created in a behaviour
          DlqEntries, \* DeadLetterQueue::max_entries, 1000 in the server
          U32         \* the size of u32, the type of the retry counters

ASSUME DlqAssumption == DlqEntries \in Nat \ {0}
ASSUME U32Assumption == U32 \in Nat \ {0}

VARIABLES subs,    \* WebhookRegistry::subs, by the number in the id
          next_id, \* WebhookRegistry::next_id
          tests,   \* the handlers of the test calls
          dlq,     \* DeadLetterQueue::entries: the tests whose payloads they hold
          forgotten \* history: the tests whose entries the queue gave up

webhookVars == <<subs, next_id, tests, dlq, forgotten>>

SubIds == 1..MaxSubs
NoSub == 0
Retries == 0..U32 - 1

Unregistered == [live |-> FALSE, fire_count |-> 0, max_retries |-> 0]
IdleTest == [at |-> "idle", sub |-> NoSub, total |-> 0, attempts |-> 0, received |-> 0, outcome |-> "none"]

\* total_attempts = max_retries + 1, in u32.  A build with overflow checks panics
\* on the wrap, which ends the handler like a disconnect.
TotalAttempts(max_retries) == (max_retries + 1) % U32

WebhookInit ==
    /\ subs = [s \in SubIds |-> Unregistered]
    /\ next_id = 1
    /\ tests = [t \in Tests |-> IdleTest]
    /\ dlq = <<>>
    /\ forgotten = {}

\* create_webhook; the retry configuration is the client's
CreateWebhook(max_retries) ==
    /\ next_id \in SubIds
    /\ subs' = [subs EXCEPT ![next_id] = [live |-> TRUE, fire_count |-> 0, max_retries |-> max_retries]]
    /\ next_id' = next_id + 1
    /\ UNCHANGED <<tests, dlq, forgotten>>

\* delete_webhook
DeleteWebhook(s) ==
    /\ subs[s].live
    /\ subs' = [subs EXCEPT ![s].live = FALSE]
    /\ UNCHANGED <<next_id, tests, dlq, forgotten>>

\* test_webhook reads a snapshot of the subscription and starts its query.
StartTest(t, s) ==
    /\ tests[t].at = "idle"
    /\ subs[s].live
    /\ tests' = [tests EXCEPT ![t].at = "querying", ![t].sub = s,
                              ![t].total = TotalAttempts(subs[s].max_retries)]
    /\ UNCHANGED <<subs, next_id, dlq, forgotten>>

\* The query cannot be parsed, names an unknown datasource or fails, or the
\* condition does not hold: update_after_eval at most, nothing is delivered.
NotFired(t) ==
    /\ tests[t].at = "querying"
    /\ tests' = [tests EXCEPT ![t].at = "done"]
    /\ UNCHANGED <<subs, next_id, dlq, forgotten>>

\* The condition holds: deliver_webhook_with_retry begins.
Fire(t) ==
    /\ tests[t].at = "querying"
    /\ tests' = [tests EXCEPT ![t].at = "delivering"]
    /\ UNCHANGED <<subs, next_id, dlq, forgotten>>

\* try_deliver: the callback answers with success.
AttemptSucceeds(t) ==
    /\ tests[t].at = "delivering"
    /\ tests[t].attempts < tests[t].total
    /\ tests' = [tests EXCEPT ![t].at = "recording", ![t].attempts = @ + 1,
                              ![t].received = @ + 1, ![t].outcome = "delivered"]
    /\ UNCHANGED <<subs, next_id, dlq, forgotten>>

\* Mutant of AttemptFails: a failed attempt is repeated without being counted.
AttemptFailsUncounted(t, arrives) ==
    /\ tests[t].at = "delivering"
    /\ tests[t].attempts < tests[t].total
    /\ UNCHANGED webhookVars

\* try_deliver fails: refused, lost, or received with a late or bad answer.
AttemptFails(t, arrives) ==
    /\ tests[t].at = "delivering"
    /\ tests[t].attempts < tests[t].total
    /\ tests' = [tests EXCEPT ![t].attempts = @ + 1,
                              ![t].received = IF arrives THEN @ + 1 ELSE @]
    /\ UNCHANGED <<subs, next_id, dlq, forgotten>>

\* All attempts are used up.
GiveUp(t) ==
    /\ tests[t].at = "delivering"
    /\ tests[t].attempts >= tests[t].total
    /\ tests' = [tests EXCEPT ![t].at = "recording", ![t].outcome = "failed"]
    /\ UNCHANGED <<subs, next_id, dlq, forgotten>>

\* No HTTP client can be built: the delivery fails without an attempt.
ClientFails(t) ==
    /\ tests[t].at = "delivering"
    /\ tests[t].attempts = 0
    /\ tests' = [tests EXCEPT ![t].at = "recording", ![t].outcome = "unsent"]
    /\ UNCHANGED <<subs, next_id, dlq, forgotten>>

\* Mutant of UpdateAfterFire: the snapshot of the subscription is written back.
UpdateAfterFireInserts(s) == [subs EXCEPT ![s].fire_count = @ + 1, ![s].live = TRUE]

\* Mutant of UpdateAfterFire: the count of the snapshot is written back.
UpdateAfterFireSets(s) == IF subs[s].live THEN [subs EXCEPT ![s].fire_count = 1] ELSE subs

\* WebhookRegistry::update_after_fire
UpdateAfterFire(s) == IF subs[s].live THEN [subs EXCEPT ![s].fire_count = @ + 1] ELSE subs

RecordFire(t) ==
    /\ tests[t].at = "recording"
    /\ subs' = UpdateAfterFire(tests[t].sub)
    /\ tests' = [tests EXCEPT ![t].at = IF tests[t].outcome = "delivered" THEN "done" ELSE "burying"]
    /\ UNCHANGED <<next_id, dlq, forgotten>>

\* Mutant of Pushed: a full queue keeps what it has.
PushedUnlessFull(t) == IF Len(dlq) >= DlqEntries THEN dlq ELSE Append(dlq, t)

\* DeadLetterQueue::push
Pushed(t) == Append(IF Len(dlq) >= DlqEntries THEN Tail(dlq) ELSE dlq, t)

Bury(t) ==
    /\ tests[t].at = "burying"
    /\ dlq' = Pushed(t)
    /\ forgotten' = forgotten \cup (ToSet(dlq) \ ToSet(dlq'))
    /\ tests' = [tests EXCEPT ![t].at = "done"]
    /\ UNCHANGED <<subs, next_id>>

\* clear_dlq
ClearDlq ==
    /\ dlq # <<>>
    /\ dlq' = <<>>
    /\ forgotten' = forgotten \cup ToSet(dlq)
    /\ UNCHANGED <<subs, next_id, tests>>

\* The caller of the test disconnects: the handler is dropped where it awaits.
TestDropped(t) ==
    /\ tests[t].at \in {"querying", "delivering"}
    /\ tests' = [tests EXCEPT ![t].at = "dropped"]
    /\ UNCHANGED <<subs, next_id, dlq, forgotten>>

Deliver(t) ==
    \/ AttemptSucceeds(t) \/ AttemptFails(t, TRUE) \/ AttemptFails(t, FALSE)
    \/ GiveUp(t) \/ ClientFails(t)

WebhookNext ==
    \/ \E r \in Retries : CreateWebhook(r)
    \/ \E s \in SubIds : DeleteWebhook(s) \/ \E t \in Tests : StartTest(t, s)
    \/ \E t \in Tests : NotFired(t) \/ Fire(t) \/ Deliver(t) \/ RecordFire(t) \/ Bury(t) \/ TestDropped(t)
    \/ ClearDlq

WebhookSpec == WebhookInit /\ [][WebhookNext]_webhookVars

\* The timeout of the HTTP client ends every attempt, every backoff is bounded,
\* and handlers are scheduled.
WebhookFairness ==
    \A t \in Tests : /\ WF_webhookVars(AttemptFails(t, FALSE) \/ GiveUp(t))
                     /\ WF_webhookVars(RecordFire(t) \/ Bury(t))

-----------------------------------------------------------------------------

TestSteps == {"idle", "querying", "delivering", "recording", "burying", "done", "dropped"}

WebhookTypeOK ==
    /\ subs \in [SubIds -> [live : BOOLEAN, fire_count : 0..Cardinality(Tests), max_retries : Retries]]
    /\ next_id \in 1..MaxSubs + 1
    /\ tests \in [Tests -> [at : TestSteps, sub : SubIds \cup {NoSub}, total : Retries, attempts : Retries,
                            received : Retries, outcome : {"none", "delivered", "failed", "unsent"}]]
    /\ dlq \in Seq(Tests) /\ Len(dlq) <= DlqEntries
    /\ forgotten \subseteq Tests

Recorded(t) == tests[t].at \in {"burying", "done"} /\ tests[t].outcome # "none"

\* Tests that overlap on one subscription are all counted: fire_count is the
\* number of deliveries that ended, successful or not.
FireCountIsExact ==
    \A s \in SubIds : subs[s].live =>
        subs[s].fire_count = Cardinality({t \in Tests : tests[t].sub = s /\ Recorded(t)})

\* A subscription deleted while its delivery is under way stays deleted.
DeletedStaysDeleted ==
    [][\A s \in SubIds : s < next_id /\ ~subs[s].live => ~subs'[s].live]_webhookVars

\* A delivery that has come to its end leaves a trace: it is delivered, and was
\* received, or it gets into the dead-letter queue, whether the caller is still there
\* or not, and only a full or a cleared queue gives it up again.  (A caller that leaves
\* before that end takes the delivery along: the handler is dropped and nothing is
\* kept.)  A dead letter stands for one delivery that failed on every attempt its
\* subscription allows, unless no client could be built, or max_retries is so large
\* that the number of attempts has wrapped to none.
FailuresAreKept ==
    /\ \A t \in Tests :
          /\ tests[t].outcome = "delivered" => tests[t].received > 0
          /\ tests[t].outcome \in {"failed", "unsent"} =>
                tests[t].at \in {"recording", "burying"} \/ t \in ToSet(dlq) \cup forgotten
    /\ IsInjective(dlq)
    /\ \A t \in ToSet(dlq) :
          LET allowed == subs[tests[t].sub].max_retries + 1
          IN  \/ tests[t].outcome = "failed" /\ tests[t].attempts = allowed
              \/ tests[t].outcome = "failed" /\ allowed = U32 /\ tests[t].attempts = 0
              \/ tests[t].outcome = "unsent" /\ tests[t].attempts = 0

\* A delivery ends: the retries run out although the callback never answers.
DeliveriesEnd ==
    WebhookFairness => \A t \in Tests : (tests[t].at = "delivering") ~> (tests[t].at \in {"done", "dropped"})
=============================================================================
