-------------------------- MODULE AnalysisRequests --------------------------
(***************************************************************************)
(* Repository-analysis requests on their way to Knowledge and back: the    *)
(* queue that watch evaluations fill, the dispatch into the transactional  *)
(* outbox (crates/catalog/src/watches.rs), the relay that publishes the    *)
(* outbox and feeds the readiness check (services/catalog/src/relay.rs),   *)
(* and the consumers that settle requests with Knowledge's terminal facts  *)
(* (services/catalog/src/bus.rs).                                          *)
(*                                                                         *)
(* A transaction or an exchange with the broker is one step.  Time is what *)
(* it decides: whether a request is due, whether a row rests after a       *)
(* failed attempt, and whether it is old.                                  *)
(***************************************************************************)
EXTENDS Naturals, FiniteSets

CONSTANTS
  Requests,       \* request ids, one per watch and revision
  Oversized,      \* requests whose envelope exceeds the broker's limit
  Denied,         \* requests that the broker never acknowledges
  Facts,          \* message ids of Knowledge's terminal facts
  Unlinked,       \* no link
  RelayBatch,     \* RELAY_BATCH
  StuckAttempts,  \* STUCK_ATTEMPTS
  MaxTroubles     \* bound: failed publishes and stops of the relay

ASSUME AnalysisConstants ==
  /\ Oversized \subseteq Requests /\ Denied \subseteq Requests
  /\ Unlinked \notin Requests
  /\ RelayBatch \in Nat \ {0} /\ StuckAttempts \in Nat \ {0} /\ MaxTroubles \in Nat

VARIABLES
  status,    \* repository_analysis_requests.status
  turn,      \* not_before, as the order that the dispatch cursor gives
  cursor,    \* repository_analysis_dispatch_cursor
  early,     \* requests whose not_before is in the future
  outbox,    \* outbox_events: the row of each request
  failures,  \* attempt_count, counted up to StuckAttempts
  resting,   \* rows whose next_attempt_at is in the future
  aged,      \* waiting rows older than STUCK_AGE_SECONDS
  relay,     \* the relay task: its step and the rows that its pass still has
  healthy,   \* the publisher's health
  stream,    \* copies of each envelope in the broker's stream (external)
  facts,     \* what Knowledge has published (external)
  inbox,     \* inbox_events: facts that were claimed
  link,      \* repository_analysis_links of the repository
  troubles   \* bounded counter

queueVars  == <<status, turn, cursor, early>>
outboxVars == <<outbox, failures, resting, aged>>
relayVars  == <<relay, healthy>>
factVars   == <<facts, inbox, link>>
vars == <<queueVars, outboxVars, relayVars, stream, factVars, troubles>>

\* A terminal fact; a mismatched one disagrees with its request about the owner,
\* the repository or the revision.
Fact == [request : Requests, outcome : {"completed", "failed", "mismatched"}]
NoFact == [outcome |-> "none"]

\* The relay's pass: the rows left, the oldest of them in hand; whether the broker
\* acknowledged that one; whether a publish of the pass failed; and the row whose
\* failure was the last thing recorded.
Relay == [pc : {"dispatch", "flush", "record", "down"}, batch : SUBSET Requests,
          acked : {"yes", "no"}, failed : {"yes", "no"}, fresh : SUBSET Requests]

TypeOK ==
  /\ status \in [Requests -> {"none", "queued", "pending", "completed", "failed"}]
  /\ turn \in [Requests -> Nat] /\ cursor \in Nat
  /\ early \subseteq Requests
  /\ outbox \in [Requests -> {"none", "waiting", "published", "undeliverable"}]
  /\ failures \in [Requests -> 0..StuckAttempts]
  /\ resting \subseteq Requests /\ aged \subseteq Requests
  /\ relay \in Relay /\ healthy \in {"yes", "no"}
  /\ stream \in [Requests -> Nat]
  /\ facts \in [Facts -> Fact \union {NoFact}] /\ inbox \subseteq Facts
  /\ link \in Requests \union {Unlinked}
  /\ troubles \in Nat

Trouble == troubles < MaxTroubles /\ troubles' = troubles + 1

-----------------------------------------------------------------------------
(* The queue.                                                              *)

\* evaluate_metadata_watches inserts the request and advances the cursor.
Queue(q) ==
  /\ status[q] = "none"
  /\ status' = [status EXCEPT ![q] = "queued"]
  /\ turn' = [turn EXCEPT ![q] = cursor]
  /\ cursor' = cursor + 1
  /\ early' = early \union {q}
  /\ UNCHANGED <<outboxVars, relayVars, stream, factVars, troubles>>

\* not_before passes, in the order of the cursor.
BecomesDue(q) ==
  /\ q \in early /\ \A p \in early : turn[q] <= turn[p]
  /\ early' = early \ {q}
  /\ UNCHANGED <<status, turn, cursor, outboxVars, relayVars, stream, factVars, troubles>>

Due == {q \in Requests : status[q] = "queued" /\ q \notin early}

\* dispatch_due_repository_analysis: the row and the status in one transaction.
DispatchDue(q) ==
  /\ relay.pc = "dispatch"
  /\ q \in Due /\ \A p \in Due : turn[q] <= turn[p]
  /\ status' = [status EXCEPT ![q] = "pending"]
  /\ outbox' = [outbox EXCEPT ![q] = "waiting"]
  /\ UNCHANGED <<turn, cursor, early, failures, resting, aged, relayVars, stream, factVars, troubles>>

-----------------------------------------------------------------------------
(* One pass of the relay.                                                  *)

Waiting  == {q \in Requests : outbox[q] = "waiting"}
Earlier(S, q) == {p \in S : turn[p] < turn[q]}
Oldest(S) == {q \in S : Earlier(S, q) = {}}

\* NotDue ends the dispatch; flush_outbox selects the oldest rows that do not
\* rest.
BeginFlush ==
  LET ready == Waiting \ resting IN
  /\ relay.pc = "dispatch" /\ Due = {}
  /\ relay' = [relay EXCEPT !.pc = "flush", !.failed = "no", !.fresh = {},
                 !.batch = {q \in ready : Cardinality(Earlier(ready, q)) < RelayBatch}]
  /\ UNCHANGED <<queueVars, outboxVars, healthy, stream, factVars, troubles>>

\* mark_undeliverable: the pass goes on with the next row.
MarkUndeliverable(q) ==
  /\ relay.pc = "flush" /\ q \in Oldest(relay.batch) /\ q \in Oversized
  /\ outbox' = [outbox EXCEPT ![q] = "undeliverable"]
  /\ aged' = aged \ {q}
  /\ relay' = [relay EXCEPT !.batch = @ \ {q}, !.fresh = {}]
  /\ UNCHANGED <<queueVars, failures, resting, healthy, stream, factVars, troubles>>

\* The broker stores the envelope, or recognises its message id.
Stored(q) == stream' \in {[stream EXCEPT ![q] = @ + 1]}
               \union (IF stream[q] > 0 THEN {stream} ELSE {})

\* publish with its PubAck in time.
PublishAcked(q) ==
  /\ relay.pc = "flush" /\ q \in Oldest(relay.batch) /\ q \notin Oversized \union Denied
  /\ Stored(q)
  /\ relay' = [relay EXCEPT !.pc = "record", !.acked = "yes"]
  /\ UNCHANGED <<queueVars, outboxVars, healthy, factVars, troubles>>

\* The publish is denied or fails, or its PubAck is lost or late.
PublishUnacked(q) ==
  /\ relay.pc = "flush" /\ q \in Oldest(relay.batch) /\ q \notin Oversized
  /\ IF q \in Denied THEN UNCHANGED <<stream, troubles>>
                     ELSE Trouble /\ (Stored(q) \/ UNCHANGED stream)
  /\ relay' = [relay EXCEPT !.pc = "record", !.acked = "no", !.failed = "yes"]
  /\ UNCHANGED <<queueVars, outboxVars, healthy, factVars>>

\* Mutant: a failed publish is tried again at once.
RecordPublicationRestless(q) ==
  /\ relay.pc = "record" /\ q \in Oldest(relay.batch)
  /\ IF relay.acked = "yes"
     THEN /\ outbox' = [outbox EXCEPT ![q] = "published"]
          /\ UNCHANGED failures
     ELSE /\ failures' = [failures EXCEPT ![q] = IF @ < StuckAttempts THEN @ + 1 ELSE @]
          /\ UNCHANGED outbox
  /\ relay' = [relay EXCEPT !.pc = "flush", !.batch = @ \ {q}]
  /\ UNCHANGED <<queueVars, resting, aged, healthy, stream, factVars, troubles>>

\* published_at after the PubAck; else one more attempt and a backoff.
RecordPublication(q) ==
  /\ relay.pc = "record" /\ q \in Oldest(relay.batch)
  /\ IF relay.acked = "yes"
     THEN /\ outbox' = [outbox EXCEPT ![q] = "published"]
          /\ aged' = aged \ {q}
          /\ UNCHANGED <<failures, resting>>
     ELSE /\ failures' = [failures EXCEPT ![q] = IF @ < StuckAttempts THEN @ + 1 ELSE @]
          /\ resting' = resting \union {q}
          /\ UNCHANGED <<outbox, aged>>
  /\ relay' = [relay EXCEPT !.pc = "flush", !.batch = @ \ {q},
                 !.fresh = IF relay.acked = "yes" THEN {} ELSE {q}]
  /\ UNCHANGED <<queueVars, healthy, stream, factVars, troubles>>

Stuck(q) == failures[q] >= StuckAttempts \/ q \in aged

\* Mutant: any failure makes the publisher unhealthy.
ReportHealthFailed ==
  /\ relay.pc = "flush" /\ relay.batch = {}
  /\ healthy' = CASE Waiting = {} -> "yes"
                  [] relay.failed = "yes" -> "no"
                  [] OTHER -> healthy
  /\ relay' = [relay EXCEPT !.pc = "dispatch"]
  /\ UNCHANGED <<queueVars, outboxVars, stream, factVars, troubles>>

\* Mutant: the oldest row is looked for among the rows that do not rest.
ReportHealthReady ==
  LET stuck == \E q \in Oldest(Waiting \ resting) : Stuck(q) IN
  /\ relay.pc = "flush" /\ relay.batch = {}
  /\ healthy' = CASE ~stuck -> "yes"
                  [] stuck /\ relay.failed = "yes" -> "no"
                  [] OTHER -> healthy
  /\ relay' = [relay EXCEPT !.pc = "dispatch"]
  /\ UNCHANGED <<queueVars, outboxVars, stream, factVars, troubles>>

\* report_health: judged by the oldest row that still waits.
ReportHealth ==
  LET stuck == \E q \in Oldest(Waiting) : Stuck(q) IN
  /\ relay.pc = "flush" /\ relay.batch = {}
  /\ healthy' = CASE ~stuck -> "yes"
                  [] stuck /\ relay.failed = "yes" -> "no"
                  [] OTHER -> healthy
  /\ relay' = [relay EXCEPT !.pc = "dispatch"]
  /\ UNCHANGED <<queueVars, outboxVars, stream, factVars, troubles>>

\* A backoff lasts two seconds or more and the relay ticks every second, so the
\* row that failed last sits out the next pass.
BackoffEnds(q) ==
  /\ q \in resting /\ q \notin relay.fresh
  /\ resting' = resting \ {q}
  /\ UNCHANGED <<queueVars, outbox, failures, aged, relayVars, stream, factVars, troubles>>

GrowsOld(q) ==
  /\ q \in Oldest(Waiting \ aged)
  /\ aged' = aged \union {q}
  /\ UNCHANGED <<queueVars, outbox, failures, resting, relayVars, stream, factVars, troubles>>

\* The database or the connection fails: the relay returns, supervise ends the
\* process, and the next one starts over.
RelayDies ==
  /\ relay.pc # "down" /\ Trouble
  /\ relay' = [relay EXCEPT !.pc = "down", !.batch = {}, !.fresh = {}]
  /\ UNCHANGED <<queueVars, outboxVars, healthy, stream, factVars>>

Restart ==
  /\ relay.pc = "down"
  /\ relay' = [relay EXCEPT !.pc = "dispatch"]
  /\ healthy' = "yes"
  /\ UNCHANGED <<queueVars, outboxVars, stream, factVars, troubles>>

-----------------------------------------------------------------------------
(* Knowledge, and the consumers of its facts.                              *)

\* Knowledge publishes a fact about a request that the stream holds.
Answer(f, q, o) ==
  /\ facts[f] = NoFact /\ stream[q] > 0
  /\ facts' = [facts EXCEPT ![f] = [request |-> q, outcome |-> o]]
  /\ UNCHANGED <<queueVars, outboxVars, relayVars, stream, inbox, link, troubles>>

Ended == {"completed", "failed"}

\* The fact matches its request, and that is still pending.
Resolves(f) == facts[f].outcome \in Ended /\ status[facts[f].request] = "pending"

\* Mutant: a later fact closes the request again.
ConsumeAgain(f) ==
  LET q == facts[f].request  o == facts[f].outcome IN
  /\ facts[f] # NoFact /\ f \notin inbox
  /\ inbox' = inbox \union {f}
  /\ status' = IF o \in Ended THEN [status EXCEPT ![q] = o] ELSE status
  /\ link' = IF o = "completed" THEN q ELSE link
  /\ UNCHANGED <<turn, cursor, early, outboxVars, relayVars, stream, facts, troubles>>

\* Mutant: a failure is claimed and forgotten.
ConsumeCompletions(f) ==
  LET q == facts[f].request  o == facts[f].outcome IN
  /\ facts[f] # NoFact /\ f \notin inbox
  /\ inbox' = inbox \union {f}
  /\ IF Resolves(f) /\ o = "completed"
     THEN status' = [status EXCEPT ![q] = o] /\ link' = q
     ELSE UNCHANGED <<status, link>>
  /\ UNCHANGED <<turn, cursor, early, outboxVars, relayVars, stream, facts, troubles>>

\* consume_terminal_fact, delivered at least once: the claim, the request and
\* the link in one transaction; a fact claimed before changes nothing.
Consume(f) ==
  LET q == facts[f].request  o == facts[f].outcome IN
  /\ facts[f] # NoFact /\ f \notin inbox
  /\ inbox' = inbox \union {f}
  /\ IF Resolves(f)
     THEN /\ status' = [status EXCEPT ![q] = o]
          /\ link' = IF o = "completed" THEN q ELSE link
     ELSE UNCHANGED <<status, link>>
  /\ UNCHANGED <<turn, cursor, early, outboxVars, relayVars, stream, facts, troubles>>

-----------------------------------------------------------------------------
Init ==
  /\ status = [q \in Requests |-> "none"]
  /\ turn = [q \in Requests |-> 0] /\ cursor = 0 /\ early = {}
  /\ outbox = [q \in Requests |-> "none"] /\ failures = [q \in Requests |-> 0]
  /\ resting = {} /\ aged = {}
  /\ relay = [pc |-> "dispatch", batch |-> {}, acked |-> "no", failed |-> "no",
              fresh |-> {}]
  /\ healthy = "yes"
  /\ stream = [q \in Requests |-> 0]
  /\ facts = [f \in Facts |-> NoFact] /\ inbox = {} /\ link = Unlinked
  /\ troubles = 0

RelayStep ==
  \/ BeginFlush \/ ReportHealth \/ Restart
  \/ \E q \in Requests : \/ DispatchDue(q) \/ MarkUndeliverable(q) \/ PublishAcked(q)
                         \/ PublishUnacked(q) \/ RecordPublication(q)

Time(q) == BecomesDue(q) \/ BackoffEnds(q)

Next ==
  \/ RelayStep \/ RelayDies
  \/ \E q \in Requests : Queue(q) \/ Time(q) \/ GrowsOld(q)
  \/ \E f \in Facts : Consume(f)
  \/ \E f \in Facts, q \in Requests, o \in {"completed", "failed", "mismatched"} :
       Answer(f, q, o)

Spec == Init /\ [][Next]_vars

\* Time passes, the relay ticks every second and is restarted when it ends, and
\* the broker delivers a fact until it is settled.
FairSpec ==
  /\ Spec /\ WF_vars(RelayStep)
  /\ \A q \in Requests : WF_vars(Time(q))
  /\ \A f \in Facts : WF_vars(Consume(f))

-----------------------------------------------------------------------------
(* Properties.                                                             *)

Exchange == INSTANCE AnalysisExchange WITH
  asked     <- {q \in Requests : status[q] # "none"},
  delivered <- {q \in Requests : stream[q] > 0},
  outcome   <- [q \in Requests |-> IF status[q] \in Ended THEN status[q] ELSE "open"]

\* Queue, outbox, relay, stream and inbox together keep the promise of
\* AnalysisExchange, under duplicate publications, duplicate and wrong facts, and
\* a relay that stops anywhere.
ImplementsExchange == Exchange!Spec

\* A row that is marked published is in the stream: published_at follows the
\* PubAck, wherever the relay stops (relay.rs 80).
PublishedReachedBroker ==
  \A q \in Requests : outbox[q] = "published" => stream[q] > 0

\* A request is in the outbox exactly from its dispatch on: none is pending
\* without its row and no row is left of one that is still queued.
DispatchedTogether ==
  \A q \in Requests : (status[q] \in {"none", "queued"}) = (outbox[q] = "none")

\* Between passes, readiness fails only while the oldest row that waits is stuck
\* (relay.rs 173-176).
UnhealthyMeansStuck ==
  relay.pc = "dispatch" /\ healthy = "no" => \E q \in Oldest(Waiting) : Stuck(q)

\* Every queued request that the broker accepts reaches the stream: a row that
\* keeps failing at the head never starves the ones behind it (relay.rs 82-83).
RequestsReachBroker ==
  \A q \in Requests \ (Oversized \union Denied) : status[q] = "queued" ~> stream[q] > 0

\* A request with a matching answer on the bus is settled.
AnswersSettle ==
  \A q \in Requests \ (Oversized \union Denied) :
    (\E f \in Facts : facts[f].outcome \in Ended /\ facts[f].request = q) ~> (status[q] \in Ended)

\* A row that the broker keeps refusing makes the service not ready in the end,
\* even though the row rests whenever the relay looks (relay.rs 173-176).
RefusalIsReported ==
  \A q \in Denied \ Oversized : outbox[q] = "waiting" ~> healthy = "no"
=============================================================================
