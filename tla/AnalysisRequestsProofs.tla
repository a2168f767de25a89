----------------------- MODULE AnalysisRequestsProofs -----------------------
(***************************************************************************)
(* Proofs about AnalysisRequests, for every set of requests and facts and  *)
(* every bound: rows marked published are in the stream, dispatch and      *)
(* outbox stay together, the publisher is unhealthy only with a stuck row  *)
(* at the head, and the whole implements AnalysisExchange.                 *)
(*                                                                         *)
(* The relay records an acknowledgement for the oldest row of its batch.   *)
(* That this is the row it has published rests on two facts that the       *)
(* invariant adds: turns are distinct, and the batch holds waiting rows.   *)
(***************************************************************************)
EXTENDS AnalysisRequests, TLAPS

\* Every request that was queued has a turn of its own.
DistinctTurns ==
  /\ \A q \in Requests : status[q] # "none" => turn[q] < cursor
  /\ \A p, q \in Requests : status[p] # "none" /\ status[q] # "none" /\ turn[p] = turn[q] => p = q

\* The relay's batch waits, and an acknowledged row is in the stream.
BatchWaits == relay.batch \subseteq Waiting
AckedIsStored ==
  relay.pc = "record" /\ relay.acked = "yes" => \A q \in Oldest(relay.batch) : stream[q] > 0

\* Only dispatched requests are in the stream, and facts are about those.
StreamIsDispatched == \A q \in Requests : stream[q] > 0 => outbox[q] # "none"
FactsAnswer == \A f \in Facts : facts[f].outcome \in Ended => stream[facts[f].request] > 0

IInv ==
  /\ TypeOK /\ DispatchedTogether /\ PublishedReachedBroker
  /\ DistinctTurns /\ BatchWaits /\ AckedIsStored /\ StreamIsDispatched /\ FactsAnswer

\* A row of the outbox belongs to a request that was queued.
LEMMA WaitingIsAsked ==
  ASSUME TypeOK, DispatchedTogether, NEW q \in Requests, outbox[q] # "none"
  PROVE  status[q] # "none"
BY DEF TypeOK, DispatchedTogether

\* The oldest row of the relay's batch is one row.
LEMMA OldestIsOne ==
  ASSUME IInv, NEW p \in Oldest(relay.batch), NEW q \in Oldest(relay.batch)
  PROVE  p = q
<1>1. p \in Requests /\ q \in Requests /\ p \in relay.batch /\ q \in relay.batch
  BY DEF IInv, TypeOK, Relay, Oldest
<1>2. outbox[p] = "waiting" /\ outbox[q] = "waiting"
  BY <1>1 DEF IInv, BatchWaits, Waiting
<1>3. status[p] # "none" /\ status[q] # "none"
  BY <1>1, <1>2, WaitingIsAsked DEF IInv
<1>4. ~(turn[p] < turn[q]) /\ ~(turn[q] < turn[p])
  BY <1>1 DEF Oldest, Earlier
<1>5. turn[p] \in Nat /\ turn[q] \in Nat
  BY <1>1 DEF IInv, TypeOK
<1> QED
  BY <1>1, <1>3, <1>4, <1>5 DEF IInv, DistinctTurns

\* The initial state satisfies the invariant.
LEMMA InitIInv == Init => IInv
<1> SUFFICES ASSUME Init PROVE IInv
  OBVIOUS
<1>1. TypeOK
  BY AnalysisConstants DEF Init, TypeOK, Relay
<1>2. DispatchedTogether /\ PublishedReachedBroker /\ DistinctTurns /\ StreamIsDispatched
  BY DEF Init, DispatchedTogether, PublishedReachedBroker, DistinctTurns, StreamIsDispatched
<1>3. BatchWaits /\ AckedIsStored /\ FactsAnswer
  BY DEF Init, BatchWaits, AckedIsStored, FactsAnswer, NoFact, Ended
<1> QED
  BY <1>1, <1>2, <1>3 DEF IInv

\* A step that leaves the outbox, the queue, the stream and the facts alone and
\* takes nothing into the batch preserves the invariant.
LEMMA RelayAlone ==
  ASSUME IInv, TypeOK', UNCHANGED <<status, turn, cursor, outbox, stream, facts>>,
         relay'.batch \subseteq Waiting, AckedIsStored'
  PROVE  IInv'
<1>1. DispatchedTogether' /\ PublishedReachedBroker' /\ DistinctTurns'
  BY DEF IInv, DispatchedTogether, PublishedReachedBroker, DistinctTurns
<1>2. StreamIsDispatched' /\ FactsAnswer'
  BY DEF IInv, StreamIsDispatched, FactsAnswer
<1>3. BatchWaits'
  BY DEF BatchWaits, Waiting
<1> QED
  BY <1>1, <1>2, <1>3 DEF IInv

\* The queue's steps preserve the invariant: a new turn is above all others.
LEMMA QueueIInv ==
  ASSUME IInv, NEW q \in Requests, Queue(q)
  PROVE  IInv'
<1>1. TypeOK'
  BY DEF IInv, TypeOK, Queue, outboxVars, relayVars, factVars
<1>2. DispatchedTogether' /\ PublishedReachedBroker' /\ StreamIsDispatched' /\ FactsAnswer'
  BY DEF IInv, TypeOK, Queue, outboxVars, relayVars, factVars, DispatchedTogether,
         PublishedReachedBroker, StreamIsDispatched, FactsAnswer
<1>3. DistinctTurns'
  BY DEF IInv, TypeOK, Queue, DistinctTurns
<1>4. outbox' = outbox /\ relay' = relay /\ stream' = stream
  BY DEF Queue, outboxVars, relayVars
<1>5. \A p \in relay.batch : p # q
  BY DEF IInv, TypeOK, DispatchedTogether, BatchWaits, Waiting, Queue
<1>6. \A p \in relay.batch : turn'[p] = turn[p] /\ p \in Requests
  BY <1>5 DEF IInv, TypeOK, Relay, Queue
<1>7. Oldest(relay.batch)' = Oldest(relay.batch)
  BY <1>4, <1>6 DEF Oldest, Earlier
<1>8. BatchWaits' /\ AckedIsStored'
  BY <1>4, <1>7 DEF IInv, BatchWaits, Waiting, AckedIsStored
<1> QED
  BY <1>1, <1>2, <1>3, <1>8 DEF IInv

\* A dispatch preserves the invariant.
LEMMA DispatchIInv ==
  ASSUME IInv, NEW q \in Requests, DispatchDue(q)
  PROVE  IInv'
<1>1. TypeOK'
  BY DEF IInv, TypeOK, DispatchDue, relayVars, factVars
<1>2. status[q] = "queued"
  BY DEF DispatchDue, Due
<1>3. DispatchedTogether' /\ PublishedReachedBroker' /\ StreamIsDispatched' /\ FactsAnswer'
  BY <1>2 DEF IInv, TypeOK, DispatchDue, relayVars, factVars, DispatchedTogether,
              PublishedReachedBroker, StreamIsDispatched, FactsAnswer
<1>4. DistinctTurns'
  BY <1>2 DEF IInv, TypeOK, DispatchDue, DistinctTurns
<1>5. BatchWaits'
  BY DEF IInv, TypeOK, DispatchDue, relayVars, BatchWaits, Waiting
<1>6. AckedIsStored'
  BY DEF IInv, DispatchDue, relayVars, AckedIsStored, Oldest, Earlier
<1> QED
  BY <1>1, <1>3, <1>4, <1>5, <1>6 DEF IInv

\* A copy in the stream keeps whatever the stream held before.
LEMMA StoredGrows ==
  ASSUME TypeOK, NEW q \in Requests, Stored(q)
  PROVE  /\ stream' \in [Requests -> Nat] /\ stream'[q] > 0
         /\ \A p \in Requests : stream[p] > 0 => stream'[p] > 0
         /\ \A p \in Requests \ {q} : stream'[p] = stream[p]
BY DEF TypeOK, Stored

\* Publishing the oldest row of the batch preserves the invariant; with a PubAck
\* the row that is then recorded is the one that was stored.
LEMMA PublishIInv ==
  ASSUME IInv, NEW q \in Requests, PublishAcked(q) \/ PublishUnacked(q)
  PROVE  IInv'
<1>1. q \in Oldest(relay.batch) /\ (Stored(q) \/ stream' = stream)
  BY DEF PublishAcked, PublishUnacked
<1>2. /\ stream' \in [Requests -> Nat]
      /\ \A p \in Requests : stream[p] > 0 => stream'[p] > 0
      /\ \A p \in Requests \ {q} : stream'[p] = stream[p]
  BY <1>1, StoredGrows DEF IInv, TypeOK
<1>3. UNCHANGED <<status, turn, cursor, outbox, facts>> /\ relay'.batch = relay.batch
  BY DEF IInv, TypeOK, Relay, PublishAcked, PublishUnacked, queueVars, outboxVars, factVars
<1>4. outbox[q] = "waiting"
  BY <1>1 DEF IInv, Oldest, BatchWaits, Waiting
<1>5. TypeOK'
  <2>1. relay' \in Relay
    <3>1. relay \in Relay
      BY DEF IInv, TypeOK
    <3>2. CASE PublishAcked(q)
      <4>1. relay' = [relay EXCEPT !.pc = "record", !.acked = "yes"]
        BY <3>2 DEF PublishAcked
      <4> QED
        BY <3>1, <4>1, Zenon DEF Relay
    <3>3. CASE PublishUnacked(q)
      <4>1. relay' = [relay EXCEPT !.pc = "record", !.acked = "no", !.failed = "yes"]
        BY <3>3 DEF PublishUnacked
      <4> QED
        BY <3>1, <4>1, Zenon DEF Relay
    <3> QED
      BY <3>2, <3>3
  <2>2. troubles' \in Nat
    BY DEF IInv, TypeOK, PublishAcked, PublishUnacked, Trouble
  <2> QED
    BY <1>2, <2>1, <2>2 DEF IInv, TypeOK, PublishAcked, PublishUnacked,
                             queueVars, outboxVars, factVars
<1>6. DispatchedTogether' /\ PublishedReachedBroker' /\ StreamIsDispatched' /\ DistinctTurns'
  BY <1>2, <1>3, <1>4 DEF IInv, DispatchedTogether, PublishedReachedBroker,
                           StreamIsDispatched, DistinctTurns
<1>7. FactsAnswer'
  BY <1>2, <1>3 DEF IInv, TypeOK, FactsAnswer, Fact, NoFact, Ended
<1>8. BatchWaits'
  BY <1>3 DEF IInv, BatchWaits, Waiting
<1>9. AckedIsStored'
  <2>1. Oldest(relay.batch)' = Oldest(relay.batch)
    BY <1>3 DEF Oldest, Earlier
  <2>2. CASE PublishAcked(q)
    <3>1. stream'[q] > 0
      BY <2>2, StoredGrows DEF PublishAcked, IInv
    <3> QED
      BY <3>1, <2>1, <1>1, OldestIsOne DEF AckedIsStored
  <2>3. CASE PublishUnacked(q)
    BY <2>3 DEF PublishUnacked, IInv, TypeOK, Relay, AckedIsStored
  <2> QED
    BY <2>2, <2>3
<1> QED
  BY <1>5, <1>6, <1>7, <1>8, <1>9 DEF IInv

\* Recording the answer for a row, or giving it up, preserves the invariant.
LEMMA RecordIInv ==
  ASSUME IInv, NEW q \in Requests, RecordPublication(q) \/ MarkUndeliverable(q)
  PROVE  IInv'
<1>1. q \in Oldest(relay.batch) /\ q \in relay.batch /\ outbox[q] = "waiting"
  BY DEF RecordPublication, MarkUndeliverable, IInv, Oldest, BatchWaits, Waiting
<1>2. /\ UNCHANGED <<status, turn, cursor, stream, facts>>
      /\ relay'.batch = relay.batch \ {q} /\ relay'.pc = "flush"
      /\ \A p \in Requests \ {q} : outbox'[p] = outbox[p]
      /\ outbox'[q] \in {"waiting", "published", "undeliverable"}
      /\ outbox'[q] = "published" => stream[q] > 0
  <2>1. relay \in Relay /\ outbox \in [Requests -> {"none", "waiting", "published", "undeliverable"}]
    BY DEF IInv, TypeOK
  <2>2. UNCHANGED <<status, turn, cursor, stream, facts>>
    BY Zenon DEF RecordPublication, MarkUndeliverable, queueVars, factVars
  <2>3. CASE MarkUndeliverable(q)
    <3>1. /\ outbox' = [outbox EXCEPT ![q] = "undeliverable"]
          /\ relay' = [relay EXCEPT !.batch = @ \ {q}, !.fresh = {}] /\ relay.pc = "flush"
      BY <2>3, Zenon DEF MarkUndeliverable
    <3>2. relay'.batch = relay.batch \ {q} /\ relay'.pc = "flush"
      BY <2>1, <3>1, Zenon DEF Relay
    <3> QED
      BY <2>1, <2>2, <3>1, <3>2, Zenon
  <2>4. CASE RecordPublication(q)
    <3>1. PICK x : relay' = [relay EXCEPT !.pc = "flush", !.batch = @ \ {q}, !.fresh = x]
      BY <2>4, Zenon DEF RecordPublication
    <3>2. relay'.batch = relay.batch \ {q} /\ relay'.pc = "flush"
      BY <2>1, <3>1, Zenon DEF Relay
    <3>3. \/ outbox' = outbox
          \/ outbox' = [outbox EXCEPT ![q] = "published"] /\ stream[q] > 0
      BY <1>1, <2>4, Zenon DEF RecordPublication, IInv, AckedIsStored
    <3> QED
      BY <1>1, <2>1, <2>2, <3>2, <3>3, Zenon
  <2> QED
    BY <2>3, <2>4
<1>3. TypeOK'
  <2>1. relay' \in Relay
    <3>1. PICK x \in SUBSET Requests :
            relay' = [relay EXCEPT !.pc = "flush", !.batch = @ \ {q}, !.fresh = x]
      <4>1. CASE RecordPublication(q)
        BY <4>1 DEF RecordPublication
      <4>2. CASE MarkUndeliverable(q)
        <5>1. relay \in Relay /\ relay.pc = "flush"
              /\ relay' = [relay EXCEPT !.batch = @ \ {q}, !.fresh = {}]
          BY <4>2, Zenon DEF MarkUndeliverable, IInv, TypeOK
        <5>2. relay' = [relay EXCEPT !.pc = "flush", !.batch = @ \ {q}, !.fresh = {}]
          BY <5>1 DEF Relay
        <5> QED
          BY <5>2
      <4> QED
        BY <4>1, <4>2
    <3> QED
      BY <3>1 DEF IInv, TypeOK, Relay
  <2>2. failures' \in [Requests -> 0..StuckAttempts]
    BY AnalysisConstants DEF RecordPublication, MarkUndeliverable, IInv, TypeOK
  <2>3. outbox' \in [Requests -> {"none", "waiting", "published", "undeliverable"}]
    BY DEF RecordPublication, MarkUndeliverable, IInv, TypeOK
  <2>4. resting' \subseteq Requests /\ aged' \subseteq Requests
    BY DEF RecordPublication, MarkUndeliverable, IInv, TypeOK
  <2> QED
    BY <2>1, <2>2, <2>3, <2>4 DEF RecordPublication, MarkUndeliverable, IInv, TypeOK,
                                  queueVars, factVars
<1>4. DispatchedTogether' /\ PublishedReachedBroker' /\ StreamIsDispatched' /\ DistinctTurns'
  BY <1>1, <1>2 DEF IInv, DispatchedTogether, PublishedReachedBroker, StreamIsDispatched,
                    DistinctTurns
<1>5. FactsAnswer' /\ AckedIsStored'
  BY <1>2 DEF IInv, FactsAnswer, AckedIsStored
<1>6. BatchWaits'
  BY <1>2 DEF IInv, TypeOK, Relay, BatchWaits, Waiting
<1> QED
  BY <1>3, <1>4, <1>5, <1>6 DEF IInv

\* The other steps of the relay, and the passing of time, preserve the invariant.
LEMMA OtherIInv ==
  ASSUME IInv,
         \/ BeginFlush \/ ReportHealth \/ Restart \/ RelayDies
         \/ \E q \in Requests : Time(q) \/ GrowsOld(q)
  PROVE  IInv'
<1>1. CASE BeginFlush
  <2>1. relay'.batch \subseteq Waiting /\ relay'.pc = "flush"
    BY <1>1 DEF BeginFlush, IInv, TypeOK, Relay
  <2>2. TypeOK'
    BY <1>1 DEF BeginFlush, IInv, TypeOK, Relay, Waiting, queueVars, outboxVars, factVars
  <2> QED
    BY <1>1, <2>1, <2>2, RelayAlone DEF BeginFlush, AckedIsStored, queueVars, outboxVars, factVars
<1>2. CASE ReportHealth \/ Restart \/ RelayDies
  <2>1. relay'.batch \subseteq relay.batch /\ relay'.pc # "record"
    BY <1>2 DEF ReportHealth, Restart, RelayDies, IInv, TypeOK, Relay
  <2>2. TypeOK'
    <3>1. relay' \in Relay
      <4>1. relay \in Relay
        BY DEF IInv, TypeOK
      <4>2. \/ relay' = [relay EXCEPT !.pc = "dispatch"]
            \/ relay' = [relay EXCEPT !.pc = "down", !.batch = {}, !.fresh = {}]
        BY <1>2, Zenon DEF ReportHealth, Restart, RelayDies
      <4> QED
        BY <4>1, <4>2, Zenon DEF Relay
    <3>2. troubles' \in Nat /\ healthy' \in {"yes", "no"}
      BY <1>2 DEF ReportHealth, Restart, RelayDies, Trouble, IInv, TypeOK
    <3> QED
      BY <1>2, <3>1, <3>2 DEF ReportHealth, Restart, RelayDies, IInv, TypeOK,
                              queueVars, outboxVars, factVars
  <2> QED
    BY <1>2, <2>1, <2>2, RelayAlone DEF ReportHealth, Restart, RelayDies, IInv, BatchWaits,
       AckedIsStored, queueVars, outboxVars, factVars
<1>3. CASE \E q \in Requests : Time(q) \/ GrowsOld(q)
  <2>1. UNCHANGED <<status, turn, cursor, outbox, stream, facts, relay>>
    BY <1>3 DEF Time, BecomesDue, BackoffEnds, GrowsOld, queueVars, outboxVars, relayVars, factVars
  <2>2. TypeOK'
    BY <1>3 DEF Time, BecomesDue, BackoffEnds, GrowsOld, IInv, TypeOK, queueVars, outboxVars,
                relayVars, factVars
  <2>3. AckedIsStored'
    BY <2>1 DEF IInv, AckedIsStored, Oldest, Earlier
  <2> QED
    BY <2>1, <2>2, <2>3, RelayAlone DEF IInv, BatchWaits
<1> QED
  BY <1>1, <1>2, <1>3

\* An answer is about a request that the stream holds.
LEMMA AnswerIInv ==
  ASSUME IInv, NEW f \in Facts, NEW q \in Requests,
         NEW o \in {"completed", "failed", "mismatched"}, Answer(f, q, o)
  PROVE  IInv'
<1>1. UNCHANGED <<status, turn, cursor, outbox, stream, relay>>
  BY DEF Answer, queueVars, outboxVars, relayVars
<1>2. [request |-> q, outcome |-> o] \in Fact
  BY DEF Fact
<1>3. TypeOK'
  BY <1>2 DEF Answer, IInv, TypeOK, queueVars, outboxVars, relayVars
<1>4. DispatchedTogether' /\ PublishedReachedBroker' /\ StreamIsDispatched' /\ DistinctTurns'
  BY <1>1 DEF IInv, DispatchedTogether, PublishedReachedBroker, StreamIsDispatched,
              DistinctTurns
<1>5. BatchWaits' /\ AckedIsStored'
  BY <1>1 DEF IInv, BatchWaits, Waiting, AckedIsStored, Oldest, Earlier
<1>6. FactsAnswer'
  BY <1>1 DEF Answer, IInv, TypeOK, FactsAnswer
<1> QED
  BY <1>3, <1>4, <1>5, <1>6 DEF IInv

\* A resolving fact is about a pending request that the stream holds.
LEMMA ResolvesDelivered ==
  ASSUME IInv, NEW f \in Facts, Resolves(f)
  PROVE  /\ facts[f].request \in Requests /\ facts[f].outcome \in Ended
         /\ status[facts[f].request] = "pending" /\ stream[facts[f].request] > 0
<1>1. facts[f] \in Fact
  BY DEF IInv, TypeOK, Resolves, NoFact, Ended
<1> QED
  BY <1>1 DEF IInv, FactsAnswer, Resolves, Fact

\* Consuming a fact preserves the invariant.
LEMMA ConsumeIInv ==
  ASSUME IInv, NEW f \in Facts, Consume(f)
  PROVE  IInv'
<1>1. UNCHANGED <<turn, cursor, outbox, stream, relay, facts>>
  BY DEF Consume, outboxVars, relayVars
<1>2. CASE Resolves(f)
  <2>1. /\ facts[f].request \in Requests /\ status[facts[f].request] = "pending"
        /\ facts[f].outcome \in Ended
        /\ status' = [status EXCEPT ![facts[f].request] = facts[f].outcome]
        /\ link' \in Requests \union {Unlinked}
    BY <1>2, ResolvesDelivered DEF Consume, IInv, TypeOK
  <2>2. TypeOK'
    BY <2>1 DEF Consume, IInv, TypeOK, Ended, outboxVars, relayVars
  <2>3. DispatchedTogether' /\ PublishedReachedBroker' /\ StreamIsDispatched'
    BY <1>1, <2>1 DEF IInv, TypeOK, DispatchedTogether, PublishedReachedBroker,
                      StreamIsDispatched, Ended
  <2>4. DistinctTurns'
    BY <1>1, <2>1 DEF IInv, TypeOK, DistinctTurns
  <2>5. BatchWaits' /\ AckedIsStored' /\ FactsAnswer'
    BY <1>1 DEF IInv, BatchWaits, Waiting, AckedIsStored, Oldest, Earlier, FactsAnswer
  <2> QED
    BY <2>2, <2>3, <2>4, <2>5 DEF IInv
<1>3. CASE ~Resolves(f)
  <2>1. TypeOK' /\ status' = status
    BY <1>3 DEF Consume, IInv, TypeOK, outboxVars, relayVars
  <2>2. AckedIsStored'
    BY <1>1 DEF IInv, AckedIsStored, Oldest, Earlier
  <2> QED
    BY <1>1, <2>1, <2>2, RelayAlone DEF IInv, BatchWaits
<1> QED
  BY <1>2, <1>3

\* Every step preserves the invariant.
LEMMA StepIInv == IInv /\ [Next]_vars => IInv'
<1> SUFFICES ASSUME IInv, [Next]_vars PROVE IInv'
  OBVIOUS
<1>1. CASE RelayStep
  BY <1>1, DispatchIInv, PublishIInv, RecordIInv, OtherIInv DEF RelayStep
<1>2. CASE RelayDies
  BY <1>2, OtherIInv
<1>3. CASE \E q \in Requests : Queue(q) \/ Time(q) \/ GrowsOld(q)
  BY <1>3, QueueIInv, OtherIInv
<1>4. CASE \E f \in Facts : Consume(f)
  BY <1>4, ConsumeIInv
<1>5. CASE \E f \in Facts, q \in Requests, o \in {"completed", "failed", "mismatched"} :
             Answer(f, q, o)
  BY <1>5, AnswerIInv
<1>6. CASE UNCHANGED vars
  <2>1. UNCHANGED <<status, turn, cursor, outbox, stream, facts, relay>> /\ TypeOK'
    BY <1>6 DEF vars, queueVars, outboxVars, relayVars, factVars, IInv, TypeOK
  <2>2. AckedIsStored'
    BY <2>1 DEF IInv, AckedIsStored, Oldest, Earlier
  <2> QED
    BY <2>1, <2>2, RelayAlone DEF IInv, BatchWaits
<1> QED
  BY <1>1, <1>2, <1>3, <1>4, <1>5, <1>6 DEF Next

\* The invariant holds in every reachable state.
LEMMA Invariant == Spec => []IInv
BY InitIInv, StepIInv, PTL DEF Spec

\* A row that is marked published is in the stream: flush_outbox sets published_at
\* only after the PubAck, wherever the relay stops.
THEOREM PublishedIsStored == Spec => []PublishedReachedBroker
BY Invariant, PTL DEF IInv

\* A request is in the outbox exactly from its dispatch on.
THEOREM DispatchIsAtomic == Spec => []DispatchedTogether
BY Invariant, PTL DEF IInv

\* A step of the detailed system is a step of the exchange, or none.
LEMMA StepImplements == IInv /\ [Next]_vars => [Exchange!Next]_(Exchange!vars)
<1> SUFFICES ASSUME IInv, [Next]_vars PROVE [Exchange!Next]_(Exchange!vars)
  OBVIOUS
<1>1. CASE UNCHANGED <<status, stream, link>>
  BY <1>1 DEF Exchange!vars
<1>2. ASSUME NEW q \in Requests, Queue(q) PROVE Exchange!Next
  <2>1. /\ status[q] = "none" /\ status' = [status EXCEPT ![q] = "queued"]
        /\ stream' = stream /\ link' = link /\ status \in [Requests -> {"none", "queued", "pending", "completed", "failed"}]
    BY <1>2 DEF Queue, factVars, IInv, TypeOK
  <2>2. Exchange!Ask(q)
    BY <2>1 DEF Exchange!Ask, Ended
  <2> QED
    BY <2>2 DEF Exchange!Next
<1>3. ASSUME NEW q \in Requests, DispatchDue(q) PROVE UNCHANGED Exchange!vars
  BY <1>3 DEF DispatchDue, Due, factVars, IInv, TypeOK, Exchange!vars, Ended
<1>4. ASSUME NEW q \in Requests, PublishAcked(q) \/ PublishUnacked(q), stream' # stream
      PROVE  Exchange!Next
  <2>1. Stored(q) /\ UNCHANGED <<status, link>> /\ q \in Oldest(relay.batch)
    BY <1>4 DEF PublishAcked, PublishUnacked, queueVars, factVars
  <2>2. status[q] # "none"
    BY <2>1, WaitingIsAsked DEF IInv, Oldest, BatchWaits, Waiting
  <2>3. stream'[q] > 0 /\ \A p \in Requests \ {q} : stream'[p] = stream[p]
    BY <2>1, StoredGrows DEF IInv
  <2>4. Exchange!Deliver(q)
    BY <2>1, <2>2, <2>3 DEF Exchange!Deliver
  <2> QED
    BY <2>4 DEF Exchange!Next
<1>5. ASSUME NEW f \in Facts, Consume(f), Resolves(f) PROVE Exchange!Next
  <2>1. PICK q \in Requests, o \in {"completed", "failed"} :
          /\ status[q] = "pending" /\ stream[q] > 0
          /\ status' = [status EXCEPT ![q] = o] /\ stream' = stream
          /\ link' = IF o = "completed" THEN q ELSE link
    BY <1>5, ResolvesDelivered DEF Consume, Ended
  <2>2. status \in [Requests -> {"none", "queued", "pending", "completed", "failed"}]
    BY DEF IInv, TypeOK
  <2>3. Exchange!Settle(q, o)
    BY <2>1, <2>2 DEF Exchange!Settle, Ended
  <2> QED
    BY <2>3 DEF Exchange!Next
<1>6. ASSUME NEW f \in Facts, Consume(f), ~Resolves(f) PROVE UNCHANGED <<status, stream, link>>
  BY <1>6 DEF Consume
<1>7. CASE \/ BeginFlush \/ ReportHealth \/ Restart \/ RelayDies
           \/ \E q \in Requests : Time(q) \/ GrowsOld(q) \/ MarkUndeliverable(q) \/ RecordPublication(q)
           \/ \E f \in Facts, q \in Requests, o \in {"completed", "failed", "mismatched"} :
                Answer(f, q, o)
  <2>1. UNCHANGED <<status, stream, link>>
    BY <1>7 DEF BeginFlush, ReportHealth, Restart, RelayDies, Time, BecomesDue, BackoffEnds,
                GrowsOld, MarkUndeliverable, RecordPublication, Answer, queueVars, factVars
  <2> QED
    BY <2>1, <1>1
<1>8. ASSUME NEW q \in Requests, PublishAcked(q) \/ PublishUnacked(q)
      PROVE  UNCHANGED <<status, link>>
  BY <1>8 DEF PublishAcked, PublishUnacked, queueVars, factVars
<1>9. CASE UNCHANGED vars
  BY <1>9, <1>1 DEF vars, queueVars, factVars
<1> QED
  BY <1>1, <1>2, <1>3, <1>4, <1>5, <1>6, <1>7, <1>8, <1>9 DEF Next, RelayStep

\* The queue, the outbox, the relay and the inbox implement the exchange: a request
\* is asked once, and settled at most once, by an answer to what the bus delivered.
THEOREM Implements == Spec => ImplementsExchange
<1>1. Init => Exchange!Init
  BY DEF Init, Exchange!Init, Ended
<1> QED
  BY <1>1, StepImplements, Invariant, PTL DEF Spec, ImplementsExchange, Exchange!Spec
-----------------------------------------------------------------------------
(* The publisher's health.                                                 *)

\* Requests leave the queue in the order of the cursor: what was dispatched came
\* before what is queued, and what is due before what is not.
InOrder ==
  /\ \A q \in early : status[q] = "queued"
  /\ \A p, q \in Requests :
       /\ status[q] = "queued"
       /\ \/ status[p] \notin {"none", "queued"}
          \/ status[p] = "queued" /\ p \notin early /\ q \in early
       => turn[p] < turn[q]

\* Every step keeps the order: a new request comes last, and the first of those
\* in a state is the one that leaves it.
LEMMA StepInOrder == IInv /\ InOrder /\ [Next]_vars => InOrder'
<1> SUFFICES ASSUME IInv, InOrder, [Next]_vars PROVE InOrder'
  OBVIOUS
<1>0. /\ turn \in [Requests -> Nat] /\ cursor \in Nat /\ early \subseteq Requests
      /\ status \in [Requests -> {"none", "queued", "pending", "completed", "failed"}]
  BY DEF IInv, TypeOK
<1>1. ASSUME NEW q \in Requests, Queue(q) PROVE InOrder'
  BY <1>0, <1>1 DEF Queue, InOrder, IInv, DistinctTurns
<1>2. ASSUME NEW q \in Requests, BecomesDue(q) PROVE InOrder'
  <2>1. \A p \in early \ {q} : turn[q] < turn[p]
    BY <1>0, <1>2 DEF BecomesDue, InOrder, IInv, DistinctTurns
  <2> QED
    BY <1>0, <1>2, <2>1 DEF BecomesDue, InOrder
<1>3. ASSUME NEW q \in Requests, DispatchDue(q) PROVE InOrder'
  <2>1. \A p \in Due \ {q} : turn[q] < turn[p]
    BY <1>0, <1>3 DEF DispatchDue, Due, IInv, DistinctTurns
  <2>2. \A p \in Requests : p # q /\ status[p] = "queued" => turn[q] < turn[p]
    BY <1>0, <1>3, <2>1 DEF DispatchDue, Due, InOrder
  <2>3. q \notin early /\ turn' = turn /\ early' = early
    BY <1>3 DEF DispatchDue, Due
  <2>4. \A p \in Requests : status'[p] = IF p = q THEN "pending" ELSE status[p]
    BY <1>0, <1>3 DEF DispatchDue
  <2> QED
    BY <1>0, <2>2, <2>3, <2>4 DEF InOrder
<1>4. ASSUME NEW f \in Facts, Consume(f) PROVE InOrder'
  <2>1. CASE Resolves(f)
    <3>1. PICK q \in Requests, o \in Ended :
            status[q] = "pending" /\ status' = [status EXCEPT ![q] = o]
      BY <1>4, <2>1, ResolvesDelivered DEF Consume
    <3> QED
      BY <1>0, <1>4, <3>1 DEF Consume, InOrder, Ended
  <2>2. CASE ~Resolves(f)
    BY <1>4, <2>2 DEF Consume, InOrder
  <2> QED
    BY <2>1, <2>2
<1>5. CASE UNCHANGED queueVars
  BY <1>5 DEF queueVars, InOrder
<1>6. CASE UNCHANGED vars
  BY <1>5, <1>6 DEF vars
<1>7. ASSUME NEW q \in Requests,
             \/ MarkUndeliverable(q) \/ PublishAcked(q) \/ PublishUnacked(q)
             \/ RecordPublication(q) \/ BackoffEnds(q) \/ GrowsOld(q)
      PROVE  UNCHANGED queueVars
  BY <1>7 DEF MarkUndeliverable, PublishAcked, PublishUnacked, RecordPublication, BackoffEnds,
              GrowsOld
<1>8. BeginFlush \/ ReportHealth \/ Restart \/ RelayDies => UNCHANGED queueVars
  BY DEF BeginFlush, ReportHealth, Restart, RelayDies
<1>9. ASSUME NEW f \in Facts, NEW q \in Requests,
             NEW o \in {"completed", "failed", "mismatched"}, Answer(f, q, o)
      PROVE  UNCHANGED queueVars
  BY <1>9 DEF Answer
<1> QED
  BY <1>1, <1>2, <1>3, <1>4, <1>5, <1>6, <1>7, <1>8, <1>9 DEF Next, RelayStep, Time

\* While the relay is between passes, no step takes the stuck row from the head:
\* what is dispatched queues up behind it, and only a pass ends its wait.
LEMMA StepHealth ==
  IInv /\ InOrder /\ UnhealthyMeansStuck /\ [Next]_vars => UnhealthyMeansStuck'
<1> SUFFICES ASSUME IInv, InOrder, UnhealthyMeansStuck, [Next]_vars,
                    relay'.pc = "dispatch", healthy' = "no"
             PROVE  \E q \in Oldest(Waiting)' : Stuck(q)'
  BY DEF UnhealthyMeansStuck
<1>0. /\ turn \in [Requests -> Nat] /\ relay \in Relay /\ outbox \in
           [Requests -> {"none", "waiting", "published", "undeliverable"}]
      /\ status \in [Requests -> {"none", "queued", "pending", "completed", "failed"}]
  BY DEF IInv, TypeOK
<1>1. CASE ReportHealth
  <2>1. \E q \in Oldest(Waiting) : Stuck(q)
    BY <1>1 DEF ReportHealth
  <2> QED
    BY <1>1, <2>1 DEF ReportHealth, queueVars, outboxVars, Oldest, Earlier, Waiting, Stuck
<1>2. CASE Restart
  BY <1>2 DEF Restart
<1>3. ASSUME relay.pc = "dispatch", healthy = "no" PROVE \E q \in Oldest(Waiting) : Stuck(q)
  BY <1>3 DEF UnhealthyMeansStuck
<1>4. ASSUME NEW q \in Requests, DispatchDue(q) PROVE \E p \in Oldest(Waiting)' : Stuck(p)'
  <2>1. PICK p \in Oldest(Waiting) : Stuck(p)
    BY <1>3, <1>4 DEF DispatchDue, relayVars
  <2>2. p \in Requests /\ p \in Waiting /\ Earlier(Waiting, p) = {} /\ outbox[p] = "waiting"
    BY <2>1 DEF Oldest, Waiting
  <2>3. status[p] \notin {"none", "queued"}
    BY <2>2 DEF IInv, DispatchedTogether
  <2>4. status[q] = "queued" /\ turn[p] < turn[q]
    BY <1>4, <2>2, <2>3 DEF DispatchDue, Due, InOrder
  <2>5. Waiting' = Waiting \union {q} /\ turn' = turn
    BY <1>0, <1>4 DEF DispatchDue, Waiting
  <2>6. ~(turn[q] < turn[p])
    BY <1>0, <2>2, <2>4
  <2>7. p \in Oldest(Waiting)'
    BY <2>2, <2>5, <2>6 DEF Oldest, Earlier
  <2>8. Stuck(p)'
    BY <1>4, <2>1 DEF DispatchDue, Stuck
  <2> QED
    BY <2>7, <2>8
<1>5. ASSUME NEW q \in Requests, Queue(q) PROVE \E p \in Oldest(Waiting)' : Stuck(p)'
  <2>1. PICK p \in Oldest(Waiting) : Stuck(p)
    BY <1>3, <1>5 DEF Queue, relayVars
  <2>2. \A x \in Waiting : x \in Requests /\ x # q
    BY <1>5 DEF Queue, Waiting, IInv, DispatchedTogether
  <2>3. \A x \in Waiting : turn'[x] = turn[x]
    BY <1>0, <1>5, <2>2 DEF Queue
  <2>4. Waiting' = Waiting /\ Stuck(p)'
    BY <1>5, <2>1 DEF Queue, outboxVars, Waiting, Stuck
  <2> QED
    BY <2>1, <2>3, <2>4 DEF Oldest, Earlier
<1>6. CASE /\ UNCHANGED <<turn, outbox, failures, relay, healthy>>
           /\ aged \subseteq aged'
  <2>1. PICK p \in Oldest(Waiting) : Stuck(p)
    BY <1>3, <1>6
  <2> QED
    BY <1>6, <2>1 DEF Oldest, Earlier, Waiting, Stuck
<1>7. ASSUME NEW q \in Requests, BecomesDue(q) \/ BackoffEnds(q) \/ GrowsOld(q)
      PROVE  UNCHANGED <<turn, outbox, failures, relay, healthy>> /\ aged \subseteq aged'
  BY <1>7 DEF BecomesDue, BackoffEnds, GrowsOld, queueVars, outboxVars, relayVars
<1>8. ASSUME NEW f \in Facts, Consume(f)
      PROVE  UNCHANGED <<turn, outbox, failures, relay, healthy>> /\ aged \subseteq aged'
  BY <1>8 DEF Consume, outboxVars, relayVars
<1>9. ASSUME NEW f \in Facts, NEW q \in Requests,
             NEW o \in {"completed", "failed", "mismatched"}, Answer(f, q, o)
      PROVE  UNCHANGED <<turn, outbox, failures, relay, healthy>> /\ aged \subseteq aged'
  BY <1>9 DEF Answer, queueVars, outboxVars, relayVars
<1>10. CASE UNCHANGED vars
  BY <1>6, <1>10 DEF vars, queueVars, outboxVars, relayVars
<1>11. ASSUME NEW q \in Requests, \/ MarkUndeliverable(q) \/ PublishAcked(q)
                                 \/ PublishUnacked(q) \/ RecordPublication(q)
       PROVE  FALSE
  <2>1. \A x \in Relay : x.pc = "flush" => [x EXCEPT !.batch = @ \ {q}, !.fresh = {}].pc = "flush"
    BY DEF Relay
  <2>2. ~MarkUndeliverable(q)
    BY <1>0, <2>1 DEF MarkUndeliverable
  <2>3. ~PublishAcked(q) /\ ~PublishUnacked(q) /\ ~RecordPublication(q)
    BY <1>0 DEF PublishAcked, PublishUnacked, RecordPublication, Relay
  <2> QED
    BY <1>11, <2>2, <2>3
<1>12. ~BeginFlush
  BY <1>0 DEF BeginFlush, Relay
<1>13. ~RelayDies
  BY <1>0 DEF RelayDies, Relay
<1> QED
  BY <1>1, <1>2, <1>4, <1>5, <1>6, <1>7, <1>8, <1>9, <1>10, <1>11, <1>12, <1>13
     DEF Next, RelayStep, Time

\* Between passes the service is not ready only while the oldest waiting row is
\* stuck: report_health judges by that row, and it stays the oldest.
THEOREM UnhealthyIsStuck == Spec => []UnhealthyMeansStuck
<1>1. Init => InOrder /\ UnhealthyMeansStuck
  BY DEF Init, InOrder, UnhealthyMeansStuck
<1> QED
  BY <1>1, Invariant, StepInOrder, StepHealth, PTL DEF Spec
=============================================================================
