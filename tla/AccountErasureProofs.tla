------------------------ MODULE AccountErasureProofs ------------------------
(***************************************************************************)
(* Proofs about AccountErasure, for every set of owners, accounts,         *)
(* repositories, operations and deliveries: one answer per operation, no   *)
(* live grant behind a verified answer, a catalog that holds what some     *)
(* owner's rows name and nothing else, and README bytes that stay while a  *)
(* row names them.                                                         *)
(***************************************************************************)
EXTENDS AccountErasure, TLAPS

Rows == Owners \X Repos

Typed ==
  /\ account \in [Accounts -> {"none", "reauthorization_required", "connected"}]
  /\ credential \in [Accounts -> {"none", "pat", "oauth"}]
  /\ grant \in [Accounts -> {"none", "live", "revoked"}]
  /\ stars \subseteq Rows /\ watches \subseteq Rows /\ attempts \subseteq Rows
  /\ operations \in [Operations -> Answers \union {None}]
  /\ answers \in [Operations -> SUBSET Outcomes]
  /\ delivery \in [Deliveries -> Delivery \union {Idle}]
  /\ call \in Call \union {NoCall}

\* While an erasure may still answer "verified", each live grant of its owner is
\* one that it has yet to revoke, or one that came after it had listed them.
GrantsListed ==
  \A d \in Deliveries, a \in Accounts :
    /\ delivery[d].pc = "revoke" /\ delivery[d].outcome = "verified"
    /\ OwnerOf[a] = delivery[d].owner /\ credential[a] # "none" /\ grant[a] = "live"
    => a \in delivery[d].todo \union late

\* A call in progress is on a repository that some row names, or crossed an erasure.
CallNamed ==
  call # NoCall => call.repo \in Named(stars \union watches \union attempts) \union crossed

Shared == SharedRepositoriesKept /\ CatalogIsReached /\ CallNamed /\ PolicyForgetsCollected

IInv == Typed /\ OneAnswerPerOperation /\ GrantsListed /\ VerifiedMeansRevoked /\ Shared

\* A delivery that has begun.
LEMMA DeliveryTyped ==
  ASSUME Typed, NEW d \in Deliveries, delivery[d] # Idle
  PROVE  delivery[d] \in Delivery /\ delivery[d].op \in Operations /\ delivery[d].owner \in Owners
         /\ delivery[d].outcome \in Outcomes
BY DEF Typed, Delivery

\* The initial state satisfies the invariant.
LEMMA InitIInv == Init => IInv
<1> SUFFICES ASSUME Init PROVE IInv
  OBVIOUS
<1>1. Typed
  BY DEF Init, Typed, Idle, NoCall
<1>2. OneAnswerPerOperation /\ GrantsListed /\ VerifiedMeansRevoked
  BY DEF Init, OneAnswerPerOperation, GrantsListed, VerifiedMeansRevoked, Idle
<1>3. Shared
  BY DEF Init, Shared, SharedRepositoriesKept, CatalogIsReached, CallNamed, PolicyForgetsCollected, Named
<1> QED
  BY <1>1, <1>2, <1>3 DEF IInv

\* Names of more rows are more names.
LEMMA NamedGrows ==
  ASSUME NEW S, NEW T, S \subseteq T
  PROVE  Named(S) \subseteq Named(T)
BY DEF Named

\* A row names its repository.
LEMMA RowNames ==
  ASSUME NEW S, NEW o, NEW r, <<o, r>> \in S
  PROVE  r \in Named(S)
<1>1. <<o, r>>[2] = r
  OBVIOUS
<1> QED
  BY <1>1 DEF Named

\* Types are preserved.
LEMMA StepTyped ==
  ASSUME IInv, Next
  PROVE  Typed'
<1> USE DEF IInv, ownerVars, history
<1>1. ASSUME NEW a \in Accounts, Import(a) PROVE Typed'
  BY <1>1 DEF Import, Typed
<1>2. ASSUME NEW a \in Accounts, NEW kind \in {"pat", "oauth"}, Register(a, kind) PROVE Typed'
  BY <1>2 DEF Register, Typed
<1>3. ASSUME NEW a \in Accounts, NEW r \in Repos, Star(a, r) PROVE Typed'
  <2>1. <<OwnerOf[a], r>> \in Rows
    BY ErasureConstants DEF Rows
  <2> QED
    BY <1>3, <2>1 DEF Star, Typed
<1>4. ASSUME NEW r \in Repos, BeginObserve(r) PROVE Typed'
  <2>1. call' \in Call
    BY <1>4 DEF BeginObserve, Call
  <2> QED
    BY <1>4, <2>1 DEF BeginObserve, Typed
<1>5. ASSUME NEW r \in Repos, NEW o \in Owners, ClaimAction(o, r) PROVE Typed'
  <2>1. call' \in Call /\ <<o, r>> \in Rows
    BY <1>5 DEF ClaimAction, Call, Rows
  <2> QED
    BY <1>5, <2>1 DEF ClaimAction, Typed
<1>6. CASE RecordRepository \/ StoreReadme \/ ApplySource
  <2>1. call' \in Call
    BY <1>6 DEF RecordRepository, StoreReadme, ApplySource, Typed, Call, NoCall
  <2> QED
    BY <1>6, <2>1 DEF RecordRepository, StoreReadme, ApplySource, Typed
<1>7. CASE RegisterWatch
  <2>1. call' \in Call /\ <<call.owner, call.repo>> \in Rows
    BY <1>7 DEF RegisterWatch, Typed, Call, NoCall, Rows
  <2> QED
    BY <1>7, <2>1 DEF RegisterWatch, Typed
<1>8. CASE Evaluate \/ CallEnds \/ PublishPolicy
  BY <1>8 DEF Evaluate, CallEnds, PublishPolicy, Typed
<1>9. ASSUME NEW d \in Deliveries, NEW op \in Operations, NEW o \in Owners, Begin(d, op, o) PROVE Typed'
  <2>1. answers' \in [Operations -> SUBSET Outcomes]
    BY <1>9 DEF Begin, Recorded, Replay, Typed, Answers
  <2>2. [pc |-> "revoke", op |-> op, owner |-> o, outcome |-> "verified",
         todo |-> {a \in Accounts : OwnerOf[a] = o /\ credential[a] # "none"}] \in Delivery
    BY DEF Delivery, Outcomes
  <2> QED
    BY <1>9, <2>1, <2>2 DEF Begin, Typed
<1>10. ASSUME NEW d \in Deliveries, NEW a \in Accounts, RevokeConfirmed(d, a) \/ RevokeUnconfirmed(d, a)
       PROVE  Typed'
  <2>1. delivery[d] \in Delivery
    BY <1>10, DeliveryTyped DEF RevokeConfirmed, RevokeUnconfirmed, Idle
  <2>2. delivery' \in [Deliveries -> Delivery \union {Idle}]
    BY <1>10, <2>1 DEF RevokeConfirmed, RevokeUnconfirmed, Typed, Delivery, Outcomes
  <2>3. grant' \in [Accounts -> {"none", "live", "revoked"}]
    BY <1>10 DEF RevokeConfirmed, RevokeUnconfirmed, Typed
  <2> QED
    BY <1>10, <2>2, <2>3 DEF RevokeConfirmed, RevokeUnconfirmed, Typed
<1>11. ASSUME NEW d \in Deliveries, EraseFails(d) PROVE Typed'
  BY <1>11 DEF EraseFails, Typed
<1>12. ASSUME NEW d \in Deliveries, Erase(d) PROVE Typed'
  <2> DEFINE o == delivery[d].owner
             op == delivery[d].op
  <2>1. op \in Operations /\ o \in Owners /\ delivery[d].outcome \in Outcomes
    BY <1>12, DeliveryTyped DEF Erase, Idle
  <2>2. delivery' \in [Deliveries -> Delivery \union {Idle}] /\ grant' = grant /\ call' = call
    BY <1>12 DEF Erase, Typed
  <2>3. CASE Recorded(op)
    <3>1. answers' \in [Operations -> SUBSET Outcomes]
      BY <1>12, <2>1, <2>3 DEF Erase, Recorded, Replay, Typed, Answers
    <3> QED
      BY <1>12, <2>2, <2>3, <3>1 DEF Erase, Typed
  <2>4. CASE ~Recorded(op)
    <3>1. DeleteOwnerRows(o)
      BY <1>12, <2>4 DEF Erase, EraseOwnerState
    <3>2. account' \in [Accounts -> {"none", "reauthorization_required", "connected"}]
          /\ credential' \in [Accounts -> {"none", "pat", "oauth"}]
      BY <3>1 DEF DeleteOwnerRows, Typed
    <3>3. stars' \subseteq Rows /\ watches' \subseteq Rows /\ attempts' \subseteq Rows
      BY <3>1 DEF DeleteOwnerRows, Typed, Keep
    <3>4. answers' \in [Operations -> SUBSET Outcomes] /\ operations' \in [Operations -> Answers \union {None}]
      <4>1. answers' \in [Operations -> SUBSET Outcomes]
        BY <1>12, <2>1, <2>4 DEF Erase, Typed, Answers
      <4>2. operations' \in [Operations -> Answers \union {None}]
        BY <1>12, <2>1, <2>4 DEF Erase, Typed, Answers
      <4> QED
        BY <4>1, <4>2
    <3> QED
      BY <2>2, <3>2, <3>3, <3>4 DEF Typed
  <2> QED
    BY <2>3, <2>4
<1> QED
  BY <1>1, <1>2, <1>3, <1>4, <1>5, <1>6, <1>7, <1>8, <1>9, <1>10, <1>11, <1>12 DEF Next

\* Every delivery gives the recorded answer: the transaction that records one has
\* found none, and a later one replays it.
LEMMA StepAnswers ==
  ASSUME IInv, [Next]_vars
  PROVE  OneAnswerPerOperation'
<1>1. CASE UNCHANGED <<answers, operations>>
  BY <1>1 DEF IInv, OneAnswerPerOperation, Recorded
<1>2. ASSUME NEW op \in Operations, NEW o \in Owners, Recorded(op), Replay(op, o), operations' = operations
      PROVE  OneAnswerPerOperation'
  BY <1>2 DEF Replay, IInv, Typed, OneAnswerPerOperation, Recorded
<1>3. ASSUME NEW d \in Deliveries, NEW op \in Operations, NEW o \in Owners, Begin(d, op, o)
      PROVE  OneAnswerPerOperation'
  BY <1>1, <1>2, <1>3 DEF Begin
<1>4. ASSUME NEW d \in Deliveries, Erase(d) PROVE OneAnswerPerOperation'
  <2> DEFINE o == delivery[d].owner
             op == delivery[d].op
             x == delivery[d].outcome
  <2>1. op \in Operations /\ o \in Owners /\ x \in Outcomes
    BY <1>4, DeliveryTyped DEF Erase, Idle, IInv
  <2>2. CASE Recorded(op)
    BY <1>2, <1>4, <2>1, <2>2 DEF Erase
  <2>3. CASE ~Recorded(op)
    <3>1. /\ operations' = [operations EXCEPT ![op] = [owner |-> o, outcome |-> x]]
          /\ answers' = [answers EXCEPT ![op] = @ \union {x}]
      BY <1>4, <2>3 DEF Erase
    <3>2. answers[op] = {} /\ [owner |-> o, outcome |-> x] # None
      BY <2>1, <2>3, ErasureConstants DEF IInv, OneAnswerPerOperation, Answers
    <3> HIDE DEF o, op, x
    <3> QED
      BY <2>1, <3>1, <3>2 DEF IInv, Typed, OneAnswerPerOperation, Recorded
  <2> QED
    BY <2>2, <2>3
<1>5. CASE UNCHANGED vars
  BY <1>1, <1>5 DEF vars, history
<1> QED
  BY <1>1, <1>3, <1>4, <1>5 DEF Next, Import, Register, Star, BeginObserve, ClaimAction,
     RecordRepository, StoreReadme, ApplySource, RegisterWatch, Evaluate, CallEnds, PublishPolicy,
     RevokeConfirmed, RevokeUnconfirmed, EraseFails, history

\* Live grants stay accounted for: a credential that comes while an erasure runs is
\* late, and a grant leaves an erasure's list only revoked or with its outcome lost.
LEMMA StepGrants ==
  ASSUME IInv, [Next]_vars
  PROVE  GrantsListed' /\ VerifiedMeansRevoked'
<1>1. CASE UNCHANGED <<delivery, credential, grant, late, orphans>>
  BY <1>1 DEF IInv, GrantsListed, VerifiedMeansRevoked
<1>2. ASSUME NEW a \in Accounts, NEW kind \in {"pat", "oauth"}, Register(a, kind)
      PROVE  GrantsListed' /\ VerifiedMeansRevoked'
  <2>1. late \subseteq late' /\ (Erasing(OwnerOf[a]) => a \in late')
    BY <1>2 DEF Register
  <2>2. ASSUME NEW d \in Deliveries, OwnerOf[a] = delivery[d].owner PROVE a \in late'
    BY <2>1, <2>2 DEF Erasing
  <2>3. \A b \in Accounts \ {a} : credential'[b] = credential[b] /\ grant'[b] = grant[b]
    BY <1>2 DEF Register, IInv, Typed
  <2>4. delivery' = delivery /\ orphans' = orphans
    BY <1>2 DEF Register
  <2> QED
    BY <2>1, <2>2, <2>3, <2>4 DEF IInv, GrantsListed, VerifiedMeansRevoked
<1>3. ASSUME NEW d \in Deliveries, NEW op \in Operations, NEW o \in Owners, Begin(d, op, o)
      PROVE  GrantsListed' /\ VerifiedMeansRevoked'
  <2>1. UNCHANGED <<credential, grant, late, orphans>>
    BY <1>3 DEF Begin, ownerVars
  <2>2. CASE delivery' = delivery
    BY <1>1, <2>1, <2>2
  <2>3. CASE delivery' # delivery
    <3>1. /\ \A e \in Deliveries \ {d} : delivery'[e] = delivery[e]
          /\ delivery'[d].owner = o
          /\ delivery'[d].todo = {a \in Accounts : OwnerOf[a] = o /\ credential[a] # "none"}
      BY <1>3, <2>3 DEF Begin, IInv, Typed
    <3> QED
      BY <2>1, <3>1 DEF IInv, GrantsListed, VerifiedMeansRevoked
  <2> QED
    BY <2>2, <2>3
<1>4. ASSUME NEW d \in Deliveries, NEW a \in Accounts, RevokeConfirmed(d, a) \/ RevokeUnconfirmed(d, a)
      PROVE  GrantsListed' /\ VerifiedMeansRevoked'
  <2>1. UNCHANGED <<credential, late, orphans>>
    BY <1>4 DEF RevokeConfirmed, RevokeUnconfirmed, ownerVars, history
  <2>2. \A b \in Accounts : grant'[b] = "live" => grant[b] = "live"
    BY <1>4 DEF RevokeConfirmed, RevokeUnconfirmed, IInv, Typed
  <2>3. delivery[d] \in Delivery
    BY <1>4, DeliveryTyped DEF RevokeConfirmed, RevokeUnconfirmed, Idle, IInv
  <2>4. /\ \A e \in Deliveries \ {d} : delivery'[e] = delivery[e]
        /\ delivery'[d].owner = delivery[d].owner /\ delivery'[d].todo = delivery[d].todo \ {a}
        /\ delivery'[d].pc = delivery[d].pc
        /\ delivery'[d].outcome = "verified" => delivery[d].outcome = "verified" /\ grant'[a] # "live"
    BY <1>4, <2>3 DEF RevokeConfirmed, RevokeUnconfirmed, IInv, Typed, Delivery
  <2> QED
    BY <2>1, <2>2, <2>4 DEF IInv, GrantsListed, VerifiedMeansRevoked
<1>5. ASSUME NEW d \in Deliveries, EraseFails(d) PROVE GrantsListed' /\ VerifiedMeansRevoked'
  <2>1. UNCHANGED <<credential, grant, late, orphans>> /\ delivery'[d].pc = "idle"
        /\ \A e \in Deliveries \ {d} : delivery'[e] = delivery[e]
    BY <1>5 DEF EraseFails, ownerVars, history, IInv, Typed, Idle
  <2> QED
    BY <2>1 DEF IInv, GrantsListed, VerifiedMeansRevoked
<1>6. ASSUME NEW d \in Deliveries, Erase(d) PROVE GrantsListed' /\ VerifiedMeansRevoked'
  <2>1. UNCHANGED <<grant, late>> /\ delivery'[d].pc = "idle"
        /\ \A e \in Deliveries \ {d} : delivery'[e] = delivery[e]
    BY <1>6 DEF Erase, IInv, Typed, Idle
  <2>2. \A a \in Accounts : credential'[a] # "none" => credential'[a] = credential[a]
    BY <1>6 DEF Erase, ownerVars, EraseOwnerState, DeleteOwnerRows, IInv, Typed
  <2>3. orphans' \subseteq late
    <3>1. delivery[d].pc = "revoke" /\ delivery[d].todo = {}
      BY <1>6 DEF Erase
    <3>2. orphans' \subseteq orphans \union
            IF delivery[d].outcome = "verified"
            THEN {a \in OwnAccounts(delivery[d].owner) : credential[a] # "none" /\ grant[a] = "live"}
            ELSE {}
      BY <1>6 DEF Erase
    <3> QED
      BY <3>1, <3>2 DEF IInv, GrantsListed, VerifiedMeansRevoked, OwnAccounts
  <2>4. GrantsListed'
    BY <2>1, <2>2 DEF IInv, GrantsListed
  <2> QED
    BY <2>1, <2>3, <2>4 DEF VerifiedMeansRevoked
<1>7. CASE UNCHANGED vars
  BY <1>1, <1>7 DEF vars, ownerVars, history
<1> QED
  BY <1>1, <1>2, <1>3, <1>4, <1>5, <1>6, <1>7 DEF Next, Import, Star, BeginObserve, ClaimAction,
     RecordRepository, StoreReadme, ApplySource, RegisterWatch, Evaluate, CallEnds, PublishPolicy,
     ownerVars, history

\* What an erasure leaves: the rows of the others, and what those name.
LEMMA EraseShared ==
  ASSUME IInv, NEW o, EraseOwnerState(o),
         crossed' = IF call # NoCall THEN crossed \union {call.repo} ELSE crossed,
         UNCHANGED <<call, listed>>
  PROVE  Shared'
<1> DEFINE rows == stars \union watches \union attempts
<1>1. /\ stars' = Keep(stars, o) /\ watches' = Keep(watches, o) /\ attempts' = Keep(attempts, o)
      /\ catalog' = catalog \ Doomed(o) /\ dirty' = IF Doomed(o) = {} THEN dirty ELSE "yes"
  BY DEF EraseOwnerState, DeleteOwnerRows
<1>2. stars' \union watches' \union attempts' = Keep(rows, o)
  BY <1>1 DEF Keep
<1>3. Doomed(o) = (Of(rows, o) \intersect catalog) \ Named(Keep(rows, o))
  BY DEF Doomed, Candidates
<1> HIDE DEF rows
<1>4. SharedRepositoriesKept'
  <2>1. Named(stars' \union watches') \subseteq Named(Keep(rows, o))
    BY <1>2, NamedGrows
  <2>2. Named(stars' \union watches') \subseteq Named(stars \union watches)
    BY <1>1, NamedGrows DEF Keep
  <2> QED
    BY <1>1, <1>3, <2>1, <2>2 DEF IInv, Shared, SharedRepositoriesKept
<1>5. CatalogIsReached'
  <2>1. ASSUME NEW r \in catalog', r \notin crossed' PROVE r \in Named(Keep(rows, o))
    <3>1. r \in catalog /\ r \notin crossed /\ r \notin Doomed(o)
      BY <1>1, <2>1
    <3>2. r \in Named(rows)
      BY <3>1 DEF IInv, Shared, CatalogIsReached, rows
    <3>3. Named(rows) = Of(rows, o) \union Named(Keep(rows, o))
      BY DEF Named, Of, Keep
    <3> QED
      BY <1>3, <3>1, <3>2, <3>3
  <2> QED
    BY <1>2, <2>1 DEF CatalogIsReached
<1>6. CallNamed'
  BY DEF CallNamed
<1>7. PolicyForgetsCollected'
  BY <1>1 DEF IInv, Shared, PolicyForgetsCollected
<1> QED
  BY <1>4, <1>5, <1>6, <1>7 DEF Shared

\* The catalog keeps what owners' rows name, and nothing else.
LEMMA StepShared ==
  ASSUME IInv, [Next]_vars
  PROVE  Shared'
<1> USE DEF ownerVars, catalogVars, policyVars, history
<1>1. CASE UNCHANGED <<stars, watches, attempts, catalog, listed, dirty, crossed>> /\ call' \in {call, NoCall}
  BY <1>1 DEF IInv, Shared, SharedRepositoriesKept, CatalogIsReached, CallNamed, PolicyForgetsCollected
<1>2. ASSUME NEW a \in Accounts, NEW r \in Repos, Star(a, r) PROVE Shared'
  <2>1. /\ stars' = stars \union {<<OwnerOf[a], r>>} /\ catalog' = catalog \union {r}
        /\ UNCHANGED <<watches, attempts, listed, dirty, crossed, call>>
    BY <1>2 DEF Star
  <2>2. Named(stars' \union watches) \subseteq Named(stars \union watches) \union {r}
    BY <2>1 DEF Named
  <2>3. Named(stars \union watches \union attempts) \subseteq Named(stars' \union watches \union attempts)
        /\ r \in Named(stars' \union watches \union attempts)
    BY <2>1, NamedGrows, RowNames
  <2> QED
    BY <2>1, <2>2, <2>3 DEF IInv, Shared, SharedRepositoriesKept, CatalogIsReached, CallNamed,
                            PolicyForgetsCollected
<1>3. ASSUME NEW r \in Repos, NEW o \in Owners, ClaimAction(o, r) PROVE Shared'
  <2>1. /\ attempts' = attempts \union {<<o, r>>} /\ call'.repo = r
        /\ UNCHANGED <<stars, watches, catalog, listed, dirty, crossed>>
    BY <1>3 DEF ClaimAction
  <2>2. Named(stars \union watches \union attempts) \subseteq Named(stars \union watches \union attempts')
        /\ r \in Named(stars \union watches \union attempts')
    BY <2>1, NamedGrows, RowNames
  <2> QED
    BY <2>1, <2>2 DEF IInv, Shared, SharedRepositoriesKept, CatalogIsReached, CallNamed,
                      PolicyForgetsCollected
<1>4. ASSUME NEW r \in Repos, BeginObserve(r) PROVE Shared'
  <2>1. call'.repo = r /\ r \in Named(stars \union watches \union attempts)
    BY <1>4 DEF BeginObserve, Named
  <2> QED
    BY <1>4, <2>1 DEF BeginObserve, IInv, Shared, SharedRepositoriesKept, CatalogIsReached,
                      CallNamed, PolicyForgetsCollected
<1>5. CASE RecordRepository
  <2>1. /\ call # NoCall /\ catalog' = catalog \union {call.repo} /\ call'.repo = call.repo
        /\ UNCHANGED <<stars, watches, attempts, listed, dirty, crossed>>
    BY <1>5 DEF RecordRepository, NoCall, IInv, Typed, Call
  <2> QED
    BY <2>1 DEF IInv, Shared, SharedRepositoriesKept, CatalogIsReached, CallNamed,
                PolicyForgetsCollected
<1>6. CASE StoreReadme \/ ApplySource
  <2>1. call # NoCall /\ call'.repo = call.repo
        /\ UNCHANGED <<stars, watches, attempts, catalog, listed, dirty, crossed>>
    BY <1>6 DEF StoreReadme, ApplySource, NoCall, IInv, Typed, Call
  <2> QED
    BY <2>1 DEF IInv, Shared, SharedRepositoriesKept, CatalogIsReached, CallNamed,
                PolicyForgetsCollected
<1>7. CASE RegisterWatch
  <2>1. /\ call # NoCall /\ call.repo \in catalog /\ call'.repo = call.repo
        /\ watches' = watches \union {<<call.owner, call.repo>>}
        /\ UNCHANGED <<stars, attempts, catalog, listed, dirty, crossed>>
    BY <1>7 DEF RegisterWatch, NoCall, IInv, Typed, Call
  <2>2. Named(stars \union watches') \subseteq Named(stars \union watches) \union {call.repo}
    BY <2>1 DEF Named
  <2>3. Named(stars \union watches \union attempts) \subseteq Named(stars \union watches' \union attempts)
    BY <2>1 DEF Named
  <2> QED
    BY <2>1, <2>2, <2>3 DEF IInv, Shared, SharedRepositoriesKept, CatalogIsReached, CallNamed,
                            PolicyForgetsCollected
<1>8. CASE PublishPolicy
  BY <1>8 DEF PublishPolicy, IInv, Shared, SharedRepositoriesKept, CatalogIsReached, CallNamed,
              PolicyForgetsCollected
<1>9. ASSUME NEW d \in Deliveries, Erase(d) PROVE Shared'
  <2>1. CASE Recorded(delivery[d].op)
    BY <1>1, <1>9, <2>1 DEF Erase
  <2>2. CASE ~Recorded(delivery[d].op)
    BY <1>9, <2>2, EraseShared DEF Erase
  <2> QED
    BY <2>1, <2>2
<1>10. CASE UNCHANGED vars \/ Evaluate \/ CallEnds
  BY <1>1, <1>10 DEF vars, Evaluate, CallEnds
<1>11. ASSUME NEW a \in Accounts, Import(a) \/ \E kind \in {"pat", "oauth"} : Register(a, kind)
       PROVE  Shared'
  BY <1>1, <1>11 DEF Import, Register
<1>12. ASSUME NEW d \in Deliveries,
              \/ \E op \in Operations, o \in Owners : Begin(d, op, o)
              \/ \E a \in Accounts : RevokeConfirmed(d, a) \/ RevokeUnconfirmed(d, a)
              \/ EraseFails(d)
       PROVE  Shared'
  BY <1>1, <1>12 DEF Begin, RevokeConfirmed, RevokeUnconfirmed, EraseFails
<1> QED
  BY <1>2, <1>3, <1>4, <1>5, <1>6, <1>7, <1>8, <1>9, <1>10, <1>11, <1>12 DEF Next

\* The invariant holds in every reachable state.
LEMMA Invariant == Spec => []IInv
<1>1. IInv /\ [Next]_vars => IInv'
  <2> SUFFICES ASSUME IInv, [Next]_vars PROVE IInv'
    OBVIOUS
  <2>1. CASE UNCHANGED vars
    <3>1. Typed'
      BY <2>1 DEF vars, ownerVars, history, IInv, Typed
    <3> QED
      BY <3>1, StepAnswers, StepGrants, StepShared DEF IInv
  <2> QED
    BY <2>1, StepTyped, StepAnswers, StepGrants, StepShared DEF IInv
<1> QED
  BY <1>1, InitIInv, PTL DEF Spec

\* Every delivery of an erasure operation gives the recorded answer, also when
\* several run at the same time.
THEOREM AnswersAgree == Spec => []OneAnswerPerOperation
BY Invariant, PTL DEF IInv

\* "verified" leaves no live grant behind, apart from one that was registered while
\* the erasure ran.
THEOREM VerifiedIsRevoked == Spec => []VerifiedMeansRevoked
BY Invariant, PTL DEF IInv

\* No erasure takes a repository that the rows of another owner name.
THEOREM SharedStay == Spec => []SharedRepositoriesKept
BY Invariant, PTL DEF IInv, Shared

\* What no owner reaches any more is collected, calls across an erasure apart.
THEOREM NothingIsLeft == Spec => []CatalogIsReached
BY Invariant, PTL DEF IInv, Shared

\* A published policy that names a collected repository is due to be replaced.
THEOREM PolicyIsMarked == Spec => []PolicyForgetsCollected
BY Invariant, PTL DEF IInv, Shared
-----------------------------------------------------------------------------
(* README bytes, which no foreign key protects.                            *)

\* The digests that metadata and requests name.
InUse == {ReadmeOf[r] : r \in metadata} \union Named(requests)

\* The bytes that a call has stored and not yet used are there, or were swept.
StoredBytes == call.step = "stored" => ReadmeOf[call.repo] \in blobs \union swept

\* Every step keeps the bytes in use: an erasure collects none that metadata it
\* leaves or a request of another owner names, and a call names only what it has
\* stored or what metadata names already.
LEMMA StepBytes ==
  Typed /\ ReadmeBytesShared /\ StoredBytes /\ [Next]_vars => (ReadmeBytesShared /\ StoredBytes)'
<1> SUFFICES ASSUME Typed, ReadmeBytesShared, StoredBytes, [Next]_vars
             PROVE  ReadmeBytesShared' /\ StoredBytes'
  OBVIOUS
<1> USE DEF ownerVars, catalogVars, policyVars, history
<1>1. CASE /\ UNCHANGED <<metadata, requests, blobs, swept>>
           /\ call' = call \/ call'.step # "stored"
  BY <1>1 DEF ReadmeBytesShared, StoredBytes
<1>2. CASE StoreReadme
  <2>1. /\ blobs' = blobs \union {ReadmeOf[call.repo]} /\ call'.repo = call.repo
        /\ UNCHANGED <<metadata, requests, swept>>
    BY <1>2 DEF StoreReadme, Typed, Call, NoCall
  <2> QED
    BY <2>1 DEF ReadmeBytesShared, StoredBytes
<1>3. CASE ApplySource
  <2>1. /\ call.step = "stored" /\ metadata' = metadata \union {call.repo}
        /\ call'.step = "applied" /\ UNCHANGED <<requests, blobs, swept>>
    BY <1>3 DEF ApplySource, Typed, Call, NoCall
  <2> QED
    BY <2>1 DEF ReadmeBytesShared, StoredBytes
<1>4. CASE Evaluate
  <2>1. /\ call.repo \in metadata /\ call'.step = "idle"
        /\ requests' = requests \union
             {<<o, ReadmeOf[call.repo]>> : o \in {p \in Owners : <<p, call.repo>> \in watches}}
        /\ UNCHANGED <<metadata, blobs, swept>>
    BY <1>4 DEF Evaluate, NoCall
  <2>2. Named(requests') \subseteq Named(requests) \union {ReadmeOf[call.repo]}
    <3>1. \A x \in requests' : x \in requests \/ \E o \in Owners : x = <<o, ReadmeOf[call.repo]>>
      BY <2>1
    <3>2. \A x, o : x = <<o, ReadmeOf[call.repo]>> => x[2] = ReadmeOf[call.repo]
      OBVIOUS
    <3> QED
      BY <3>1, <3>2 DEF Named
  <2> QED
    BY <2>1, <2>2 DEF ReadmeBytesShared, StoredBytes
<1>5. ASSUME NEW d \in Deliveries, Erase(d), ~Recorded(delivery[d].op)
      PROVE  ReadmeBytesShared' /\ StoredBytes'
  <2> DEFINE o == delivery[d].owner
  <2>1. /\ metadata' = metadata \ Doomed(o) /\ requests' = Keep(requests, o)
        /\ blobs' = blobs \ Unreferenced(o) /\ call' = call
        /\ swept' = swept \union (IF call.step = "stored" THEN Unreferenced(o) ELSE {})
    BY <1>5 DEF Erase, EraseOwnerState, DeleteOwnerRows
  <2> DEFINE left == {ReadmeOf[r] : r \in metadata \ Doomed(o)} \union Named(Keep(requests, o))
  <2>2. left \subseteq InUse /\ left \intersect Unreferenced(o) = {}
    BY DEF InUse, Unreferenced, Named, Keep
  <2>3. ReadmeBytesShared'
    BY <2>1, <2>2 DEF ReadmeBytesShared, InUse
  <2>4. StoredBytes'
    BY <2>1 DEF StoredBytes
  <2> QED
    BY <2>3, <2>4
<1>6. ASSUME NEW d \in Deliveries,
             \/ \E op \in Operations, o \in Owners : Begin(d, op, o)
             \/ \E a \in Accounts : RevokeConfirmed(d, a) \/ RevokeUnconfirmed(d, a)
             \/ EraseFails(d) \/ (Erase(d) /\ Recorded(delivery[d].op))
      PROVE  UNCHANGED <<metadata, requests, blobs, swept, call>>
  BY <1>6 DEF Begin, RevokeConfirmed, RevokeUnconfirmed, EraseFails, Erase
<1>7. ASSUME NEW a \in Accounts,
             \/ Import(a) \/ \E kind \in {"pat", "oauth"} : Register(a, kind)
             \/ \E r \in Repos : Star(a, r)
      PROVE  UNCHANGED <<metadata, requests, blobs, swept, call>>
  BY <1>7 DEF Import, Register, Star
<1>8. ASSUME NEW r \in Repos, BeginObserve(r) \/ \E o \in Owners : ClaimAction(o, r)
      PROVE  UNCHANGED <<metadata, requests, blobs, swept>> /\ call'.step # "stored"
  <2>1. PICK o : call' = [step |-> "claimed", owner |-> o, repo |-> r]
    BY <1>8, Zenon DEF BeginObserve, ClaimAction
  <2>2. UNCHANGED <<metadata, requests, blobs, swept>>
    BY <1>8 DEF BeginObserve, ClaimAction
  <2> QED
    BY <2>1, <2>2
<1>9. CASE RecordRepository \/ RegisterWatch \/ CallEnds \/ PublishPolicy
  <2>1. UNCHANGED <<metadata, requests, blobs, swept>> /\ (call' = call \/ call'.step # "stored")
    BY <1>9 DEF RecordRepository, RegisterWatch, CallEnds, PublishPolicy, Typed, Call, NoCall
  <2> QED
    BY <1>1, <2>1
<1>10. CASE UNCHANGED vars
  BY <1>1, <1>10 DEF vars
<1> QED
  BY <1>1, <1>2, <1>3, <1>4, <1>5, <1>6, <1>7, <1>8, <1>9, <1>10 DEF Next

\* collect_unreferenced_readme_bytes takes no README that metadata or a request
\* still names; only bytes between their store and their use can go.
THEOREM BytesInUseStay == Spec => []ReadmeBytesShared
<1>1. Init => ReadmeBytesShared /\ StoredBytes
  <2> SUFFICES ASSUME Init PROVE ReadmeBytesShared /\ StoredBytes
    OBVIOUS
  <2>1. metadata = {} /\ requests = {} /\ call.step # "stored"
    BY DEF Init, NoCall
  <2> QED
    BY <2>1, Zenon DEF ReadmeBytesShared, StoredBytes, Named
<1>2. IInv => Typed
  BY DEF IInv
<1> QED
  BY <1>1, <1>2, Invariant, StepBytes, PTL DEF Spec
=============================================================================
