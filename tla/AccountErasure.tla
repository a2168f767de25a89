--------------------------- MODULE AccountErasure ---------------------------
(***************************************************************************)
(* Account erasure (crates/catalog/src/account_erasure.rs and              *)
(* account_erasure_state.rs) beside what runs while it does: credentials   *)
(* being registered (credentials.rs), stars of other owners, repository    *)
(* actions and observations that are halfway (observe.rs), and a second    *)
(* delivery of the same erasure.                                           *)
(*                                                                         *)
(* The erasure asks the provider to revoke each grant, then deletes and    *)
(* records its answer in one transaction.  Repositories are shared: one    *)
(* goes only when no row of another owner names it.  An insert that names  *)
(* a repository and the transaction that deletes it are serialised by the  *)
(* foreign key; README bytes have none.                                    *)
(***************************************************************************)
EXTENDS Naturals, FiniteSets

CONSTANTS
  Owners, Accounts, OwnerOf,  \* each account belongs to an owner
  Repos, ReadmeOf,            \* the digest of each repository's README
  Operations,                 \* erasure operation ids
  Deliveries,                 \* concurrent deliveries of erasure commands
  None,                       \* no owner, no operation
  MaxCalls,                   \* bound: actions and observations
  MaxStars                    \* bound: starred repositories at a time

Digests == {ReadmeOf[r] : r \in Repos}
Outcomes == {"verified", "incomplete"}
Answers  == [owner : Owners, outcome : Outcomes]

ASSUME ErasureConstants ==
  /\ OwnerOf \in [Accounts -> Owners] /\ None \notin Owners \union Answers
  /\ MaxCalls \in Nat /\ MaxStars \in Nat

VARIABLES
  account,     \* github_accounts.status, or "none"
  credential,  \* kind of the stored credential, or "none"
  grant,       \* the grant at GitHub (external)
  stars,       \* owner rows with a key into repositories that an account holds
  watches,     \* repository_watches
  requests,    \* analysis requests: owner and README digest
  attempts,    \* repository_action_attempts: owner and numeric repository id
  catalog,     \* repositories
  metadata,    \* repository_metadata, which names the README of its repository
  blobs,       \* repository_readme_blobs
  dirty,       \* the backup policy must be published again
  listed,      \* repositories that the published policy names
  operations,  \* account_erasure_operations
  delivery,    \* the erasures in progress
  call,        \* one action (with its owner) or observation in progress
  calls,       \* bounded counter
  answers, late, orphans, crossed, swept  \* history

ownerVars   == <<account, credential, stars, watches, requests, attempts>>
catalogVars == <<catalog, metadata, blobs>>
policyVars  == <<dirty, listed>>
history     == <<answers, late, orphans, crossed, swept>>
vars == <<ownerVars, grant, catalogVars, policyVars, operations, delivery, call, calls, history>>

Idle == [pc |-> "idle", op |-> None, owner |-> None, todo |-> {}, outcome |-> "verified"]
NoCall == [step |-> "idle", owner |-> None, repo |-> None]

Delivery == [pc : {"revoke"}, op : Operations, owner : Owners, todo : SUBSET Accounts, outcome : Outcomes]
Call == [step : {"claimed", "recorded", "stored", "applied", "tracked"},
         owner : Owners \union {None}, repo : Repos]

TypeOK ==
  /\ account \in [Accounts -> {"none", "reauthorization_required", "connected"}]
  /\ credential \in [Accounts -> {"none", "pat", "oauth"}]
  /\ \A a \in Accounts : credential[a] # "none" => account[a] = "connected"
  /\ grant \in [Accounts -> {"none", "live", "revoked"}]
  /\ stars \subseteq Owners \X Repos /\ watches \subseteq Owners \X Repos
  /\ attempts \subseteq Owners \X Repos /\ requests \subseteq Owners \X Digests
  /\ catalog \subseteq Repos /\ metadata \subseteq catalog /\ blobs \subseteq Digests
  /\ dirty \in {"yes", "no"} /\ listed \subseteq Repos
  /\ operations \in [Operations -> Answers \union {None}]
  /\ delivery \in [Deliveries -> Delivery \union {Idle}]
  /\ call \in Call \union {NoCall}

-----------------------------------------------------------------------------
(* What owners do meanwhile.                                               *)

\* imported_account_id inserts an account that awaits its credential.
Import(a) ==
  /\ account[a] = "none"
  /\ account' = [account EXCEPT ![a] = "reauthorization_required"]
  /\ UNCHANGED <<credential, stars, watches, requests, attempts, grant, catalogVars, policyVars,
                 operations, delivery, call, calls, history>>

Erasing(o) == \E d \in Deliveries : delivery[d].owner = o

\* register_credential: only an account that awaits one takes it.
Register(a, kind) ==
  /\ account[a] = "reauthorization_required"
  /\ account' = [account EXCEPT ![a] = "connected"]
  /\ credential' = [credential EXCEPT ![a] = kind]
  /\ grant' = [grant EXCEPT ![a] = "live"]
  /\ late' = IF Erasing(OwnerOf[a]) THEN late \union {a} ELSE late
  /\ UNCHANGED <<stars, watches, requests, attempts, catalogVars, policyVars, operations, delivery,
                 call, calls, answers, orphans, crossed, swept>>

\* A synchronisation or an import records a star, with its repository.
Star(a, r) ==
  /\ account[a] # "none" /\ <<OwnerOf[a], r>> \notin stars
  /\ Cardinality(stars) < MaxStars
  /\ stars' = stars \union {<<OwnerOf[a], r>>}
  /\ catalog' = catalog \union {r}
  /\ UNCHANGED <<account, credential, watches, requests, attempts, grant, metadata, blobs, policyVars,
                 operations, delivery, call, calls, history>>

\* claim_action: the attempt names the repository by its numeric id.
ClaimAction(o, r) ==
  /\ call = NoCall /\ calls < MaxCalls /\ calls' = calls + 1
  /\ attempts' = attempts \union {<<o, r>>}
  /\ call' = [step |-> "claimed", owner |-> o, repo |-> r]
  /\ UNCHANGED <<account, credential, stars, watches, requests, grant, catalogVars, policyVars,
                 operations, delivery, history>>

\* The observer takes a watched repository.
BeginObserve(r) ==
  /\ call = NoCall /\ calls < MaxCalls /\ calls' = calls + 1
  /\ \E o \in Owners : <<o, r>> \in watches
  /\ call' = [step |-> "claimed", owner |-> None, repo |-> r]
  /\ UNCHANGED <<ownerVars, grant, catalogVars, policyVars, operations, delivery, history>>

\* upsert_repository, keyed by the numeric id.
RecordRepository ==
  /\ call.step = "claimed"
  /\ catalog' = catalog \union {call.repo}
  /\ call' = [call EXCEPT !.step = "recorded"]
  /\ UNCHANGED <<ownerVars, grant, metadata, blobs, policyVars, operations, delivery, calls, history>>

StoreReadme ==
  /\ call.step = "recorded"
  /\ blobs' = blobs \union {ReadmeOf[call.repo]}
  /\ call' = [call EXCEPT !.step = "stored"]
  /\ UNCHANGED <<ownerVars, grant, catalog, metadata, policyVars, operations, delivery, calls, history>>

ApplySource ==
  /\ call.step = "stored" /\ call.repo \in catalog
  /\ metadata' = metadata \union {call.repo}
  /\ call' = [call EXCEPT !.step = "applied"]
  /\ UNCHANGED <<ownerVars, grant, catalog, blobs, policyVars, operations, delivery, calls, history>>

\* register_repository_analysis_watch, in an action that tracks.
RegisterWatch ==
  /\ call.step = "applied" /\ call.owner # None /\ call.repo \in catalog
  /\ watches' = watches \union {<<call.owner, call.repo>>}
  /\ call' = [call EXCEPT !.step = "tracked"]
  /\ UNCHANGED <<account, credential, stars, requests, attempts, grant, catalogVars, policyVars,
                 operations, delivery, calls, history>>

\* evaluate_metadata_watches: a request for each owner who watches.
Evaluate ==
  /\ call.step = "tracked" \/ (call.step = "applied" /\ call.owner = None)
  /\ call.repo \in metadata
  /\ requests' = requests \union
       {<<o, ReadmeOf[call.repo]>> : o \in {p \in Owners : <<p, call.repo>> \in watches}}
  /\ call' = NoCall
  /\ UNCHANGED <<account, credential, stars, watches, attempts, grant, catalogVars, policyVars,
                 operations, delivery, calls, history>>

\* The call ends early: an error, or a repository that is gone.
CallEnds ==
  /\ call # NoCall
  /\ call' = NoCall
  /\ UNCHANGED <<ownerVars, grant, catalogVars, policyVars, operations, delivery, calls, history>>

\* publish_due_backup_policy: the policy names repositories of the catalog.
PublishPolicy ==
  /\ dirty = "yes"
  /\ dirty' = "no" /\ listed' = catalog
  /\ UNCHANGED <<ownerVars, grant, catalogVars, operations, delivery, call, calls, history>>

-----------------------------------------------------------------------------
(* The erasure.                                                            *)

Recorded(op) == operations[op] # None

\* Mutant: a redelivery finds no credential left and answers accordingly.
ReplayRecomputed(op, o) == answers' = [answers EXCEPT ![op] = @ \union {"verified"}]

\* replay: the recorded answer, to the owner it was recorded for.
Replay(op, o) ==
  answers' = IF operations[op].owner = o
             THEN [answers EXCEPT ![op] = @ \union {operations[op].outcome}] ELSE answers

\* erase_account: a recorded operation is replayed; else the credentials of the
\* owner are listed.
Begin(d, op, o) ==
  /\ delivery[d] = Idle
  /\ \/ /\ Recorded(op) /\ Replay(op, o)
        /\ UNCHANGED delivery
     \/ /\ ~Recorded(op)
        /\ delivery' = [delivery EXCEPT ![d] =
             [pc |-> "revoke", op |-> op, owner |-> o, outcome |-> "verified",
              todo |-> {a \in Accounts : OwnerOf[a] = o /\ credential[a] # "none"}]]
        /\ UNCHANGED answers
  /\ UNCHANGED <<ownerVars, grant, catalogVars, policyVars, operations, call, calls,
                 late, orphans, crossed, swept>>

\* An OAuth credential that is still there, and a provider that confirms.
RevokeConfirmed(d, a) ==
  /\ a \in delivery[d].todo /\ credential[a] = "oauth"
  /\ grant' = [grant EXCEPT ![a] = "revoked"]
  /\ delivery' = [delivery EXCEPT ![d].todo = @ \ {a}]
  /\ UNCHANGED <<ownerVars, catalogVars, policyVars, operations, call, calls, history>>

\* Mutant: a grant that could not be confirmed does not change the outcome.
RevokeUnconfirmedIgnored(d, a) ==
  /\ a \in delivery[d].todo
  /\ UNCHANGED grant
  /\ delivery' = [delivery EXCEPT ![d].todo = @ \ {a}]
  /\ UNCHANGED <<ownerVars, catalogVars, policyVars, operations, call, calls, history>>

\* Any other credential, and a call that fails or is not confirmed, with or
\* without its effect.
RevokeUnconfirmed(d, a) ==
  /\ a \in delivery[d].todo
  /\ \/ UNCHANGED grant
     \/ credential[a] = "oauth" /\ grant' = [grant EXCEPT ![a] = "revoked"]
  /\ delivery' = [delivery EXCEPT ![d].todo = @ \ {a}, ![d].outcome = "incomplete"]
  /\ UNCHANGED <<ownerVars, catalogVars, policyVars, operations, call, calls, history>>

Keep(S, o) == {x \in S : x[1] # o}
Of(S, o)   == {x[2] : x \in S \ Keep(S, o)}
Named(S)   == {x[2] : x \in S}

\* capture_candidates: what the owner reached, and the digests those rows name.
Candidates(o) == Of(stars \union watches \union attempts, o) \intersect catalog
CandidateDigests(o) == {ReadmeOf[r] : r \in Candidates(o) \intersect metadata} \union Of(requests, o)

\* Mutant: a repository that was watched once is kept.
DoomedUnwatched(o) == Candidates(o) \ Named(Keep(stars \union attempts, o) \union watches)

\* collect_unreferenced_repositories.
Doomed(o) == Candidates(o) \ Named(Keep(stars \union watches \union attempts, o))

\* Mutant: README bytes are kept for requests only.
UnreferencedOfMetadata(o) == CandidateDigests(o) \ Named(Keep(requests, o))

\* collect_unreferenced_readme_bytes.
Unreferenced(o) ==
  CandidateDigests(o) \ ({ReadmeOf[r] : r \in metadata \ Doomed(o)} \union Named(Keep(requests, o)))

OwnAccounts(o) == {a \in Accounts : OwnerOf[a] = o}

\* delete_owner_rows.
DeleteOwnerRows(o) ==
  /\ account' = [a \in Accounts |-> IF OwnerOf[a] = o THEN "none" ELSE account[a]]
  /\ credential' = [a \in Accounts |-> IF OwnerOf[a] = o THEN "none" ELSE credential[a]]
  /\ stars' = Keep(stars, o) /\ watches' = Keep(watches, o)
  /\ requests' = Keep(requests, o) /\ attempts' = Keep(attempts, o)

\* erase_owner_state.
EraseOwnerState(o) ==
  /\ DeleteOwnerRows(o)
  /\ catalog' = catalog \ Doomed(o) /\ metadata' = metadata \ Doomed(o)
  /\ blobs' = blobs \ Unreferenced(o)
  /\ dirty' = IF Doomed(o) = {} THEN dirty ELSE "yes"

\* The transaction: deletion and answer, or the answer of the delivery that came
\* first.
Erase(d) ==
  LET o == delivery[d].owner  op == delivery[d].op  outcome == delivery[d].outcome IN
  /\ delivery[d].pc = "revoke" /\ delivery[d].todo = {}
  /\ \/ /\ Recorded(op) /\ Replay(op, o)
        /\ UNCHANGED <<ownerVars, catalogVars, dirty, operations, orphans, crossed, swept>>
     \/ /\ ~Recorded(op) /\ EraseOwnerState(o)
        /\ operations' = [operations EXCEPT ![op] = [owner |-> o, outcome |-> outcome]]
        /\ answers' = [answers EXCEPT ![op] = @ \union {outcome}]
        /\ orphans' = IF outcome = "verified"
                      THEN orphans \union {a \in OwnAccounts(o) : credential[a] # "none" /\ grant[a] = "live"}
                      ELSE orphans
        /\ crossed' = IF call # NoCall THEN crossed \union {call.repo} ELSE crossed
        /\ swept' = swept \union (IF call.step = "stored" THEN Unreferenced(o) ELSE {})
  /\ delivery' = [delivery EXCEPT ![d] = Idle]
  /\ UNCHANGED <<grant, listed, call, calls, late>>

\* The database fails and the command is delivered again.
EraseFails(d) ==
  /\ delivery[d] # Idle
  /\ delivery' = [delivery EXCEPT ![d] = Idle]
  /\ UNCHANGED <<ownerVars, grant, catalogVars, policyVars, operations, call, calls, history>>

-----------------------------------------------------------------------------
Init ==
  /\ account = [a \in Accounts |-> "none"] /\ credential = [a \in Accounts |-> "none"]
  /\ grant = [a \in Accounts |-> "none"]
  /\ stars = {} /\ watches = {} /\ requests = {} /\ attempts = {}
  /\ catalog = {} /\ metadata = {} /\ blobs = {}
  /\ dirty = "yes" /\ listed = {}
  /\ operations = [op \in Operations |-> None]
  /\ delivery = [d \in Deliveries |-> Idle] /\ call = NoCall
  /\ calls = 0
  /\ answers = [op \in Operations |-> {}]
  /\ late = {} /\ orphans = {} /\ crossed = {} /\ swept = {}

Next ==
  \/ \E a \in Accounts : \/ Import(a) \/ \E kind \in {"pat", "oauth"} : Register(a, kind)
                         \/ \E r \in Repos : Star(a, r)
  \/ \E r \in Repos : BeginObserve(r) \/ \E o \in Owners : ClaimAction(o, r)
  \/ RecordRepository \/ StoreReadme \/ ApplySource \/ RegisterWatch \/ Evaluate \/ CallEnds
  \/ PublishPolicy
  \/ \E d \in Deliveries :
       \/ \E op \in Operations, o \in Owners : Begin(d, op, o)
       \/ \E a \in Accounts : RevokeConfirmed(d, a) \/ RevokeUnconfirmed(d, a)
       \/ Erase(d) \/ EraseFails(d)

Spec == Init /\ [][Next]_vars

-----------------------------------------------------------------------------
(* Properties.                                                             *)

\* Every delivery of one operation gives the same answer, the recorded one, also
\* when two run at the same time (erase_account 32-34, 75-76).
OneAnswerPerOperation ==
  \A op \in Operations :
    answers[op] \subseteq (IF Recorded(op) THEN {operations[op].outcome} ELSE {})

\* An erasure that answers "verified" leaves no live grant behind whose credential
\* it deletes (revoke_grants 164-166), except one that is registered after the
\* credentials were listed and before they are deleted.
VerifiedMeansRevoked == orphans \subseteq late

\* A repository is in the catalog for somebody: what only erased owners reached is
\* collected, except a repository of an action or observation that was in
\* progress during an erasure and writes it again afterwards.
CatalogIsReached ==
  \A r \in catalog : r \in Named(stars \union watches \union attempts) \union crossed

\* Erasing one owner never takes a repository that another owner's rows name.
SharedRepositoriesKept == Named(stars \union watches) \subseteq catalog

\* The README bytes that metadata or a request names are there, except a digest
\* that was collected between the store and the use of the bytes.
ReadmeBytesShared ==
  ({ReadmeOf[r] : r \in metadata} \union Named(requests)) \subseteq blobs \union swept

\* A policy that names a collected repository is due for publication.
PolicyForgetsCollected == dirty = "yes" \/ listed \subseteq catalog
=============================================================================
