-------------------------- MODULE MutationsProofs ---------------------------
(***************************************************************************)
(* Proofs about Mutations and the repository actions that run on it, for   *)
(* every set of repositories, lists, requests, actions and callers and     *)
(* every bound: one effect per idempotency key, an audit row per answer,   *)
(* the governance mode that follows the star, a projection that drifts     *)
(* from GitHub only for a reason, and actions that write once and answer   *)
(* truthfully.                                                             *)
(***************************************************************************)
EXTENDS RepositoryActions, TLAPS

\* Zenon takes the steps that reason about sets and functions; a step that
\* needs arithmetic or records says SMT.
USE Zenon

\* A call that is about to write a mode has asked for an explicit one.
WorkersOK ==
  /\ worker \in [Workers -> Worker]
  /\ \A w \in Workers : worker[w].pc = "modeWrite" => RequestedMode(w) # "auto"

TrailOK ==
  /\ audit \in [Keys -> Audit]
  /\ effects \in [Keys -> Nat] /\ answers \in [Keys -> Nat]

CatalogOK ==
  /\ starred \subseteq Repos /\ upStar \subseteq Repos /\ sync.stars \subseteq Repos
  /\ mode \in [Repos -> {NoMode, "auto", "tracked", "ignored"}]

\* The state of a caller between calls.
LEMMA IdleTyped == Idle \in Worker /\ Idle.pc = "idle"
<1>1. PICK q \in Requests : q = CHOOSE x \in Requests : TRUE
  BY MutationConstants
<1> QED
  BY <1>1 DEF Idle, Blank, Worker, NoMode

\* A blank call for a request.
LEMMA BlankTyped ==
  ASSUME NEW q \in Requests, NEW pc \in {"modeRead", "check"}
  PROVE  [Blank(q) EXCEPT !.pc = pc] \in Worker
BY DEF Blank, Worker, NoMode

\* A caller's request has a key, a kind, a repository and a mode.
LEMMA RequestTyped ==
  ASSUME WorkersOK, NEW w \in Workers
  PROVE  KeyOf(w) \in Keys /\ RepoOf(w) \in Repos /\ KindOf(w) \in Kinds
         /\ RequestedMode(w) \in {"auto", "tracked", "ignored"} /\ ListTarget(w) \in Lists
<1>1. worker[w].request \in Requests
  BY DEF WorkersOK, Worker
<1> QED
  BY <1>1, MutationConstants DEF Keys, KeyOf, RepoOf, KindOf, RequestedMode, ListTarget

\* Moving on keeps the callers' states typed.
LEMMA MoveTyped ==
  ASSUME WorkersOK, NEW w \in Workers, NEW pc \in {"idle", "persist"}, NEW R, MoveOver(w, pc, R)
  PROVE  WorkersOK'
<1>1. ASSUME NEW v \in Workers
      PROVE  /\ worker'[v] \in Worker
             /\ worker'[v].pc = "modeWrite" => worker'[v].request.mode # "auto"
  <2>1. CASE v = w /\ pc = "idle"
    BY <2>1, IdleTyped DEF MoveOver
  <2>2. CASE v = w /\ pc = "persist"
    BY <2>2 DEF MoveOver, WorkersOK, Worker
  <2>3. CASE v # w
    <3> DEFINE b == worker[v].overtaken \/ (worker[v].pc # "idle" /\ RepoOf(v) \in R)
    <3>1. worker'[v] = [worker[v] EXCEPT !.overtaken = b] /\ b \in BOOLEAN
      BY <2>3 DEF MoveOver, WorkersOK, Worker
    <3> HIDE DEF b
    <3>2. worker[v] \in Worker
      BY DEF WorkersOK
    <3>3. worker'[v] \in Worker /\ worker'[v].pc = worker[v].pc /\ worker'[v].request = worker[v].request
      BY <3>1, <3>2 DEF Worker
    <3> QED
      BY <3>3 DEF WorkersOK, RequestedMode
  <2> QED
    BY <2>1, <2>2, <2>3
<1>2. worker' = [v \in Workers |-> worker'[v]]
  BY DEF MoveOver
<1> QED
  BY <1>1, <1>2 DEF WorkersOK, RequestedMode

\* Marking calls as overtaken keeps the callers' states typed.
LEMMA OvertakeTyped ==
  ASSUME WorkersOK, NEW R, Overtake(R)
  PROVE  WorkersOK'
<1>1. ASSUME NEW v \in Workers
      PROVE  /\ worker'[v] \in Worker
             /\ worker'[v].pc = "modeWrite" => worker'[v].request.mode # "auto"
  <2> DEFINE b == worker[v].overtaken \/ (worker[v].pc # "idle" /\ RepoOf(v) \in R)
  <2>1. worker'[v] = [worker[v] EXCEPT !.overtaken = b] /\ b \in BOOLEAN
    BY DEF Overtake, WorkersOK, Worker
  <2> HIDE DEF b
  <2>2. worker[v] \in Worker
    BY DEF WorkersOK
  <2>3. worker'[v] \in Worker /\ worker'[v].pc = worker[v].pc /\ worker'[v].request = worker[v].request
    BY <2>1, <2>2 DEF Worker
  <2> QED
    BY <2>3 DEF WorkersOK, RequestedMode
<1>2. worker' = [v \in Workers |-> worker'[v]]
  BY DEF Overtake
<1> QED
  BY <1>1, <1>2 DEF WorkersOK, RequestedMode

\* The trail's two invariants.
Trail == TrailOK /\ OneEffectPerKey /\ EveryAnswerIsAudited

\* A rejected or failed row comes with its answer.
LEMMA AnswerTrail ==
  ASSUME Trail, NEW k \in Keys, NEW o \in {"rejected", "failed"},
         audit' = [audit EXCEPT ![k][o] = @ + 1],
         answers' = [answers EXCEPT ![k] = @ + 1], effects' = effects
  PROVE  Trail'
<1>1. /\ audit' \in [Keys -> Audit] /\ audit'[k].success = audit[k].success
      /\ audit'[k].rejected + audit'[k].failed = audit[k].rejected + audit[k].failed + 1
  BY SMT DEF Trail, TrailOK, Audit
<1>2. \A j \in Keys \ {k} : audit'[j] = audit[j] /\ answers'[j] = answers[j]
  BY DEF Trail, TrailOK
<1>3. TrailOK'
  BY SMT, <1>1 DEF Trail, TrailOK
<1>4. OneEffectPerKey'
  BY <1>1, <1>2 DEF Trail, OneEffectPerKey
<1>5. EveryAnswerIsAudited'
  BY SMT, <1>1, <1>2 DEF Trail, TrailOK, EveryAnswerIsAudited, Audit
<1> QED
  BY <1>3, <1>4, <1>5 DEF Trail

\* The transaction that wins a key that nobody has won.
LEMMA CommitTrail ==
  ASSUME Trail, NEW w \in Workers, KeyOf(w) \in Keys, ~SuccessfulOutcomeExists(KeyOf(w)),
         NEW o \in {"applied", "already_applied"}, Commit(w, o)
  PROVE  Trail'
<1> DEFINE k == KeyOf(w)
<1>1. k \in Keys /\ audit[k] \in Audit /\ audit[k].success = "none"
  BY DEF Trail, TrailOK, SuccessfulOutcomeExists
<1>2. /\ audit' = [audit EXCEPT ![k] = [@ EXCEPT !.success = o]]
      /\ effects' = [effects EXCEPT ![k] = @ + 1] /\ answers' = [answers EXCEPT ![k] = @ + 1]
  BY DEF Commit
<1> HIDE DEF k
<1>3. /\ audit'[k] \in Audit /\ audit'[k].success = o
      /\ audit'[k].rejected = audit[k].rejected /\ audit'[k].failed = audit[k].failed
  BY <1>1, <1>2 DEF Trail, TrailOK, Audit
<1>4. \A j \in Keys \ {k} : audit'[j] = audit[j] /\ answers'[j] = answers[j] /\ effects'[j] = effects[j]
  BY <1>2 DEF Trail, TrailOK
<1>5. effects[k] = 0
  BY <1>1 DEF Trail, OneEffectPerKey
<1>6. TrailOK'
  BY SMT, <1>1, <1>2, <1>3, <1>4 DEF Trail, TrailOK
<1>7. OneEffectPerKey'
  BY SMT, <1>1, <1>2, <1>3, <1>4, <1>5 DEF Trail, TrailOK, OneEffectPerKey
<1>8. EveryAnswerIsAudited'
  BY SMT, <1>1, <1>2, <1>3, <1>4, <1>5 DEF Trail, TrailOK, EveryAnswerIsAudited, Audit
<1> QED
  BY <1>6, <1>7, <1>8 DEF Trail

\* Steps that answer nothing leave the trail as it is.
LEMMA NoTrail ==
  ASSUME Trail, UNCHANGED <<audit, effects, answers>>
  PROVE  Trail'
BY DEF Trail, TrailOK, OneEffectPerKey, EveryAnswerIsAudited

\* The lists that are read for a write belong to the account.
ListsOK ==
  /\ active \subseteq Lists
  /\ upLists \in [Repos -> SUBSET Lists] /\ sync.lists \in [Repos -> SUBSET Lists]

\* What classifies repositories.
Governed == CatalogOK /\ AutoMeansStarred

Kept == WorkersOK /\ Trail /\ Governed
IInv == Kept /\ ListsOK

\* The initial state satisfies the invariant.
LEMMA InitIInv == Init => IInv
<1> SUFFICES ASSUME Init PROVE IInv
  OBVIOUS
<1>1. WorkersOK
  BY IdleTyped DEF Init, WorkersOK
<1>2. Trail
  BY SMT DEF Init, Trail, TrailOK, Audit, OneEffectPerKey, EveryAnswerIsAudited
<1>3. Governed
  BY DEF Init, NoSync, Governed, CatalogOK, AutoMeansStarred, NoMode
<1>4. ListsOK
  BY MutationConstants DEF Init, NoSync, ListsOK
<1> QED
  BY <1>1, <1>2, <1>3, <1>4 DEF IInv, Kept

\* The lists stay the account's: a call writes no others.
LEMMA StepListsOK ==
  ASSUME IInv, Next
  PROVE  ListsOK'
<1>1. CASE \E r \in Repos, l \in Lists : OwnerFiles(r, l)
  BY SMT, <1>1 DEF OwnerFiles, catalog, IInv, Kept, ListsOK
<1>2. ASSUME NEW what \in {"stars", "lists"}, SyncReads(what) PROVE ListsOK'
  BY <1>2 DEF SyncReads, NoSync, upstream, catalog, IInv, Kept, ListsOK
<1>3. CASE SwapStars \/ SwapLists
  BY SMT, <1>3 DEF SwapStars, SwapLists, NoSync, upstream, IInv, Kept, ListsOK
<1>4. ASSUME NEW w \in Workers, WriteConfirmed(w) \/ WriteUnanswered(w) PROVE ListsOK'
  <2>1. worker[w].desired \subseteq Lists /\ RepoOf(w) \in Repos
    BY RequestTyped DEF IInv, Kept, WorkersOK, Worker
  <2> QED
    BY <1>4, <2>1 DEF WriteConfirmed, WriteUnanswered, Written, catalog, IInv, Kept, ListsOK
<1>5. CASE UNCHANGED <<active, upLists, sync>>
  BY <1>5 DEF IInv, Kept, ListsOK
<1>6. ASSUME NEW w \in Workers, Run(w), ~(WriteConfirmed(w) \/ WriteUnanswered(w))
      PROVE  UNCHANGED <<active, upLists, sync>>
  BY <1>6 DEF Run, RefuseIgnored, Pause, Prepare, NoSuchList, WriteRefused, Persist, Converged,
              PersistReplayed, ModeRead, ModeRefused, ModeWrite, Stop, upstream, catalog
<1>7. CASE (\E r \in Repos : OwnerStars(r)) \/ \E w \in Workers, q \in Requests : Submit(w, q)
  BY <1>5, <1>7 DEF OwnerStars, Submit, upstream, catalog
<1> QED
  BY <1>1, <1>2, <1>3, <1>4, <1>5, <1>6, <1>7 DEF Next, Environment

\* Steps that leave star, mode and snapshot alone.
LEMMA NoGovernance ==
  ASSUME Governed, UNCHANGED <<starred, mode, sync>>, upStar' \subseteq Repos
  PROVE  Governed'
BY DEF Governed, CatalogOK, AutoMeansStarred

\* The owner and the snapshots: a swap classifies what it stars and releases what
\* it unstars.
LEMMA EnvironmentIInv ==
  ASSUME IInv, Environment
  PROVE  Kept'
<1>1. Trail'
  BY NoTrail DEF IInv, Kept, Environment, OwnerStars, OwnerFiles, SyncReads, SwapStars, SwapLists
<1>2. WorkersOK'
  <2>1. CASE \E what \in {"stars", "lists"} : SyncReads(what)
    BY <2>1 DEF SyncReads, IInv, Kept, WorkersOK, RequestedMode
  <2> QED
    BY <2>1, OvertakeTyped DEF IInv, Kept, Environment, OwnerStars, OwnerFiles, SwapStars, SwapLists
<1>3. Governed'
  <2>1. CASE \E r \in Repos : OwnerStars(r)
    BY <2>1, NoGovernance DEF OwnerStars, catalog, IInv, Kept, Governed, CatalogOK
  <2>2. CASE \E r \in Repos, l \in Lists : OwnerFiles(r, l)
    BY <2>2, NoGovernance DEF OwnerFiles, catalog, IInv, Kept, Governed, CatalogOK
  <2>3. ASSUME NEW what \in {"stars", "lists"}, SyncReads(what) PROVE Governed'
    BY <2>3 DEF SyncReads, NoSync, upstream, catalog, IInv, Kept, Governed, CatalogOK, AutoMeansStarred
  <2>4. CASE SwapStars
    <3>1. starred' = sync.stars /\ upStar' = upStar /\ sync'.stars = {}
      BY <2>4 DEF SwapStars, upstream, NoSync
    <3>2. \A r \in Repos : mode'[r] \in {NoMode, "auto", "tracked", "ignored"}
                           /\ (mode'[r] = "auto" => r \in sync.stars)
      BY <2>4 DEF SwapStars, IInv, Kept, Governed, CatalogOK, AutoMeansStarred, NoMode
    <3>3. mode' \in [Repos -> {NoMode, "auto", "tracked", "ignored"}]
      BY <2>4, <3>2 DEF SwapStars
    <3> QED
      BY <3>1, <3>2, <3>3 DEF IInv, Kept, Governed, CatalogOK, AutoMeansStarred
  <2>5. CASE SwapLists
    BY <2>5 DEF SwapLists, NoSync, upstream, IInv, Kept, Governed, CatalogOK, AutoMeansStarred
  <2> QED
    BY <2>1, <2>2, <2>3, <2>4, <2>5 DEF Environment
<1> QED
  BY <1>1, <1>2, <1>3 DEF IInv, Kept

\* A submission is refused with its row, replayed, or taken on.
LEMMA SubmitIInv ==
  ASSUME IInv, NEW w \in Workers, NEW q \in Requests, Submit(w, q)
  PROVE  Kept'
<1>1. q.key \in Keys
  BY DEF Keys
<1>2. Trail'
  <2>1. CASE Authorized(q)
    BY <2>1, NoTrail DEF Submit, IInv, Kept
  <2>2. CASE ~Authorized(q)
    <3>1. /\ audit' = [audit EXCEPT ![q.key]["rejected"] = @ + 1]
          /\ answers' = [answers EXCEPT ![q.key] = @ + 1] /\ effects' = effects
      BY <2>2 DEF Submit
    <3> QED
      BY <1>1, <3>1, AnswerTrail DEF IInv, Kept
  <2> QED
    BY <2>1, <2>2
<1>3. WorkersOK'
  <2>1. PICK x \in Worker : worker' = [worker EXCEPT ![w] = x] /\ x.pc # "modeWrite"
    <3>1. CASE ~Authorized(q) \/ SuccessfulOutcomeExists(q.key)
      BY <3>1, IdleTyped DEF Submit
    <3>2. CASE ~(~Authorized(q) \/ SuccessfulOutcomeExists(q.key))
      <4>1. PICK pc \in {"modeRead", "check"} : worker' = [worker EXCEPT ![w] = [Blank(q) EXCEPT !.pc = pc]]
        BY <3>2 DEF Submit
      <4>2. [Blank(q) EXCEPT !.pc = pc].pc = pc
        BY DEF Blank
      <4> QED
        BY <4>1, <4>2, BlankTyped
    <3> QED
      BY <3>1, <3>2
  <2> QED
    BY <2>1 DEF IInv, Kept, WorkersOK, RequestedMode
<1>4. Governed'
  BY NoGovernance DEF Submit, IInv, Kept, upstream, catalog, Governed, CatalogOK
<1> QED
  BY <1>2, <1>3, <1>4 DEF IInv, Kept

\* Calls that end without committing: refused or failed with a row, or nothing.
Ending(w) ==
  \/ RefuseIgnored(w) \/ Pause(w) \/ NoSuchList(w) \/ WriteUnanswered(w)
  \/ WriteRefused(w) \/ ModeRefused(w) \/ PersistReplayed(w) \/ Stop(w)

\* A call that ends without committing preserves the invariant.
LEMMA EndingIInv ==
  ASSUME IInv, NEW w \in Workers, Ending(w)
  PROVE  Kept'
<1>1. WorkersOK'
  BY MoveTyped DEF IInv, Kept, Ending, RefuseIgnored, Pause, NoSuchList, WriteUnanswered, WriteRefused,
                   ModeRefused, PersistReplayed, Stop, Move
<1>2. Trail'
  <2>1. \/ \E o \in {"rejected", "failed"} : Answer(w, o) /\ effects' = effects
        \/ UNCHANGED <<audit, effects, answers>>
    BY DEF Ending, RefuseIgnored, Pause, NoSuchList, WriteUnanswered, WriteRefused,
           ModeRefused, PersistReplayed, Stop
  <2> QED
    BY <2>1, AnswerTrail, NoTrail, RequestTyped DEF IInv, Kept, Answer
<1>3. UNCHANGED <<starred, mode, sync>> /\ upStar' \subseteq Repos
  <2>1. CASE WriteUnanswered(w)
    BY <2>1, RequestTyped DEF WriteUnanswered, Written, catalog, IInv, Kept, Governed, CatalogOK
  <2>2. CASE ~WriteUnanswered(w)
    BY <2>2 DEF Ending, RefuseIgnored, Pause, NoSuchList, WriteRefused, ModeRefused,
                PersistReplayed, Stop, upstream, catalog, IInv, Kept, Governed, CatalogOK
  <2> QED
    BY <2>1, <2>2
<1> QED
  BY <1>1, <1>2, <1>3, NoGovernance DEF IInv, Kept

\* A call that goes on to its next step preserves the invariant.
LEMMA ProgressIInv ==
  ASSUME IInv, NEW w \in Workers, Prepare(w) \/ WriteConfirmed(w) \/ ModeRead(w)
  PROVE  Kept'
<1>1. Trail'
  BY NoTrail DEF IInv, Kept, Prepare, WriteConfirmed, ModeRead
<1>2. UNCHANGED <<starred, mode, sync>> /\ upStar' \subseteq Repos
  BY RequestTyped DEF Prepare, WriteConfirmed, ModeRead, Written, upstream, catalog,
                      IInv, Kept, Governed, CatalogOK
<1>3. WorkersOK'
  <2>1. CASE Prepare(w)
    <3>1. Desired(w) \in SUBSET Lists
      BY RequestTyped DEF Desired, IInv, Kept, ListsOK
    <3>2. PICK d \in SUBSET Lists :
            worker' = [worker EXCEPT ![w] = [@ EXCEPT !.pc = "write", !.desired = d]]
      BY <2>1, <3>1 DEF Prepare
    <3> QED
      BY ZenonT(40), <3>2 DEF IInv, Kept, WorkersOK, Worker, RequestedMode
  <2>2. CASE WriteConfirmed(w)
    BY <2>2, MoveTyped DEF WriteConfirmed, IInv, Kept
  <2>3. CASE ModeRead(w)
    <3>1. RequestedMode(w) # "auto" /\ mode[RepoOf(w)] \in {NoMode, "auto", "tracked", "ignored"}
      BY <2>3, RequestTyped DEF ModeRead, ModeAcceptable, IInv, Kept, Governed, CatalogOK
    <3> QED
      BY ZenonT(40), <2>3, <3>1 DEF ModeRead, IInv, Kept, WorkersOK, Worker, RequestedMode
  <2> QED
    BY <2>1, <2>2, <2>3
<1> QED
  BY <1>1, <1>2, <1>3, NoGovernance DEF IInv, Kept

\* The transaction of a star or list write preserves the invariant: a confirmed
\* star brings auto governance, a confirmed unstar takes it.
LEMMA PersistIInv ==
  ASSUME IInv, NEW w \in Workers, Persist(w)
  PROVE  Kept'
<1>1. WorkersOK'
  BY MoveTyped DEF Persist, IInv, Kept
<1>2. Trail'
  <2>1. \E o \in {"applied", "already_applied"} : Commit(w, o)
    BY DEF Persist
  <2> QED
    BY <2>1, CommitTrail, RequestTyped DEF Persist, IInv, Kept
<1>3. Governed'
  BY RequestTyped DEF Persist, Converged, StarMode, NoMode, upstream, IInv, Kept, Governed, CatalogOK,
                      AutoMeansStarred
<1> QED
  BY <1>1, <1>2, <1>3 DEF IInv, Kept

\* The transaction of a mode request preserves the invariant.
LEMMA ModeWriteIInv ==
  ASSUME IInv, NEW w \in Workers, ModeWrite(w)
  PROVE  Kept'
<1>1. WorkersOK'
  BY MoveTyped DEF ModeWrite, IInv, Kept
<1>2. Trail'
  <2>1. \E o \in {"applied", "already_applied"} : Commit(w, o)
    BY DEF ModeWrite
  <2> QED
    BY <2>1, CommitTrail, RequestTyped DEF ModeWrite, IInv, Kept
<1>3. RequestedMode(w) # "auto"
  BY DEF ModeWrite, IInv, Kept, WorkersOK
<1>4. Governed'
  BY <1>3, RequestTyped DEF ModeWrite, upstream, IInv, Kept, Governed, CatalogOK, AutoMeansStarred
<1> QED
  BY <1>1, <1>2, <1>4 DEF IInv, Kept

\* Every step preserves the invariant.
LEMMA StepIInv == IInv /\ [Next]_vars => IInv'
<1> SUFFICES ASSUME IInv, [Next]_vars PROVE IInv'
  OBVIOUS
<1>1. CASE Next
  <2>1. Kept'
    BY <1>1, EnvironmentIInv, SubmitIInv, EndingIInv, ProgressIInv, PersistIInv, ModeWriteIInv
       DEF Next, Run, Ending
  <2> QED
    BY <1>1, <2>1, StepListsOK DEF IInv
<1>2. CASE UNCHANGED vars
  <2>1. UNCHANGED <<worker, audit, effects, answers, starred, mode, sync, active, upStar, upLists>>
    BY <1>2 DEF vars, upstream, catalog
  <2>2. WorkersOK' /\ ListsOK'
    BY <2>1 DEF IInv, Kept, WorkersOK, ListsOK, RequestedMode
  <2>3. Trail' /\ Governed'
    BY <2>1, NoTrail, NoGovernance DEF IInv, Kept, Governed, CatalogOK
  <2> QED
    BY <2>2, <2>3 DEF IInv, Kept
<1> QED
  BY <1>1, <1>2

\* The invariant holds in every reachable state.
LEMMA Invariant == Spec => []IInv
BY InitIInv, StepIInv, PTL DEF Spec

\* An idempotency key commits at most one effect, whoever races with it and wherever
\* the calls stop.
THEOREM KeysAreConsumedOnce == Spec => []OneEffectPerKey
BY Invariant, PTL DEF IInv, Kept, Trail

\* Every outcome that a caller was given, replays apart, has its audit row.
THEOREM AnswersAreAudited == Spec => []EveryAnswerIsAudited
BY Invariant, PTL DEF IInv, Kept, Trail

\* A repository is governed as auto only while it is starred.
THEOREM AutoFollowsStar == Spec => []AutoMeansStarred
BY Invariant, PTL DEF IInv, Kept, Governed

\* Only a mode request changes an explicit mode: no star write, list write or swap
\* overrides what the owner has decided.
THEOREM ExplicitModesStay == Spec => ExplicitModesHold
<1> DEFINE Decided == \A r \in Repos : mode[r] \in {"tracked", "ignored"} /\ mode'[r] # mode[r]
                        => \E w \in Workers : worker[w].pc = "modeWrite" /\ RequestedMode(w) = mode'[r]
<1>1. ASSUME IInv, [Next]_vars PROVE [Decided]_vars
  <2>1. CASE UNCHANGED mode
    BY <2>1
  <2>2. CASE SwapStars
    BY <1>1, <2>2 DEF SwapStars, IInv, Kept, Governed, CatalogOK, NoMode
  <2>3. ASSUME NEW w \in Workers, Persist(w) PROVE Decided
    <3>1. mode' = StarMode(w) /\ RepoOf(w) \in Repos
      BY <1>1, <2>3, RequestTyped DEF Persist, Converged, IInv, Kept
    <3>2. \A r \in Repos : mode[r] \in {"tracked", "ignored"} => mode'[r] = mode[r]
      BY <1>1, <3>1 DEF StarMode, IInv, Kept, Governed, CatalogOK, NoMode
    <3> QED
      BY <3>2
  <2>4. ASSUME NEW w \in Workers, ModeWrite(w) PROVE Decided
    BY <1>1, <2>4, RequestTyped DEF ModeWrite, IInv, Kept, Governed, CatalogOK
  <2>5. ASSUME NEW w \in Workers, Run(w), ~Persist(w), ~ModeWrite(w) PROVE UNCHANGED mode
    BY <2>5 DEF Run, RefuseIgnored, Pause, Prepare, NoSuchList, WriteConfirmed, WriteUnanswered,
                WriteRefused, PersistReplayed, ModeRead, ModeRefused, Stop, catalog
  <2>6. CASE Environment /\ ~SwapStars
    BY <2>1, <2>6 DEF Environment, OwnerStars, OwnerFiles, SyncReads, SwapLists, catalog
  <2>7. CASE (\E w \in Workers, q \in Requests : Submit(w, q)) \/ UNCHANGED vars
    BY <2>1, <2>7 DEF Submit, vars, catalog
  <2> QED
    BY <1>1, <2>1, <2>2, <2>3, <2>4, <2>5, <2>6, <2>7 DEF Next
<1> QED
  BY <1>1, Invariant, PTL DEF Spec, ExplicitModesHold
-----------------------------------------------------------------------------
(* The projection drifts from GitHub only where something explains it.     *)

\* The calls on r that hold a confirmed write.
Pending(r) == {w \in Workers : worker[w].pc = "persist" /\ RepoOf(w) = r}

\* Nothing outside one orderly write has changed r, nor will the end of a call that
\* is on its way.
Clean(r) == r \notin disturbed /\ \A w \in Pending(r) : worker[w].overtaken = FALSE

\* What a call that nobody has overtaken checked and read before its write.
Prepared(w) ==
  worker[w].overtaken = FALSE =>
    /\ worker[w].pc \in {"write", "persist"} =>
         /\ KindOf(w) = "star" => mode[RepoOf(w)] # "ignored"
         /\ ListKind(w) => ListTarget(w) \in active /\ worker[w].desired = Desired(w)
    /\ worker[w].pc = "modeWrite" /\ RequestedMode(w) = "ignored" => RepoOf(w) \notin starred

Agree(r) == ((r \in starred) = (r \in upStar)) /\ filedIn[r] = upLists[r]

\* GitHub is ahead of the projection by the confirmed write of w.
Ahead(w) ==
  LET r == RepoOf(w) IN
  /\ KindOf(w) = "star" => r \in upStar
  /\ KindOf(w) = "unstar" => r \notin upStar
  /\ KindOf(w) \notin {"star", "unstar"} => (r \in starred) = (r \in upStar)
  /\ upLists[r] = IF ListKind(w) THEN worker[w].desired ELSE filedIn[r]

Explained(r) ==
  Clean(r) => /\ filedIn[r] \subseteq active
              /\ mode[r] = "ignored" => r \notin starred
              /\ Pending(r) = {} => Agree(r)
              /\ \A w \in Pending(r) : Ahead(w)

Filed == filedIn \in [Repos -> SUBSET Lists]
DInv == Filed /\ (\A w \in Workers : Prepared(w)) /\ \A r \in Repos : Explained(r)

\* Call v stays at its step while the repositories R change.
Stays(v, R) ==
  /\ worker'[v].pc = worker[v].pc /\ worker'[v].request = worker[v].request
  /\ worker'[v].desired = worker[v].desired /\ worker'[v].overtaken \in BOOLEAN
  /\ worker'[v].overtaken = FALSE =>
       worker[v].overtaken = FALSE /\ (worker[v].pc = "idle" \/ RepoOf(v) \notin R)

\* A step that overtakes the calls on R leaves them where they are.
LEMMA OvertakeStays ==
  ASSUME WorkersOK, NEW R, Overtake(R), NEW v \in Workers
  PROVE  Stays(v, R)
<1> DEFINE b == worker[v].overtaken \/ (worker[v].pc # "idle" /\ RepoOf(v) \in R)
<1>1. worker'[v] = [worker[v] EXCEPT !.overtaken = b] /\ b \in BOOLEAN
  BY DEF Overtake, WorkersOK, Worker
<1>2. worker[v].overtaken \in BOOLEAN
  BY DEF WorkersOK, Worker
<1>3. b = FALSE => worker[v].overtaken = FALSE /\ (worker[v].pc = "idle" \/ RepoOf(v) \notin R)
  BY <1>2
<1> HIDE DEF b
<1> QED
  BY SMT, <1>1, <1>3 DEF Stays, WorkersOK, Worker

\* So does the step of another call; its own call is where it went.
LEMMA MoveStays ==
  ASSUME WorkersOK, NEW w \in Workers, NEW pc \in {"idle", "persist"}, NEW R, MoveOver(w, pc, R)
  PROVE  /\ \A v \in Workers \ {w} : Stays(v, R)
         /\ pc = "idle" => worker'[w] = Idle /\ worker'[w].pc = "idle"
         /\ pc = "persist" => /\ worker'[w].pc = "persist"
                              /\ worker'[w].request = worker[w].request
                              /\ worker'[w].desired = worker[w].desired
                              /\ worker'[w].overtaken = worker[w].overtaken
<1>1. ASSUME NEW v \in Workers \ {w} PROVE Stays(v, R)
  <2> DEFINE b == worker[v].overtaken \/ (worker[v].pc # "idle" /\ RepoOf(v) \in R)
  <2>1. worker'[v] = [worker[v] EXCEPT !.overtaken = b] /\ b \in BOOLEAN
    BY DEF MoveOver, WorkersOK, Worker
  <2>2. worker[v].overtaken \in BOOLEAN
    BY DEF WorkersOK, Worker
  <2>3. b = FALSE => worker[v].overtaken = FALSE /\ (worker[v].pc = "idle" \/ RepoOf(v) \notin R)
    BY <2>2
  <2> HIDE DEF b
  <2> QED
    BY SMT, <2>1, <2>3 DEF Stays, WorkersOK, Worker
<1>2. CASE pc = "idle"
  BY <1>1, <1>2, IdleTyped DEF MoveOver
<1>3. CASE pc = "persist"
  BY <1>1, <1>3 DEF MoveOver, WorkersOK, Worker
<1> QED
  BY <1>2, <1>3

\* A step that changes one call leaves the others as they are.
LEMMA ExceptStays ==
  ASSUME WorkersOK, NEW w \in Workers, NEW x, worker' = [worker EXCEPT ![w] = x]
  PROVE  (\A v \in Workers \ {w} : Stays(v, {})) /\ worker'[w] = x
BY DEF WorkersOK, Worker, Stays

\* Call v stays prepared while what it has read stays.
LEMMA StaysPrepared ==
  ASSUME WorkersOK, NEW v \in Workers, NEW R, Stays(v, R), Prepared(v),
         active' = active \/ Repos \subseteq R,
         \A r \in Repos \ R : /\ mode'[r] = mode[r] /\ filedIn'[r] = filedIn[r]
                             /\ (r \in starred') = (r \in starred)
  PROVE  Prepared(v)'
<1>1. RepoOf(v) \in Repos
  BY RequestTyped
<1>2. /\ RepoOf(v)' = RepoOf(v) /\ KindOf(v)' = KindOf(v) /\ ListKind(v)' = ListKind(v)
      /\ ListTarget(v)' = ListTarget(v) /\ RequestedMode(v)' = RequestedMode(v)
  BY DEF Stays, RepoOf, KindOf, ListKind, ListTarget, RequestedMode
<1>3. CASE worker[v].pc = "idle"
  BY <1>3 DEF Stays, Prepared
<1>4. CASE RepoOf(v) \notin R
  <2>1. /\ mode'[RepoOf(v)] = mode[RepoOf(v)] /\ filedIn'[RepoOf(v)] = filedIn[RepoOf(v)]
        /\ (RepoOf(v) \in starred') = (RepoOf(v) \in starred) /\ active' = active
    BY <1>1, <1>4
  <2>2. Desired(v)' = Desired(v)
    BY <1>2, <2>1 DEF Desired
  <2> QED
    BY <1>2, <2>1, <2>2 DEF Stays, Prepared
<1> QED
  BY <1>3, <1>4 DEF Stays, Prepared

\* Repository r stays explained while its rows and the calls that hold a write for
\* it stay.
LEMMA UntouchedExplained ==
  ASSUME NEW r \in Repos, Explained(r), disturbed \subseteq disturbed', active' = active,
         mode'[r] = mode[r], filedIn'[r] = filedIn[r], upLists'[r] = upLists[r],
         (r \in starred') = (r \in starred), (r \in upStar') = (r \in upStar),
         r \in disturbed' \/ Pending(r)' = Pending(r),
         NEW R, \A w \in Pending(r) : w \notin Pending(r)' \/ Stays(w, R)
  PROVE  Explained(r)'
<1> SUFFICES ASSUME Clean(r)' PROVE Explained(r)'
  BY DEF Explained
<1>1. Pending(r)' = Pending(r) /\ Clean(r)
  BY DEF Clean, Stays
<1>2. \A w \in Pending(r) : Ahead(w)'
  BY SMTT(20), <1>1 DEF Explained, Ahead, Pending, Stays, RepoOf, KindOf, ListKind
<1> QED
  BY <1>1, <1>2 DEF Explained, Agree
\* A call that holds a write for r and stays keeps holding it, and no other starts.
LEMMA StaysPending ==
  ASSUME NEW r, NEW R,
         \A v \in Workers : Stays(v, R) \/ (v \notin Pending(r) /\ v \notin Pending(r)')
  PROVE  Pending(r)' = Pending(r) /\ \A w \in Pending(r) : Stays(w, R)
BY DEF Pending, Stays, RepoOf

\* Where every call on r is overtaken, r is clean afterwards only if none of them
\* holds a write.
LEMMA OvertakenIsUnclean ==
  ASSUME NEW r, NEW R, r \in R, NEW w \in Pending(r), Stays(w, R)
  PROVE  ~Clean(r)'
<1>1. worker'[w].pc = "persist" /\ RepoOf(w)' = r /\ w \in Workers
  BY DEF Pending, Stays, RepoOf
<1>2. worker'[w].overtaken # FALSE
  BY DEF Pending, Stays
<1> QED
  BY <1>1, <1>2 DEF Clean, Pending

\* The owner and the snapshots: an edit is on record, and a swap that commits what
\* GitHub holds by then brings the projection back to it.
LEMMA EnvironmentDInv ==
  ASSUME IInv, DInv, Environment
  PROVE  DInv'
<1>0. WorkersOK /\ Filed /\ (\A w \in Workers : Prepared(w)) /\ (\A r \in Repos : Explained(r))
  BY DEF IInv, Kept, DInv
<1>1. ASSUME NEW x \in Repos,
             \/ OwnerStars(x)
             \/ \E l \in Lists : OwnerFiles(x, l)
      PROVE  DInv'
  <2>1. /\ Overtake({x}) /\ disturbed' = disturbed \union {x}
        /\ UNCHANGED <<starred, filedIn, active, mode>>
    BY <1>1 DEF OwnerStars, OwnerFiles, Disturb, catalog
  <2>2. \A r \in Repos \ {x} : upLists'[r] = upLists[r] /\ (r \in upStar') = (r \in upStar)
    BY SMT, <1>1 DEF OwnerStars, OwnerFiles, IInv, ListsOK
  <2>3. \A v \in Workers : Stays(v, {x})
    BY <1>0, <2>1, OvertakeStays
  <2>4. \A v \in Workers : Prepared(v)'
    BY <1>0, <2>1, <2>3, StaysPrepared
  <2>5. ASSUME NEW r \in Repos PROVE Explained(r)'
    <3>1. CASE r = x
      BY <2>1, <3>1 DEF Explained, Clean
    <3>2. CASE r # x
      <4>1. Pending(r)' = Pending(r) /\ \A w \in Pending(r) : Stays(w, {x})
        BY <2>3, StaysPending
      <4> QED
        BY <1>0, <2>1, <2>2, <3>2, <4>1, UntouchedExplained
    <3> QED
      BY <3>1, <3>2
  <2> QED
    BY <1>0, <2>1, <2>4, <2>5 DEF DInv, Filed
<1>2. ASSUME NEW what \in {"stars", "lists"}, SyncReads(what) PROVE DInv'
  <2>1. UNCHANGED <<worker, disturbed, upStar, upLists, starred, filedIn, active, mode>>
    BY <1>2 DEF SyncReads, upstream, catalog
  <2>2. \A v \in Workers : Stays(v, {})
    BY <1>0, <2>1 DEF WorkersOK, Worker, Stays
  <2>3. \A v \in Workers : Prepared(v)'
    BY <1>0, <2>1, <2>2, StaysPrepared
  <2>4. ASSUME NEW r \in Repos PROVE Explained(r)'
    <3>1. Pending(r)' = Pending(r) /\ \A w \in Pending(r) : Stays(w, {})
      BY <2>2, StaysPending
    <3> QED
      BY <1>0, <2>1, <3>1, UntouchedExplained
  <2> QED
    BY <1>0, <2>1, <2>3, <2>4 DEF DInv, Filed
<1>3. CASE SwapStars
  <2>1. /\ Overtake(Repos) /\ starred' = sync.stars
        /\ disturbed' = disturbed \union {r \in Repos : (r \in sync.stars) # (r \in upStar)}
        /\ UNCHANGED <<upStar, upLists, filedIn, active>>
    BY <1>3 DEF SwapStars, Disturb, upstream
  <2>2. \A r \in Repos : mode'[r] = "ignored" => mode[r] = "ignored"
    BY <1>3 DEF SwapStars, IInv, Kept, Governed, CatalogOK, NoMode
  <2>3. \A v \in Workers : Stays(v, Repos)
    BY <1>0, <2>1, OvertakeStays
  <2>4. \A v \in Workers : Prepared(v)'
    BY <1>0, <2>3, StaysPrepared
  <2>5. ASSUME NEW r \in Repos, Clean(r)' PROVE Explained(r)'
    <3>1. Pending(r) = {}
      BY <2>3, <2>5, OvertakenIsUnclean DEF Pending
    <3>2. Pending(r)' = {}
      BY <2>3, <3>1, StaysPending
    <3>3. Clean(r) /\ (r \in sync.stars) = (r \in upStar)
      BY <2>1, <2>5, <3>1 DEF Clean
    <3>4. /\ filedIn[r] \subseteq active /\ filedIn[r] = upLists[r] /\ (r \in starred) = (r \in upStar)
          /\ mode[r] = "ignored" => r \notin starred
      BY <1>0, <3>1, <3>3 DEF Explained, Agree
    <3> QED
      BY <2>1, <2>2, <3>2, <3>3, <3>4 DEF Explained, Agree
  <2> QED
    BY <1>0, <2>1, <2>4, <2>5 DEF DInv, Filed, Explained
<1>4. CASE SwapLists
  <2>1. /\ Overtake(Repos) /\ filedIn' = sync.lists
        /\ active' = UNION {sync.lists[r] : r \in Repos}
        /\ disturbed' = disturbed \union {r \in Repos : sync.lists[r] # upLists[r]}
        /\ UNCHANGED <<upStar, upLists, starred, mode>>
    BY <1>4 DEF SwapLists, Disturb, upstream
  <2>2. Filed'
    BY <2>1 DEF Filed, IInv, ListsOK
  <2>3. \A v \in Workers : Stays(v, Repos)
    BY <1>0, <2>1, OvertakeStays
  <2>4. \A v \in Workers : Prepared(v)'
    BY <1>0, <2>3, StaysPrepared
  <2>5. ASSUME NEW r \in Repos, Clean(r)' PROVE Explained(r)'
    <3>1. Pending(r) = {}
      BY <2>3, <2>5, OvertakenIsUnclean DEF Pending
    <3>2. Pending(r)' = {}
      BY <2>3, <3>1, StaysPending
    <3>3. Clean(r) /\ sync.lists[r] = upLists[r]
      BY <2>1, <2>5, <3>1 DEF Clean
    <3>4. (r \in starred) = (r \in upStar) /\ (mode[r] = "ignored" => r \notin starred)
      BY <1>0, <3>1, <3>3 DEF Explained, Agree
    <3>5. filedIn'[r] \subseteq active'
      BY <2>1
    <3> QED
      BY <2>1, <3>2, <3>3, <3>4, <3>5 DEF Explained, Agree
  <2> QED
    BY <2>2, <2>4, <2>5 DEF DInv, Explained
<1> QED
  BY <1>1, <1>2, <1>3, <1>4 DEF Environment
\* A step of call w that changes no row and no star or list on GitHub: what is left
\* is that w is prepared, and that a write it held is on record if it let go of it.
LEMMA QuietDInv ==
  ASSUME IInv, DInv, NEW w \in Workers, \A v \in Workers \ {w} : Stays(v, {}), Prepared(w)',
         UNCHANGED <<upStar, upLists, starred, filedIn, active, mode>>,
         disturbed \subseteq disturbed', worker'[w].pc # "persist",
         worker[w].pc = "persist" => RepoOf(w) \in disturbed'
  PROVE  DInv'
<1>0. WorkersOK /\ Filed /\ (\A v \in Workers : Prepared(v)) /\ (\A r \in Repos : Explained(r))
  BY DEF IInv, Kept, DInv
<1>1. ASSUME NEW v \in Workers \ {w} PROVE Prepared(v)'
  BY <1>0, StaysPrepared
<1>2. ASSUME NEW r \in Repos PROVE Explained(r)'
  <2>1. CASE r \in disturbed'
    BY <2>1 DEF Explained, Clean
  <2>2. CASE r \notin disturbed'
    <3>1. w \notin Pending(r) /\ w \notin Pending(r)'
      BY <2>2 DEF Pending
    <3>2. Pending(r)' = Pending(r) /\ \A v \in Pending(r) : Stays(v, {})
      BY <3>1, StaysPending
    <3> QED
      BY <1>0, <3>2, UntouchedExplained
  <2> QED
    BY <2>1, <2>2
<1> QED
  BY <1>0, <1>1, <1>2 DEF DInv, Filed

\* Other repositories than the one of w, in a step of w.
LEMMA OthersExplained ==
  ASSUME IInv, DInv, NEW w \in Workers, \A v \in Workers \ {w} : Stays(v, {RepoOf(w)}),
         worker'[w].pc = "idle" \/ worker'[w].request = worker[w].request,
         NEW r \in Repos \ {RepoOf(w)}, active' = active, disturbed \subseteq disturbed',
         mode'[r] = mode[r], filedIn'[r] = filedIn[r], upLists'[r] = upLists[r],
         (r \in starred') = (r \in starred), (r \in upStar') = (r \in upStar)
  PROVE  Explained(r)'
<1>1. w \notin Pending(r) /\ w \notin Pending(r)'
  BY DEF Pending, RepoOf
<1>2. Pending(r)' = Pending(r) /\ \A v \in Pending(r) : Stays(v, {RepoOf(w)})
  BY <1>1, StaysPending
<1> QED
  BY <1>2, UntouchedExplained DEF DInv

\* A call that comes in, or ends without a change, or checks, or reads.
LEMMA QuietStepDInv ==
  ASSUME IInv, DInv, NEW w \in Workers,
         \/ \E q \in Requests : Submit(w, q)
         \/ RefuseIgnored(w) \/ Pause(w) \/ NoSuchList(w) \/ WriteRefused(w) \/ ModeRefused(w)
         \/ PersistReplayed(w) \/ Stop(w) \/ Prepare(w) \/ ModeRead(w)
  PROVE  DInv'
<1>0. WorkersOK
  BY DEF IInv, Kept
<1>1. ASSUME NEW q \in Requests, Submit(w, q) PROVE DInv'
  <2>1. /\ UNCHANGED <<upStar, upLists, starred, filedIn, active, mode, disturbed>>
        /\ worker[w].pc = "idle"
    BY <1>1 DEF Submit, upstream, catalog
  <2>2. PICK x : worker' = [worker EXCEPT ![w] = x] /\ x.pc \in {"idle", "check", "modeRead"}
    <3>1. CASE ~Authorized(q) \/ SuccessfulOutcomeExists(q.key)
      BY <1>1, <3>1, IdleTyped DEF Submit
    <3>2. CASE ~(~Authorized(q) \/ SuccessfulOutcomeExists(q.key))
      <4>1. PICK pc \in {"modeRead", "check"} : worker' = [worker EXCEPT ![w] = [Blank(q) EXCEPT !.pc = pc]]
        BY <1>1, <3>2 DEF Submit
      <4>2. [Blank(q) EXCEPT !.pc = pc].pc = pc
        BY DEF Blank
      <4> QED
        BY <4>1, <4>2
    <3> QED
      BY <3>1, <3>2
  <2>3. (\A v \in Workers \ {w} : Stays(v, {})) /\ worker'[w] = x
    BY <1>0, <2>2, ExceptStays
  <2>4. Prepared(w)'
    BY <2>2, <2>3 DEF Prepared
  <2> QED
    BY <2>1, <2>2, <2>3, <2>4, QuietDInv
<1>2. CASE \/ RefuseIgnored(w) \/ Pause(w) \/ NoSuchList(w) \/ WriteRefused(w) \/ ModeRefused(w)
           \/ PersistReplayed(w) \/ Stop(w)
  <2>1. MoveOver(w, "idle", {})
    BY <1>2 DEF RefuseIgnored, Pause, NoSuchList, WriteRefused, ModeRefused, PersistReplayed, Stop, Move
  <2>2. /\ UNCHANGED <<upStar, upLists, starred, filedIn, active, mode>>
        /\ disturbed \subseteq disturbed'
        /\ worker[w].pc = "persist" => RepoOf(w) \in disturbed'
    BY <1>2 DEF RefuseIgnored, Pause, NoSuchList, WriteRefused, ModeRefused, PersistReplayed, Stop,
                upstream, catalog, Disturb
  <2>3. (\A v \in Workers \ {w} : Stays(v, {})) /\ worker'[w].pc = "idle"
    BY <1>0, <2>1, MoveStays
  <2>4. Prepared(w)'
    BY <2>3 DEF Prepared
  <2> QED
    BY <2>2, <2>3, <2>4, QuietDInv
<1>3. CASE Prepare(w)
  <2>1. PICK d : /\ worker' = [worker EXCEPT ![w] = [worker[w] EXCEPT !.pc = "write", !.desired = d]]
                 /\ ListKind(w) => d = Desired(w)
    BY <1>3 DEF Prepare
  <2>2. /\ UNCHANGED <<upStar, upLists, starred, filedIn, active, mode, disturbed>>
        /\ worker[w].pc = "check" /\ ~IgnoredStarConflict(w)
        /\ ListKind(w) => ListTarget(w) \in active
    BY <1>3 DEF Prepare, upstream, catalog
  <2>3. \A v \in Workers \ {w} : Stays(v, {})
    BY <1>0, <2>1, ExceptStays
  <2>4. /\ worker'[w].pc = "write" /\ worker'[w].request = worker[w].request
        /\ worker'[w].desired = d
    BY <1>0, <2>1 DEF WorkersOK, Worker
  <2>5. Desired(w)' = Desired(w)
    BY <2>2, <2>4 DEF Desired, RepoOf, KindOf, ListTarget
  <2>6. Prepared(w)'
    BY SMT, <2>1, <2>2, <2>4, <2>5 DEF Prepared, IgnoredStarConflict, RepoOf, KindOf, ListKind, ListTarget
  <2> QED
    BY <2>2, <2>3, <2>4, <2>6, QuietDInv
<1>4. CASE ModeRead(w)
  <2>1. worker' = [worker EXCEPT ![w] = [worker[w] EXCEPT !.pc = "modeWrite", !.current = mode[RepoOf(w)]]]
    BY <1>4 DEF ModeRead
  <2>2. /\ UNCHANGED <<upStar, upLists, starred, filedIn, active, mode, disturbed>>
        /\ worker[w].pc = "modeRead" /\ ModeAcceptable(w)
    BY <1>4 DEF ModeRead, upstream, catalog
  <2>3. \A v \in Workers \ {w} : Stays(v, {})
    BY <1>0, <2>1, ExceptStays
  <2>4. worker'[w].pc = "modeWrite" /\ worker'[w].request = worker[w].request
    BY <1>0, <2>1 DEF WorkersOK, Worker
  <2>5. Prepared(w)'
    BY <2>2, <2>4 DEF Prepared, ModeAcceptable, RepoOf, RequestedMode
  <2> QED
    BY <2>2, <2>3, <2>4, <2>5, QuietDInv
<1> QED
  BY <1>1, <1>2, <1>3, <1>4
\* A write on GitHub: one that nobody overtook puts GitHub ahead of the projection
\* by exactly that write, and one whose reply is lost is on record.
LEMMA WriteDInv ==
  ASSUME IInv, DInv, NEW w \in Workers, WriteConfirmed(w) \/ WriteUnanswered(w)
  PROVE  DInv'
<1>r. PICK r0 \in Repos : r0 = RepoOf(w)
  BY RequestTyped DEF IInv, Kept
<1>0. /\ WorkersOK /\ Filed /\ (\A v \in Workers : Prepared(v)) /\ (\A r \in Repos : Explained(r))
      /\ upLists \in [Repos -> SUBSET Lists]
  BY DEF IInv, Kept, DInv, ListsOK
<1>1. PICK pc \in {"persist", "idle"} :
        /\ worker[w].pc = "write" /\ Written(w) /\ MoveOver(w, pc, {r0})
        /\ UNCHANGED <<starred, filedIn, active, mode>> /\ disturbed \subseteq disturbed'
        /\ pc = "idle" \/ worker[w].overtaken # FALSE => r0 \in disturbed'
  BY <1>r, <1>0 DEF WriteConfirmed, WriteUnanswered, Disturb, catalog, WorkersOK, Worker
<1>2. /\ \A r \in Repos \ {r0} : upLists'[r] = upLists[r] /\ (r \in upStar') = (r \in upStar)
      /\ KindOf(w) = "star" => r0 \in upStar'
      /\ KindOf(w) = "unstar" => r0 \notin upStar'
      /\ KindOf(w) \notin {"star", "unstar"} => upStar' = upStar
      /\ upLists'[r0] = IF ListKind(w) THEN worker[w].desired ELSE upLists[r0]
  BY SMT, <1>r, <1>0, <1>1 DEF Written
<1>3. /\ \A v \in Workers \ {w} : Stays(v, {r0})
      /\ pc = "idle" => worker'[w].pc = "idle"
      /\ pc = "persist" => /\ worker'[w].pc = "persist" /\ worker'[w].request = worker[w].request
                           /\ worker'[w].desired = worker[w].desired
                           /\ worker'[w].overtaken = worker[w].overtaken
  BY ZenonT(40), <1>0, <1>1, MoveStays
<1>4. \A v \in Workers \ {w} : Prepared(v)'
  BY <1>0, <1>1, <1>3, StaysPrepared
<1>5. Prepared(w)'
  <2>1. CASE pc = "idle"
    BY <1>3, <2>1 DEF Prepared
  <2>2. CASE pc = "persist"
    <3>1. Desired(w)' = Desired(w)
      BY <1>1, <1>3, <2>2 DEF Desired, RepoOf, KindOf, ListTarget
    <3> QED
      BY <1>0, <1>1, <1>3, <2>2, <3>1 DEF Prepared, RepoOf, KindOf, ListKind, ListTarget
  <2> QED
    BY <2>1, <2>2
<1>6. ASSUME NEW r \in Repos \ {r0} PROVE Explained(r)'
  BY <1>r, <1>1, <1>2, <1>3, OthersExplained
<1>7. ASSUME Clean(r0)' PROVE Explained(r0)'
  <2>1. pc = "persist" /\ worker[w].overtaken = FALSE
    BY <1>1, <1>7 DEF Clean
  <2>2. Pending(r0) = {}
    <3>1. ASSUME NEW v \in Pending(r0) PROVE FALSE
      <4>1. v \in Workers \ {w}
        BY <1>1 DEF Pending
      <4> QED
        BY <1>3, <1>7, <4>1, OvertakenIsUnclean
    <3> QED
      BY <3>1
  <2>3. Clean(r0)
    BY <1>1, <1>7, <2>2 DEF Clean
  <2>4. Agree(r0) /\ filedIn[r0] \subseteq active /\ (mode[r0] = "ignored" => r0 \notin starred)
    BY <1>0, <2>2, <2>3 DEF Explained
  <2>5. Pending(r0)' \subseteq {w} /\ w \in Pending(r0)'
    BY <1>r, <1>3, <2>1, <2>2 DEF Pending, Stays, RepoOf
  <2>6. Ahead(w)'
    BY <1>r, <1>1, <1>2, <1>3, <2>1, <2>4 DEF Ahead, Agree, RepoOf, KindOf, ListKind
  <2> QED
    BY <1>1, <2>4, <2>5, <2>6 DEF Explained
<1> QED
  BY <1>0, <1>1, <1>4, <1>5, <1>6, <1>7 DEF DInv, Filed, Explained

\* The transaction of a write that nobody overtook brings the projection to what
\* GitHub holds: the rest of the repository's lists is what was written with it.
LEMMA PersistDInv ==
  ASSUME IInv, DInv, NEW w \in Workers, Persist(w)
  PROVE  DInv'
<1>r. PICK r0 \in Repos : r0 = RepoOf(w)
  BY RequestTyped DEF IInv, Kept
<1>0. /\ WorkersOK /\ Filed /\ (\A v \in Workers : Prepared(v)) /\ (\A r \in Repos : Explained(r))
      /\ ListTarget(w) \in Lists
      /\ mode \in [Repos -> {NoMode, "auto", "tracked", "ignored"}]
  BY RequestTyped DEF IInv, Kept, DInv, Governed, CatalogOK
<1>1. /\ worker[w].pc = "persist" /\ Converged(w) /\ MoveOver(w, "idle", {r0})
      /\ UNCHANGED <<upStar, upLists>> /\ disturbed \subseteq disturbed'
      /\ worker[w].overtaken # FALSE => r0 \in disturbed'
  BY <1>r, <1>0 DEF Persist, Disturb, upstream, WorkersOK, Worker
<1>2. /\ active' = active
      /\ \A r \in Repos \ {r0} : /\ mode'[r] = mode[r] /\ filedIn'[r] = filedIn[r]
                                 /\ (r \in starred') = (r \in starred)
  BY SMT, <1>r, <1>0, <1>1 DEF Converged, StarMode, Filed
<1>3. /\ KindOf(w) = "star" => r0 \in starred' /\ (mode'[r0] = "ignored" => mode[r0] = "ignored")
      /\ KindOf(w) = "unstar" => r0 \notin starred'
      /\ KindOf(w) \notin {"star", "unstar"} => UNCHANGED <<starred, mode>>
  BY <1>r, <1>0, <1>1 DEF Converged, StarMode, NoMode
<1>4. /\ KindOf(w) = "list_member_add" => filedIn'[r0] = filedIn[r0] \union {ListTarget(w)}
      /\ KindOf(w) = "list_member_remove" => filedIn'[r0] = filedIn[r0] \ {ListTarget(w)}
      /\ ~ListKind(w) => filedIn'[r0] = filedIn[r0]
  BY <1>r, <1>0, <1>1 DEF Converged, Filed, ListKind
<1>5. Filed'
  BY <1>r, <1>0, <1>1 DEF Converged, Filed
<1>6. (\A v \in Workers \ {w} : Stays(v, {r0})) /\ worker'[w].pc = "idle"
  BY <1>0, <1>1, MoveStays
<1>7. \A v \in Workers : Prepared(v)'
  <2>1. \A v \in Workers \ {w} : Prepared(v)'
    BY <1>0, <1>2, <1>6, StaysPrepared
  <2>2. Prepared(w)'
    BY <1>6 DEF Prepared
  <2> QED
    BY <2>1, <2>2
<1>8. ASSUME NEW r \in Repos \ {r0} PROVE Explained(r)'
  BY <1>r, <1>1, <1>2, <1>6, OthersExplained
<1>9. ASSUME Clean(r0)' PROVE Explained(r0)'
  <2>1. worker[w].overtaken = FALSE /\ w \in Pending(r0)
    BY <1>r, <1>1, <1>9 DEF Clean, Pending
  <2>2. Pending(r0) \subseteq {w}
    BY <1>6, <1>9, OvertakenIsUnclean DEF Pending
  <2>3. Clean(r0) /\ Pending(r0)' = {}
    BY SMT, <1>1, <1>6, <1>9, <2>1, <2>2 DEF Clean, Pending, Stays, RepoOf
  <2>4. Ahead(w) /\ filedIn[r0] \subseteq active /\ (mode[r0] = "ignored" => r0 \notin starred)
    BY <1>0, <2>1, <2>3 DEF Explained
  <2>5. /\ KindOf(w) = "star" => mode[r0] # "ignored"
        /\ ListKind(w) => ListTarget(w) \in active /\ worker[w].desired = Desired(w)
    BY <1>r, <1>0, <1>1, <2>1 DEF Prepared
  <2>6. filedIn'[r0] = upLists[r0]
    BY <1>r, <1>4, <2>4, <2>5 DEF Ahead, ListKind, Desired
  <2>7. filedIn'[r0] \subseteq active
    BY <1>4, <2>4, <2>5 DEF ListKind
  <2>8. (r0 \in starred') = (r0 \in upStar)
    BY SMT, <1>r, <1>3, <2>4 DEF Ahead
  <2>9. mode'[r0] = "ignored" => r0 \notin starred'
    BY <1>3, <2>4, <2>5
  <2> QED
    BY <1>1, <1>2, <2>3, <2>6, <2>7, <2>8, <2>9 DEF Explained, Agree
<1> QED
  BY <1>5, <1>7, <1>8, <1>9 DEF DInv, Explained
\* The transaction of a mode request that nobody overtook finds the star as it was
\* checked.
LEMMA ModeWriteDInv ==
  ASSUME IInv, DInv, NEW w \in Workers, ModeWrite(w)
  PROVE  DInv'
<1>r. PICK r0 \in Repos : r0 = RepoOf(w)
  BY RequestTyped DEF IInv, Kept
<1>0. /\ WorkersOK /\ Filed /\ (\A v \in Workers : Prepared(v)) /\ (\A r \in Repos : Explained(r))
      /\ mode \in [Repos -> {NoMode, "auto", "tracked", "ignored"}]
  BY DEF IInv, Kept, DInv, Governed, CatalogOK
<1>1. /\ worker[w].pc = "modeWrite" /\ MoveOver(w, "idle", {r0})
      /\ UNCHANGED <<upStar, upLists, starred, filedIn, active>> /\ disturbed \subseteq disturbed'
      /\ worker[w].overtaken # FALSE => r0 \in disturbed'
  BY <1>r, <1>0 DEF ModeWrite, Disturb, upstream, WorkersOK, Worker
<1>2. /\ \A r \in Repos \ {r0} : mode'[r] = mode[r]
      /\ mode'[r0] = mode[r0] \/ mode'[r0] = RequestedMode(w)
  BY <1>r, <1>0 DEF ModeWrite
<1>3. (\A v \in Workers \ {w} : Stays(v, {r0})) /\ worker'[w].pc = "idle"
  BY <1>0, <1>1, MoveStays
<1>4. \A v \in Workers : Prepared(v)'
  <2>1. \A v \in Workers \ {w} : Prepared(v)'
    BY <1>0, <1>1, <1>2, <1>3, StaysPrepared
  <2>2. Prepared(w)'
    BY <1>3 DEF Prepared
  <2> QED
    BY <2>1, <2>2
<1>5. ASSUME NEW r \in Repos \ {r0} PROVE Explained(r)'
  BY <1>r, <1>1, <1>2, <1>3, OthersExplained
<1>6. ASSUME Clean(r0)' PROVE Explained(r0)'
  <2>1. worker[w].overtaken = FALSE
    BY <1>1, <1>6 DEF Clean
  <2>2. Pending(r0) = {}
    <3>1. ASSUME NEW v \in Pending(r0) PROVE FALSE
      <4>1. v \in Workers \ {w}
        BY <1>1 DEF Pending
      <4> QED
        BY <1>3, <1>6, <4>1, OvertakenIsUnclean
    <3> QED
      BY <3>1
  <2>3. Clean(r0) /\ Pending(r0)' = {}
    BY SMT, <1>1, <1>3, <1>6, <2>2 DEF Clean, Pending, Stays, RepoOf
  <2>4. Agree(r0) /\ filedIn[r0] \subseteq active /\ (mode[r0] = "ignored" => r0 \notin starred)
    BY <1>0, <2>2, <2>3 DEF Explained
  <2>5. RequestedMode(w) = "ignored" => r0 \notin starred
    BY <1>r, <1>0, <1>1, <2>1 DEF Prepared
  <2> QED
    BY <1>1, <1>2, <2>3, <2>4, <2>5 DEF Explained, Agree
<1> QED
  BY <1>0, <1>1, <1>4, <1>5, <1>6 DEF DInv, Filed, Explained

\* The explanation of every drift holds in every reachable state.
LEMMA DriftInvariant == Spec => []DInv
<1>1. Init => DInv
  <2> SUFFICES ASSUME Init PROVE DInv
    OBVIOUS
  <2>1. Filed
    BY MutationConstants DEF Init, Filed
  <2>2. \A w \in Workers : worker[w].pc = "idle"
    BY IdleTyped DEF Init
  <2>3. \A w \in Workers : Prepared(w)
    BY <2>2 DEF Prepared
  <2>4. ASSUME NEW r \in Repos PROVE Explained(r)
    <3>1. Pending(r) = {}
      BY <2>2 DEF Pending
    <3>2. Agree(r) /\ filedIn[r] \subseteq active /\ (mode[r] = "ignored" => r \notin starred)
      BY MutationConstants DEF Init, Agree, NoMode
    <3> QED
      BY <3>1, <3>2 DEF Explained
  <2> QED
    BY <2>1, <2>3, <2>4 DEF DInv
<1>2. IInv /\ DInv /\ [Next]_vars => DInv'
  <2> SUFFICES ASSUME IInv, DInv, [Next]_vars PROVE DInv'
    OBVIOUS
  <2>1. CASE Next
    BY <2>1, EnvironmentDInv, QuietStepDInv, WriteDInv, PersistDInv, ModeWriteDInv DEF Next, Run
  <2>2. CASE UNCHANGED vars
    <3>1. UNCHANGED <<worker, disturbed, upStar, upLists, starred, filedIn, active, mode>>
      BY <2>2 DEF vars, upstream, catalog
    <3>2. \A v \in Workers : Prepared(v)'
      BY <3>1 DEF DInv, Prepared, Desired, RepoOf, KindOf, ListKind, ListTarget, RequestedMode
    <3>3. \A r \in Repos : Explained(r)'
      BY SMT, <3>1 DEF DInv, Explained, Clean, Pending, Agree, Ahead, RepoOf, KindOf, ListKind
    <3> QED
      BY <3>1, <3>2, <3>3 DEF DInv, Filed
  <2> QED
    BY <2>1, <2>2
<1> QED
  BY <1>1, <1>2, Invariant, PTL DEF Spec

\* A repository without a write in flight has no pending call.
LEMMA SettledIsNotPending ==
  ASSUME DInv, NEW r \in Repos \ disturbed, Settled(r)
  PROVE  Agree(r) /\ (mode[r] = "ignored" => r \notin starred)
<1>1. Pending(r) = {}
  BY DEF Settled, Pending
<1> QED
  BY <1>1 DEF DInv, Explained, Clean

\* The projection and GitHub agree on the star and on every list of a repository
\* unless an edit, a lost reply or transaction, an overtaken write or an earlier
\* read explains the difference.
THEOREM DriftIsExplained == Spec => []NoUnexplainedDrift
<1>1. DInv => NoUnexplainedDrift
  BY SettledIsNotPending DEF NoUnexplainedDrift, Agree
<1> QED
  BY <1>1, DriftInvariant, PTL

\* With the same exceptions an ignored repository is not starred: the check before
\* the star write and the check before the mode write exclude each other.
THEOREM IgnoredStaysUnstarred == Spec => []IgnoredMeansUnstarred
<1>1. DInv => IgnoredMeansUnstarred
  BY SettledIsNotPending DEF IgnoredMeansUnstarred
<1> QED
  BY <1>1, DriftInvariant, PTL
-----------------------------------------------------------------------------
(* Repository actions.                                                     *)

ActPc == {"idle", "refusal", "fetch", "record", "track", "credential", "mutation", "complete"}

ATyped ==
  /\ attempt \in [ActionKeys -> Attempt]
  /\ act \in [Workers -> [pc : ActPc, action : Actions, result : Result]]
  /\ replies \in [ActionKeys -> SUBSET Result]
  /\ writes \in [ActionKeys -> Nat]

\* What a result says of the star is true of the provider.
Truth(k, result) ==
  /\ result.star = "succeeded" => k \in confirmed
  /\ result.star \in {"refused", "skipped"} => writes[k] = 0

\* An execution holds the claim on its key: nothing was answered yet, and GitHub has
\* written nothing for it until its mutation does.
Executing(w) ==
  LET k == ActionKey(w) IN
  /\ attempt[k].status = "in_progress" /\ replies[k] = {}
  /\ act[w].pc \in {"credential", "mutation"} => act[w].action.mode = "star"
  /\ act[w].pc = "mutation" => worker[w].pc \in {"check", "write", "persist"}
  /\ act[w].pc \notin {"mutation", "complete"} => writes[k] = 0 /\ act[w].result.star = "skipped"
  /\ worker[w].pc \in {"check", "write"} => writes[k] = 0
  /\ worker[w].pc = "persist" => k \in confirmed
  /\ act[w].pc = "complete" => Truth(k, act[w].result)

\* The row of a key, and what was answered and written for it.
RowOK(k) ==
  /\ attempt[k].status = "absent" => writes[k] = 0 /\ replies[k] = {}
  /\ attempt[k].status = "completed" => replies[k] = {attempt[k].result}
  /\ writes[k] <= 1
  /\ \A x, y \in replies[k] : x = y
  /\ \A x \in replies[k] : Truth(k, x)

\* A call of a mutation belongs to an action, and a claim has one execution.
Linked ==
  /\ \A w \in Workers : worker[w].pc # "idle" => act[w].pc = "mutation"
  /\ \A v, w \in Workers : /\ act[v].pc # "idle" /\ act[w].pc # "idle"
                            /\ ActionKey(v) = ActionKey(w)
                            => v = w

AInv ==
  /\ ATyped /\ Linked
  /\ \A w \in Workers : act[w].pc # "idle" => Executing(w)
  /\ \A k \in ActionKeys : RowOK(k)

\* The state of a caller without an action, and a result before its end.
LEMMA NoActTyped ==
  /\ NoAct \in [pc : ActPc, action : Actions, result : Result] /\ NoAct.pc = "idle"
  /\ NoAttempt \in Attempt
  /\ Unfinished \in Result /\ Unfinished.star = "skipped"
<1>1. AnyAction \in Actions
  BY ActionConstants DEF AnyAction
<1>2. Unfinished \in Result /\ Unfinished.star = "skipped"
  BY DEF Unfinished, Answered, Result
<1> QED
  BY <1>1, <1>2 DEF NoAct, NoAttempt, Attempt, ActPc

\* An action's key is one of the keys, and its mode one of the modes.
LEMMA ActionTyped ==
  ASSUME ATyped, NEW w \in Workers
  PROVE  /\ ActionKey(w) \in ActionKeys /\ act[w].action \in Actions
         /\ act[w].action.mode \in Modes /\ act[w].action.repo \in Repos
<1>1. act[w].action \in Actions
  BY DEF ATyped
<1> QED
  BY <1>1, ActionConstants DEF ActionKeys, ActionKey

\* The mutation that a star action asks for exists.
LEMMA StarRequestTyped ==
  ASSUME NEW a \in Actions, a.mode = "star"
  PROVE  StarRequest(a) \in Requests /\ StarRequest(a).kind = "star"
BY ActionConstants DEF StarRequest

\* The initial state satisfies the invariant.
LEMMA InitAInv == ActionsInit => AInv
<1> SUFFICES ASSUME ActionsInit PROVE AInv
  OBVIOUS
<1>1. ATyped
  BY NoActTyped DEF ActionsInit, ATyped
<1>2. \A w \in Workers : worker[w].pc = "idle" /\ act[w].pc = "idle"
  BY IdleTyped, NoActTyped DEF ActionsInit, Init
<1>3. \A k \in ActionKeys : RowOK(k)
  BY SMT DEF ActionsInit, NoAttempt, RowOK
<1> QED
  BY <1>1, <1>2, <1>3 DEF AInv, Linked

\* A step of the execution of w that leaves the rows and answers alone and writes, if
\* at all, for its own key.
LEMMA ExecutionAInv ==
  ASSUME AInv, NEW w \in Workers, act[w].pc # "idle", ATyped',
         \A v \in Workers \ {w} : act'[v] = act[v] /\ worker'[v].pc = worker[v].pc,
         UNCHANGED <<attempt, replies>>,
         \A k \in ActionKeys \ {ActionKey(w)} : writes'[k] = writes[k],
         confirmed \subseteq confirmed', writes'[ActionKey(w)] <= 1,
         worker'[w].pc # "idle" => act'[w].pc = "mutation",
         act'[w].pc # "idle" => act'[w].action = act[w].action /\ Executing(w)'
  PROVE  AInv'
<1>0. ATyped /\ Linked /\ Executing(w) /\ ActionKey(w) \in ActionKeys
  BY ActionTyped DEF AInv
<1>1. Linked'
  BY SMT, <1>0 DEF Linked, ActionKey
<1>2. ASSUME NEW v \in Workers, act'[v].pc # "idle" PROVE Executing(v)'
  <2>1. CASE v = w
    BY <1>2, <2>1
  <2>2. CASE v # w
    <3>1. act'[v] = act[v] /\ worker'[v].pc = worker[v].pc
      BY <2>2
    <3>2. ActionKey(v) \in ActionKeys \ {ActionKey(w)} /\ Executing(v) /\ ActionKey(v)' = ActionKey(v)
      BY <1>0, <1>2, <2>2, <3>1, ActionTyped DEF AInv, Linked, ActionKey
    <3>3. writes'[ActionKey(v)] = writes[ActionKey(v)]
      BY <3>2
    <3> QED
      BY <3>1, <3>2, <3>3 DEF Executing, Truth
  <2> QED
    BY <2>1, <2>2
<1>3. ASSUME NEW k \in ActionKeys PROVE RowOK(k)'
  <2>1. CASE k = ActionKey(w)
    BY <1>0, <2>1 DEF Executing, RowOK
  <2>2. CASE k # ActionKey(w)
    BY SMT, <1>3, <2>2 DEF AInv, RowOK, Truth
  <2> QED
    BY <2>1, <2>2
<1> QED
  BY <1>1, <1>2, <1>3 DEF AInv
\* What Proceed changes.
LEMMA ProceedActs ==
  ASSUME ATyped, NEW w \in Workers, NEW pc, NEW next \in ActPc, NEW r \in Result,
         Proceed(w, pc, next, r)
  PROVE  /\ act[w].pc = pc /\ UNCHANGED <<attempt, replies>>
         /\ act' \in [Workers -> [pc : ActPc, action : Actions, result : Result]]
         /\ act'[w].pc = next /\ act'[w].action = act[w].action /\ act'[w].result = r
         /\ \A v \in Workers \ {w} : act'[v] = act[v]
BY DEF ATyped, Proceed

\* A step before the mutation, or one that ends the action without it.
LEMMA BeforeAInv ==
  ASSUME AInv, NEW w \in Workers, NEW pc \in ActPc \ {"idle", "mutation", "complete"},
         NEW next \in ActPc \ {"idle", "mutation"}, NEW r \in Result, Proceed(w, pc, next, r),
         \A v \in Workers : worker'[v].pc = worker[v].pc, UNCHANGED <<writes, confirmed>>,
         r.star \in {"skipped", "refused", "failed"}, next # "complete" => r.star = "skipped",
         next = "credential" => act[w].action.mode = "star"
  PROVE  AInv'
<1>1. /\ act[w].pc = pc /\ UNCHANGED <<attempt, replies>>
      /\ act' \in [Workers -> [pc : ActPc, action : Actions, result : Result]]
      /\ act'[w].pc = next /\ act'[w].action = act[w].action /\ act'[w].result = r
      /\ \A v \in Workers \ {w} : act'[v] = act[v]
  BY ProceedActs DEF AInv
<1>2. /\ ATyped' /\ ActionKey(w) \in ActionKeys /\ Executing(w) /\ worker[w].pc = "idle"
      /\ writes[ActionKey(w)] <= 1
  BY <1>1, ActionTyped DEF AInv, ATyped, Linked, RowOK
<1>3. ActionKey(w)' = ActionKey(w)
  BY <1>1 DEF ActionKey
<1>4. Executing(w)'
  BY <1>1, <1>2, <1>3 DEF Executing, Truth
<1> QED
  BY <1>1, <1>2, <1>4, ExecutionAInv

\* The steps around the mutation: the star refusal, the metadata, the tracking.
LEMMA AroundAInv ==
  ASSUME IInv, AInv, NEW w \in Workers,
         \/ StarRefused(w) \/ StarAccepted(w)
         \/ \E o \in {"failed", "refused"} : FetchStops(w, o)
         \/ Fetched(w) \/ RecordStops(w)
         \/ \E o \in {"succeeded", "already_applied"} : Recorded(w, o)
         \/ Track(w) \/ TrackFails(w) \/ NoCredential(w)
  PROVE  AInv'
<1>0. ATyped /\ act[w].result \in Result /\ act[w].action.mode \in Modes
  BY ActionTyped DEF AInv, ATyped
<1>1. Quiet => UNCHANGED <<writes, confirmed>> /\ \A v \in Workers : worker'[v].pc = worker[v].pc
  BY DEF Quiet, vars
<1>2. \A m, x \in {"succeeded", "already_applied", "failed", "refused", "skipped"} :
        Answered(m, x, "skipped") \in Result /\ Answered(m, x, "skipped").star = x
  BY DEF Answered, Result
<1>3. CASE StarRefused(w)
  BY <1>1, <1>2, <1>3, BeforeAInv DEF StarRefused, ActPc
<1>4. CASE StarAccepted(w)
  BY <1>1, <1>4, NoActTyped, BeforeAInv DEF StarAccepted, ActPc
<1>5. ASSUME NEW o \in {"failed", "refused"}, FetchStops(w, o) PROVE AInv'
  BY <1>1, <1>2, <1>5, BeforeAInv DEF FetchStops, ActPc
<1>6. CASE Fetched(w)
  BY <1>1, <1>6, NoActTyped, BeforeAInv DEF Fetched, ActPc
<1>7. CASE RecordStops(w)
  BY <1>1, <1>2, <1>7, BeforeAInv DEF RecordStops, ActPc
<1>8. ASSUME NEW o \in {"succeeded", "already_applied"}, Recorded(w, o) PROVE AInv'
  <2>1. PICK next \in {"complete", "track", "credential"} :
          /\ Proceed(w, "record", next, Answered(o, "skipped", "skipped"))
          /\ next = "credential" => act[w].action.mode = "star"
    BY <1>0, <1>8 DEF Recorded, Modes
  <2>2. Answered(o, "skipped", "skipped") \in Result /\ Answered(o, "skipped", "skipped").star = "skipped"
    BY <1>2
  <2>3. UNCHANGED <<writes, confirmed>> /\ \A v \in Workers : worker'[v].pc = worker[v].pc
    BY <1>1, <1>8 DEF Recorded
  <2> QED
    BY <2>1, <2>2, <2>3, BeforeAInv DEF ActPc
<1>9. CASE Track(w) \/ TrackFails(w)
  <2>1. act[w].pc = "track" /\ UNCHANGED <<writes, confirmed>>
    BY <1>9 DEF Track, TrackFails, Proceed, Quiet
  <2>2. act[w].result.star = "skipped"
    BY <2>1 DEF AInv, Executing
  <2>3. PICK b \in {"accepted", "already_applied", "failed"} :
          Proceed(w, "track", "complete", [act[w].result EXCEPT !.backup = b])
    BY <1>9 DEF Track, TrackFails
  <2>4. [act[w].result EXCEPT !.backup = b] \in Result /\ [act[w].result EXCEPT !.backup = b].star = "skipped"
    BY <1>0, <2>2 DEF Result
  <2>5. \A v \in Workers : worker'[v].pc = worker[v].pc
    BY <1>1, <1>9, OvertakeStays DEF Track, TrackFails, Stays, IInv, Kept
  <2> QED
    BY <2>1, <2>3, <2>4, <2>5, BeforeAInv DEF ActPc
<1>10. CASE NoCredential(w)
  <2>1. [act[w].result EXCEPT !.star = "failed"] \in Result
        /\ [act[w].result EXCEPT !.star = "failed"].star = "failed"
    BY <1>0 DEF Result
  <2> QED
    BY <1>1, <1>10, <2>1, BeforeAInv DEF NoCredential, ActPc
<1> QED
  BY <1>3, <1>4, <1>5, <1>6, <1>7, <1>8, <1>9, <1>10

\* The answer t once the mutation has ended with star x and policy b.
StarAnswer(t, x, b) == [t EXCEPT !.star = x, !.backup = b]

LEMMA StarAnswered ==
  ASSUME NEW t \in Result, NEW x \in {"succeeded", "already_applied", "failed", "refused"},
         NEW b \in {"accepted", "already_applied", "failed", "skipped"}
  PROVE  StarAnswer(t, x, b) \in Result /\ StarAnswer(t, x, b).star = x
BY DEF Result, StarAnswer

\* A step in which the mutation of w ends, with what the action then says of it.
LEMMA StarEndsAInv ==
  ASSUME AInv, NEW w \in Workers, NEW x \in {"succeeded", "already_applied", "failed", "refused"},
         NEW b \in {"accepted", "already_applied", "failed", "skipped"}, StarEnds(w, x, b),
         \A v \in Workers \ {w} : worker'[v].pc = worker[v].pc, worker'[w].pc = "idle",
         writes' \in [ActionKeys -> Nat], confirmed' = confirmed,
         \A k \in ActionKeys \ {ActionKey(w)} : writes'[k] = writes[k], writes'[ActionKey(w)] <= 1,
         x = "succeeded" => ActionKey(w) \in confirmed,
         x = "refused" => writes'[ActionKey(w)] = 0
  PROVE  AInv'
<1> DEFINE r == StarAnswer(act[w].result, x, b)
<1>0. act[w].result \in Result
  BY DEF AInv, ATyped
<1>1. r \in Result /\ r.star = x
  BY SMT, <1>0, StarAnswered
<1>2. Proceed(w, "mutation", "complete", r)
  BY DEF StarEnds, StarAnswer
<1> HIDE DEF r
<1>3. /\ act[w].pc = "mutation" /\ UNCHANGED <<attempt, replies>>
      /\ act' \in [Workers -> [pc : ActPc, action : Actions, result : Result]]
      /\ act'[w].pc = "complete" /\ act'[w].action = act[w].action /\ act'[w].result = r
      /\ \A v \in Workers \ {w} : act'[v] = act[v]
  BY <1>1, <1>2, ProceedActs DEF AInv, ActPc
<1>4. ATyped' /\ Executing(w) /\ ActionKey(w)' = ActionKey(w)
  BY <1>3 DEF AInv, ATyped, ActionKey
<1>5. Executing(w)'
  BY <1>1, <1>3, <1>4 DEF Executing, Truth
<1> QED
  BY <1>3, <1>4, <1>5, ExecutionAInv

\* The mutation starts, unless its key is taken or the account lacks the capability.
LEMMA StartsAInv ==
  ASSUME IInv, AInv, NEW w \in Workers, MutationStarts(w)
  PROVE  AInv'
<1> DEFINE q == StarRequest(act[w].action)
<1>1. act[w].pc = "credential" /\ Submit(w, q) /\ UNCHANGED <<writes, confirmed>>
  BY DEF MutationStarts
<1>2. act[w].action.mode = "star" /\ act[w].action \in Actions /\ act[w].result \in Result
  BY <1>1, ActionTyped DEF AInv, ATyped, Executing
<1>3. q \in Requests /\ q.kind = "star"
  BY <1>2, StarRequestTyped
<1>4. CASE SuccessfulOutcomeExists(q.key) \/ ~Authorized(q)
  <2>1. worker' = [worker EXCEPT ![w] = Idle]
    BY <1>1, <1>4 DEF Submit
  <2>2. \A v \in Workers : worker'[v].pc = worker[v].pc
    BY <1>1, <2>1, IdleTyped DEF Submit, IInv, Kept, WorkersOK
  <2>3. PICK r \in Result : Proceed(w, "credential", "complete", r)
                            /\ r.star \in {"already_applied", "refused"}
    <3>1. [act[w].result EXCEPT !.star = "already_applied", !.backup = "already_applied"] \in Result
          /\ [act[w].result EXCEPT !.star = "already_applied", !.backup = "already_applied"].star = "already_applied"
      BY <1>2 DEF Result
    <3>2. [act[w].result EXCEPT !.star = "refused"] \in Result
          /\ [act[w].result EXCEPT !.star = "refused"].star = "refused"
      BY <1>2 DEF Result
    <3> QED
      BY <1>4, <3>1, <3>2 DEF MutationStarts
  <2>4. /\ act[w].pc = "credential" /\ UNCHANGED <<attempt, replies>>
        /\ act' \in [Workers -> [pc : ActPc, action : Actions, result : Result]]
        /\ act'[w].pc = "complete" /\ act'[w].action = act[w].action /\ act'[w].result = r
        /\ \A v \in Workers \ {w} : act'[v] = act[v]
    BY <2>3, ProceedActs DEF AInv, ActPc
  <2>5. /\ ATyped' /\ Executing(w) /\ ActionKey(w)' = ActionKey(w) /\ worker[w].pc = "idle"
        /\ writes[ActionKey(w)] <= 1
    BY <1>1, <2>4, ActionTyped DEF AInv, ATyped, ActionKey, Submit, RowOK
  <2>6. Executing(w)'
    BY <1>1, <2>2, <2>3, <2>4, <2>5 DEF Executing, Truth
  <2> QED
    BY <1>1, <2>2, <2>4, <2>5, <2>6, ExecutionAInv
<1>5. CASE ~(SuccessfulOutcomeExists(q.key) \/ ~Authorized(q))
  <2>1. worker' = [worker EXCEPT ![w] = [Blank(q) EXCEPT !.pc = "check"]]
    BY <1>1, <1>3, <1>5 DEF Submit
  <2>2. [Blank(q) EXCEPT !.pc = "check"].pc = "check"
    BY DEF Blank
  <2>3. worker'[w].pc = "check" /\ \A v \in Workers \ {w} : worker'[v].pc = worker[v].pc
    BY <2>1, <2>2 DEF IInv, Kept, WorkersOK
  <2>4. Proceed(w, "credential", "mutation", act[w].result)
    BY <1>5 DEF MutationStarts
  <2>5. /\ UNCHANGED <<attempt, replies>>
        /\ act' \in [Workers -> [pc : ActPc, action : Actions, result : Result]]
        /\ act'[w].pc = "mutation" /\ act'[w].action = act[w].action
        /\ \A v \in Workers \ {w} : act'[v] = act[v]
    <3>1. ATyped /\ "mutation" \in ActPc
      BY DEF AInv, ActPc
    <3> HIDE DEF q
    <3> QED
      BY SMT, <1>2, <2>4, <3>1, ProceedActs
  <2>6. ATyped' /\ Executing(w) /\ ActionKey(w)' = ActionKey(w) /\ writes[ActionKey(w)] <= 1
    BY <1>1, <2>5, ActionTyped DEF AInv, ATyped, ActionKey, RowOK
  <2>7. Executing(w)'
    BY <1>1, <1>2, <2>3, <2>5, <2>6 DEF Executing, Truth
  <2> QED
    BY <1>1, <2>3, <2>5, <2>6, <2>7, ExecutionAInv
<1> QED
  BY <1>4, <1>5

\* The mutation goes on, writes or ends.
LEMMA MutationAInv ==
  ASSUME IInv, AInv, NEW w \in Workers,
         \/ MutationRefused(w) \/ MutationFails(w) \/ MutationPrepares(w) \/ MutationWrites(w)
         \/ MutationUnanswered(w) \/ MutationPersists(w) \/ MutationErrs(w)
  PROVE  AInv'
<1>0. WorkersOK /\ ATyped /\ ActionKey(w) \in ActionKeys
  BY ActionTyped DEF IInv, Kept, AInv
<1>1. ASSUME NEW pc \in {"idle", "persist"}, NEW R, MoveOver(w, pc, R)
      PROVE  worker'[w].pc = pc /\ \A v \in Workers \ {w} : worker'[v].pc = worker[v].pc
  <2>1. /\ \A v \in Workers \ {w} : Stays(v, R)
        /\ pc = "idle" => worker'[w].pc = "idle"
        /\ pc = "persist" => worker'[w].pc = "persist"
    BY <1>0, <1>1, MoveStays
  <2> QED
    BY <2>1 DEF Stays
<1>2. worker[w].pc # "idle" =>
        /\ act[w].pc = "mutation" /\ Executing(w) /\ writes[ActionKey(w)] \in {0, 1}
        /\ worker[w].pc \in {"check", "write"} => writes[ActionKey(w)] = 0
        /\ worker[w].pc = "persist" => ActionKey(w) \in confirmed
  BY SMTT(20), <1>0 DEF AInv, ATyped, Linked, Executing, RowOK
<1>3. CASE MutationRefused(w)
  <2>1. worker[w].pc = "check" /\ MoveOver(w, "idle", {}) /\ StarEnds(w, "refused", "skipped")
        /\ UNCHANGED <<writes, confirmed>>
    BY <1>3 DEF MutationRefused, RefuseIgnored, Move
  <2> QED
    BY SMTT(20), <1>0, <1>1, <1>2, <2>1, StarEndsAInv DEF ATyped
<1>4. CASE MutationFails(w)
  <2>1. worker[w].pc \in {"check", "write"} /\ MoveOver(w, "idle", {}) /\ StarEnds(w, "failed", "skipped")
        /\ UNCHANGED <<writes, confirmed>>
    BY <1>4 DEF MutationFails, Pause, WriteRefused, Move
  <2> QED
    BY SMTT(20), <1>0, <1>1, <1>2, <2>1, StarEndsAInv DEF ATyped
<1>5. CASE MutationPrepares(w)
  <2>1. /\ worker[w].pc = "check" /\ UNCHANGED <<attempt, act, replies, writes, confirmed>>
        /\ \E d : worker' = [worker EXCEPT ![w] = [worker[w] EXCEPT !.pc = "write", !.desired = d]]
    BY <1>5 DEF MutationPrepares, Prepare, actionVars
  <2>2. worker'[w].pc = "write" /\ \A v \in Workers \ {w} : worker'[v].pc = worker[v].pc
    BY <1>0, <2>1 DEF WorkersOK, Worker
  <2>3. Executing(w)' /\ ATyped'
    BY <1>0, <1>2, <2>1, <2>2 DEF Executing, ActionKey, Truth, ATyped
  <2> QED
    BY SMT, <1>2, <2>1, <2>2, <2>3, ExecutionAInv
<1>6. CASE MutationWrites(w)
  <2>1. /\ worker[w].pc = "write" /\ MoveOver(w, "persist", {RepoOf(w)})
        /\ writes' = [writes EXCEPT ![ActionKey(w)] = @ + 1]
        /\ confirmed' = confirmed \union {ActionKey(w)}
        /\ UNCHANGED <<attempt, act, replies>>
    BY <1>6 DEF MutationWrites, WriteConfirmed
  <2>2. worker'[w].pc = "persist" /\ \A v \in Workers \ {w} : worker'[v].pc = worker[v].pc
    BY <1>1, <2>1
  <2>3. /\ writes' \in [ActionKeys -> Nat] /\ writes'[ActionKey(w)] = 1
        /\ \A k \in ActionKeys \ {ActionKey(w)} : writes'[k] = writes[k]
    BY SMT, <1>0, <1>2, <2>1 DEF ATyped
  <2>4. Executing(w)' /\ ATyped'
    BY <1>0, <1>2, <2>1, <2>2, <2>3 DEF Executing, ActionKey, ATyped
  <2> QED
    BY SMT, <1>2, <2>1, <2>2, <2>3, <2>4, ExecutionAInv
<1>7. CASE MutationUnanswered(w)
  <2>1. /\ worker[w].pc = "write" /\ MoveOver(w, "idle", {RepoOf(w)}) /\ StarEnds(w, "failed", "skipped")
        /\ writes' = [writes EXCEPT ![ActionKey(w)] = @ + 1] /\ confirmed' = confirmed
    BY <1>7 DEF MutationUnanswered, WriteUnanswered
  <2>2. /\ writes' \in [ActionKeys -> Nat] /\ writes'[ActionKey(w)] = 1
        /\ \A k \in ActionKeys \ {ActionKey(w)} : writes'[k] = writes[k]
    BY SMT, <1>0, <1>2, <2>1 DEF ATyped
  <2> QED
    BY SMTT(20), <1>1, <2>1, <2>2, StarEndsAInv
<1>8. CASE MutationPersists(w)
  <2>1. /\ worker[w].pc = "persist" /\ MoveOver(w, "idle", {RepoOf(w)}) /\ UNCHANGED <<writes, confirmed>>
        /\ StarEnds(w, "succeeded", "accepted") \/ StarEnds(w, "already_applied", "already_applied")
    BY <1>8 DEF MutationPersists, Persist
  <2> QED
    BY SMTT(20), <1>0, <1>1, <1>2, <2>1, StarEndsAInv DEF ATyped
<1>9. CASE MutationErrs(w)
  <2>1. /\ worker[w].pc # "idle" /\ MoveOver(w, "idle", {}) /\ UNCHANGED <<writes, confirmed>>
        /\ \/ worker[w].pc = "persist" /\ StarEnds(w, "succeeded", "failed")
           \/ StarEnds(w, "failed", "skipped")
    BY <1>9 DEF MutationErrs, Stop, Move
  <2> QED
    BY SMTT(20), <1>0, <1>1, <1>2, <2>1, StarEndsAInv DEF ATyped
<1> QED
  BY <1>3, <1>4, <1>5, <1>6, <1>7, <1>8, <1>9
\* An execution is cut off: its claim stays, and nobody holds it any more.
LEMMA CutOffAInv ==
  ASSUME IInv, AInv, NEW w \in Workers, ActionCutOff(w)
  PROVE  AInv'
<1>1. WorkersOK /\ ATyped /\ act[w].pc # "idle" /\ UNCHANGED <<attempt, replies, writes, confirmed>>
      /\ act' = [act EXCEPT ![w] = NoAct] /\ writes[ActionKey(w)] <= 1
  BY ActionTyped DEF IInv, Kept, AInv, RowOK, ActionCutOff
<1>2. worker'[w].pc = "idle" /\ \A v \in Workers \ {w} : worker'[v].pc = worker[v].pc
  <2>1. CASE worker[w].pc # "idle"
    <3>1. MoveOver(w, "idle", {})
      BY <2>1 DEF ActionCutOff, Stop, Move
    <3>2. worker'[w].pc = "idle" /\ \A v \in Workers \ {w} : Stays(v, {})
      BY <1>1, <3>1, MoveStays
    <3> QED
      BY <3>2 DEF Stays
  <2>2. CASE worker[w].pc = "idle"
    BY <2>2 DEF ActionCutOff
  <2> QED
    BY <2>1, <2>2
<1>3. ATyped' /\ act'[w].pc = "idle" /\ \A v \in Workers \ {w} : act'[v] = act[v]
  BY <1>1, NoActTyped DEF ATyped
<1> QED
  BY <1>1, <1>2, <1>3, ExecutionAInv

\* A call claims its key, replays what the key's row records, or conflicts.
LEMMA ClaimAInv ==
  ASSUME AInv, NEW w \in Workers, NEW a \in Actions, ClaimAction(w, a)
  PROVE  AInv'
<1>1. /\ ATyped /\ Linked /\ act[w].pc = "idle" /\ a.key \in ActionKeys /\ worker[w].pc = "idle"
      /\ UNCHANGED <<worker, writes, confirmed>>
  BY DEF AInv, Linked, ClaimAction, Quiet, vars, ActionKeys
<1>2. CASE attempt[a.key].status = "absent"
  <2> DEFINE n == [NoAct EXCEPT !.action = a, !.pc = IF a.mode = "star" THEN "refusal" ELSE "fetch"]
             t == [NoAttempt EXCEPT !.status = "in_progress", !.action = a]
  <2>1. /\ act' = [act EXCEPT ![w] = n] /\ attempt' = [attempt EXCEPT ![a.key] = t]
        /\ UNCHANGED <<replies>>
    BY <1>2 DEF ClaimAction
  <2>2. /\ n \in [pc : ActPc, action : Actions, result : Result] /\ n.action = a
        /\ n.pc \in {"refusal", "fetch"} /\ n.result.star = "skipped"
    BY NoActTyped DEF NoAct, ActPc, Unfinished, Answered, Result
  <2>3. t \in Attempt /\ t.status = "in_progress"
    BY DEF NoAttempt, Attempt, AnyAction, Unfinished, Answered, Result
  <2> HIDE DEF n, t
  <2>4. /\ ATyped' /\ act'[w] = n /\ attempt'[a.key] = t
        /\ \A v \in Workers \ {w} : act'[v] = act[v]
        /\ \A k \in ActionKeys \ {a.key} : attempt'[k] = attempt[k]
    BY <1>1, <2>1, <2>2, <2>3 DEF ATyped
  <2>5. ASSUME NEW v \in Workers \ {w}, act[v].pc # "idle"
        PROVE  ActionKey(v) \in ActionKeys \ {a.key} /\ ActionKey(v)' = ActionKey(v) /\ Executing(v)
    BY <1>1, <1>2, <2>4, <2>5, ActionTyped DEF AInv, Executing, ActionKey
  <2>6. Linked'
    BY SMT, <1>1, <2>2, <2>4, <2>5 DEF Linked, ActionKey
  <2>7. RowOK(a.key) /\ writes[a.key] = 0 /\ replies[a.key] = {}
    BY <1>1, <1>2 DEF AInv, RowOK
  <2>8. Executing(w)'
    BY <1>1, <2>1, <2>2, <2>3, <2>4, <2>7 DEF Executing, ActionKey
  <2>9. ASSUME NEW v \in Workers \ {w}, act'[v].pc # "idle" PROVE Executing(v)'
    <3>1. act'[v] = act[v] /\ attempt'[ActionKey(v)] = attempt[ActionKey(v)]
          /\ ActionKey(v)' = ActionKey(v) /\ Executing(v)
      BY <2>4, <2>5, <2>9
    <3> QED
      BY <1>1, <2>1, <3>1 DEF Executing, Truth
  <2>10. ASSUME NEW k \in ActionKeys PROVE RowOK(k)'
    <3>1. CASE k = a.key
      BY <1>1, <2>1, <2>3, <2>4, <2>7, <3>1 DEF RowOK
    <3>2. CASE k # a.key
      BY SMT, <1>1, <2>1, <2>4, <3>2 DEF AInv, RowOK, Truth
    <3> QED
      BY <3>1, <3>2
  <2> QED
    BY <2>4, <2>6, <2>8, <2>9, <2>10 DEF AInv
<1>3. CASE attempt[a.key].status # "absent"
  <2>1. UNCHANGED <<attempt, act>> /\ ATyped /\ RowOK(a.key)
    BY <1>1, <1>3 DEF ClaimAction, AInv
  <2>2. replies' = replies
    <3>1. CASE attempt[a.key].action = a /\ attempt[a.key].status = "completed"
      <4>1. replies' = [replies EXCEPT ![a.key] = replies[a.key] \union {attempt[a.key].result}]
        BY <1>3, <3>1 DEF ClaimAction
      <4>2. replies[a.key] \union {attempt[a.key].result} = replies[a.key]
        BY <2>1, <3>1 DEF RowOK
      <4> QED
        BY <4>1, <4>2, <2>1 DEF ATyped
    <3>2. CASE ~(attempt[a.key].action = a /\ attempt[a.key].status = "completed")
      BY <1>3, <3>2 DEF ClaimAction
    <3> QED
      BY <3>1, <3>2
  <2> QED
    BY SMTT(20), <1>1, <2>1, <2>2 DEF AInv, ATyped, Linked, Executing, RowOK, Truth, ActionKey
<1> QED
  BY <1>2, <1>3

Completed(t, x) == [t EXCEPT !.status = "completed", !.result = x]

LEMMA CompletedTyped ==
  ASSUME NEW t \in Attempt, NEW x \in Result
  PROVE  Completed(t, x) \in Attempt /\ Completed(t, x).status = "completed" /\ Completed(t, x).result = x
BY DEF Attempt, Completed

\* An execution answers, and its row is completed with the answer or stays in progress.
LEMMA AnswerAInv ==
  ASSUME AInv, NEW w \in Workers, CompleteAction(w) \/ CompletionFails(w)
  PROVE  AInv'
<1> DEFINE k0 == ActionKey(w)
           x == act[w].result
<1>1. /\ ATyped /\ Linked /\ act[w].pc = "complete" /\ Executing(w) /\ k0 \in ActionKeys
      /\ act' = [act EXCEPT ![w] = NoAct]
      /\ replies' = [replies EXCEPT ![k0] = replies[k0] \union {x}]
      /\ UNCHANGED <<worker, writes, confirmed>>
  BY ActionTyped DEF AInv, CompleteAction, CompletionFails, Reply, Quiet, vars
<1>2. replies[k0] = {} /\ attempt[k0].status = "in_progress" /\ Truth(k0, x) /\ x \in Result
      /\ writes[k0] <= 1
  BY <1>1 DEF Executing, ATyped, AInv, RowOK
<1>3. \/ attempt' = attempt
      \/ attempt' = [attempt EXCEPT ![k0] = Completed(attempt[k0], x)]
  BY DEF CompleteAction, CompletionFails, Completed
<1>4. /\ attempt' \in [ActionKeys -> Attempt]
      /\ \A k \in ActionKeys \ {k0} : attempt'[k] = attempt[k]
      /\ attempt'[k0].status = "in_progress" \/ (attempt'[k0].status = "completed" /\ attempt'[k0].result = x)
  <2>1. /\ Completed(attempt[k0], x) \in Attempt /\ Completed(attempt[k0], x).status = "completed"
        /\ Completed(attempt[k0], x).result = x
    BY ZenonT(40), <1>1, <1>2, CompletedTyped DEF ATyped
  <2> QED
    BY <1>1, <1>2, <1>3, <2>1 DEF ATyped
<1> HIDE DEF k0, x
<1>5. /\ act'[w] = NoAct /\ act'[w].pc = "idle" /\ \A v \in Workers \ {w} : act'[v] = act[v]
      /\ replies'[k0] = {x} /\ \A k \in ActionKeys \ {k0} : replies'[k] = replies[k]
      /\ act' \in [Workers -> [pc : ActPc, action : Actions, result : Result]]
      /\ replies' \in [ActionKeys -> SUBSET Result]
  BY <1>1, <1>2, NoActTyped DEF ATyped
<1>6. ATyped'
  BY <1>1, <1>4, <1>5 DEF ATyped
<1>7. worker[w].pc = "idle"
  BY <1>1 DEF Linked
<1>8. Linked'
  BY <1>1, <1>5 DEF Linked, ActionKey
<1>9. ASSUME NEW v \in Workers, act'[v].pc # "idle" PROVE Executing(v)'
  <2>1. v # w /\ act'[v] = act[v] /\ Executing(v)
    BY <1>5, <1>9 DEF AInv
  <2>2. ActionKey(v) \in ActionKeys \ {k0} /\ ActionKey(v)' = ActionKey(v)
    BY <1>1, <1>5, <1>9, <2>1, ActionTyped DEF Linked, ActionKey, k0
  <2>3. attempt'[ActionKey(v)] = attempt[ActionKey(v)] /\ replies'[ActionKey(v)] = replies[ActionKey(v)]
    BY <1>4, <1>5, <2>2
  <2> QED
    BY <1>1, <2>1, <2>2, <2>3 DEF Executing, Truth
<1>10. ASSUME NEW k \in ActionKeys PROVE RowOK(k)'
  <2>1. CASE k = k0
    BY <1>1, <1>2, <1>4, <1>5, <2>1 DEF RowOK, Truth
  <2>2. CASE k # k0
    BY SMTT(20), <1>1, <1>4, <1>5, <2>2 DEF AInv, RowOK, Truth
  <2> QED
    BY <2>1, <2>2
<1> QED
  BY <1>6, <1>8, <1>9, <1>10 DEF AInv
\* AInv reads nothing of the mutations but where their calls are.
LEMMA SameAInv ==
  ASSUME AInv, \A v \in Workers : worker'[v].pc = worker[v].pc,
         UNCHANGED <<attempt, act, replies, writes, confirmed>>
  PROVE  AInv'
BY SMTT(20) DEF AInv, ATyped, Linked, Executing, RowOK, Truth, ActionKey

\* The owner and the snapshots overtake calls and leave them where they are.
LEMMA EnvironmentAInv ==
  ASSUME WorkersOK, AInv, Environment, UNCHANGED actionVars
  PROVE  AInv'
<1>1. \A v \in Workers : worker'[v].pc = worker[v].pc
  <2>1. CASE \E what \in {"stars", "lists"} : SyncReads(what)
    BY <2>1 DEF SyncReads
  <2>2. CASE ~\E what \in {"stars", "lists"} : SyncReads(what)
    <3>1. PICK R : Overtake(R)
      BY <2>2 DEF Environment, OwnerStars, OwnerFiles, SwapStars, SwapLists
    <3> QED
      BY <3>1, OvertakeStays DEF Stays
  <2> QED
    BY <2>1, <2>2
<1>2. UNCHANGED <<attempt, act, replies, writes, confirmed>>
  BY DEF actionVars
<1> QED
  BY <1>1, <1>2, SameAInv

\* What the mutations keep, they keep as steps of actions.
LEMMA ActionsIInv ==
  ASSUME IInv, AInv, [ActionsNext]_allVars
  PROVE  IInv'
<1>1. CASE UNCHANGED vars
  BY <1>1, StepIInv
<1>2. CASE Environment
  BY <1>2, StepIInv DEF Next
<1>3. ASSUME NEW w \in Workers, Run(w) PROVE IInv'
  BY <1>3, StepIInv DEF Next
<1>4. ASSUME NEW w \in Workers, MutationStarts(w) PROVE IInv'
  <2>1. PICK q \in Requests : Submit(w, q)
    <3>1. Submit(w, StarRequest(act[w].action)) /\ act[w].pc = "credential"
      BY <1>4 DEF MutationStarts
    <3> QED
      BY <3>1, ActionTyped, StarRequestTyped DEF AInv, Executing
  <2> QED
    BY <2>1, StepIInv DEF Next
<1>5. ASSUME NEW w \in Workers, Track(w) PROVE IInv'
  <2>1. PICK R : Overtake(R)
    BY <1>5 DEF Track
  <2>2. WorkersOK'
    BY <2>1, OvertakeTyped DEF IInv, Kept
  <2>3. Trail' /\ ListsOK'
    BY <1>5, NoTrail DEF Track, upstream, IInv, Kept, ListsOK
  <2>4. mode' = [mode EXCEPT ![act[w].action.repo] = "tracked"] /\ UNCHANGED <<starred, sync, upStar>>
    BY <1>5 DEF Track, upstream
  <2>5. Governed'
    BY <2>4 DEF IInv, Kept, Governed, CatalogOK, AutoMeansStarred
  <2> QED
    BY <2>2, <2>3, <2>5 DEF IInv, Kept
<1>6. ASSUME UNCHANGED <<granted, upstream, catalog, audit, worker, sync, effects, answers, disturbed>>
      PROVE  IInv'
  <2>1. UNCHANGED <<worker, audit, effects, answers, starred, mode, sync, active, upStar, upLists>>
    BY <1>6 DEF upstream, catalog
  <2>2. WorkersOK' /\ ListsOK'
    BY <2>1 DEF IInv, Kept, WorkersOK, ListsOK, RequestedMode
  <2>3. Trail' /\ Governed'
    BY <2>1, NoTrail, NoGovernance DEF IInv, Kept, Governed, CatalogOK
  <2> QED
    BY <2>2, <2>3 DEF IInv, Kept
<1>7. ASSUME NEW w \in Workers, ActionCutOff(w) PROVE IInv'
  BY <1>3, <1>6, <1>7 DEF ActionCutOff, Run
<1>8. ASSUME NEW w \in Workers, Execute(w) PROVE IInv'
  <2>1. CASE MutationStarts(w) \/ Track(w)
    BY <1>4, <1>5, <2>1
  <2>2. CASE \/ MutationRefused(w) \/ MutationFails(w) \/ MutationPrepares(w) \/ MutationWrites(w)
             \/ MutationUnanswered(w) \/ MutationPersists(w) \/ MutationErrs(w)
    BY <1>3, <2>2 DEF MutationRefused, MutationFails, MutationPrepares, MutationWrites,
                      MutationUnanswered, MutationPersists, MutationErrs, Run
  <2>3. CASE CompletionFails(w)
    BY <1>6, <2>3 DEF CompletionFails
  <2>4. CASE \/ StarRefused(w) \/ StarAccepted(w)
             \/ \E o \in {"failed", "refused"} : FetchStops(w, o)
             \/ Fetched(w) \/ RecordStops(w)
             \/ \E o \in {"succeeded", "already_applied"} : Recorded(w, o)
             \/ TrackFails(w) \/ NoCredential(w) \/ CompleteAction(w)
    <3>1. Quiet
      BY <2>4 DEF StarRefused, StarAccepted, FetchStops, Fetched, RecordStops, Recorded, TrackFails,
                  NoCredential, CompleteAction
    <3> QED
      BY <1>1, <3>1 DEF Quiet
  <2> QED
    BY <1>8, <2>1, <2>2, <2>3, <2>4 DEF Execute
<1>9. ASSUME NEW w \in Workers, NEW a \in Actions, ClaimAction(w, a) PROVE IInv'
  BY <1>1, <1>9 DEF ClaimAction, Quiet
<1> QED
  BY <1>1, <1>2, <1>7, <1>8, <1>9 DEF ActionsNext, allVars

\* The invariant of the actions, on top of that of the mutations.
LEMMA ActionsInvariant == ActionsSpec => [](IInv /\ AInv)
<1>1. ActionsInit => IInv /\ AInv
  BY InitIInv, InitAInv DEF ActionsInit
<1>2. ASSUME IInv, AInv, [ActionsNext]_allVars PROVE IInv' /\ AInv'
  <2>1. IInv'
    BY <1>2, ActionsIInv
  <2>2. ASSUME UNCHANGED allVars PROVE AInv'
    BY <1>2, <2>2, SameAInv DEF allVars, vars, actionVars
  <2>3. ASSUME Environment, UNCHANGED actionVars PROVE AInv'
    BY <1>2, <2>3, EnvironmentAInv DEF IInv, Kept
  <2>4. ASSUME NEW w \in Workers, NEW a \in Actions, ClaimAction(w, a) PROVE AInv'
    BY <1>2, <2>4, ClaimAInv
  <2>5. ASSUME NEW w \in Workers, ActionCutOff(w) PROVE AInv'
    BY <1>2, <2>5, CutOffAInv
  <2>6. ASSUME NEW w \in Workers, Execute(w) PROVE AInv'
    BY <1>2, <2>6, AroundAInv, StartsAInv, MutationAInv, AnswerAInv DEF Execute
  <2> QED
    BY <1>2, <2>1, <2>2, <2>3, <2>4, <2>5, <2>6 DEF ActionsNext
<1> QED
  BY <1>1, <1>2, PTL DEF ActionsSpec

\* However often a client repeats an action and wherever its executions are cut off,
\* GitHub carries out at most one star write for its key (claim_action).
THEOREM ActionsWriteOnce == ActionsSpec => []OneWritePerAction
<1>1. AInv => OneWritePerAction
  BY DEF AInv, RowOK, OneWritePerAction
<1> QED
  BY <1>1, ActionsInvariant, PTL

\* All answers for a key are the same result, the replays of its row included
\* (claim_action, complete_action).
THEOREM ActionRepliesAgree == ActionsSpec => []RepliesAgree
<1>1. AInv => RepliesAgree
  BY DEF AInv, RowOK, RepliesAgree
<1> QED
  BY <1>1, ActionsInvariant, PTL

\* A star that an answer calls succeeded was confirmed by GitHub, and one that it calls
\* refused or skipped was never written (execute_star_action).
THEOREM ActionStarsAreTrue == ActionsSpec => []StarComponentTruthful
<1>1. AInv => StarComponentTruthful
  BY DEF AInv, RowOK, Truth, StarComponentTruthful
<1> QED
  BY <1>1, ActionsInvariant, PTL

\* Mutations that run inside actions keep their own promises: a key commits at most one
\* effect and every answer has its audit row (execute_star_action through apply).
THEOREM ActionsKeepTheTrail == ActionsSpec => [](OneEffectPerKey /\ EveryAnswerIsAudited)
<1>1. IInv => OneEffectPerKey /\ EveryAnswerIsAudited
  BY DEF IInv, Kept, Trail
<1> QED
  BY <1>1, ActionsInvariant, PTL
=============================================================================
