----------------------------- MODULE Mutations ------------------------------
(***************************************************************************)
(* External writes on behalf of one account and the audit trail that makes *)
(* them replayable (crates/catalog/src/mutations.rs, list_mutations.rs,    *)
(* modes.rs, mutation_trail.rs, provider_mutations.rs), while the owner    *)
(* edits the same stars and lists on GitHub and snapshots replace the      *)
(* local projection.                                                       *)
(*                                                                         *)
(* A provider exchange, a read or a transaction is one step.  A snapshot   *)
(* is the pair of moments that matter here: when it read the provider and  *)
(* when its swap commits; StarSync and StarLists model what is between.    *)
(***************************************************************************)
EXTENDS Naturals, FiniteSets

CONSTANTS
  Repos,       \* provider repositories
  Lists,       \* native star lists of the account
  Requests,    \* the requests that callers submit, see Request
  InitialLists, \* the list sets that a repository may start with
  Workers,     \* concurrent callers
  MaxAttempts, \* bound: submissions
  MaxEdits,    \* bound: changes the owner makes upstream
  MaxSyncs,    \* bound: snapshots
  MaxStops     \* bound: provider errors, database errors and crashes

Kinds == {"star", "unstar", "list_member_add", "list_member_remove", "mode_set"}
Keys  == {q.key : q \in Requests}

ASSUME MutationConstants ==
  /\ \A q \in Requests : /\ q.kind \in Kinds /\ q.repo \in Repos
                         /\ q.list \in Lists
                         /\ q.mode \in {"auto", "tracked", "ignored"}
  /\ InitialLists \subseteq SUBSET Lists
  /\ IsFiniteSet(Requests) /\ Requests # {} /\ IsFiniteSet(Workers)
  /\ {MaxAttempts, MaxEdits, MaxSyncs, MaxStops} \subseteq Nat

VARIABLES
  granted,     \* capabilities of the account; none when it is not connected
  upStar,      \* repositories starred on GitHub (external)
  upLists,     \* the lists each repository is filed in on GitHub (external)
  starred,     \* current_star_state
  filedIn,     \* star_list_memberships: the lists a repository is member of
  active,      \* star_lists with status active
  mode,        \* repositories.mode
  audit,       \* mutation_audit, by idempotency key
  worker,      \* the local state of each caller
  sync,        \* what the snapshot under way has read
  bounds,      \* submissions, edits, snapshots and stops so far
  effects,     \* history: transactions that a key has committed
  answers,     \* history: outcomes answered for a key other than replays
  disturbed    \* history: repositories that something outside one orderly
               \* write has changed, see Disturb

upstream == <<upStar, upLists>>
catalog  == <<starred, filedIn, active, mode>>
vars == <<granted, upstream, catalog, audit, worker, sync, bounds,
          effects, answers, disturbed>>

NoMode == "unclassified"

Worker == [pc      : {"idle", "check", "write", "persist", "modeRead", "modeWrite"},
           request : Requests,
           desired : SUBSET Lists,   \* the complete list set to write
           current : {NoMode, "auto", "tracked", "ignored"},  \* current_mode
           overtaken : BOOLEAN]      \* history: someone else changed the repository

Audit == [success : {"none", "applied", "already_applied"}, rejected : Nat, failed : Nat]

TypeOK ==
  /\ granted \subseteq {"star", "list"}
  /\ upStar \subseteq Repos /\ upLists \in [Repos -> SUBSET Lists]
  /\ starred \subseteq Repos /\ filedIn \in [Repos -> SUBSET Lists]
  /\ active \subseteq Lists
  /\ mode \in [Repos -> {NoMode, "auto", "tracked", "ignored"}]
  /\ audit \in [Keys -> Audit]
  /\ worker \in [Workers -> Worker]
  /\ sync \in [read : {"none", "stars", "lists"}, stars : SUBSET Repos, lists : [Repos -> SUBSET Lists]]
  /\ bounds \in [attempts : Nat, edits : Nat, syncs : Nat, stops : Nat]
  /\ effects \in [Keys -> Nat] /\ answers \in [Keys -> Nat]
  /\ disturbed \subseteq Repos

-----------------------------------------------------------------------------
(* Bookkeeping.                                                            *)

Spend(what) == bounds' = [bounds EXCEPT ![what] = @ + 1]

RepoOf(w) == worker[w].request.repo
KeyOf(w)  == worker[w].request.key
KindOf(w) == worker[w].request.kind

Blank(q) == [pc |-> "idle", request |-> q, desired |-> {}, current |-> NoMode,
             overtaken |-> FALSE]
Idle     == Blank(CHOOSE q \in Requests : TRUE)

\* Worker w moves to pc; calls of others on the repositories R are overtaken.
MoveOver(w, pc, R) ==
  worker' = [v \in Workers |->
               IF v = w THEN IF pc = "idle" THEN Idle ELSE [worker[v] EXCEPT !.pc = pc]
               ELSE [worker[v] EXCEPT !.overtaken = @ \/ (worker[v].pc # "idle" /\ RepoOf(v) \in R)]]

Move(w, pc) == MoveOver(w, pc, {})

Overtake(R) ==
  worker' = [v \in Workers |-> [worker[v] EXCEPT !.overtaken =
                                  @ \/ (worker[v].pc # "idle" /\ RepoOf(v) \in R)]]

\* What may leave the projection different from GitHub: an edit of the owner, a
\* write whose reply or whose transaction was lost, a write of an overtaken
\* call, and a snapshot that read before someone else wrote.
Disturb(R) == disturbed' = disturbed \union R

\* The call answers with an outcome and its audit row: rejected or failed.
Answer(w, outcome) ==
  /\ audit' = [audit EXCEPT ![KeyOf(w)][outcome] = @ + 1]
  /\ answers' = [answers EXCEPT ![KeyOf(w)] = @ + 1]

-----------------------------------------------------------------------------
(* The owner and the snapshots.                                            *)

OwnerStars(r) ==
  /\ bounds.edits < MaxEdits /\ Spend("edits")
  /\ upStar' = IF r \in upStar THEN upStar \ {r} ELSE upStar \union {r}
  /\ Overtake({r}) /\ Disturb({r})
  /\ UNCHANGED <<granted, upLists, catalog, audit, sync, effects, answers>>

OwnerFiles(r, l) ==
  /\ bounds.edits < MaxEdits /\ Spend("edits")
  /\ upLists' = [upLists EXCEPT ![r] = IF l \in @ THEN @ \ {l} ELSE @ \union {l}]
  /\ Overtake({r}) /\ Disturb({r})
  /\ UNCHANGED <<granted, upStar, catalog, audit, sync, effects, answers>>

NoSync == [read |-> "none", stars |-> {}, lists |-> [r \in Repos |-> {}]]

\* A snapshot of the stars or of the lists has read the provider.
SyncReads(what) ==
  /\ sync.read = "none"
  /\ bounds.syncs < MaxSyncs /\ Spend("syncs")
  /\ sync' = IF what = "stars" THEN [NoSync EXCEPT !.read = what, !.stars = upStar]
                               ELSE [NoSync EXCEPT !.read = what, !.lists = upLists]
  /\ UNCHANGED <<granted, upstream, catalog, audit, worker, effects, answers, disturbed>>

\* The swap of a star snapshot commits the stars it read, and their modes.
SwapStars ==
  /\ sync.read = "stars"
  /\ starred' = sync.stars
  /\ mode' = [r \in Repos |-> CASE r \in sync.stars /\ mode[r] = NoMode -> "auto"
                                [] r \in starred \ sync.stars /\ mode[r] = "auto" -> NoMode
                                [] OTHER -> mode[r]]
  /\ sync' = NoSync
  /\ Overtake(Repos) /\ Disturb({r \in Repos : (r \in sync.stars) # (r \in upStar)})
  /\ UNCHANGED <<granted, upstream, filedIn, active, audit, bounds, effects, answers>>

\* The swap of a list snapshot commits the memberships it read, and the lists that
\* hold any.
SwapLists ==
  /\ sync.read = "lists"
  /\ filedIn' = sync.lists
  /\ active' = UNION {sync.lists[r] : r \in Repos}
  /\ sync' = NoSync
  /\ Overtake(Repos) /\ Disturb({r \in Repos : sync.lists[r] # upLists[r]})
  /\ UNCHANGED <<granted, upstream, starred, mode, audit, bounds, effects, answers>>

-----------------------------------------------------------------------------
(* Enforcement before any provider contact.                                *)

Capability(kind) == IF kind \in {"star", "unstar"} THEN "star" ELSE "list"

\* authorization_refusal; set_repository_mode asks for no capability.
Authorized(q) == q.kind = "mode_set" \/ Capability(q.kind) \in granted

SuccessfulOutcomeExists(k) == audit[k].success # "none"

\* A request arrives: refused and audited, replayed, or taken on.
Submit(w, q) ==
  /\ worker[w].pc = "idle"
  /\ bounds.attempts < MaxAttempts /\ Spend("attempts")
  /\ worker' = [worker EXCEPT ![w] =
                  CASE ~Authorized(q) \/ SuccessfulOutcomeExists(q.key) -> Idle
                    [] OTHER -> [Blank(q) EXCEPT !.pc = IF q.kind = "mode_set" THEN "modeRead"
                                                                             ELSE "check"]]
  /\ audit' = IF Authorized(q) THEN audit ELSE [audit EXCEPT ![q.key].rejected = @ + 1]
  /\ answers' = IF Authorized(q) THEN answers ELSE [answers EXCEPT ![q.key] = @ + 1]
  /\ UNCHANGED <<granted, upstream, catalog, sync, effects, disturbed>>

IgnoredStarConflict(w) == KindOf(w) = "star" /\ mode[RepoOf(w)] = "ignored"

RefuseIgnored(w) ==
  /\ worker[w].pc = "check"
  /\ IgnoredStarConflict(w)
  /\ Answer(w, "rejected")
  /\ Move(w, "idle")
  /\ UNCHANGED <<granted, upstream, catalog, sync, bounds, effects, disturbed>>

\* Mutant: a pause leaves no trace.
PauseUnaudited(w) ==
  /\ worker[w].pc = "check"
  /\ ~IgnoredStarConflict(w)
  /\ bounds.stops < MaxStops /\ Spend("stops")
  /\ answers' = [answers EXCEPT ![KeyOf(w)] = @ + 1]
  /\ Move(w, "idle")
  /\ UNCHANGED <<granted, upstream, catalog, audit, sync, effects, disturbed>>

\* The budget refuses: audited as a failure.
Pause(w) ==
  /\ worker[w].pc = "check"
  /\ ~IgnoredStarConflict(w)
  /\ bounds.stops < MaxStops /\ Spend("stops")
  /\ Answer(w, "failed")
  /\ Move(w, "idle")
  /\ UNCHANGED <<granted, upstream, catalog, sync, effects, disturbed>>

\* The budget grants the request; a list write reads its target and the whole
\* desired set now.
ListTarget(w) == worker[w].request.list

\* Mutant: the desired set is the target alone.
DesiredTargetOnly(w) == IF KindOf(w) = "list_member_add" THEN {ListTarget(w)} ELSE {}

Desired(w) ==
  LET live == filedIn[RepoOf(w)] \intersect active
  IN IF KindOf(w) = "list_member_add" THEN live \union {ListTarget(w)}
                                      ELSE live \ {ListTarget(w)}

ListKind(w) == KindOf(w) \in {"list_member_add", "list_member_remove"}

Prepare(w) ==
  /\ worker[w].pc = "check"
  /\ ~IgnoredStarConflict(w)
  /\ ListKind(w) => ListTarget(w) \in active
  /\ worker' = [worker EXCEPT ![w] =
                  [@ EXCEPT !.pc = "write",
                            !.desired = IF ListKind(w) THEN Desired(w) ELSE {}]]
  /\ UNCHANGED <<granted, upstream, catalog, audit, sync, bounds, effects, answers, disturbed>>

NoSuchList(w) ==
  /\ worker[w].pc = "check"
  /\ ListKind(w) /\ ListTarget(w) \notin active
  /\ Answer(w, "failed")
  /\ Move(w, "idle")
  /\ UNCHANGED <<granted, upstream, catalog, sync, bounds, effects, disturbed>>

-----------------------------------------------------------------------------
(* The provider write.                                                     *)

\* GitHub after the request took effect.
Written(w) ==
  LET r == RepoOf(w) IN
  /\ upStar' = CASE KindOf(w) = "star"   -> upStar \union {r}
                 [] KindOf(w) = "unstar" -> upStar \ {r}
                 [] OTHER -> upStar
  /\ upLists' = IF ListKind(w) THEN [upLists EXCEPT ![r] = worker[w].desired] ELSE upLists

\* The write takes effect and is confirmed.
WriteConfirmed(w) ==
  /\ worker[w].pc = "write"
  /\ Written(w)
  /\ MoveOver(w, "persist", {RepoOf(w)})
  /\ Disturb(IF worker[w].overtaken THEN {RepoOf(w)} ELSE {})
  /\ UNCHANGED <<granted, catalog, audit, sync, bounds, effects, answers>>

\* The write takes effect and the reply is lost or cannot be classified.
WriteUnanswered(w) ==
  /\ worker[w].pc = "write"
  /\ bounds.stops < MaxStops /\ Spend("stops")
  /\ Written(w)
  /\ Answer(w, "failed")
  /\ MoveOver(w, "idle", {RepoOf(w)})
  /\ Disturb({RepoOf(w)})
  /\ UNCHANGED <<granted, catalog, sync, effects>>

\* The node id is not resolved, the write is refused, or its reply denies that
\* the requested state holds.
WriteRefused(w) ==
  /\ worker[w].pc = "write"
  /\ bounds.stops < MaxStops /\ Spend("stops")
  /\ Answer(w, "failed")
  /\ Move(w, "idle")
  /\ UNCHANGED <<granted, upstream, catalog, sync, effects, disturbed>>

-----------------------------------------------------------------------------
(* Convergence of the projection, in one transaction with the audit row.   *)

NewlyApplied(w) == CASE KindOf(w) = "star"   -> RepoOf(w) \notin starred
                     [] KindOf(w) = "unstar" -> RepoOf(w) \in starred
                     [] OTHER -> TRUE

StarMode(w) ==
  LET r == RepoOf(w) IN
  CASE KindOf(w) = "star"   -> [mode EXCEPT ![r] = IF @ = NoMode THEN "auto" ELSE @]
    [] KindOf(w) = "unstar" -> [mode EXCEPT ![r] = IF @ = "auto" THEN NoMode ELSE @]
    [] OTHER -> mode

\* Projection after the confirmed write.
Converged(w) ==
  LET r == RepoOf(w) IN
  /\ starred' = CASE KindOf(w) = "star"   -> starred \union {r}
                  [] KindOf(w) = "unstar" -> starred \ {r}
                  [] OTHER -> starred
  /\ mode' = StarMode(w)
  /\ filedIn' = [filedIn EXCEPT ![r] =
                   CASE KindOf(w) = "list_member_add"    -> @ \union {ListTarget(w)}
                     [] KindOf(w) = "list_member_remove" -> @ \ {ListTarget(w)}
                     [] OTHER -> @]
  /\ UNCHANGED active

\* The key is won: everything commits.
Commit(w, outcome) ==
  /\ audit' = [audit EXCEPT ![KeyOf(w)].success = outcome]
  /\ effects' = [effects EXCEPT ![KeyOf(w)] = @ + 1]
  /\ answers' = [answers EXCEPT ![KeyOf(w)] = @ + 1]

\* Mutant: a lost race for the key commits all the same.
PersistUnguarded(w) ==
  /\ worker[w].pc = "persist"
  /\ Converged(w)
  /\ Commit(w, IF NewlyApplied(w) THEN "applied" ELSE "already_applied")
  /\ MoveOver(w, "idle", {RepoOf(w)})
  /\ Disturb(IF worker[w].overtaken THEN {RepoOf(w)} ELSE {})
  /\ UNCHANGED <<granted, upstream, sync, bounds>>

Persist(w) ==
  /\ worker[w].pc = "persist"
  /\ ~SuccessfulOutcomeExists(KeyOf(w))
  /\ Converged(w)
  /\ Commit(w, IF NewlyApplied(w) THEN "applied" ELSE "already_applied")
  /\ MoveOver(w, "idle", {RepoOf(w)})
  /\ Disturb(IF worker[w].overtaken THEN {RepoOf(w)} ELSE {})
  /\ UNCHANGED <<granted, upstream, sync, bounds>>

\* A racing use of the key won it, perhaps for another repository: the transaction
\* rolls back, and a confirmed write stays unrecorded.
PersistReplayed(w) ==
  /\ worker[w].pc \in {"persist", "modeWrite"}
  /\ SuccessfulOutcomeExists(KeyOf(w))
  /\ Move(w, "idle")
  /\ Disturb(IF worker[w].pc = "persist" THEN {RepoOf(w)} ELSE {})
  /\ UNCHANGED <<granted, upstream, catalog, audit, sync, bounds, effects, answers>>

\* The database fails or the process dies; a confirmed write stays unrecorded.
Stop(w) ==
  /\ worker[w].pc # "idle"
  /\ bounds.stops < MaxStops /\ Spend("stops")
  /\ Move(w, "idle")
  /\ Disturb(IF worker[w].pc = "persist" THEN {RepoOf(w)} ELSE {})
  /\ UNCHANGED <<granted, upstream, catalog, audit, sync, effects, answers>>

-----------------------------------------------------------------------------
(* set_repository_mode: reads, validates and writes in one transaction     *)
(* that locks nothing it reads.                                            *)

RequestedMode(w) == worker[w].request.mode

\* Mutant: an ignore request is not checked against the star.
ModeAcceptableAlways(w) == RequestedMode(w) # "auto"

ModeAcceptable(w) ==
  \/ RequestedMode(w) = "tracked"
  \/ RequestedMode(w) = "ignored" /\ RepoOf(w) \notin starred

ModeRead(w) ==
  /\ worker[w].pc = "modeRead"
  /\ ModeAcceptable(w)
  /\ worker' = [worker EXCEPT ![w] = [@ EXCEPT !.pc = "modeWrite", !.current = mode[RepoOf(w)]]]
  /\ UNCHANGED <<granted, upstream, catalog, audit, sync, bounds, effects, answers, disturbed>>

ModeRefused(w) ==
  /\ worker[w].pc = "modeRead"
  /\ ~ModeAcceptable(w)
  /\ Answer(w, "rejected")
  /\ Move(w, "idle")
  /\ UNCHANGED <<granted, upstream, catalog, sync, bounds, effects, disturbed>>

ModeWrite(w) ==
  LET unchanged == worker[w].current = RequestedMode(w) IN
  /\ worker[w].pc = "modeWrite"
  /\ ~SuccessfulOutcomeExists(KeyOf(w))
  /\ mode' = IF unchanged THEN mode ELSE [mode EXCEPT ![RepoOf(w)] = RequestedMode(w)]
  /\ Commit(w, IF unchanged THEN "already_applied" ELSE "applied")
  /\ MoveOver(w, "idle", {RepoOf(w)})
  /\ Disturb(IF worker[w].overtaken THEN {RepoOf(w)} ELSE {})
  /\ UNCHANGED <<granted, upstream, starred, filedIn, active, sync, bounds>>

-----------------------------------------------------------------------------
(* The specification: the projection starts in agreement with GitHub.      *)

Init ==
  /\ granted \in {{}, {"star", "list"}}
  /\ upStar \in SUBSET Repos
  /\ upLists \in [Repos -> InitialLists]
  /\ starred = upStar
  /\ filedIn = upLists
  /\ active = Lists
  /\ mode \in [Repos -> {NoMode, "auto", "tracked", "ignored"}]
  /\ \A r \in Repos : mode[r] \in IF r \in starred THEN {"auto", "tracked"}
                                                   ELSE {NoMode, "tracked", "ignored"}
  /\ audit = [k \in Keys |-> [success |-> "none", rejected |-> 0, failed |-> 0]]
  /\ worker = [w \in Workers |-> Idle]
  /\ sync = NoSync
  /\ bounds = [attempts |-> 0, edits |-> 0, syncs |-> 0, stops |-> 0]
  /\ effects = [k \in Keys |-> 0] /\ answers = [k \in Keys |-> 0]
  /\ disturbed = {}

\* What a call does next, whatever it meets.
Run(w) ==
  \/ RefuseIgnored(w) \/ Pause(w) \/ Prepare(w) \/ NoSuchList(w)
  \/ WriteConfirmed(w) \/ WriteUnanswered(w) \/ WriteRefused(w)
  \/ Persist(w) \/ PersistReplayed(w)
  \/ ModeRead(w) \/ ModeRefused(w) \/ ModeWrite(w)
  \/ Stop(w)

Environment ==
  \/ \E r \in Repos : OwnerStars(r)
  \/ \E r \in Repos, l \in Lists : OwnerFiles(r, l)
  \/ \E what \in {"stars", "lists"} : SyncReads(what)
  \/ SwapStars \/ SwapLists

Next ==
  \/ Environment
  \/ \E w \in Workers, q \in Requests : Submit(w, q)
  \/ \E w \in Workers : Run(w)

Spec == Init /\ [][Next]_vars

-----------------------------------------------------------------------------
(* Properties.                                                             *)

\* A key commits at most one effect, and its audit row stands for it, however
\* many callers race with the key and wherever they stop
\* (finish_with_replay_guard, mutation_audit_one_success_per_key).
OneEffectPerKey ==
  \A k \in Keys : effects[k] = IF audit[k].success = "none" THEN 0 ELSE 1

\* Every outcome that was answered, other than the replay of a consumed key,
\* has an audit row of its own, and no row exists without its answer
\* (mutation_trail.rs 1-8).
EveryAnswerIsAudited ==
  \A k \in Keys : answers[k] = audit[k].rejected + audit[k].failed + effects[k]

\* No call on r holds a confirmed write that it has not recorded yet.
Settled(r) == \A w \in Workers : worker[w].pc = "persist" => RepoOf(w) # r

\* Whatever orderly writes succeed, fail or are refused, the projection and
\* GitHub agree on the star and on every list of a repository: they drift apart
\* only through an edit of the owner, a lost reply or transaction, a write that
\* was overtaken, or a snapshot that read earlier (execute_star_write,
\* execute_list_membership).
NoUnexplainedDrift ==
  \A r \in Repos \ disturbed :
    Settled(r) =>
      /\ (r \in starred) = (r \in upStar)
      /\ filedIn[r] = upLists[r]

\* Exclusion outranks starring: a repository is ignored and starred at once only
\* where another actor changed it between a check and its write
\* (ignored_star_conflict, validate of modes.rs).
IgnoredMeansUnstarred ==
  \A r \in Repos \ disturbed : Settled(r) /\ mode[r] = "ignored" => r \notin starred

\* Auto governance and the star come and go together, in every interleaving of
\* star writes, mode changes and swaps.
AutoMeansStarred ==
  \A r \in Repos : mode[r] = "auto" => r \in starred

\* Only a mode request changes an explicit decision (apply_star_projection:
\* "Explicit modes are never overridden", mutations.rs 609-611).
ExplicitModesHold ==
  [][\A r \in Repos : mode[r] \in {"tracked", "ignored"} /\ mode'[r] # mode[r]
       => \E w \in Workers : worker[w].pc = "modeWrite" /\ RequestedMode(w) = mode'[r]]_vars
=============================================================================
