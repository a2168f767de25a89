---------------------------- MODULE BackupPolicy ----------------------------
(***************************************************************************)
(* The desired backup policy (crates/catalog/src/backup_policy.rs): the    *)
(* transactions that change which repositories are governed, the debounced *)
(* publication that the relay loop attempts on every tick                  *)
(* (services/catalog/src/relay.rs), and the decisions Vault reports back.  *)
(*                                                                         *)
(* A transaction is one step, except publication, which locks the cursor   *)
(* row, reads it and the catalog, and commits later.  A desired state is   *)
(* the set of repositories it mirrors; its fingerprint is that set.        *)
(***************************************************************************)
EXTENDS Naturals, Sequences

CONSTANTS
  Repos,        \* catalog repositories
  Mirrored,     \* repositories whose policy level requires a Git mirror
  MaxChanges,   \* bound: transactions that write modes
  MaxDecisions  \* bound: decisions Vault reports

ASSUME PolicyConstants ==
  /\ Mirrored \subseteq Repos
  /\ MaxChanges \in Nat /\ MaxDecisions \in Nat

VARIABLES
  mode,          \* repositories.mode
  starred,       \* current_star_state.starred
  dirty,         \* dirty_generation
  published,     \* published_generation
  notBefore,     \* not_before: "null", "waiting" or "passed"
  version,       \* last_policy_version
  fingerprint,   \* last_fingerprint
  publications,  \* backup_policy_publications, by policy_version
  relay,         \* the relay task: "idle", "locked" or "stopped"
  desired,       \* the desired state that the publication under way read
  decisions,     \* what Vault has decided so far, in its order (external)
  feedback,      \* backup_policy_feedback, in the order received
  changes,       \* transactions that wrote modes so far
  windows,       \* history: debounce windows that have run out
  unmarked       \* history: writes of a sync since the last derivation

catalogVars == <<mode, starred>>
cursorVars  == <<dirty, published, notBefore, version, fingerprint>>
vaultVars   == <<decisions, feedback>>
history     == <<windows, unmarked>>
relayVars   == <<relay, desired>>
vars == <<catalogVars, cursorVars, publications, relayVars, vaultVars, changes, history>>

NoMode     == "unclassified"
Modes      == {NoMode, "auto", "tracked", "ignored"}
Governed   == {"auto", "tracked"}
NothingYet == {}   \* a cursor without a fingerprint has published no repository

TypeOK ==
  /\ mode \in [Repos -> Modes]
  /\ starred \in [Repos -> BOOLEAN]
  /\ dirty \in Nat /\ published \in 0..dirty
  /\ notBefore \in {"null", "waiting", "passed"}
  /\ version \in Nat
  /\ fingerprint \in SUBSET Repos
  /\ publications \in Seq(SUBSET Repos)
  /\ relay \in {"idle", "locked", "stopped"} /\ desired \in SUBSET Repos
  /\ decisions \in Seq(1..version)
  /\ feedback \in Seq(DOMAIN decisions)
  /\ changes \in Nat /\ windows \in Nat /\ unmarked \in Nat

\* The desired state, derived from the committed catalog.
LoadInputs == {r \in Mirrored : mode[r] \in Governed}

-----------------------------------------------------------------------------
(* Transactions that write modes.                                          *)

\* Mutant: only the deadline moves.
MarkDirtyDeadline ==
  /\ relay # "locked"
  /\ notBefore' = "waiting"
  /\ UNCHANGED <<dirty, published, version, fingerprint>>

\* Bumps the generation and starts the window again; waits for the lock that
\* a publication holds on the cursor row.
MarkDirty ==
  /\ relay # "locked"
  /\ dirty' = dirty + 1
  /\ notBefore' = "waiting"
  /\ UNCHANGED <<published, version, fingerprint>>

\* A mode is written; the transaction commits with the mark.
WriteMode(r, m) ==
  /\ changes < MaxChanges
  /\ changes' = changes + 1
  /\ mode' = [mode EXCEPT ![r] = m]
  /\ UNCHANGED <<publications, relayVars, vaultVars, windows>>

TrackRepository(r) ==
  /\ mode[r] # "tracked"
  /\ WriteMode(r, "tracked")
  /\ MarkDirty
  /\ UNCHANGED <<starred, unmarked>>

\* set_repository_mode with the one mode besides tracked that it accepts,
\* and only while the repository is not starred.
IgnoreRepository(r) ==
  /\ mode[r] # "ignored" /\ ~starred[r]
  /\ WriteMode(r, "ignored")
  /\ MarkDirty
  /\ UNCHANGED <<starred, unmarked>>

\* A confirmed star is persisted for the first time: only an unclassified
\* repository becomes auto, and the policy is marked either way.
PersistStar(r) ==
  /\ ~starred[r]
  /\ WriteMode(r, IF mode[r] = NoMode THEN "auto" ELSE mode[r])
  /\ MarkDirty
  /\ starred' = [starred EXCEPT ![r] = TRUE]
  /\ UNCHANGED unmarked

PersistUnstar(r) ==
  /\ starred[r]
  /\ WriteMode(r, IF mode[r] = "auto" THEN NoMode ELSE mode[r])
  /\ MarkDirty
  /\ starred' = [starred EXCEPT ![r] = FALSE]
  /\ UNCHANGED unmarked

\* The same two transitions made by a snapshot or a scan, which leave the
\* cursor alone.
SyncStar(r) ==
  /\ ~starred[r]
  /\ WriteMode(r, IF mode[r] = NoMode THEN "auto" ELSE mode[r])
  /\ starred' = [starred EXCEPT ![r] = TRUE]
  /\ unmarked' = unmarked + 1
  /\ UNCHANGED cursorVars

SyncUnstar(r) ==
  /\ starred[r]
  /\ WriteMode(r, IF mode[r] = "auto" THEN NoMode ELSE mode[r])
  /\ starred' = [starred EXCEPT ![r] = FALSE]
  /\ unmarked' = unmarked + 1
  /\ UNCHANGED cursorVars

-----------------------------------------------------------------------------
(* Publication.                                                            *)

\* The debounce window runs out.
Elapse ==
  /\ notBefore = "waiting"
  /\ notBefore' = "passed"
  /\ windows' = windows + 1
  /\ UNCHANGED <<catalogVars, dirty, published, version, fingerprint,
                 publications, relayVars, vaultVars, changes, unmarked>>

\* Mutant: the deadline is not consulted.
DueAtOnce == dirty # published

Due == dirty # published /\ notBefore # "waiting"

\* The tick locks and reads the cursor row and derives the desired state; a
\* policy that is not due leaves the tick with nothing to do.
LockCursor ==
  /\ relay = "idle"
  /\ Due
  /\ relay' = "locked"
  /\ desired' = LoadInputs
  /\ unmarked' = 0
  /\ UNCHANGED <<catalogVars, cursorVars, publications, vaultVars, changes, windows>>

\* The cursor after a publication or a confirmed state: the generation read
\* under the lock is settled and its deadline cleared.
Settle(f, v) ==
  /\ published' = dirty
  /\ fingerprint' = f
  /\ version' = v
  /\ notBefore' = "null"
  /\ UNCHANGED dirty

\* Mutant: an unchanged state is not recognised.
SameAsLastNever(f) == FALSE

\* The desired state was published last; a fresh cursor has no fingerprint.
SameAsLast(f) == version > 0 /\ fingerprint = f

Unchanged ==
  /\ relay = "locked"
  /\ SameAsLast(desired)
  /\ Settle(desired, version)
  /\ relay' = "idle" /\ desired' = {}
  /\ UNCHANGED <<catalogVars, publications, vaultVars, changes, history>>

\* The table of publications accepts a fingerprint once.
Insertable(f) == \A v \in DOMAIN publications : publications[v] # f

\* The next version and its outbox record, in the transaction that settles.
Publish ==
  /\ relay = "locked"
  /\ ~SameAsLast(desired)
  /\ Insertable(desired)
  /\ publications' = Append(publications, desired)
  /\ Settle(desired, version + 1)
  /\ relay' = "idle" /\ desired' = {}
  /\ UNCHANGED <<catalogVars, vaultVars, changes, history>>

\* The transaction is refused or the database fails: it rolls back, the relay
\* task ends with the error, and with it the process.
PublishFails ==
  /\ relay = "locked"
  /\ relay' = "stopped" /\ desired' = {}
  /\ UNCHANGED <<catalogVars, cursorVars, publications, vaultVars, changes, history>>

Restart ==
  /\ relay = "stopped"
  /\ relay' = "idle"
  /\ UNCHANGED <<desired, catalogVars, cursorVars, publications, vaultVars, changes, history>>

-----------------------------------------------------------------------------
(* Feedback.                                                               *)

\* Vault decides on a version it has received; versions only grow there.
VaultDecides(v) ==
  /\ Len(decisions) < MaxDecisions
  /\ \A k \in DOMAIN decisions : decisions[k] < v
  /\ decisions' = Append(decisions, v)
  /\ UNCHANGED <<catalogVars, cursorVars, publications, relayVars, feedback, changes, history>>

Recorded == {feedback[k] : k \in DOMAIN feedback}

\* A decision arrives for the first time; a repeated delivery changes nothing,
\* and a delivery that met a database error comes again later.
RecordAcknowledgment(d) ==
  /\ d \notin Recorded
  /\ feedback' = Append(feedback, d)
  /\ UNCHANGED <<catalogVars, cursorVars, publications, relayVars, decisions, changes, history>>
-----------------------------------------------------------------------------
(* The specification.                                                      *)

Init ==
  /\ mode = [r \in Repos |-> NoMode]
  /\ starred = [r \in Repos |-> FALSE]
  /\ dirty = 0 /\ published = 0 /\ notBefore = "null"
  /\ version = 0 /\ fingerprint = NothingYet
  /\ publications = <<>>
  /\ relay = "idle" /\ desired = {}
  /\ decisions = <<>> /\ feedback = <<>>
  /\ changes = 0 /\ windows = 0 /\ unmarked = 0

CatalogWrite ==
  \E r \in Repos : \/ TrackRepository(r)
                   \/ IgnoreRepository(r)
                   \/ PersistStar(r)
                   \/ PersistUnstar(r)
                   \/ SyncStar(r)
                   \/ SyncUnstar(r)

Next ==
  \/ CatalogWrite
  \/ Elapse
  \/ LockCursor
  \/ Unchanged
  \/ Publish
  \/ PublishFails
  \/ Restart
  \/ \E v \in 1..version : VaultDecides(v)
  \/ \E d \in DOMAIN decisions : RecordAcknowledgment(d)

Spec == Init /\ [][Next]_vars

\* Time passes, the relay ticks, its transaction ends one way or the other, a
\* stopped process is started again, and a transaction that the database can
\* commit is not refused for ever.
Fairness == /\ WF_vars(Elapse)
            /\ WF_vars(LockCursor)
            /\ WF_vars(Unchanged \/ Publish \/ PublishFails)
            /\ WF_vars(Restart)
            /\ SF_vars(Unchanged)
            /\ SF_vars(Publish)

FairSpec == Spec /\ Fairness

-----------------------------------------------------------------------------
(* Strengthening used by the proofs.                                       *)

\* A pending change has a deadline, a publication under way has passed it, and
\* a deadline that has passed has not been spent on a publication.
WindowsAreSpent ==
  /\ dirty # published => notBefore # "null"
  /\ relay = "locked" => dirty # published /\ notBefore = "passed"
  /\ notBefore = "passed" => version < windows

\* Until the publication under way commits, what it read is the desired state,
\* unless a sync has written modes since.
DesiredIsFresh == relay = "locked" /\ unmarked = 0 => desired = LoadInputs

-----------------------------------------------------------------------------
(* Properties.                                                             *)

\* While no change is marked, and synchronization has written no mode since the
\* desired state was last derived, the last published state is the desired one: no committed
\* change is lost between a mark, a publication that is under way and its
\* failure (backup_policy.rs 188-227, 351-359).
MarkedChangesArePublished ==
  dirty = published /\ unmarked = 0 => fingerprint = LoadInputs

\* The cursor names the newest publication, and versions are counted without
\* gaps, so that each version has one document (backup_policy.rs 201-222).
CursorNamesLastPublication ==
  /\ version = Len(publications)
  /\ version > 0 => fingerprint = publications[version]

\* Changes within one debounce window lead to at most one publication
\* (backup_policy.rs 169, 190; settle clears the deadline it used).
OneVersionPerWindow == version <= windows

\* A marked change is settled once changes cease, across failed attempts and
\* restarts, unless the desired state is one that an earlier version, but not
\* the last, already had.
ChangesSettle ==
  dirty # published ~> dirty = published
                       \/ \E v \in 1..(version - 1) : publications[v] = LoadInputs
=============================================================================
