---------------------------- MODULE LegacyImport ----------------------------
(***************************************************************************)
(* Moving from the retired system: the import of its archive               *)
(* (crates/catalog/src/legacy.rs, legacy/source.rs), the replacement       *)
(* credentials, and the shadow reports that decide whether the cutover may *)
(* be reviewed (legacy/shadow.rs, shadow_legacy in services/catalog).      *)
(*                                                                         *)
(* An import is a row for the run, one transaction for everything that it  *)
(* writes, and on an error one more statement.  A shadow report is six     *)
(* counts, each a query of its own.                                        *)
(***************************************************************************)
EXTENDS Naturals, FiniteSets

CONSTANTS
  Users, Repos,       \* retired users, each one account; repositories
  Records,            \* rows of public.repositories in the archive
  UserOf, RepoOf,     \* whose record it is and of which repository
  Starred, Filed,     \* records with is_starred, and with a list name
  Mapped,             \* users that the owner map covers
  Refused,            \* records with an alias that another repository holds, or bad data
  Runs,               \* import runs
  MaxEdits            \* bound: changes that users make at GitHub

ASSUME LegacyConstants ==
  /\ UserOf \in [Records -> Users] /\ RepoOf \in [Records -> Repos]
  /\ Starred \subseteq Records /\ Filed \subseteq Records /\ Refused \subseteq Records
  /\ Mapped \subseteq Users /\ MaxEdits \in Nat

Pair(rec) == <<UserOf[rec], RepoOf[rec]>>
Pairs == {Pair(rec) : rec \in Records}
Claimed == {Pair(rec) : rec \in Filed}

VARIABLES
  atGithub,   \* starred pairs and filed pairs at the provider (external)
  account,    \* github_accounts.status of each imported account
  records,    \* legacy_import_repository_records
  claims,     \* legacy_list_claims
  star,       \* current_star_state
  unknown,    \* pairs with provider_starred_at_unknown
  members,    \* star_list_memberships
  fresh,      \* accounts with a completed snapshot newer than the credential, per mode
  run,        \* legacy_import_runs.status
  content,    \* the records that each run has read, until it fails
  shadow,     \* the shadow command: its step, its accounts and what it counted
  clean,      \* whether a reviewable report exists
  edits,      \* bounded counter
  seen,       \* history: pairs whose star state comes from a snapshot
  quiet,      \* history: nothing changed at GitHub since the shadow command began
  overlapped  \* history: an import committed during the shadow command

targetVars == <<account, records, claims, star, unknown, members, fresh>>
history    == <<seen, quiet, overlapped>>
vars == <<atGithub, targetVars, run, content, shadow, clean, edits, history>>

Counts == 1..6
Ready == [pc |-> "idle", todo |-> {}, user |-> "none", at |-> 1, found |-> "none"]
Shadow == [pc : {"stars", "lists", "count"}, todo : SUBSET Users, user : Users \union {"none"},
           at : 1..7, found : {"none", "some"}]

TypeOK ==
  /\ atGithub \in [starred : SUBSET Pairs, filed : SUBSET Claimed]
  /\ account \in [Users -> {"none", "reauthorization_required", "connected"}]
  /\ records \subseteq Records /\ claims \subseteq records /\ members \subseteq Claimed
  /\ \A rec \in records : account[UserOf[rec]] # "none"
  /\ star \in [Pairs -> {"absent", "starred", "unstarred"}]
  /\ unknown \subseteq {p \in Pairs : star[p] = "starred"}
  /\ fresh \in [full : SUBSET Users, lists : SUBSET Users]
  /\ run \in [Runs -> {"none", "running", "completed", "failed"}]
  /\ content \in [Runs -> SUBSET Records]
  /\ shadow \in Shadow \union {Ready} /\ clean \in BOOLEAN

-----------------------------------------------------------------------------
(* Accounts and the provider.                                              *)

EditStar(p) ==
  /\ edits < MaxEdits /\ edits' = edits + 1
  /\ atGithub' = [atGithub EXCEPT !.starred = IF p \in @ THEN @ \ {p} ELSE @ \union {p}]
  /\ quiet' = (shadow = Ready)
  /\ UNCHANGED <<targetVars, run, content, shadow, clean, seen, overlapped>>

EditFiled(p) ==
  /\ edits < MaxEdits /\ edits' = edits + 1
  /\ atGithub' = [atGithub EXCEPT !.filed = IF p \in @ THEN @ \ {p} ELSE @ \union {p}]
  /\ quiet' = (shadow = Ready)
  /\ UNCHANGED <<targetVars, run, content, shadow, clean, seen, overlapped>>

\* register_pat, once for each account.
Register(u) ==
  /\ account[u] = "reauthorization_required"
  /\ account' = [account EXCEPT ![u] = "connected"]
  /\ UNCHANGED <<atGithub, records, claims, star, unknown, members, fresh, run, content, shadow,
                 clean, edits, history>>

Own(u) == {p \in Pairs : p[1] = u}

\* Mutant: a snapshot only adds.
FullSnapshotAdds(u) ==
  /\ star' = [p \in Pairs |-> IF p \in Own(u) \intersect atGithub.starred THEN "starred" ELSE star[p]]
  /\ unknown' = unknown \ Own(u)
  /\ seen' = seen \union Own(u)
  /\ fresh' = [fresh EXCEPT !.full = @ \union {u}]
  /\ UNCHANGED <<account, records, claims, members>>

\* A full snapshot that completes: what the provider shows, with its times.
FullSnapshot(u) ==
  /\ star' = [p \in Pairs |-> CASE p \notin Own(u) -> star[p]
                                [] p \in Own(u) \intersect atGithub.starred -> "starred"
                                [] OTHER -> IF star[p] = "absent" THEN "absent" ELSE "unstarred"]
  /\ unknown' = unknown \ Own(u)
  /\ seen' = seen \union Own(u)
  /\ fresh' = [fresh EXCEPT !.full = @ \union {u}]
  /\ UNCHANGED <<account, records, claims, members>>

\* A list snapshot that completes.
ListSnapshot(u) ==
  /\ members' = (members \ Own(u)) \union (atGithub.filed \intersect Own(u))
  /\ fresh' = [fresh EXCEPT !.lists = @ \union {u}]
  /\ UNCHANGED <<account, records, claims, star, unknown, seen>>

\* The service synchronises the account on its own.
ServiceSync(u) ==
  /\ account[u] = "connected"
  /\ FullSnapshot(u) \/ ListSnapshot(u)
  /\ UNCHANGED <<atGithub, run, content, shadow, clean, edits, quiet, overlapped>>

-----------------------------------------------------------------------------
(* The import.                                                             *)

\* import_legacy_snapshot: every user of the snapshot is mapped, and the run is
\* recorded before anything else is written.
BeginImport(i, S) ==
  /\ run[i] = "none"
  /\ \A rec \in S : UserOf[rec] \in Mapped
  /\ run' = [run EXCEPT ![i] = "running"]
  /\ content' = [content EXCEPT ![i] = S]
  /\ UNCHANGED <<atGithub, targetVars, shadow, clean, edits, history>>

\* Mutant: a record is imported whenever the archive holds it.
NewRecordsAll(i) == content[i]

\* import_legacy_repository passes over what was imported before.
NewRecords(i) == content[i] \ records

\* imported_account_id: an account that awaits its credential, once.
ImportedAccounts(S) ==
  [u \in Users |-> IF account[u] = "none" /\ \E rec \in S : UserOf[rec] = u
                   THEN "reauthorization_required" ELSE account[u]]

\* import_legacy_star: starred, at an unknown time, whatever was known.
ImportLegacyStars(S) ==
  LET pairs == {Pair(rec) : rec \in S \intersect Starred} IN
  /\ star' = [p \in Pairs |-> IF p \in pairs THEN "starred" ELSE star[p]]
  /\ unknown' = unknown \union pairs
  /\ seen' = seen \ pairs

\* import_legacy_transaction, complete_import_run included.
ImportTransaction(i) ==
  LET new == NewRecords(i) IN
  /\ run[i] = "running" /\ new \intersect Refused = {}
  /\ account' = ImportedAccounts(content[i])
  /\ ImportLegacyStars(new)
  /\ claims' = claims \union (new \intersect Filed)
  /\ records' = records \union new
  /\ run' = [run EXCEPT ![i] = "completed"]
  /\ overlapped' = (overlapped \/ shadow # Ready)
  /\ UNCHANGED <<atGithub, members, fresh, content, shadow, clean, edits, quiet>>

\* A conflict or a database error rolls back; record_import_failure.
ImportFails(i) ==
  /\ run[i] = "running"
  /\ run' = [run EXCEPT ![i] = "failed"]
  /\ content' = [content EXCEPT ![i] = {}]
  /\ UNCHANGED <<atGithub, targetVars, shadow, clean, edits, history>>

-----------------------------------------------------------------------------
(* The shadow command.                                                     *)

\* legacy_shadow_account_ids.
BeginShadow ==
  /\ shadow = Ready
  /\ shadow' = LET todo == {u \in Users : account[u] = "connected"} IN
               [Ready EXCEPT !.pc = IF todo = {} THEN "count" ELSE "stars", !.todo = todo]
  /\ UNCHANGED <<atGithub, targetVars, run, content, clean, edits, history>>

\* The accounts in turn: the stars, then the lists.
ShadowStars(u) ==
  /\ shadow.pc = "stars" /\ u \in shadow.todo
  /\ FullSnapshot(u)
  /\ shadow' = [shadow EXCEPT !.pc = "lists", !.todo = @ \ {u}, !.user = u]
  /\ UNCHANGED <<atGithub, run, content, clean, edits, quiet, overlapped>>

ShadowLists ==
  /\ shadow.pc = "lists"
  /\ ListSnapshot(shadow.user)
  /\ shadow' = [shadow EXCEPT !.pc = IF shadow.todo = {} THEN "count" ELSE "stars", !.user = "none"]
  /\ UNCHANGED <<atGithub, run, content, clean, edits, quiet, overlapped>>

ShadowAborts ==
  /\ shadow.pc \in {"stars", "lists", "count"}
  /\ shadow' = Ready
  /\ overlapped' = FALSE /\ quiet' = TRUE
  /\ UNCHANGED <<atGithub, targetVars, run, content, clean, edits, seen>>

Imported == {u \in Users : account[u] # "none"}
Mismatched == {rec \in records : (rec \in Starred) # (star[Pair(rec)] = "starred")}

\* Mutant: accounts that await their credential are not counted.
CountIsZeroConnected(n) ==
  CASE n = 1 -> TRUE
    [] n = 2 -> \A u \in Imported : account[u] = "connected" => u \in fresh.full
    [] n = 3 -> \A u \in Imported : account[u] = "connected" => u \in fresh.lists
    [] n = 4 -> Mismatched = {}
    [] n = 5 -> \A rec \in records \intersect Starred : Pair(rec) \notin unknown
    [] n = 6 -> \A rec \in claims : Pair(rec) \in members

\* The queries of collect_shadow_counts, in their order.
CountIsZero(n) ==
  CASE n = 1 -> \A u \in Imported : account[u] = "connected"
    [] n = 2 -> \A u \in Imported : account[u] = "connected" => u \in fresh.full
    [] n = 3 -> \A u \in Imported : account[u] = "connected" => u \in fresh.lists
    [] n = 4 -> Mismatched = {}
    [] n = 5 -> \A rec \in records \intersect Starred : Pair(rec) \notin unknown
    [] n = 6 -> \A rec \in claims : Pair(rec) \in members

Count ==
  /\ shadow.pc = "count" /\ shadow.at \in Counts
  /\ shadow' = [shadow EXCEPT !.at = @ + 1, !.found = IF CountIsZero(shadow.at) THEN @ ELSE "some"]
  /\ UNCHANGED <<atGithub, targetVars, run, content, clean, edits, history>>

\* generate_legacy_shadow_report stores the report.
Report ==
  /\ shadow.pc = "count" /\ shadow.at = 7
  /\ clean' = (clean \/ shadow.found = "none")
  /\ shadow' = Ready
  /\ overlapped' = FALSE /\ quiet' = TRUE
  /\ UNCHANGED <<atGithub, targetVars, run, content, edits, seen>>
-----------------------------------------------------------------------------
Init ==
  /\ atGithub \in [starred : SUBSET Pairs, filed : SUBSET Claimed]
  /\ account = [u \in Users |-> "none"]
  /\ records = {} /\ claims = {} /\ members = {} /\ unknown = {}
  /\ star = [p \in Pairs |-> "absent"]
  /\ fresh = [full |-> {}, lists |-> {}]
  /\ run = [i \in Runs |-> "none"] /\ content = [i \in Runs |-> {}]
  /\ shadow = Ready /\ clean = FALSE /\ edits = 0
  /\ seen = {} /\ quiet = TRUE /\ overlapped = FALSE

Next ==
  \/ \E p \in Pairs : EditStar(p)
  \/ \E p \in Claimed : EditFiled(p)
  \/ \E u \in Users : Register(u) \/ ServiceSync(u) \/ ShadowStars(u)
  \/ \E i \in Runs : \/ \E S \in SUBSET Records : BeginImport(i, S)
                     \/ ImportTransaction(i) \/ ImportFails(i)
  \/ BeginShadow \/ ShadowLists \/ ShadowAborts \/ Count \/ Report

Spec == Init /\ [][Next]_vars

-----------------------------------------------------------------------------
(* Properties.                                                             *)

\* The records of the catalog are those of the completed runs: a run that failed,
\* stopped or still runs has left nothing (import_legacy_snapshot 290-295).
ImportsAreAllOrNothing == records = UNION {content[i] : i \in {j \in Runs : run[j] = "completed"}}

\* A star that a snapshot has seen removed comes back only because GitHub shows it,
\* or with a record that is imported for the first time: repeating an import never
\* undoes what was learnt since.
EvidenceOutlivesReimport ==
  [][\A p \in Pairs : star[p] = "unstarred" /\ star'[p] = "starred" =>
       p \in atGithub.starred \/ \E rec \in records' \ records : Pair(rec) = p]_vars

StoresClean == shadow.at = 7 /\ shadow.found = "none" /\ clean'

\* When a clean report is stored, every imported account has its new credential and
\* snapshots of both kinds since, and every imported star was seen by a snapshot;
\* the exception is an import that commits during the command.
CleanMeansConfirmed ==
  [][StoresClean /\ ~overlapped =>
       /\ \A u \in Imported : account[u] = "connected" /\ u \in fresh.full \intersect fresh.lists
       /\ \A rec \in records \intersect Starred : Pair(rec) \in seen]_vars

\* When a clean report is stored and nothing changed at GitHub during the command,
\* the archive and GitHub agree on every imported star and list claim.
CleanMeansAgreed ==
  [][StoresClean /\ ~overlapped /\ quiet =>
       /\ \A rec \in records : (rec \in Starred) = (Pair(rec) \in atGithub.starred)
       /\ \A rec \in claims : Pair(rec) \in atGithub.filed]_vars
=============================================================================
