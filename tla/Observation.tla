---------------------------- MODULE Observation -----------------------------
(***************************************************************************)
(* How the catalog learns about repositories: the periodic observer        *)
(* (services/catalog/src/observer.rs) and the metadata and track actions   *)
(* of the API fetch a repository by name, record its alias, its metadata   *)
(* and its README, and evaluate the analysis watches                       *)
(* (crates/catalog/src/observe.rs, identity.rs, metadata.rs, watches.rs).  *)
(*                                                                         *)
(* A provider exchange, a read or a transaction is one step.  A revision   *)
(* is the pair of attributes and README that content_hash identifies.      *)
(***************************************************************************)
EXTENDS Naturals, Sequences, FiniteSets

CONSTANTS
  Repos,       \* provider repositories
  Names,       \* owner/name values
  Known,       \* the repositories that the catalog has recorded at the start
  FirstName,   \* the name that each repository starts with
  Attributes,  \* the attributes that each version of a repository has
  Readmes,     \* the README that each version of each repository has
  Absent,      \* no README
  None,        \* no value
  Observer,    \* the observer's loop
  Api,         \* concurrent actions of the API
  MaxVersion,  \* bound: pushes to a repository
  MaxEdits,    \* bound: pushes, renames, switched watches and erasures
  MaxActions,  \* bound: actions of the API
  MaxStops     \* bound: provider errors, withheld budgets and crashes

Callers == {Observer} \union Api

ASSUME ObservationConstants ==
  /\ FirstName \in [Repos -> Names]
  /\ \A q, r \in Repos : FirstName[q] = FirstName[r] => q = r
  /\ Known \subseteq Repos /\ Observer \notin Api
  /\ {MaxVersion, MaxEdits, MaxActions, MaxStops} \subseteq Nat
  /\ DOMAIN Attributes = 0..MaxVersion
  /\ DOMAIN Readmes = Repos /\ \A r \in Repos : DOMAIN Readmes[r] = 0..MaxVersion

VARIABLES
  name,      \* the current name of each repository on GitHub (external)
  version,   \* the current version of each repository on GitHub (external)
  aliases,   \* repository_aliases of kind owner_name, in order of creation
  metadata,  \* repository_metadata
  rotation,  \* repositories with metadata, least recently attempted first
  watch,     \* repository_watches of one owner
  requests,  \* repository_analysis_requests of that owner
  blobs,     \* repository_readme_blobs
  caller,    \* the local state of each caller
  counts,    \* bounded counters
  renamed,   \* history: repositories that had another name before
  refused,   \* history: repositories whose README was once refused
  swept,     \* history: bytes deleted while a caller relied on them
  attempted  \* history: the repository of the observer's last attempt

github == <<name, version>>
tables == <<aliases, metadata, rotation, watch, requests, blobs>>
vars == <<github, tables, caller, counts, renamed, refused, swept, attempted>>

\* README bytes and attributes of a version; repositories differ in both.
ReadmeAt(r, v)  == IF Readmes[r][v] = Absent THEN Absent ELSE <<r, Readmes[r][v]>>
SourceAt(r, v)  == [attributes |-> <<r, Attributes[v]>>, readme |-> ReadmeAt(r, v)]
Source(r)       == SourceAt(r, version[r])
Bytes           == {ReadmeAt(r, v) : r \in Repos, v \in 0..MaxVersion} \ {Absent}
Revisions       == [attributes : {<<r, Attributes[v]>> : r \in Repos, v \in 0..MaxVersion},
                    readme : Bytes \union {Absent}]
Validators      == Repos \X (0..MaxVersion)

\* A missing value (SQL NULL) is none of the values.
ASSUME NoneIsNoValue == None \notin Revisions /\ None \notin Validators

AliasRow == [repo : Repos, value : Names, status : {"active", "superseded"}]
NoMeta   == [source |-> None, etag |-> None]
NoWatch  == [enabled |-> FALSE, known |-> FALSE, checkpoint |-> None]

Blank == [pc |-> "idle", kind |-> "observe", selected |-> None, repo |-> CHOOSE r \in Repos : TRUE,
          alias |-> CHOOSE n \in Names : TRUE, etag |-> None, fresh |-> 0, observed |-> None,
          readme |-> None, evaluated |-> None]

TypeOK ==
  /\ name \in [Repos -> Names] /\ version \in [Repos -> 0..MaxVersion]
  /\ aliases \in Seq(AliasRow)
  /\ \A r \in Repos : metadata[r] # NoMeta =>
       metadata[r].source \in Revisions /\ metadata[r].etag \in 0..MaxVersion
  /\ rotation \in Seq(Repos) /\ {rotation[i] : i \in DOMAIN rotation} = {r \in Repos : metadata[r] # NoMeta}
  /\ \A r \in Repos : /\ watch[r].enabled \in BOOLEAN /\ watch[r].known \in BOOLEAN
                      /\ watch[r].checkpoint = None \/ watch[r].checkpoint \in Revisions
  /\ requests \subseteq (Repos \X Revisions)
  /\ blobs \subseteq Bytes
  /\ DOMAIN caller = Callers
  /\ renamed \subseteq Repos /\ refused \subseteq Repos /\ swept \subseteq Bytes

-----------------------------------------------------------------------------
(* GitHub, the owner of the watches, and the erasure of another owner.     *)

Count(what) == counts' = [counts EXCEPT ![what] = @ + 1]

Push(r) ==
  /\ version[r] < MaxVersion /\ counts.edits < MaxEdits /\ Count("edits")
  /\ version' = [version EXCEPT ![r] = @ + 1]
  /\ UNCHANGED <<name, tables, caller, renamed, refused, swept, attempted>>

Rename(r, n) ==
  /\ \A q \in Repos : name[q] # n
  /\ counts.edits < MaxEdits /\ Count("edits")
  /\ name' = [name EXCEPT ![r] = n]
  /\ renamed' = renamed \union {r}
  /\ UNCHANGED <<version, tables, caller, refused, swept, attempted>>

\* set_repository_analysis_watch_enabled
SetEnabled(r) ==
  /\ watch[r].known /\ counts.edits < MaxEdits /\ Count("edits")
  /\ watch' = [watch EXCEPT ![r] = [@ EXCEPT !.enabled = ~@]]
  /\ UNCHANGED <<github, aliases, metadata, rotation, requests, blobs, caller, renamed, refused,
                 swept, attempted>>

Referenced == ({metadata[r].source.readme : r \in {q \in Repos : metadata[q] # NoMeta}}
                 \union {q[2].readme : q \in requests}) \ {Absent}

\* Callers about to write a row that names d.
Relying(d) == {c \in Callers : \/ caller[c].pc = "apply" /\ caller[c].readme = d
                               \/ caller[c].pc = "queue" /\ caller[c].evaluated.readme = d}

\* Mutant: bytes that only requests name are collected too.
CollectReadmeOfRequests(d) ==
  /\ counts.edits < MaxEdits /\ Count("edits")
  /\ d \in blobs /\ \A r \in Repos : metadata[r] # NoMeta => metadata[r].source.readme # d
  /\ blobs' = blobs \ {d}
  /\ swept' = IF Relying(d) = {} THEN swept ELSE swept \union {d}
  /\ UNCHANGED <<github, aliases, metadata, rotation, watch, requests, caller, renamed, refused,
                 attempted>>

\* collect_unreferenced_readme_bytes: the erasure of another owner deletes bytes
\* that no metadata row and no request names.
CollectReadme(d) ==
  /\ counts.edits < MaxEdits /\ Count("edits")
  /\ d \in blobs \ Referenced
  /\ blobs' = blobs \ {d}
  /\ swept' = IF Relying(d) = {} THEN swept ELSE swept \union {d}
  /\ UNCHANGED <<github, aliases, metadata, rotation, watch, requests, caller, renamed, refused,
                 attempted>>

-----------------------------------------------------------------------------
(* Identity: aliases.                                                      *)

Rows(n, status) == {i \in DOMAIN aliases : aliases[i].value = n /\ aliases[i].status = status}
Holder(n) == {aliases[i].repo : i \in Rows(n, "active")}

\* resolve_alias: the live row, else the youngest superseded one.
Resolve(n) ==
  LET old == Rows(n, "superseded") IN
  IF Rows(n, "active") # {} THEN aliases[CHOOSE i \in Rows(n, "active") : TRUE].repo
  ELSE IF old # {} THEN aliases[CHOOSE i \in old : \A j \in old : j <= i].repo
  ELSE None

\* active_alias_holder_in_tx: somebody else holds the name.
HeldByOther(r, n) == Holder(n) \ {r} # {}

\* reactivate_alias_in_tx, when the name is not live already.
Activated(r, n) ==
  LET mine == {i \in DOMAIN aliases : aliases[i].repo = r /\ aliases[i].value = n} IN
  IF mine = {} THEN Append(aliases, [repo |-> r, value |-> n, status |-> "active"])
  ELSE [i \in DOMAIN aliases |-> IF i \in mine THEN [aliases[i] EXCEPT !.status = "active"]
                                               ELSE aliases[i]]

\* supersede_alias_in_tx
Superseded(rows, n) ==
  [i \in DOMAIN rows |-> IF rows[i].value = n THEN [rows[i] EXCEPT !.status = "superseded"]
                                              ELSE rows[i]]

\* apply_alias_observation as observe_repository calls it: the superseded value
\* is the observed one, which the callee filters out again.
AfterObservation(r, requested, observed) ==
  LET superseded == IF observed # requested THEN observed ELSE None
      live == Activated(r, observed)
  IN IF superseded # None /\ superseded # observed THEN Superseded(live, superseded) ELSE live

-----------------------------------------------------------------------------
(* The provider, as the gateway reports it.                                *)

\* GET /repos/{n}: the repository of that name answers; a former name answers
\* with a move or with the body of the renamed repository.
Bearer(n)   == {r \in Repos : name[r] = n}
Answers(n)  == IF Bearer(n) # {} THEN Bearer(n)
               ELSE {r \in renamed : \E i \in DOMAIN aliases : aliases[i].repo = r /\ aliases[i].value = n}

-----------------------------------------------------------------------------
(* A caller's steps.                                                       *)

Local(c) == caller[c]
At(c, pc) == caller[c].pc = pc
Go(c, pc) == caller' = [caller EXCEPT ![c] = [@ EXCEPT !.pc = pc]]

Frame == UNCHANGED <<github, renamed, refused, swept>>

\* The end of a call: the observer records the attempt, and an action is over.
Leave(c) == caller' = [caller EXCEPT ![c] = Blank]
End(c)   == caller' = [caller EXCEPT ![c] =
                         IF c = Observer THEN [Blank EXCEPT !.pc = "attempt", !.selected = Local(c).selected]
                         ELSE Blank]

\* select_watched_repositories: watched, with a live alias, attempted longest
\* ago; the alias is the one created last.
Watchable(r) == watch[r].enabled /\ metadata[r] # NoMeta
                  /\ \E i \in DOMAIN aliases : aliases[i].repo = r /\ aliases[i].status = "active"
LastAlias(r) ==
  LET live == {i \in DOMAIN aliases : aliases[i].repo = r /\ aliases[i].status = "active"}
  IN aliases[CHOOSE i \in live : \A j \in live : j <= i].value

BeginObserve ==
  LET due == {i \in DOMAIN rotation : Watchable(rotation[i])} IN
  /\ At(Observer, "idle") /\ due # {}
  /\ LET r == rotation[CHOOSE i \in due : \A j \in due : i <= j]
         known == Resolve(LastAlias(r))
     IN caller' = [caller EXCEPT ![Observer] =
          [Blank EXCEPT !.pc = "fetch", !.selected = r, !.repo = r, !.alias = LastAlias(r),
                        !.etag = IF known = None THEN None
                                 ELSE IF metadata[known] = NoMeta THEN None
                                 ELSE <<known, metadata[known].etag>>]]
  /\ Frame /\ UNCHANGED <<tables, counts, attempted>>

\* An action names the repository it was confirmed for; it sends no validator.
BeginAction(c, r, kind) ==
  /\ At(c, "idle") /\ counts.actions < MaxActions /\ Count("actions")
  /\ caller' = [caller EXCEPT ![c] = [Blank EXCEPT !.pc = "fetch", !.kind = kind,
                                                   !.repo = r, !.alias = name[r]]]
  /\ Frame /\ UNCHANGED <<tables, attempted>>

\* 200 with a body, for an action only of the repository it was confirmed for.
FetchFresh(c) ==
  /\ At(c, "fetch")
  /\ \E r \in Answers(Local(c).alias) :
       /\ Local(c).etag # <<r, version[r]>>
       /\ Local(c).kind # "observe" => r = Local(c).repo /\ name[r] = Local(c).alias
       /\ caller' = [caller EXCEPT ![c] = [@ EXCEPT !.pc = "alias", !.repo = r, !.etag = None,
                                                    !.fresh = version[r],
                                                    !.observed = name[r]]]
  /\ Frame /\ UNCHANGED <<tables, counts, attempted>>

\* Mutant: a repository that moved keeps its place in the rotation.
FetchMovedUnrecorded(c) ==
  /\ At(c, "fetch")
  /\ Bearer(Local(c).alias) # {Local(c).repo}
  /\ Local(c).kind = "observe" => Bearer(Local(c).alias) = {}
  /\ Leave(c)
  /\ Frame /\ UNCHANGED <<tables, counts, attempted>>

\* 301, 404, another repository than the confirmed one: nothing is recorded.
FetchMoved(c) ==
  /\ At(c, "fetch")
  /\ Bearer(Local(c).alias) # {Local(c).repo}
  /\ Local(c).kind = "observe" => Bearer(Local(c).alias) = {}
  /\ End(c)
  /\ Frame /\ UNCHANGED <<tables, counts, attempted>>

\* Mutant: a confirmed validator ends the call before the watches are evaluated.
FetchNotModifiedReturns(c) ==
  /\ At(c, "fetch")
  /\ \E r \in Bearer(Local(c).alias) : Local(c).etag = <<r, version[r]>>
  /\ End(c)
  /\ Frame /\ UNCHANGED <<tables, counts, attempted>>

\* 304: apply_not_modified, and the watches are evaluated all the same.
FetchNotModified(c) ==
  /\ At(c, "fetch")
  /\ \E r \in Bearer(Local(c).alias) :
       /\ Local(c).etag = <<r, version[r]>>
       /\ caller' = [caller EXCEPT ![c] = [Blank EXCEPT !.pc = "evaluate", !.repo = r,
                                                       !.selected = Local(c).selected]]
  /\ Frame /\ UNCHANGED <<tables, counts, attempted>>

\* apply_alias_observation, or record_alias for an action.
RecordAlias(c) ==
  LET r == Local(c).repo
      observed == Local(c).observed
  IN /\ At(c, "alias") /\ ~HeldByOther(r, observed)
     /\ aliases' = IF Local(c).kind = "observe"
                   THEN AfterObservation(r, Local(c).alias, observed)
                   ELSE Activated(r, observed)
     /\ Go(c, "readme")
     /\ Frame /\ UNCHANGED <<metadata, rotation, watch, requests, blobs, counts, attempted>>

\* LiveAliasConflict ends the call.
AliasConflict(c) ==
  /\ At(c, "alias")
  /\ HeldByOther(Local(c).repo, Local(c).observed)
  /\ End(c)
  /\ Frame /\ UNCHANGED <<tables, counts, attempted>>

\* The README of whoever has the requested name now.  A validator that still
\* holds confirms the stored revision, whose bytes are not sent again.
ReadmeReply(c, q) == ReadmeAt(q, version[q])

\* Mutant: a stored README is taken as current without asking.
FetchReadmeStored(c) ==
  /\ At(c, "readme")
  /\ \E q \in Bearer(Local(c).alias) :
       LET stored == metadata[Local(c).repo] IN
       caller' = [caller EXCEPT ![c] =
         [@ EXCEPT !.readme = IF stored = NoMeta THEN ReadmeReply(c, q) ELSE stored.source.readme,
                   !.pc = IF stored = NoMeta THEN "store" ELSE "apply"]]
  /\ Frame /\ UNCHANGED <<tables, counts, attempted>>

FetchReadme(c) ==
  /\ At(c, "readme")
  /\ \E q \in Bearer(Local(c).alias) :
       LET stored == metadata[Local(c).repo]
           held == stored # NoMeta /\ stored.source.readme = ReadmeReply(c, q)
           sent == ~held /\ ReadmeReply(c, q) # Absent
       IN caller' = [caller EXCEPT ![c] = [@ EXCEPT !.readme = ReadmeReply(c, q),
                                                    !.pc = IF sent THEN "store" ELSE "apply"]]
  /\ Frame /\ UNCHANGED <<tables, counts, attempted>>

\* 401 or 403, whatever the reason: the README is recorded as absent.
FetchReadmeRefused(c) ==
  /\ At(c, "readme")
  /\ counts.stops < MaxStops /\ Count("stops")
  /\ caller' = [caller EXCEPT ![c] = [@ EXCEPT !.readme = Absent, !.pc = "apply"]]
  /\ refused' = refused \union {Local(c).repo}
  /\ UNCHANGED <<github, renamed, swept, tables, attempted>>

\* The name has moved since: the README endpoint answers with an error.
FetchReadmeMoved(c) ==
  /\ At(c, "readme") /\ Bearer(Local(c).alias) = {}
  /\ End(c)
  /\ Frame /\ UNCHANGED <<tables, counts, attempted>>

\* store_readme commits before apply_fresh_source.
StoreReadme(c) ==
  /\ At(c, "store")
  /\ blobs' = blobs \union {Local(c).readme}
  /\ swept' = swept \ {Local(c).readme}
  /\ Go(c, "apply")
  /\ UNCHANGED <<github, renamed, refused, aliases, metadata, rotation, watch, requests, counts, attempted>>

FreshSource(c) == [attributes |-> <<Local(c).repo, Attributes[Local(c).fresh]>>,
                   readme |-> Local(c).readme]

\* apply_fresh_source: an equal source refreshes nothing but its time.
ApplySource(c) ==
  LET r == Local(c).repo
      new == [source |-> FreshSource(c), etag |-> Local(c).fresh]
  IN /\ At(c, "apply")
     /\ metadata' = IF metadata[r].source = new.source THEN metadata
                    ELSE [metadata EXCEPT ![r] = new]
     /\ rotation' = IF metadata[r] = NoMeta THEN <<r>> \o rotation ELSE rotation
     /\ caller' = [caller EXCEPT ![c] =
                     [Blank EXCEPT !.pc = IF Local(c).kind = "track" THEN "register" ELSE "evaluate",
                                   !.repo = r, !.selected = Local(c).selected]]
     /\ Frame /\ UNCHANGED <<aliases, watch, requests, blobs, counts, attempted>>

\* register_repository_analysis_watch, unevaluated: a checkpoint is kept.
RegisterWatch(c) ==
  LET r == Local(c).repo IN
  /\ At(c, "register")
  /\ watch' = [watch EXCEPT ![r] = [@ EXCEPT !.known = TRUE, !.enabled = TRUE]]
  /\ Go(c, "evaluate")
  /\ Frame /\ UNCHANGED <<aliases, metadata, rotation, requests, blobs, counts, attempted>>

\* evaluate_metadata_watches reads the stored revision without a lock ...
EvaluateRead(c) ==
  /\ At(c, "evaluate")
  /\ caller' = [caller EXCEPT ![c] = [@ EXCEPT !.pc = "queue",
                                               !.evaluated = metadata[Local(c).repo].source]]
  /\ Frame /\ UNCHANGED <<tables, counts, attempted>>

\* ... then locks the watches whose checkpoint differs, queues one request per
\* revision and moves the checkpoint.
EvaluateWrite(c) ==
  LET r == Local(c).repo
      h == Local(c).evaluated
      due == watch[r].enabled /\ watch[r].checkpoint # h
  IN /\ At(c, "queue")
     /\ watch' = IF due THEN [watch EXCEPT ![r] = [@ EXCEPT !.checkpoint = h]] ELSE watch
     /\ requests' = IF due THEN requests \union {<<r, h>>} ELSE requests
     /\ End(c)
     /\ Frame /\ UNCHANGED <<aliases, metadata, rotation, blobs, counts, attempted>>

\* record_observation_attempt
RecordAttempt ==
  LET r == Local(Observer).selected IN
  /\ At(Observer, "attempt")
  /\ rotation' = Append(SelectSeq(rotation, LAMBDA q : q # r), r)
  /\ attempted' = r
  /\ Leave(Observer)
  /\ Frame /\ UNCHANGED <<aliases, metadata, watch, requests, blobs, counts>>

\* The provider or the database fails; the observer still records the attempt.
CallFails(c) ==
  /\ caller[c].pc \notin {"idle", "attempt"}
  /\ counts.stops < MaxStops /\ Count("stops")
  /\ End(c)
  /\ Frame /\ UNCHANGED <<tables, attempted>>

\* The budget is withheld before a provider request, or the process dies.
CallStops(c) ==
  /\ ~At(c, "idle")
  /\ counts.stops < MaxStops /\ Count("stops")
  /\ Leave(c)
  /\ Frame /\ UNCHANGED <<tables, attempted>>

-----------------------------------------------------------------------------
(* The catalog starts with what a first track recorded about some          *)
(* repositories, in any order.                                             *)

Recorded(r) == [source |-> SourceAt(r, 0), etag |-> 0]

Init ==
  /\ name = FirstName /\ version = [r \in Repos |-> 0]
  /\ \E order \in [1..Cardinality(Known) -> Known] :
       /\ \A i, j \in DOMAIN order : order[i] = order[j] => i = j
       /\ aliases = [i \in DOMAIN order |->
                       [repo |-> order[i], value |-> FirstName[order[i]], status |-> "active"]]
       /\ metadata = [r \in Repos |-> IF r \in Known THEN Recorded(r) ELSE NoMeta]
       /\ rotation = order
       /\ watch = [r \in Repos |-> IF r \in Known
                     THEN [enabled |-> TRUE, known |-> TRUE, checkpoint |-> SourceAt(r, 0)]
                     ELSE NoWatch]
       /\ requests = {<<r, SourceAt(r, 0)>> : r \in Known}
       /\ blobs = {ReadmeAt(r, 0) : r \in Known} \ {Absent}
  /\ caller = [c \in Callers |-> Blank]
  /\ counts = [edits |-> 0, actions |-> 0, stops |-> 0]
  /\ renamed = {} /\ refused = {} /\ swept = {} /\ attempted = None

\* What a call does when nothing fails.
Work(c) ==
  \/ FetchFresh(c) \/ FetchMoved(c) \/ FetchNotModified(c)
  \/ RecordAlias(c) \/ AliasConflict(c)
  \/ FetchReadme(c) \/ FetchReadmeMoved(c) \/ StoreReadme(c) \/ ApplySource(c)
  \/ RegisterWatch(c) \/ EvaluateRead(c) \/ EvaluateWrite(c)

Observe == BeginObserve \/ Work(Observer) \/ RecordAttempt

Next ==
  \/ \E r \in Repos : Push(r) \/ SetEnabled(r)
  \/ \E r \in Repos, n \in Names : Rename(r, n)
  \/ \E d \in Bytes : CollectReadme(d)
  \/ BeginObserve \/ RecordAttempt
  \/ \E c \in Api, r \in Repos, kind \in {"metadata", "track"} : BeginAction(c, r, kind)
  \/ \E c \in Callers : Work(c) \/ FetchReadmeRefused(c) \/ CallFails(c) \/ CallStops(c)

Spec == Init /\ [][Next]_vars

\* The observer's loop runs on its interval, and the runtime polls every action.
FairSpec == Spec /\ WF_vars(Observe) /\ \A c \in Api : WF_vars(Work(c))

-----------------------------------------------------------------------------
(* Properties.                                                             *)

\* The current source, or the current attributes beside a README that was refused.
Truthful(r) == {Source(r)} \union
  (IF r \in refused THEN {[Source(r) EXCEPT !.readme = Absent]} ELSE {})

\* A validator that GitHub still confirms stands for the current source, whichever
\* caller stored it last: the answer 304 never hides a change of a repository
\* that keeps its name (observe_repository 370-377, apply_fresh_source).  It can
\* only hide a README that was refused when the attributes were read.
ValidatorTruthful ==
  \A r \in Repos \ renamed :
    metadata[r] # NoMeta /\ metadata[r].etag = version[r] => metadata[r].source \in Truthful(r)

\* The bytes of every README that metadata or a request names are kept, unless an
\* erasure collected them in the middle of a call: between store_readme and
\* apply_fresh_source, or between the two statements of an evaluation.
ReadmeBytesKept == Referenced \subseteq blobs \union swept

\* The observer brings every enabled watch of a repository that keeps its name to
\* the current source, with a request for it, after any interleaving of callers,
\* lost evaluations and stale ones; a README that was refused once may stay
\* absent until the repository changes.
WatchesConverge ==
  \A r \in Repos :
    <>[](r \notin renamed /\ watch[r].enabled /\ metadata[r] # NoMeta)
      => <>[](/\ metadata[r].source \in Truthful(r)
               /\ watch[r].checkpoint = metadata[r].source
               /\ <<r, watch[r].checkpoint>> \in requests)

\* A repository that cannot be read never holds the front of the queue: each
\* watched repository is attempted again and again
\* (select_watched_repositories 112-114).
RotationReachesAll ==
  \A r \in Repos : <>[]Watchable(r) => []<>(attempted = r)

\* A repository has one live owner/name: after rename evidence the old alias is
\* history (identity.rs 240-242).
OneLiveAlias ==
  \A i, j \in DOMAIN aliases :
    aliases[i].status = "active" /\ aliases[j].status = "active" /\ aliases[i].repo = aliases[j].repo
      => i = j
=============================================================================
