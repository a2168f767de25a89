------------------------------ MODULE StarSync ------------------------------
(***************************************************************************)
(* Star synchronization of one GitHub account: the full snapshot           *)
(* (crates/catalog/src/snapshot.rs) and the watermark-bounded incremental  *)
(* scan (crates/catalog/src/incremental.rs), run by workers that may stop  *)
(* between any two durable steps, against a starred listing that its owner *)
(* keeps changing while pages are being fetched.                           *)
(*                                                                         *)
(* A provider exchange or a database transaction is one step.  Provider    *)
(* timestamps are positive naturals and 0 stands for SQL null; run ids are *)
(* positive naturals handed out in order and 0 stands for "no run".        *)
(***************************************************************************)
EXTENDS Naturals, Sequences, FiniteSets

CONSTANTS
  Repos,              \* provider repositories
  Workers,            \* callers of the two flows for this account
  PageSize,           \* entries per listing page (STARRED_PAGE_SIZE)
  InitialStars,       \* repositories starred at the start, newest first
  InitialModes,       \* assignments of modes before the first sync
  StampKinds,         \* how a new star may be stamped: "later", "same", "none"
  RemovalsDuringRun,  \* may the owner unstar while a run is open?
  MaxMoves,           \* bound: changes the owner makes to the listing
  MaxRuns,            \* bound: sync_runs rows
  MaxStops,           \* bound: pauses, errors and crashes of workers
  MaxPage             \* bound: page numbers, a page that is always past the end

ASSUME ConstantsAssumption ==
  /\ PageSize \in Nat \ {0}
  /\ InitialStars \in Seq(Repos)
  /\ InitialModes \subseteq [Repos -> {"unclassified", "tracked", "ignored"}]
  /\ StampKinds \subseteq {"later", "same", "none"}
  /\ RemovalsDuringRun \in BOOLEAN
  /\ MaxMoves \in Nat
  /\ MaxRuns \in Nat \ {0}
  /\ MaxStops \in Nat
  /\ MaxPage \in Nat \ {0}
  /\ IsFiniteSet(Repos) /\ (MaxPage - 1) * PageSize >= Cardinality(Repos)

VARIABLES
  listing,     \* the provider's starred listing, newest first (external)
  clock,       \* newest provider timestamp handed out (external)
  moves,       \* changes the owner has made so far
  runs,        \* sync_runs with their latest checkpoint and snapshot_items
  current,     \* current_star_state, one row per repository
  lastFact,    \* newest star_observations row of each repository
  mode,        \* repositories.mode
  watermark,   \* star_watermarks.high_water_mark
  repairs,     \* reconciliation_repairs
  worker,      \* the local state of each caller
  stops,       \* pauses, errors and crashes so far
  seenPresent, \* history: repositories listed at some time since a run opened
  seenAbsent,  \* history: repositories unlisted at some time since a run opened
  disturbed    \* history: runs during which the listing changed

upstream == <<listing, clock, moves>>
catalog  == <<runs, current, lastFact, mode, watermark, repairs>>
history  == <<seenPresent, seenAbsent, disturbed>>
vars     == <<upstream, catalog, worker, stops, history>>

-----------------------------------------------------------------------------
(* Types.                                                                  *)

RunIds == 1..MaxRuns
Item   == [repo : Repos, at : Nat]

NoMode       == "unclassified"
CatalogModes == {NoMode, "auto", "tracked", "ignored"}

Run == [mode     : {"full", "incremental"},
        status   : {"unborn", "running", "completed", "failed"},
        next     : Nat \ {0},
        boundary : Nat,
        staged   : Seq(Item)]

StarRow == [known : BOOLEAN, starred : BOOLEAN, at : Nat, evidence : Nat]

Worker == [pc     : {"idle", "fullFetch", "fullRecord", "fullApply",
                     "scanFetch", "scanIngest", "scanComplete", "failing"},
           run    : Nat,       \* run_id
           page   : Nat,       \* page
           reply  : Seq(Item), \* reply.page.items
           todo   : SUBSET Nat, \* the part of the window not yet ingested
           mark   : Nat,       \* watermark, read once when the scan starts
           seen   : Nat,       \* oldest_seen
           oldest : Nat]       \* oldest_ingested

Repair == [run : RunIds, repo : Repos,
           action : {"unstar_after_drift", "restore_after_miss"}]

TypeOK ==
  /\ listing \in Seq(Item)
  /\ clock \in Nat /\ moves \in Nat /\ stops \in Nat
  /\ runs \in [RunIds -> Run]
  /\ current \in [Repos -> StarRow]
  /\ lastFact \in [Repos -> {"none", "starred", "unstarred"}]
  /\ mode \in [Repos -> CatalogModes]
  /\ watermark \in Nat
  /\ repairs \subseteq Repair
  /\ worker \in [Workers -> Worker]
  /\ \A w \in Workers :
       /\ worker[w].pc # "idle" => worker[w].run \in RunIds /\ worker[w].page # 0
       /\ worker[w].todo \subseteq IF worker[w].pc = "scanIngest"
                                   THEN DOMAIN worker[w].reply ELSE {}
  /\ seenPresent \in [RunIds -> SUBSET Repos]
  /\ seenAbsent \in [RunIds -> SUBSET Repos]
  /\ disturbed \subseteq RunIds

-----------------------------------------------------------------------------
(* Operators shared by the flows.                                          *)

ReposOf(items) == {items[k].repo : k \in DOMAIN items}

Earlier(a, b) == IF a < b THEN a ELSE b
Later(a, b)   == IF a < b THEN b ELSE a

Coalesce(a, b) == IF a # 0 THEN a ELSE b

\* Earliest of two optional timestamps, as Option::map_or(.., min) computes it.
EarliestKnown(a, b) == IF a = 0 THEN b ELSE Earlier(a, b)

\* The listing before the owner changes it.
InitialListing ==
  [k \in 1..Len(InitialStars) |->
     [repo |-> InitialStars[k], at |-> Len(InitialStars) + 1 - k]]

\* Mutant: pages are answered from a cache that is never refreshed.
PageCached(p) ==
  SubSeq(InitialListing, (p - 1) * PageSize + 1,
         Earlier(p * PageSize, Len(InitialListing)))

\* One page of an offset-paginated listing; empty past the end.
Page(p) ==
  SubSeq(listing, (p - 1) * PageSize + 1, Earlier(p * PageSize, Len(listing)))

RunningRuns(m) == {i \in RunIds : runs[i].mode = m /\ runs[i].status = "running"}
UnbornRuns     == {i \in RunIds : runs[i].status = "unborn"}
AnyRunning     == \E i \in RunIds : runs[i].status = "running"

Idle == [pc |-> "idle", run |-> 0, page |-> 0, reply |-> <<>>, todo |-> {},
         mark |-> 0, seen |-> 0, oldest |-> 0]

\* Mutant: the position after a page skips the following one.
NextPageSkips(p) == Earlier(p + 2, MaxPage)

NextPage(p) == Earlier(p + 1, MaxPage)

\* Star evidence promotes only unclassified entries.
Classified(m) == IF m = NoMode THEN "auto" ELSE m

-----------------------------------------------------------------------------
(* The owner changes the listing on GitHub.                                *)

Stamp(kind) == CASE kind = "later" -> clock + 1
                 [] kind = "same"  -> clock
                 [] kind = "none"  -> 0

\* A repository becomes starred, at the head of the newest-first listing.
UpstreamStar(r, kind) ==
  /\ moves < MaxMoves
  /\ r \notin ReposOf(listing)
  /\ listing' = <<[repo |-> r, at |-> Stamp(kind)]>> \o listing
  /\ clock' = Later(clock, Stamp(kind))
  /\ moves' = moves + 1
  /\ seenPresent' = [i \in RunIds |-> IF runs[i].status # "unborn"
                                      THEN seenPresent[i] \union {r}
                                      ELSE seenPresent[i]]
  /\ disturbed' = disturbed \union {i \in RunIds : runs[i].status = "running"}
  /\ UNCHANGED <<catalog, worker, stops, seenAbsent>>

\* A repository is unstarred and every later entry moves up one position.
UpstreamUnstar(r) ==
  /\ moves < MaxMoves
  /\ RemovalsDuringRun \/ ~AnyRunning
  /\ \E k \in DOMAIN listing :
       /\ listing[k].repo = r
       /\ listing' = SubSeq(listing, 1, k - 1) \o SubSeq(listing, k + 1, Len(listing))
  /\ moves' = moves + 1
  /\ seenAbsent' = [i \in RunIds |-> IF runs[i].status # "unborn"
                                     THEN seenAbsent[i] \union {r}
                                     ELSE seenAbsent[i]]
  /\ disturbed' = disturbed \union {i \in RunIds : runs[i].status = "running"}
  /\ UNCHANGED <<clock, catalog, worker, stops, seenPresent>>

-----------------------------------------------------------------------------
(* Runs: opened or resumed, failed, abandoned.                             *)

\* Mutant: a run that has recorded a page is not picked up again.
ResumableFresh(m, i) ==
  /\ i \in RunningRuns(m)
  /\ runs[i].next = 1
  /\ \A j \in RunningRuns(m) : j <= i

\* The newest running run of a mode, which a new call picks up again.
Resumable(m, i) ==
  /\ i \in RunningRuns(m)
  /\ \A j \in RunningRuns(m) : j <= i

\* A fresh sync_runs row; only when no run of the mode is running.
OpenRun(m, i) ==
  /\ RunningRuns(m) = {}
  /\ i \in UnbornRuns
  /\ \A j \in UnbornRuns : i <= j
  /\ runs' = [runs EXCEPT ![i] = [mode |-> m, status |-> "running", next |-> 1,
                                  boundary |-> 0, staged |-> <<>>]]
  /\ seenPresent' = [seenPresent EXCEPT ![i] = ReposOf(listing)]
  /\ seenAbsent' = [seenAbsent EXCEPT ![i] = Repos \ ReposOf(listing)]
  /\ UNCHANGED <<upstream, current, lastFact, mode, watermark, repairs,
                 stops, disturbed>>

ResumeRun(m, i) ==
  /\ Resumable(m, i)
  /\ UNCHANGED <<upstream, catalog, stops, history>>

\* The run fails if it still runs, and its staging goes either way.
FailRun(w) ==
  LET i == worker[w].run IN
  /\ worker[w].pc = "failing"
  /\ runs' = [runs EXCEPT ![i] =
                 [@ EXCEPT !.status = IF runs[i].status = "running"
                                        THEN "failed" ELSE runs[i].status,
                           !.staged = <<>>]]
  /\ worker' = [worker EXCEPT ![w] = Idle]
  /\ UNCHANGED <<upstream, current, lastFact, mode, watermark, repairs,
                 stops, history>>

\* The provider answers a page request with an error.
ProviderError(w) ==
  /\ worker[w].pc \in {"fullFetch", "scanFetch"}
  /\ worker' = [worker EXCEPT ![w].pc = "failing"]
  /\ UNCHANGED <<upstream, catalog, stops, history>>

\* The call ends early and leaves what is durable as it stands: the budget
\* refuses the page, the database returns an error, or the process dies.
Stop(w) ==
  /\ stops < MaxStops
  /\ worker[w].pc # "idle"
  /\ worker' = [worker EXCEPT ![w] = Idle]
  /\ stops' = stops + 1
  /\ UNCHANGED <<upstream, catalog, history>>

-----------------------------------------------------------------------------
(* The full snapshot.                                                      *)

\* run_full_snapshot starts; an incremental call without a watermark lands
\* here as well.
StartFull(w) ==
  /\ worker[w].pc = "idle"
  /\ \E i \in RunIds :
       /\ \/ OpenRun("full", i)
          \/ ResumeRun("full", i)
       /\ worker' = [worker EXCEPT ![w] =
                       [Idle EXCEPT !.pc = "fullFetch", !.run = i,
                                    !.page = runs'[i].next]]

FetchFullPage(w) ==
  /\ worker[w].pc = "fullFetch"
  /\ worker' = [worker EXCEPT ![w] = [@ EXCEPT !.pc = "fullRecord",
                                               !.reply = Page(worker[w].page)]]
  /\ UNCHANGED <<upstream, catalog, stops, history>>

\* One page is staged together with its checkpoint; an empty page ends the
\* traversal.
RecordPage(w) ==
  LET i == worker[w].run
      n == NextPage(worker[w].page)
  IN /\ worker[w].pc = "fullRecord"
     /\ runs' = [runs EXCEPT ![i] = [@ EXCEPT !.staged = runs[i].staged \o worker[w].reply,
                                              !.next = n]]
     /\ worker' = [worker EXCEPT ![w] =
                     [@ EXCEPT !.pc = IF worker[w].reply = <<>>
                                      THEN "fullApply" ELSE "fullFetch",
                               !.page = n,
                               !.reply = <<>>]]
     /\ UNCHANGED <<upstream, current, lastFact, mode, watermark, repairs,
                    stops, history>>

\* What the database accepts in the swap transaction: one staged row per
\* repository (an upsert may not touch a row twice), a timestamp on every
\* starred observation, and a run that has not failed (its failure reason
\* would outlive the status).
SwapAccepted(i) ==
  LET staged == runs[i].staged IN
  /\ \A j, k \in DOMAIN staged : staged[j].repo = staged[k].repo => j = k
  /\ \A k \in DOMAIN staged : staged[k].at # 0
  /\ runs[i].status # "failed"

StagedAt(i, r) ==
  runs[i].staged[CHOOSE k \in DOMAIN runs[i].staged :
                   runs[i].staged[k].repo = r].at

\* Repositories the swap marks unstarred: starred so far, not staged.
Dropped(i) == {r \in Repos : current[r].starred /\ r \notin ReposOf(runs[i].staged)}

\* A seen repository is starred and keeps an established timestamp.
PromoteSeen(i, r) == [known |-> TRUE, starred |-> TRUE,
                      at |-> Coalesce(current[r].at, StagedAt(i, r)),
                      evidence |-> i]

\* Mutant: a removal keeps the evidence of the star.
UnstarAbsentKeepsEvidence(i, r) == [known |-> TRUE, starred |-> FALSE, at |-> 0,
                                    evidence |-> current[r].evidence]

UnstarAbsent(i, r) == [known |-> TRUE, starred |-> FALSE, at |-> 0, evidence |-> i]

DriftRepairs(i) ==
  LET seen   == ReposOf(runs[i].staged)
      repair == [r \in Repos |->
                   IF r \in Dropped(i) THEN "unstar_after_drift"
                                       ELSE "restore_after_miss"]
  IN {[run |-> i, repo |-> r, action |-> repair[r]] :
        r \in {q \in Repos :
                 /\ q \in Dropped(i) \/ (q \in seen /\ current[q].known
                                                    /\ ~current[q].starred)
                 /\ \A x \in repairs : ~(x.run = i /\ x.repo = q)}}

SwapState(i) ==
  [r \in Repos |-> CASE r \in ReposOf(runs[i].staged) -> PromoteSeen(i, r)
                     [] r \in Dropped(i) -> UnstarAbsent(i, r)
                     [] OTHER -> current[r]]

SwapFacts(i) ==
  [r \in Repos |-> CASE r \in ReposOf(runs[i].staged) -> "starred"
                     [] r \in Dropped(i) -> "unstarred"
                     [] OTHER -> lastFact[r]]

\* Mutant: a removal does not release auto governance.
SwapModesKeepAuto(i) ==
  [r \in Repos |-> IF r \in ReposOf(runs[i].staged) THEN Classified(mode[r])
                                                    ELSE mode[r]]

SwapModes(i) ==
  [r \in Repos |->
     CASE r \in ReposOf(runs[i].staged) -> Classified(mode[r])
       [] r \in Dropped(i) /\ mode[r] = "auto" -> NoMode
       [] OTHER -> mode[r]]

\* The mark moves to the newest staged timestamp and never retreats.
ReanchorWatermark(i) ==
  LET stamps == {0} \union {runs[i].staged[k].at : k \in DOMAIN runs[i].staged}
  IN \E newest \in stamps :
       /\ \A t \in stamps : t <= newest
       /\ watermark' = Later(watermark, newest)

\* The authority swap: one transaction.
ApplyAuthority(w) ==
  LET i == worker[w].run IN
  /\ worker[w].pc = "fullApply"
  /\ SwapAccepted(i)
  /\ current' = SwapState(i)
  /\ lastFact' = SwapFacts(i)
  /\ mode' = SwapModes(i)
  /\ repairs' = repairs \union DriftRepairs(i)
  /\ ReanchorWatermark(i)
  /\ runs' = [runs EXCEPT ![i] = [@ EXCEPT !.status = "completed", !.staged = <<>>]]
  /\ worker' = [worker EXCEPT ![w] = Idle]
  /\ UNCHANGED <<upstream, stops, history>>

\* The transaction is refused and the caller gets the error; the run stays
\* open with its staging.
ApplyRejected(w) ==
  /\ worker[w].pc = "fullApply"
  /\ ~SwapAccepted(worker[w].run)
  /\ worker' = [worker EXCEPT ![w] = Idle]
  /\ UNCHANGED <<upstream, catalog, stops, history>>

-----------------------------------------------------------------------------
(* The incremental scan.                                                   *)

\* run_incremental_scan starts with the mark it reads now; without a mark it
\* is a full snapshot (StartFull).
StartScan(w) ==
  /\ worker[w].pc = "idle"
  /\ watermark # 0
  /\ \E i \in RunIds :
       /\ \/ OpenRun("incremental", i)
          \/ ResumeRun("incremental", i)
       /\ worker' = [worker EXCEPT ![w] =
                       [Idle EXCEPT !.pc = "scanFetch", !.run = i,
                                    !.page = runs'[i].next,
                                    !.mark = watermark,
                                    !.seen = runs'[i].boundary]]

\* Every timestamp is present and none exceeds the one before it, the first
\* compared with what earlier pages of the run ended on.
OrderProof(items, previous) ==
  /\ \A k \in DOMAIN items : items[k].at # 0
  /\ items # <<>> /\ previous # 0 => items[1].at <= previous
  /\ \A k \in DOMAIN items : k > 1 => items[k].at <= items[k - 1].at

\* The strictly newer part of a page, by position.
Window(items, mark) == {k \in DOMAIN items : items[k].at > mark}

\* Mutant: one page is always enough.
CoverageAssumed(items, mark) == TRUE

\* An item at or below the mark, or an empty page, proves coverage.
CoverageProven(items, mark) ==
  Window(items, mark) # DOMAIN items \/ items = <<>>

\* The oldest timestamp ingested once the window of a page is in: that of the
\* last item taken, unless an earlier page ended on an older one.
OldestIngested(oldest, items, window) ==
  IF window = {} THEN {oldest}
  ELSE {EarliestKnown(oldest, items[last].at) : last \in {k \in window : \A j \in window : j <= k}}

FetchScanPage(w) ==
  LET reply == Page(worker[w].page) IN
  /\ worker[w].pc = "scanFetch"
  /\ OrderProof(reply, worker[w].seen)
  /\ worker' = [worker EXCEPT ![w] =
                  [@ EXCEPT !.pc = "scanIngest", !.reply = reply,
                            !.todo = Window(reply, worker[w].mark)]]
  /\ UNCHANGED <<upstream, catalog, stops, history>>

DetectGap(w) ==
  /\ worker[w].pc = "scanFetch"
  /\ ~OrderProof(Page(worker[w].page), worker[w].seen)
  /\ worker' = [worker EXCEPT ![w].pc = "failing"]
  /\ UNCHANGED <<upstream, catalog, stops, history>>

\* The state row after ingesting an item stamped at in run i.
Ingested(row, i, at) ==
  [known |-> TRUE, starred |-> TRUE, at |-> Coalesce(row.at, at), evidence |-> i]

\* One item of the window, in a transaction of its own.
RecordIngest(w) ==
  /\ worker[w].pc = "scanIngest"
  /\ \E k \in worker[w].todo :
       LET r == worker[w].reply[k].repo IN
       /\ \A j \in worker[w].todo : k <= j
       /\ current' = [current EXCEPT ![r] =
                        Ingested(@, worker[w].run, worker[w].reply[k].at)]
       /\ lastFact' = [lastFact EXCEPT ![r] = "starred"]
       /\ mode' = [mode EXCEPT ![r] = Classified(@)]
       /\ worker' = [worker EXCEPT ![w].todo = @ \ {k}]
  /\ UNCHANGED <<upstream, runs, watermark, repairs, stops, history>>

\* The page is checkpointed once its whole window is in.
RecordScanPage(w) ==
  LET i     == worker[w].run
      n     == NextPage(worker[w].page)
      reply == worker[w].reply
      seen  == IF reply = <<>> THEN worker[w].seen
               ELSE EarliestKnown(worker[w].seen, reply[Len(reply)].at)
  IN /\ worker[w].pc = "scanIngest"
     /\ worker[w].todo = {}
     /\ runs' = [runs EXCEPT ![i] = [@ EXCEPT !.next = n, !.boundary = seen]]
     /\ \E oldest \in OldestIngested(worker[w].oldest, reply, Window(reply, worker[w].mark)) :
          worker' = [worker EXCEPT ![w] =
                       [@ EXCEPT !.pc = IF CoverageProven(reply, worker[w].mark)
                                        THEN "scanComplete" ELSE "scanFetch",
                                 !.page = n,
                                 !.reply = <<>>,
                                 !.seen = seen,
                                 !.oldest = oldest]]
     /\ UNCHANGED <<upstream, current, lastFact, mode, watermark, repairs,
                    stops, history>>

\* The run completes and the mark moves to the oldest timestamp it ingested,
\* unless the run has failed meanwhile and the row refuses the status.
CompleteScan(w) ==
  LET i        == worker[w].run
      accepted == runs[i].status # "failed"
  IN /\ worker[w].pc = "scanComplete"
     /\ watermark' = IF accepted THEN Later(watermark, worker[w].oldest)
                                 ELSE watermark
     /\ runs' = IF accepted THEN [runs EXCEPT ![i].status = "completed"] ELSE runs
     /\ worker' = [worker EXCEPT ![w] = Idle]
     /\ UNCHANGED <<upstream, current, lastFact, mode, repairs, stops, history>>

-----------------------------------------------------------------------------
(* The specification.  The account starts with its k oldest stars already  *)
(* synchronized by an earlier full run, or with nothing when k is 0.       *)

Synced(k, r) == \E j \in DOMAIN InitialListing :
                  InitialListing[j].repo = r /\ InitialListing[j].at <= k

BlankRun == [mode |-> "full", status |-> "unborn", next |-> 1, boundary |-> 0,
             staged |-> <<>>]

InitFrom(k, m) ==
  /\ listing = InitialListing
  /\ clock = Len(InitialStars) /\ moves = 0 /\ stops = 0
  /\ runs = [i \in RunIds |-> IF i = 1 /\ k > 0
                              THEN [BlankRun EXCEPT !.status = "completed"]
                              ELSE BlankRun]
  /\ current = [r \in Repos |->
                  IF Synced(k, r)
                  THEN [known |-> TRUE, starred |-> TRUE,
                        at |-> InitialListing[CHOOSE j \in DOMAIN InitialListing :
                                                InitialListing[j].repo = r].at,
                        evidence |-> 1]
                  ELSE [known |-> FALSE, starred |-> FALSE, at |-> 0, evidence |-> 0]]
  /\ lastFact = [r \in Repos |-> IF Synced(k, r) THEN "starred" ELSE "none"]
  /\ mode = [r \in Repos |-> IF Synced(k, r) /\ m[r] = NoMode THEN "auto" ELSE m[r]]
  /\ watermark = k
  /\ repairs = {}
  /\ worker = [w \in Workers |-> Idle]
  /\ seenPresent = [i \in RunIds |-> IF i = 1 /\ k > 0 THEN ReposOf(InitialListing)
                                                       ELSE {}]
  /\ seenAbsent = [i \in RunIds |-> IF i = 1 /\ k > 0 THEN {r \in Repos : ~Synced(k, r)}
                                                      ELSE {}]
  /\ disturbed = {}

Init == \E k \in 0..Len(InitialStars), m \in InitialModes : InitFrom(k, m)

Owner == \/ \E r \in Repos, kind \in StampKinds : UpstreamStar(r, kind)
         \/ \E r \in Repos : UpstreamUnstar(r)

\* What a live call does next of its own accord.
Proceed(w) ==
  \/ FetchFullPage(w)
  \/ RecordPage(w)
  \/ ApplyAuthority(w)
  \/ ApplyRejected(w)
  \/ FetchScanPage(w)
  \/ DetectGap(w)
  \/ RecordIngest(w)
  \/ RecordScanPage(w)
  \/ CompleteScan(w)
  \/ FailRun(w)

Next ==
  \/ Owner
  \/ \E w \in Workers : \/ StartFull(w)
                        \/ StartScan(w)
                        \/ Proceed(w)
                        \/ ProviderError(w)
                        \/ Stop(w)

Spec == Init /\ [][Next]_vars

\* The platform's two schedules keep asking for both kinds of sync, and a call
\* that is running takes its next step.
Fairness == \A w \in Workers : /\ SF_vars(StartFull(w))
                               /\ SF_vars(StartScan(w))
                               /\ WF_vars(Proceed(w))

FairSpec == Spec /\ Fairness

-----------------------------------------------------------------------------
(* Strengthening used by the proofs.                                       *)

FullSteps == {"fullFetch", "fullRecord", "fullApply"}
ScanSteps == {"scanFetch", "scanIngest", "scanComplete"}

\* A caller works on a run that exists and is of the kind its flow opens.
CallersHoldRuns ==
  \A w \in Workers : worker[w].pc # "idle" =>
    LET i == worker[w].run IN
    /\ runs[i].status # "unborn"
    /\ worker[w].pc \in FullSteps => runs[i].mode = "full"
    /\ worker[w].pc \in ScanSteps => runs[i].mode = "incremental"

\* The evidence of a state row is a run that exists.
EvidenceExists ==
  \A r \in Repos : current[r].known =>
    current[r].evidence \in RunIds /\ runs[current[r].evidence].status # "unborn"

\* Everything a caller or a run holds was listed since the run was opened.
HeldWasListed ==
  /\ \A i \in RunIds : runs[i].status # "unborn" =>
       /\ ReposOf(listing) \subseteq seenPresent[i]
       /\ ReposOf(runs[i].staged) \subseteq seenPresent[i]
  /\ \A w \in Workers : worker[w].pc # "idle" =>
       ReposOf(worker[w].reply) \subseteq seenPresent[worker[w].run]

-----------------------------------------------------------------------------
(* Properties.                                                             *)

Starred == {r \in Repos : current[r].starred}

\* A repository is recorded as removed only on the word of a full snapshot
\* that completed, and no star rests on a full snapshot that did not: pages
\* staged by an open or failed run never reach current_star_state, and an
\* incremental scan never unstars (snapshot.rs 291-320, incremental.rs 4-5).
SnapshotEvidenceIsComplete ==
  \A r \in Repos : current[r].known =>
    LET e == current[r].evidence IN
    /\ e \in RunIds
    /\ runs[e].mode = "full" => runs[e].status = "completed"
    /\ ~current[r].starred => runs[e].mode = "full"

\* A repository that a step marks unstarred really was off the listing at some
\* moment since the run that is cited as evidence was opened
\* (unstar_absent_repositories, snapshot.rs 481-546).
UnstarsAreEvidenced ==
  [][\A r \in Repos : current[r].starred /\ ~current'[r].starred
                        => r \in seenAbsent[current'[r].evidence]]_vars

\* A repository that a step marks starred really was on the listing at some
\* moment since the run that is cited as evidence was opened, across pauses,
\* crashes and resumption (promote_seen_repositories, record_ingest).
StarsAreEvidenced ==
  [][\A r \in Repos : ~current[r].starred /\ current'[r].starred
                        => r \in seenPresent[current'[r].evidence]]_vars

\* A full snapshot during which the owner changed nothing ends with exactly
\* the listing as the starred set, whatever drift preceded it and however often
\* it was interrupted; over a state that already agreed it records no repair
\* (apply_authority_and_complete, snapshot.rs 286-320).
QuietSnapshotConverges ==
  [][\A i \in RunIds :
       /\ runs[i].mode = "full" /\ i \notin disturbed
       /\ runs[i].status = "running" /\ runs'[i].status = "completed"
       => /\ Starred' = ReposOf(listing)
          /\ Starred = ReposOf(listing) => repairs' = repairs]_vars

\* Everything the listing stamps at or below the high-water mark is starred
\* locally, so the next incremental scan may stop at the mark (schema.sql
\* 332-334, incremental.rs 8-10).
WatermarkCovers ==
  \A k \in DOMAIN listing :
    listing[k].at # 0 /\ listing[k].at <= watermark
      => current[listing[k].repo].starred

\* The mark covers as long as no call has stopped early; the owner may add but
\* not remove stars during runs (CONSTANT RemovalsDuringRun).
MarkCoversUninterrupted == stops = 0 => WatermarkCovers

\* The high-water mark never retreats, also when an older full run finishes
\* after a newer scan (reanchor_watermark and complete_run use greatest()).
WatermarkNeverRetreats == [][watermark' >= watermark]_vars

\* Synchronization classifies only what nobody classified: tracked and ignored
\* survive every step, and auto means starred, in both directions.
ModeFollowsStars ==
  \A r \in Repos : /\ mode[r] = "auto" => current[r].starred
                   /\ current[r].starred => mode[r] # NoMode

\* Synchronization never changes an explicit decision (snapshot.rs 463-464,
\* incremental.rs 369-370).
ExplicitModesHold ==
  [][\A r \in Repos : mode[r] \in {"tracked", "ignored"} => mode'[r] = mode[r]]_vars

\* The projection agrees with the newest append-only observation.
StateMatchesFacts ==
  \A r \in Repos : current[r].known =>
    lastFact[r] = IF current[r].starred THEN "starred" ELSE "unstarred"

\* Every run that is opened reaches a terminal status, however often its calls
\* stop early, unless it has staged what the swap transaction refuses: a scan
\* always ends, by the mark or by exhaustion, and so does a full run whose
\* listing did not grow under it (open_or_resume_run of both flows).
RunsFinish ==
  \A i \in RunIds : runs[i].status = "running"
                      ~> runs[i].status # "running" \/ ~SwapAccepted(i)
=============================================================================
