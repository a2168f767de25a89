--------------------------- MODULE StarSyncProofs ---------------------------
(***************************************************************************)
(* Theorems about StarSync for every value of its constants: any number of *)
(* repositories, stars, runs and concurrent callers.  The types come       *)
(* first; then what the rows of current_star_state rest on and what no     *)
(* step may undo; then that every star was on the listing, which follows   *)
(* repositories from the listing through page replies, staging and the     *)
(* ingestion window into current_star_state; last, for a single caller,    *)
(* that the pages of a full snapshot miss nothing that stays listed.       *)
(***************************************************************************)
EXTENDS StarSync, TLAPS

\* Zenon takes the steps that reason about sets and functions; a step that
\* needs arithmetic or records says SMT.
USE Zenon

-----------------------------------------------------------------------------
(* The operators the actions are built from.                               *)

LEMMA EmptyType == <<>> \in Seq(Item)
  BY SMT

\* The repositories of a list of items.
LEMMA ReposOfType ==
  ASSUME NEW items \in Seq(Item)
  PROVE  ReposOf(items) \subseteq Repos
<1>1. \A k \in DOMAIN items : items[k] \in Item
  BY SMT
<1> QED BY <1>1 DEF ReposOf, Item

\* A contiguous part of a list of items.
LEMMA PartOfItems ==
  ASSUME NEW items \in Seq(Item), NEW a \in Nat \ {0}, NEW b \in Nat,
         b <= Len(items)
  PROVE  /\ SubSeq(items, a, b) \in Seq(Item)
         /\ Len(SubSeq(items, a, b)) = IF a <= b THEN b - a + 1 ELSE 0
         /\ \A k \in DOMAIN SubSeq(items, a, b) :
              k + a - 1 \in DOMAIN items /\ SubSeq(items, a, b)[k] = items[k + a - 1]
         /\ ReposOf(SubSeq(items, a, b)) \subseteq ReposOf(items)
<1>1. \A k \in a..b : items[k] \in Item
  BY SMT
<1>2. /\ SubSeq(items, a, b) \in Seq(Item)
      /\ Len(SubSeq(items, a, b)) = IF a <= b THEN b - a + 1 ELSE 0
      /\ \A k \in 1..(b - a + 1) : SubSeq(items, a, b)[k] = items[a + k - 1]
  BY SMT, <1>1
<1>3. \A k \in DOMAIN SubSeq(items, a, b) :
        k + a - 1 \in DOMAIN items /\ SubSeq(items, a, b)[k] = items[k + a - 1]
  BY SMT, <1>2
<1> QED BY SMT, <1>2, <1>3 DEF ReposOf

\* A page of the listing is a part of the listing.
LEMMA PageType ==
  ASSUME TypeOK, NEW p \in Nat \ {0}
  PROVE  /\ Page(p) \in Seq(Item)
         /\ ReposOf(Page(p)) \subseteq ReposOf(listing)
<1>1. PageSize \in Nat \ {0} /\ listing \in Seq(Item)
  BY ConstantsAssumption DEF TypeOK
<1>2. (p - 1) * PageSize + 1 \in Nat \ {0} /\ p * PageSize \in Nat
  <2>1. p - 1 \in Nat /\ PageSize \in Nat /\ p \in Nat
    BY SMT, <1>1
  <2>2. \A a, b \in Nat : a * b \in Nat
    BY SMT
  <2> QED BY SMT, <2>1, <2>2
<1>3. /\ Earlier(p * PageSize, Len(listing)) \in Nat
      /\ Earlier(p * PageSize, Len(listing)) <= Len(listing)
  BY SMT, <1>1, <1>2 DEF Earlier
<1> QED BY <1>1, <1>2, <1>3, PartOfItems DEF Page

\* A repository that a run staged has a staged timestamp.
LEMMA StagedAtType ==
  ASSUME TypeOK, NEW i \in RunIds, NEW r \in ReposOf(runs[i].staged)
  PROVE  StagedAt(i, r) \in Nat
<1> DEFINE staged == runs[i].staged
           at == CHOOSE k \in DOMAIN staged : staged[k].repo = r
<1>1. staged \in Seq(Item)
  BY DEF TypeOK, Run
<1>2. \E j \in DOMAIN staged : staged[j].repo = r
  BY DEF ReposOf
<1>3. at \in DOMAIN staged
  BY <1>2
<1>4. staged[at] \in Item
  <2> HIDE DEF at, staged
  <2> QED BY SMT, <1>1, <1>3
<1>5. StagedAt(i, r) = staged[at].at
  BY Zenon DEF StagedAt
<1> QED BY <1>4, <1>5 DEF Item

\* What the authority swap writes.
LEMMA SwapTypes ==
  ASSUME TypeOK, NEW i \in RunIds
  PROVE  /\ SwapState(i) \in [Repos -> StarRow]
         /\ SwapFacts(i) \in [Repos -> {"none", "starred", "unstarred"}]
         /\ SwapModes(i) \in [Repos -> CatalogModes]
         /\ DriftRepairs(i) \subseteq Repair
         /\ ReanchorWatermark(i) => watermark' \in Nat /\ watermark' >= watermark
<1>1. \A r \in Repos : r \in ReposOf(runs[i].staged) => PromoteSeen(i, r) \in StarRow
  <2> SUFFICES ASSUME NEW r \in Repos, r \in ReposOf(runs[i].staged)
               PROVE  PromoteSeen(i, r) \in StarRow
    OBVIOUS
  <2>1. StagedAt(i, r) \in Nat
    BY StagedAtType
  <2>2. current[r].at \in Nat /\ i \in Nat
    BY SMT DEF TypeOK, StarRow, RunIds
  <2> QED BY <2>1, <2>2 DEF PromoteSeen, StarRow, Coalesce
<1>2. \A r \in Repos : UnstarAbsent(i, r) \in StarRow
  BY SMT DEF UnstarAbsent, StarRow, RunIds
<1>3. SwapState(i) \in [Repos -> StarRow]
  BY <1>1, <1>2 DEF SwapState, TypeOK
<1>4. SwapFacts(i) \in [Repos -> {"none", "starred", "unstarred"}]
  BY DEF SwapFacts, TypeOK
<1>5. SwapModes(i) \in [Repos -> CatalogModes]
  BY DEF SwapModes, Classified, CatalogModes, NoMode, TypeOK
<1>6. DriftRepairs(i) \subseteq Repair
  BY SMT DEF DriftRepairs, Repair
<1>7. ReanchorWatermark(i) => watermark' \in Nat /\ watermark' >= watermark
  <2>1. runs[i].staged \in Seq(Item) /\ watermark \in Nat
    BY DEF TypeOK, Run
  <2>2. \A k \in DOMAIN runs[i].staged : runs[i].staged[k] \in Item
    BY SMT, <2>1
  <2>3. \A k \in DOMAIN runs[i].staged : runs[i].staged[k].at \in Nat
    BY <2>2 DEF Item
  <2> QED BY SMT, <2>1, <2>3 DEF ReanchorWatermark, Later
<1> QED BY <1>3, <1>4, <1>5, <1>6, <1>7

-----------------------------------------------------------------------------
(* Type correctness.                                                       *)

LEMMA InitialListingType == InitialListing \in Seq(Item)
<1>1. InitialStars \in Seq(Repos) /\ Len(InitialStars) \in Nat
  BY SMT, ConstantsAssumption
<1>2. \A k \in 1..Len(InitialStars) :
        [repo |-> InitialStars[k], at |-> Len(InitialStars) + 1 - k] \in Item
  BY SMT, <1>1 DEF Item
<1>3. InitialListing \in [1..Len(InitialStars) -> Item]
  BY <1>2 DEF InitialListing
<1> QED BY SMT, <1>1, <1>3

LEMMA InitTyped == Init => TypeOK
<1> SUFFICES ASSUME NEW k \in 0..Len(InitialStars), NEW m \in InitialModes,
                    InitFrom(k, m)
             PROVE  TypeOK
  BY DEF Init
<1>1. InitialStars \in Seq(Repos) /\ Len(InitialStars) \in Nat /\ k \in Nat
  BY SMT, ConstantsAssumption
<1>2. \A r \in Repos : current[r] \in StarRow
  <2> SUFFICES ASSUME NEW r \in Repos PROVE current[r] \in StarRow
    OBVIOUS
  <2> DEFINE place == CHOOSE j \in DOMAIN InitialListing : InitialListing[j].repo = r
  <2>1. CASE Synced(k, r)
    <3>1. \E j \in DOMAIN InitialListing : InitialListing[j].repo = r
      BY <2>1 DEF Synced
    <3>2. place \in DOMAIN InitialListing
      BY <3>1
    <3>3. InitialListing[place] \in Item
      <4> HIDE DEF place
      <4> QED BY SMT, <3>2, InitialListingType
    <3>4. current[r] = [known |-> TRUE, starred |-> TRUE,
                        at |-> InitialListing[place].at, evidence |-> 1]
      BY <2>1 DEF InitFrom
    <3> HIDE DEF place
    <3> QED BY SMT, <3>3, <3>4 DEF StarRow, Item
  <2>2. CASE ~Synced(k, r)
    BY <2>2 DEF InitFrom, StarRow
  <2> QED BY <2>1, <2>2
<1>3. current \in [Repos -> StarRow]
  <2>1. current = [r \in Repos |-> current[r]]
    BY DEF InitFrom
  <2> QED BY <1>2, <2>1
<1>4. runs \in [RunIds -> Run]
  <2>1. <<>> \in Seq(Item)
    BY SMT
  <2>2. BlankRun \in Run
    BY SMT, <2>1 DEF BlankRun, Run
  <2>3. [BlankRun EXCEPT !.status = "completed"] \in Run
    BY <2>2 DEF Run
  <2> QED BY <2>2, <2>3 DEF InitFrom
<1>5. worker \in [Workers -> Worker] /\ \A w \in Workers : worker[w].pc = "idle" /\ worker[w].todo = {}
  BY EmptyType DEF InitFrom, Idle, Worker
<1>6. mode \in [Repos -> CatalogModes]
  BY ConstantsAssumption DEF InitFrom, CatalogModes, NoMode
<1>7. listing \in Seq(Item)
  BY InitialListingType DEF InitFrom
<1>8. seenPresent \in [RunIds -> SUBSET Repos]
  BY InitialListingType, ReposOfType DEF InitFrom
<1>9. /\ clock \in Nat /\ moves \in Nat /\ stops \in Nat /\ watermark \in Nat
      /\ lastFact \in [Repos -> {"none", "starred", "unstarred"}]
      /\ repairs \subseteq Repair
      /\ seenAbsent \in [RunIds -> SUBSET Repos]
      /\ disturbed \subseteq RunIds
  BY <1>1 DEF InitFrom
<1> QED BY <1>3, <1>4, <1>5, <1>6, <1>7, <1>8, <1>9 DEF TypeOK

\* The owner's moves keep the listing a list of items.
LEMMA OwnerTyped == TypeOK /\ Owner => TypeOK'
<1> SUFFICES ASSUME TypeOK, Owner PROVE TypeOK'
  OBVIOUS
<1>1. ASSUME NEW r \in Repos, NEW kind \in StampKinds, UpstreamStar(r, kind)
      PROVE  TypeOK'
  <2>1. Stamp(kind) \in Nat
    BY SMT, ConstantsAssumption DEF Stamp, TypeOK
  <2>2. [repo |-> r, at |-> Stamp(kind)] \in Item
    BY <2>1 DEF Item
  <2>3. listing' \in Seq(Item)
    BY SMT, <1>1, <2>2 DEF UpstreamStar, TypeOK
  <2>4. clock' \in Nat /\ moves' \in Nat
    BY SMT, <1>1, <2>1 DEF UpstreamStar, Later, TypeOK
  <2>5. seenPresent' \in [RunIds -> SUBSET Repos] /\ disturbed' \subseteq RunIds
    BY <1>1 DEF UpstreamStar, TypeOK
  <2>6. UNCHANGED <<catalog, worker, stops, seenAbsent>>
    BY <1>1 DEF UpstreamStar
  <2> QED BY <2>3, <2>4, <2>5, <2>6 DEF TypeOK, catalog
<1>2. ASSUME NEW r \in Repos, UpstreamUnstar(r)
      PROVE  TypeOK'
  <2>1. listing' \in Seq(Item)
    <3>1. PICK k \in DOMAIN listing :
            listing' = SubSeq(listing, 1, k - 1) \o SubSeq(listing, k + 1, Len(listing))
      BY <1>2 DEF UpstreamUnstar
    <3>2. listing \in Seq(Item) /\ k \in 1..Len(listing)
      BY SMT, <3>1 DEF TypeOK
    <3>3. /\ SubSeq(listing, 1, k - 1) \in Seq(Item)
          /\ SubSeq(listing, k + 1, Len(listing)) \in Seq(Item)
      BY SMT, <3>2, PartOfItems
    <3> QED BY SMT, <3>1, <3>3
  <2>2. moves' \in Nat
    BY SMT, <1>2 DEF UpstreamUnstar, TypeOK
  <2>3. seenAbsent' \in [RunIds -> SUBSET Repos] /\ disturbed' \subseteq RunIds
    BY <1>2 DEF UpstreamUnstar, TypeOK
  <2>4. UNCHANGED <<clock, catalog, worker, stops, seenPresent>>
    BY <1>2 DEF UpstreamUnstar
  <2> QED BY <2>1, <2>2, <2>3, <2>4 DEF TypeOK, catalog
<1> QED BY <1>1, <1>2 DEF Owner

\* Opening or resuming a run.
LEMMA OpenTyped ==
  ASSUME TypeOK, NEW m \in {"full", "incremental"}, NEW i \in RunIds,
         OpenRun(m, i) \/ ResumeRun(m, i)
  PROVE  /\ runs' \in [RunIds -> Run]
         /\ runs'[i].mode = m /\ runs'[i].status # "unborn"
         /\ seenPresent' \in [RunIds -> SUBSET Repos]
         /\ seenAbsent' \in [RunIds -> SUBSET Repos]
         /\ UNCHANGED <<upstream, current, lastFact, mode, watermark, repairs,
                        stops, disturbed>>
<1>1. CASE OpenRun(m, i)
  <2>1. [mode |-> m, status |-> "running", next |-> 1,
         boundary |-> 0, staged |-> <<>>] \in Run
    BY SMT DEF Run
  <2>2. /\ runs' \in [RunIds -> Run]
        /\ runs'[i].mode = m /\ runs'[i].status # "unborn"
    BY <1>1, <2>1 DEF OpenRun, TypeOK
  <2>3. ReposOf(listing) \subseteq Repos
    BY ReposOfType DEF TypeOK
  <2>4. /\ seenPresent' \in [RunIds -> SUBSET Repos]
        /\ seenAbsent' \in [RunIds -> SUBSET Repos]
    BY <1>1, <2>3 DEF OpenRun, TypeOK
  <2> QED BY <1>1, <2>2, <2>4 DEF OpenRun
<1>2. CASE ResumeRun(m, i)
  BY <1>2 DEF ResumeRun, Resumable, RunningRuns, TypeOK, catalog, history
<1> QED BY <1>1, <1>2

\* What TypeOK says of the callers.
WorkersTyped ==
  /\ worker \in [Workers -> Worker]
  /\ \A w \in Workers :
       /\ worker[w].pc # "idle" => worker[w].run \in RunIds /\ worker[w].page # 0
       /\ worker[w].todo \subseteq IF worker[w].pc = "scanIngest"
                                   THEN DOMAIN worker[w].reply ELSE {}

LEMMA IdleType == Idle \in Worker /\ Idle.pc = "idle" /\ Idle.todo = {} /\ Idle.reply = <<>> /\ Idle.oldest = 0
  BY EmptyType DEF Idle, Worker

\* A caller that returns.
LEMMA ReturnTyped ==
  ASSUME TypeOK, NEW w \in Workers, worker' = [worker EXCEPT ![w] = Idle]
  PROVE  WorkersTyped'
  BY IdleType DEF WorkersTyped, TypeOK

\* A caller that goes on.
LEMMA StepTyped ==
  ASSUME TypeOK, NEW w \in Workers, NEW rec \in Worker,
         rec.run \in RunIds, rec.page # 0,
         rec.todo \subseteq IF rec.pc = "scanIngest" THEN DOMAIN rec.reply ELSE {},
         worker' = [worker EXCEPT ![w] = rec]
  PROVE  WorkersTyped'
  BY DEF WorkersTyped, TypeOK

LEMMA NextPageType ==
  ASSUME NEW p \in Nat
  PROVE  NextPage(p) \in Nat \ {0}
  BY SMT, ConstantsAssumption DEF NextPage, Earlier

\* The steps of a full snapshot.
LEMMA FullTyped ==
  ASSUME TypeOK, NEW w \in Workers,
         StartFull(w) \/ FetchFullPage(w) \/ RecordPage(w)
           \/ ApplyAuthority(w) \/ ApplyRejected(w)
  PROVE  TypeOK'
<1>1. CASE StartFull(w)
  <2>1. PICK i \in RunIds :
          /\ OpenRun("full", i) \/ ResumeRun("full", i)
          /\ worker' = [worker EXCEPT ![w] =
                          [Idle EXCEPT !.pc = "fullFetch", !.run = i,
                                       !.page = runs'[i].next]]
    BY <1>1 DEF StartFull
  <2>2. /\ runs' \in [RunIds -> Run]
        /\ seenPresent' \in [RunIds -> SUBSET Repos]
        /\ seenAbsent' \in [RunIds -> SUBSET Repos]
        /\ UNCHANGED <<upstream, current, lastFact, mode, watermark, repairs,
                       stops, disturbed>>
    BY <2>1, OpenTyped
  <2>3. runs'[i].next \in Nat \ {0} /\ i \in Nat
    BY SMT, <2>2 DEF Run, RunIds
  <2>4. WorkersTyped'
    <3> DEFINE rec == [Idle EXCEPT !.pc = "fullFetch", !.run = i, !.page = runs'[i].next]
    <3>1. rec \in Worker /\ rec.run \in RunIds /\ rec.page # 0 /\ rec.todo = {}
      BY <2>3, IdleType DEF Worker
    <3> QED BY <2>1, <3>1, StepTyped
  <2> QED BY <2>2, <2>4 DEF TypeOK, WorkersTyped, upstream
<1>2. CASE FetchFullPage(w)
  <2>1. worker[w].page \in Nat \ {0}
    BY <1>2 DEF FetchFullPage, TypeOK, Worker
  <2>2. Page(worker[w].page) \in Seq(Item)
    BY <2>1, PageType
  <2> DEFINE rec == [worker[w] EXCEPT !.pc = "fullRecord",
                                      !.reply = Page(worker[w].page)]
  <2>3. rec \in Worker /\ rec.run \in RunIds /\ rec.page # 0 /\ rec.todo = {}
    <3>1. worker[w] \in Worker /\ worker[w].run \in RunIds /\ worker[w].page # 0 /\ worker[w].todo = {}
      BY <1>2 DEF FetchFullPage, TypeOK
    <3> QED BY <2>2, <3>1 DEF Worker
  <2>5. WorkersTyped'
    <3>1. worker' = [worker EXCEPT ![w] = rec]
      BY <1>2 DEF FetchFullPage
    <3> QED BY <2>3, <3>1, StepTyped
  <2>4. UNCHANGED <<upstream, catalog, stops, history>>
    BY <1>2 DEF FetchFullPage
  <2> QED BY <2>4, <2>5 DEF TypeOK, WorkersTyped, upstream, catalog, history
<1>3. CASE RecordPage(w)
  <2> DEFINE i == worker[w].run
             n == NextPage(worker[w].page)
  <2>1. i \in RunIds /\ worker[w].reply \in Seq(Item) /\ worker[w].page \in Nat
    BY <1>3 DEF RecordPage, TypeOK, Worker
  <2>2. n \in Nat \ {0}
    BY <2>1, NextPageType
  <2>3. runs[i].staged \o worker[w].reply \in Seq(Item)
    BY SMT, <2>1 DEF TypeOK, Run
  <2>4. runs' \in [RunIds -> Run]
    <3> DEFINE row == [runs[i] EXCEPT !.staged = @ \o worker[w].reply, !.next = n]
    <3>1. row \in Run
      <4>1. runs[i] \in Run
        BY <2>1 DEF TypeOK
      <4> HIDE DEF i, n
      <4> QED BY <4>1, <2>2, <2>3 DEF Run
    <3>2. runs' = [runs EXCEPT ![i] = row]
      BY <1>3 DEF RecordPage
    <3> QED BY <3>1, <3>2 DEF TypeOK
  <2>5. WorkersTyped'
    <3> DEFINE rec == [worker[w] EXCEPT
                         !.pc = IF worker[w].reply = <<>>
                                THEN "fullApply" ELSE "fullFetch",
                         !.page = n,
                         !.reply = <<>>]
    <3>1. worker[w] \in Worker /\ worker[w].run \in RunIds /\ worker[w].todo = {}
      BY <1>3 DEF RecordPage, TypeOK
    <3>2. rec \in Worker /\ rec.run \in RunIds /\ rec.page # 0 /\ rec.todo = {}
      BY <2>1, <2>2, <3>1, EmptyType DEF Worker
    <3>3. worker' = [worker EXCEPT ![w] = rec]
      BY <1>3 DEF RecordPage
    <3> QED BY <3>2, <3>3, StepTyped
  <2>6. UNCHANGED <<upstream, current, lastFact, mode, watermark, repairs,
                    stops, history>>
    BY <1>3 DEF RecordPage
  <2> QED BY <2>4, <2>5, <2>6 DEF TypeOK, WorkersTyped, upstream, history
<1>4. CASE ApplyAuthority(w)
  <2> DEFINE i == worker[w].run
  <2>1. i \in RunIds
    BY <1>4 DEF ApplyAuthority, TypeOK
  <2>2. /\ current' \in [Repos -> StarRow]
        /\ lastFact' \in [Repos -> {"none", "starred", "unstarred"}]
        /\ mode' \in [Repos -> CatalogModes]
        /\ repairs' \subseteq Repair
        /\ watermark' \in Nat
    BY <1>4, <2>1, SwapTypes DEF ApplyAuthority, TypeOK
  <2>3. runs' \in [RunIds -> Run]
    <3> DEFINE row == [runs[i] EXCEPT !.status = "completed", !.staged = <<>>]
    <3>1. row \in Run
      <4>1. runs[i] \in Run /\ <<>> \in Seq(Item)
        BY SMT, <2>1 DEF TypeOK
      <4> HIDE DEF i
      <4> QED BY <4>1 DEF Run
    <3>2. runs' = [runs EXCEPT ![i] = row]
      BY <1>4 DEF ApplyAuthority
    <3> QED BY <3>1, <3>2 DEF TypeOK
  <2>4. WorkersTyped'
    BY <1>4, ReturnTyped DEF ApplyAuthority
  <2>5. UNCHANGED <<upstream, stops, history>>
    BY <1>4 DEF ApplyAuthority
  <2> QED BY <2>2, <2>3, <2>4, <2>5 DEF TypeOK, WorkersTyped, upstream, history
<1>5. CASE ApplyRejected(w)
  <2>1. WorkersTyped' /\ UNCHANGED <<upstream, catalog, stops, history>>
    BY <1>5, ReturnTyped DEF ApplyRejected
  <2> QED BY <2>1 DEF TypeOK, WorkersTyped, upstream, catalog, history
<1> QED BY <1>1, <1>2, <1>3, <1>4, <1>5

\* The steps of an incremental scan.
LEMMA ScanTyped ==
  ASSUME TypeOK, NEW w \in Workers,
         StartScan(w) \/ FetchScanPage(w) \/ DetectGap(w) \/ RecordIngest(w)
           \/ RecordScanPage(w) \/ CompleteScan(w)
  PROVE  TypeOK'
<1>1. CASE StartScan(w)
  <2>1. PICK i \in RunIds :
          /\ OpenRun("incremental", i) \/ ResumeRun("incremental", i)
          /\ worker' = [worker EXCEPT ![w] =
                          [Idle EXCEPT !.pc = "scanFetch", !.run = i,
                                       !.page = runs'[i].next,
                                       !.mark = watermark,
                                       !.seen = runs'[i].boundary]]
    BY <1>1 DEF StartScan
  <2>2. /\ runs' \in [RunIds -> Run]
        /\ seenPresent' \in [RunIds -> SUBSET Repos]
        /\ seenAbsent' \in [RunIds -> SUBSET Repos]
        /\ UNCHANGED <<upstream, current, lastFact, mode, watermark, repairs,
                       stops, disturbed>>
    BY <2>1, OpenTyped
  <2>3. /\ runs'[i].next \in Nat \ {0} /\ runs'[i].boundary \in Nat
        /\ i \in Nat /\ watermark \in Nat
    BY SMT, <2>2 DEF Run, RunIds, TypeOK
  <2>4. WorkersTyped'
    <3> DEFINE rec == [Idle EXCEPT !.pc = "scanFetch", !.run = i,
                                   !.page = runs'[i].next, !.mark = watermark,
                                   !.seen = runs'[i].boundary]
    <3>1. rec \in Worker /\ rec.run \in RunIds /\ rec.page # 0 /\ rec.todo = {}
      BY <2>3, IdleType DEF Worker
    <3> QED BY <2>1, <3>1, StepTyped
  <2> QED BY <2>2, <2>4 DEF TypeOK, WorkersTyped, upstream
<1>2. CASE FetchScanPage(w)
  <2> DEFINE reply == Page(worker[w].page)
             rec == [worker[w] EXCEPT !.pc = "scanIngest", !.reply = reply,
                                      !.todo = Window(reply, worker[w].mark)]
  <2>1. worker[w] \in Worker /\ worker[w].run \in RunIds /\ worker[w].page # 0
    BY <1>2 DEF FetchScanPage, TypeOK
  <2>2. worker[w].page \in Nat \ {0} /\ worker[w].mark \in Nat
    BY <2>1 DEF Worker
  <2>3. reply \in Seq(Item)
    BY <2>2, PageType
  <2>4. Window(reply, worker[w].mark) \subseteq DOMAIN reply /\ DOMAIN reply \subseteq Nat
    <3> HIDE DEF reply
    <3>1. DOMAIN reply \subseteq Nat
      BY SMT, <2>3
    <3> QED BY <3>1 DEF Window
  <2>5. rec \in Worker /\ rec.run \in RunIds /\ rec.page # 0
        /\ rec.pc = "scanIngest" /\ rec.todo \subseteq DOMAIN rec.reply
    <3> HIDE DEF reply
    <3> QED BY <2>1, <2>3, <2>4 DEF Worker
  <2>6. WorkersTyped'
    <3>1. worker' = [worker EXCEPT ![w] = rec]
      BY <1>2 DEF FetchScanPage
    <3> QED BY <2>5, <3>1, StepTyped
  <2>7. UNCHANGED <<upstream, catalog, stops, history>>
    BY <1>2 DEF FetchScanPage
  <2> QED BY <2>6, <2>7 DEF TypeOK, WorkersTyped, upstream, catalog, history
<1>3. CASE DetectGap(w)
  <2>1. WorkersTyped'
    <3> DEFINE rec == [worker[w] EXCEPT !.pc = "failing"]
    <3>1. worker[w] \in Worker /\ worker[w].run \in RunIds /\ worker[w].page # 0 /\ worker[w].todo = {}
      BY <1>3 DEF DetectGap, TypeOK
    <3>2. rec \in Worker /\ rec.run \in RunIds /\ rec.page # 0 /\ rec.todo = {}
      BY <3>1 DEF Worker
    <3>3. worker' = [worker EXCEPT ![w] = rec]
      BY <1>3 DEF DetectGap
    <3> QED BY <3>2, <3>3, StepTyped
  <2>2. UNCHANGED <<upstream, catalog, stops, history>>
    BY <1>3 DEF DetectGap
  <2> QED BY <2>1, <2>2 DEF TypeOK, WorkersTyped, upstream, catalog, history
<1>4. CASE RecordIngest(w)
  <2>1. /\ worker[w] \in Worker /\ worker[w].run \in RunIds /\ worker[w].page # 0
        /\ worker[w].pc = "scanIngest" /\ worker[w].todo \subseteq DOMAIN worker[w].reply
    BY <1>4 DEF RecordIngest, TypeOK
  <2>2. PICK k \in worker[w].todo :
          LET r == worker[w].reply[k].repo IN
          /\ current' = [current EXCEPT ![r] =
                           Ingested(@, worker[w].run, worker[w].reply[k].at)]
          /\ lastFact' = [lastFact EXCEPT ![r] = "starred"]
          /\ mode' = [mode EXCEPT ![r] = Classified(@)]
          /\ worker' = [worker EXCEPT ![w].todo = @ \ {k}]
    BY <1>4 DEF RecordIngest
  <2> DEFINE item == worker[w].reply[k]
  <2>3. item \in Item
    <3>1. worker[w].reply \in Seq(Item) /\ k \in DOMAIN worker[w].reply
      BY <2>1 DEF Worker
    <3> QED BY SMT, <3>1
  <2>4. item.repo \in Repos /\ item.at \in Nat /\ worker[w].run \in Nat
    BY SMT, <2>1, <2>3 DEF Item, RunIds
  <2>5. current[item.repo] \in StarRow
    BY <2>4 DEF TypeOK
  <2>6. Ingested(current[item.repo], worker[w].run, item.at) \in StarRow
    <3> HIDE DEF item
    <3> QED BY <2>4, <2>5 DEF Ingested, StarRow, Coalesce
  <2>7. current' \in [Repos -> StarRow]
    BY <2>2, <2>6 DEF TypeOK
  <2>8. /\ lastFact' \in [Repos -> {"none", "starred", "unstarred"}]
        /\ mode' \in [Repos -> CatalogModes]
    BY <2>2 DEF TypeOK, Classified, CatalogModes, NoMode
  <2>9. WorkersTyped'
    <3> DEFINE rec == [worker[w] EXCEPT !.todo = @ \ {k}]
    <3>1. rec \in Worker /\ rec.run \in RunIds /\ rec.page # 0
          /\ rec.pc = "scanIngest" /\ rec.todo \subseteq DOMAIN rec.reply
      BY <2>1 DEF Worker
    <3> QED BY <2>2, <3>1, StepTyped
  <2>10. UNCHANGED <<upstream, runs, watermark, repairs, stops, history>>
    BY <1>4 DEF RecordIngest
  <2> QED BY <2>7, <2>8, <2>9, <2>10 DEF TypeOK, WorkersTyped, upstream, history
<1>5. CASE RecordScanPage(w)
  <2> DEFINE i     == worker[w].run
             n     == NextPage(worker[w].page)
             reply == worker[w].reply
             seen  == IF reply = <<>> THEN worker[w].seen
                      ELSE EarliestKnown(worker[w].seen, reply[Len(reply)].at)
             pc    == IF CoverageProven(reply, worker[w].mark)
                      THEN "scanComplete" ELSE "scanFetch"
             row == [runs[i] EXCEPT !.next = n, !.boundary = seen]
             rec(oldest) == [worker[w] EXCEPT !.pc = pc, !.page = n, !.reply = <<>>,
                                              !.seen = seen, !.oldest = oldest]
  <2>1. /\ worker[w] \in Worker /\ i \in RunIds /\ runs[i] \in Run
        /\ worker[w].todo = {}
    BY <1>5 DEF RecordScanPage, TypeOK
  <2>2. /\ worker[w].page \in Nat /\ worker[w].mark \in Nat
        /\ worker[w].seen \in Nat /\ worker[w].oldest \in Nat
        /\ reply \in Seq(Item)
    BY <2>1 DEF Worker
  <2>3. n \in Nat \ {0}
    BY <2>2, NextPageType
  <2>4. \A k \in DOMAIN reply, a \in Nat : EarliestKnown(a, reply[k].at) \in Nat
    <3>1. \A k \in DOMAIN reply : reply[k] \in Item
      BY SMT, <2>2
    <3> QED BY <3>1 DEF Item, EarliestKnown, Earlier
  <2>5. seen \in Nat
    <3>1. reply # <<>> => Len(reply) \in DOMAIN reply
      BY SMT, <2>2
    <3> QED BY <2>2, <2>4, <3>1
  <2>6. PICK oldest \in OldestIngested(worker[w].oldest, reply, Window(reply, worker[w].mark)) :
          worker' = [worker EXCEPT ![w] = rec(oldest)]
    BY <1>5 DEF RecordScanPage
  <2>7. oldest \in Nat
    BY <2>2, <2>4, <2>6 DEF OldestIngested, Window
  <2>8. pc \in {"scanComplete", "scanFetch"}
    OBVIOUS
  <2>9. runs' = [runs EXCEPT ![i] = row]
    BY <1>5 DEF RecordScanPage
  <2>10. UNCHANGED <<upstream, current, lastFact, mode, watermark, repairs,
                     stops, history>>
    BY <1>5 DEF RecordScanPage
  <2>11. row \in Run
    <3> HIDE DEF n, seen, i
    <3> QED BY <2>1, <2>3, <2>5 DEF Run
  <2>12. /\ rec(oldest) \in Worker /\ rec(oldest).run \in RunIds /\ rec(oldest).page # 0
         /\ rec(oldest).todo = {}
    <3>1. worker[w].run \in RunIds
      BY <2>1
    <3> HIDE DEF n, seen, pc, i
    <3> QED BY <2>1, <2>3, <2>5, <2>7, <2>8, <3>1, EmptyType DEF Worker
  <2>13. runs' \in [RunIds -> Run]
    BY <2>9, <2>11 DEF TypeOK
  <2>14. WorkersTyped'
    <3> HIDE DEF rec
    <3> QED BY <2>6, <2>12, StepTyped
  <2> QED BY <2>10, <2>13, <2>14 DEF TypeOK, WorkersTyped, upstream, history
<1>6. CASE CompleteScan(w)
  <2>1. worker[w] \in Worker /\ worker[w].run \in RunIds
    BY <1>6 DEF CompleteScan, TypeOK
  <2>2. watermark' \in Nat
    BY <1>6, <2>1 DEF CompleteScan, Worker, Later, TypeOK
  <2>3. runs' \in [RunIds -> Run]
    <3> DEFINE row == [runs[worker[w].run] EXCEPT !.status = "completed"]
    <3>1. runs[worker[w].run] \in Run
      BY <2>1 DEF TypeOK
    <3>2. row \in Run
      BY <3>1 DEF Run
    <3>3. runs' = [runs EXCEPT ![worker[w].run] = row] \/ runs' = runs
      BY <1>6 DEF CompleteScan
    <3> QED BY <2>1, <3>2, <3>3 DEF TypeOK
  <2>4. WorkersTyped'
    BY <1>6, ReturnTyped DEF CompleteScan
  <2>5. UNCHANGED <<upstream, current, lastFact, mode, repairs, stops, history>>
    BY <1>6 DEF CompleteScan
  <2> QED BY <2>2, <2>3, <2>4, <2>5 DEF TypeOK, WorkersTyped, upstream, history
<1> QED BY <1>1, <1>2, <1>3, <1>4, <1>5, <1>6

\* The ways a call ends early.
LEMMA EndTyped ==
  ASSUME TypeOK, NEW w \in Workers, FailRun(w) \/ ProviderError(w) \/ Stop(w)
  PROVE  TypeOK'
<1>1. CASE FailRun(w)
  <2> DEFINE i   == worker[w].run
             row == [runs[i] EXCEPT !.status = IF runs[i].status = "running"
                                               THEN "failed" ELSE runs[i].status,
                                    !.staged = <<>>]
  <2>1. runs[i] \in Run /\ i \in RunIds /\ <<>> \in Seq(Item)
    BY SMT, <1>1 DEF FailRun, TypeOK
  <2>2. row \in Run
    <3> HIDE DEF i
    <3> QED BY <2>1 DEF Run
  <2>3. runs' = [runs EXCEPT ![i] = row]
    BY <1>1 DEF FailRun
  <2>4. runs' \in [RunIds -> Run]
    BY <2>1, <2>2, <2>3 DEF TypeOK
  <2>5. WorkersTyped'
    BY <1>1, ReturnTyped DEF FailRun
  <2>6. UNCHANGED <<upstream, current, lastFact, mode, watermark, repairs,
                    stops, history>>
    BY <1>1 DEF FailRun
  <2> QED BY <2>4, <2>5, <2>6 DEF TypeOK, WorkersTyped, upstream, history
<1>2. CASE ProviderError(w)
  <2> DEFINE rec == [worker[w] EXCEPT !.pc = "failing"]
  <2>1. worker[w] \in Worker /\ worker[w].run \in RunIds /\ worker[w].page # 0 /\ worker[w].todo = {}
    BY <1>2 DEF ProviderError, TypeOK
  <2>2. rec \in Worker /\ rec.run \in RunIds /\ rec.page # 0 /\ rec.todo = {}
    BY <2>1 DEF Worker
  <2>3. worker' = [worker EXCEPT ![w] = rec]
    BY <1>2 DEF ProviderError
  <2>4. WorkersTyped'
    BY <2>2, <2>3, StepTyped
  <2>5. UNCHANGED <<upstream, catalog, stops, history>>
    BY <1>2 DEF ProviderError
  <2> QED BY <2>4, <2>5 DEF TypeOK, WorkersTyped, upstream, catalog, history
<1>3. CASE Stop(w)
  <2>1. WorkersTyped'
    BY <1>3, ReturnTyped DEF Stop
  <2>2. stops' \in Nat
    BY SMT, <1>3 DEF Stop, TypeOK
  <2>3. UNCHANGED <<upstream, catalog, history>>
    BY <1>3 DEF Stop
  <2> QED BY <2>1, <2>2, <2>3 DEF TypeOK, WorkersTyped, upstream, catalog, history
<1> QED BY <1>1, <1>2, <1>3

LEMMA NextTyped == TypeOK /\ [Next]_vars => TypeOK'
<1> SUFFICES ASSUME TypeOK, [Next]_vars PROVE TypeOK'
  OBVIOUS
<1>1. CASE Owner
  BY <1>1, OwnerTyped
<1>2. ASSUME NEW w \in Workers,
             StartFull(w) \/ StartScan(w) \/ Proceed(w) \/ ProviderError(w) \/ Stop(w)
      PROVE  TypeOK'
  BY <1>2, FullTyped, ScanTyped, EndTyped DEF Proceed
<1>3. CASE UNCHANGED vars
  BY <1>3 DEF TypeOK, vars, upstream, catalog, history
<1> QED BY <1>1, <1>2, <1>3 DEF Next

\* Every reachable state of the two flows is well typed, whatever the listing,
\* the number of callers and the order of their steps.
THEOREM TypeCorrect == Spec => []TypeOK
<1>1. Init => TypeOK
  BY InitTyped
<1>2. TypeOK /\ [Next]_vars => TypeOK'
  BY NextTyped
<1> QED BY <1>1, <1>2, PTL DEF Spec

-----------------------------------------------------------------------------
(* Runs only move forward.                                                 *)

\* What no step undoes in sync_runs: a run that exists keeps its mode, and a
\* completed run stays completed.
RunsForward ==
  \A i \in RunIds :
    /\ runs[i].status # "unborn" => /\ runs'[i].mode = runs[i].mode
                                    /\ runs'[i].status # "unborn"
    /\ runs[i].status = "completed" => runs'[i].status = "completed"

LEMMA OpenForward ==
  ASSUME TypeOK, NEW m \in {"full", "incremental"}, NEW i \in RunIds,
         OpenRun(m, i) \/ ResumeRun(m, i)
  PROVE  RunsForward
<1>1. CASE OpenRun(m, i)
  BY <1>1 DEF OpenRun, UnbornRuns, RunsForward, TypeOK
<1>2. CASE ResumeRun(m, i)
  BY <1>2 DEF ResumeRun, RunsForward, catalog
<1> QED BY <1>1, <1>2

LEMMA StepForward ==
  ASSUME TypeOK, CallersHoldRuns, [Next]_vars
  PROVE  RunsForward
<1>1. CASE Owner \/ UNCHANGED vars
  BY <1>1 DEF Owner, UpstreamStar, UpstreamUnstar, RunsForward, vars, catalog
<1>2. ASSUME NEW w \in Workers, StartFull(w) PROVE RunsForward
  BY <1>2, OpenForward DEF StartFull
<1>3. ASSUME NEW w \in Workers, StartScan(w) PROVE RunsForward
  BY <1>3, OpenForward DEF StartScan
<1>4. ASSUME NEW w \in Workers, RecordPage(w) PROVE RunsForward
  BY SMT, <1>4 DEF RecordPage, RunsForward, TypeOK, Run
<1>5. ASSUME NEW w \in Workers, ApplyAuthority(w) PROVE RunsForward
  BY SMT, <1>5 DEF ApplyAuthority, RunsForward, TypeOK, Run
<1>6. ASSUME NEW w \in Workers, RecordScanPage(w) PROVE RunsForward
  BY SMT, <1>6 DEF RecordScanPage, RunsForward, TypeOK, Run
<1>7. ASSUME NEW w \in Workers, CompleteScan(w) PROVE RunsForward
  BY SMT, <1>7 DEF CompleteScan, RunsForward, TypeOK, Run
<1>8. ASSUME NEW w \in Workers, FailRun(w) PROVE RunsForward
  BY SMT, <1>8 DEF FailRun, RunsForward, TypeOK, Run
<1>9. ASSUME NEW w \in Workers,
             \/ FetchFullPage(w) \/ ApplyRejected(w) \/ FetchScanPage(w)
             \/ DetectGap(w) \/ RecordIngest(w) \/ ProviderError(w) \/ Stop(w)
      PROVE  RunsForward
  BY <1>9 DEF FetchFullPage, ApplyRejected, FetchScanPage, DetectGap, RecordIngest,
              ProviderError, Stop, RunsForward, catalog
<1> QED BY <1>1, <1>2, <1>3, <1>4, <1>5, <1>6, <1>7, <1>8, <1>9 DEF Next, Proceed

-----------------------------------------------------------------------------
(* Callers work on runs of their own kind.                                 *)

\* What CallersHoldRuns says of one caller.
HoldsRun(rec) ==
  rec.pc # "idle" =>
    /\ runs[rec.run].status # "unborn"
    /\ rec.pc \in FullSteps => runs[rec.run].mode = "full"
    /\ rec.pc \in ScanSteps => runs[rec.run].mode = "incremental"

\* A caller that takes no step keeps its hold, since runs only move forward.
LEMMA HoldKept ==
  ASSUME TypeOK, CallersHoldRuns, RunsForward, NEW w \in Workers,
         worker'[w] = worker[w]
  PROVE  HoldsRun(worker[w])'
  BY DEF HoldsRun, CallersHoldRuns, RunsForward, TypeOK

\* A caller that goes on with its run keeps its hold.
LEMMA HoldContinued ==
  ASSUME TypeOK, CallersHoldRuns, RunsForward, NEW w \in Workers,
         worker[w].pc # "idle", worker'[w].run = worker[w].run,
         \/ worker'[w].pc = "failing"
         \/ worker[w].pc \in FullSteps /\ worker'[w].pc \in FullSteps
         \/ worker[w].pc \in ScanSteps /\ worker'[w].pc \in ScanSteps
  PROVE  HoldsRun(worker[w])'
  BY SMT DEF HoldsRun, CallersHoldRuns, RunsForward, TypeOK, FullSteps, ScanSteps

\* What the scan's two durable steps do to the caller.
LEMMA IngestCaller ==
  ASSUME TypeOK, NEW w \in Workers, RecordIngest(w)
  PROVE  /\ worker'[w].pc = "scanIngest" /\ worker[w].pc = "scanIngest"
         /\ worker'[w].run = worker[w].run /\ worker'[w].page = worker[w].page
         /\ worker'[w].reply = worker[w].reply /\ worker'[w].mark = worker[w].mark
         /\ worker'[w].oldest = worker[w].oldest
<1>1. PICK k \in worker[w].todo : worker' = [worker EXCEPT ![w].todo = @ \ {k}]
  BY DEF RecordIngest
<1>2. worker[w] \in Worker /\ worker[w].pc = "scanIngest"
  BY DEF RecordIngest, TypeOK
<1>3. worker'[w] = [worker[w] EXCEPT !.todo = @ \ {k}]
  BY <1>1 DEF TypeOK
<1> QED BY <1>2, <1>3 DEF Worker

LEMMA ScanPageCaller ==
  ASSUME TypeOK, NEW w \in Workers, RecordScanPage(w)
  PROVE  /\ worker'[w].pc = IF CoverageProven(worker[w].reply, worker[w].mark)
                            THEN "scanComplete" ELSE "scanFetch"
         /\ worker[w].pc = "scanIngest" /\ worker[w].todo = {}
         /\ worker'[w].run = worker[w].run /\ worker'[w].page = NextPage(worker[w].page)
         /\ worker'[w].reply = <<>> /\ worker'[w].mark = worker[w].mark
         /\ worker'[w].oldest \in OldestIngested(worker[w].oldest, worker[w].reply,
                                                 Window(worker[w].reply, worker[w].mark))
<1> DEFINE reply == worker[w].reply
           seen  == IF reply = <<>> THEN worker[w].seen
                    ELSE EarliestKnown(worker[w].seen, reply[Len(reply)].at)
           n     == NextPage(worker[w].page)
           pc    == IF CoverageProven(reply, worker[w].mark) THEN "scanComplete" ELSE "scanFetch"
<1>1. PICK oldest \in OldestIngested(worker[w].oldest, reply, Window(reply, worker[w].mark)) :
        worker' = [worker EXCEPT ![w] = [@ EXCEPT !.pc = pc, !.page = n, !.reply = <<>>,
                                                  !.seen = seen, !.oldest = oldest]]
  BY DEF RecordScanPage
<1>2. worker[w] \in Worker /\ worker[w].pc = "scanIngest" /\ worker[w].todo = {}
  BY DEF RecordScanPage, TypeOK
<1>3. worker'[w] = [worker[w] EXCEPT !.pc = pc, !.page = n, !.reply = <<>>,
                                     !.seen = seen, !.oldest = oldest]
  BY <1>1 DEF TypeOK
<1> HIDE DEF pc, seen, n
<1>4. /\ worker'[w].pc = pc /\ worker'[w].run = worker[w].run /\ worker'[w].page = n
      /\ worker'[w].reply = <<>> /\ worker'[w].mark = worker[w].mark /\ worker'[w].oldest = oldest
  BY <1>2, <1>3 DEF Worker
<1> QED BY <1>1, <1>2, <1>4 DEF pc, n

LEMMA CallersHoldRunsStep ==
  ASSUME TypeOK, CallersHoldRuns, [Next]_vars
  PROVE  CallersHoldRuns'
<1>1. RunsForward
  BY StepForward
<1>2. SUFFICES ASSUME NEW v \in Workers PROVE HoldsRun(worker[v])'
  BY DEF CallersHoldRuns, HoldsRun
<1>3. CASE Owner \/ UNCHANGED vars
  BY <1>1, <1>3, HoldKept DEF Owner, UpstreamStar, UpstreamUnstar, vars
<1>4. ASSUME NEW w \in Workers,
             StartFull(w) \/ StartScan(w) \/ Proceed(w) \/ ProviderError(w) \/ Stop(w)
      PROVE  HoldsRun(worker[v])'
  <2>1. CASE v # w
    <3>1. worker'[v] = worker[v]
      BY <1>4, <2>1 DEF StartFull, StartScan, Proceed, FetchFullPage, RecordPage,
         ApplyAuthority, ApplyRejected, FetchScanPage, DetectGap, RecordIngest,
         RecordScanPage, CompleteScan, FailRun, ProviderError, Stop, TypeOK
    <3> QED BY <1>1, <3>1, HoldKept
  <2>2. CASE v = w /\ StartFull(w)
    <3>1. PICK i \in RunIds :
            /\ OpenRun("full", i) \/ ResumeRun("full", i)
            /\ worker' = [worker EXCEPT ![w] =
                            [Idle EXCEPT !.pc = "fullFetch", !.run = i,
                                         !.page = runs'[i].next]]
      BY <2>2 DEF StartFull
    <3>2. runs'[i].mode = "full" /\ runs'[i].status # "unborn"
      BY <3>1, OpenTyped
    <3>3. worker'[w].pc = "fullFetch" /\ worker'[w].run = i
      BY <3>1 DEF TypeOK, Idle
    <3> QED BY <2>2, <3>2, <3>3 DEF HoldsRun, FullSteps, ScanSteps
  <2>3. CASE v = w /\ StartScan(w)
    <3>1. PICK i \in RunIds :
            /\ OpenRun("incremental", i) \/ ResumeRun("incremental", i)
            /\ worker' = [worker EXCEPT ![w] =
                            [Idle EXCEPT !.pc = "scanFetch", !.run = i,
                                         !.page = runs'[i].next,
                                         !.mark = watermark,
                                         !.seen = runs'[i].boundary]]
      BY <2>3 DEF StartScan
    <3>2. runs'[i].mode = "incremental" /\ runs'[i].status # "unborn"
      BY <3>1, OpenTyped
    <3>3. worker'[w].pc = "scanFetch" /\ worker'[w].run = i
      BY <3>1 DEF TypeOK, Idle
    <3> QED BY <2>3, <3>2, <3>3 DEF HoldsRun, FullSteps, ScanSteps
  <2>4. CASE v = w /\ (ApplyAuthority(w) \/ ApplyRejected(w) \/ CompleteScan(w)
                         \/ FailRun(w) \/ Stop(w))
    <3>1. worker'[w] = Idle
      BY <2>4 DEF ApplyAuthority, ApplyRejected, CompleteScan, FailRun, Stop, TypeOK
    <3> QED BY SMT, <2>4, <3>1 DEF HoldsRun, Idle
  <2>5. CASE v = w /\ (FetchFullPage(w) \/ RecordPage(w))
    <3>1. /\ worker[w].pc \in FullSteps /\ worker'[w].pc \in FullSteps
          /\ worker'[w].run = worker[w].run
      <4>1. worker \in [Workers -> Worker]
        BY DEF TypeOK
      <4>2. CASE FetchFullPage(w)
        BY <4>1, <4>2 DEF FetchFullPage, Worker, FullSteps
      <4>3. CASE RecordPage(w)
        BY <4>1, <4>3 DEF RecordPage, Worker, FullSteps
      <4> QED BY <2>5, <4>2, <4>3
    <3> QED BY <1>1, <2>5, <3>1, HoldContinued DEF FullSteps
  <2>6. CASE v = w /\ (FetchScanPage(w) \/ RecordIngest(w) \/ RecordScanPage(w))
    <3>1. /\ worker[w].pc \in ScanSteps /\ worker'[w].pc \in ScanSteps
          /\ worker'[w].run = worker[w].run
      <4>1. worker \in [Workers -> Worker]
        BY DEF TypeOK
      <4>2. CASE FetchScanPage(w)
        BY <4>1, <4>2 DEF FetchScanPage, Worker, ScanSteps
      <4>3. CASE RecordIngest(w)
        BY <4>3, IngestCaller DEF ScanSteps
      <4>4. CASE RecordScanPage(w)
        BY <4>4, ScanPageCaller DEF ScanSteps
      <4> QED BY <2>6, <4>2, <4>3, <4>4
    <3> QED BY <1>1, <2>6, <3>1, HoldContinued DEF ScanSteps
  <2>7. CASE v = w /\ (DetectGap(w) \/ ProviderError(w))
    <3>1. /\ worker[w].pc # "idle" /\ worker'[w].pc = "failing"
          /\ worker'[w].run = worker[w].run
      BY SMT, <2>7 DEF DetectGap, ProviderError, TypeOK, Worker
    <3> QED BY <1>1, <2>7, <3>1, HoldContinued
  <2> QED BY <1>4, <2>1, <2>2, <2>3, <2>4, <2>5, <2>6, <2>7 DEF Proceed
<1> QED BY <1>3, <1>4 DEF Next

-----------------------------------------------------------------------------
(* What a state row rests on.                                              *)

\* Only the authority swap and the ingestion of one item write state rows.
LEMMA RowsWritten ==
  ASSUME TypeOK, [Next]_vars,
         \A w \in Workers : ~ApplyAuthority(w) /\ ~RecordIngest(w)
  PROVE  UNCHANGED <<current, lastFact, mode>>
<1>1. CASE Owner \/ UNCHANGED vars
  BY <1>1 DEF Owner, UpstreamStar, UpstreamUnstar, vars, catalog
<1>2. ASSUME NEW w \in Workers, StartFull(w) \/ StartScan(w)
      PROVE  UNCHANGED <<current, lastFact, mode>>
  BY <1>2 DEF StartFull, StartScan, OpenRun, ResumeRun, catalog
<1>3. ASSUME NEW w \in Workers, Proceed(w) \/ ProviderError(w) \/ Stop(w)
      PROVE  UNCHANGED <<current, lastFact, mode>>
  BY <1>3 DEF Proceed, FetchFullPage, RecordPage, ApplyRejected, FetchScanPage,
     DetectGap, RecordScanPage, CompleteScan, FailRun, ProviderError, Stop, catalog
<1> QED BY <1>1, <1>2, <1>3 DEF Next

\* What the swap writes, row by row.
LEMMA SwapRows ==
  ASSUME TypeOK, NEW w \in Workers, ApplyAuthority(w), NEW r \in Repos
  PROVE  LET i == worker[w].run IN
         /\ i \in RunIds
         /\ runs'[i].status = "completed"
         /\ \/ /\ r \in ReposOf(runs[i].staged)
               /\ current'[r].known /\ current'[r].starred
               /\ current'[r].evidence = i
               /\ lastFact'[r] = "starred"
               /\ mode'[r] = Classified(mode[r])
            \/ /\ r \in Dropped(i)
               /\ current'[r].known /\ ~current'[r].starred
               /\ current'[r].evidence = i
               /\ lastFact'[r] = "unstarred"
               /\ mode'[r] = IF mode[r] = "auto" THEN NoMode ELSE mode[r]
            \/ /\ r \notin ReposOf(runs[i].staged) /\ ~current[r].starred
               /\ current'[r] = current[r]
               /\ lastFact'[r] = lastFact[r]
               /\ mode'[r] = mode[r]
<1> DEFINE i == worker[w].run
<1>1. i \in RunIds
  BY DEF ApplyAuthority, TypeOK
<1>2. runs'[i].status = "completed"
  BY SMT, <1>1 DEF ApplyAuthority, TypeOK, Run
<1>3. /\ current'[r] = SwapState(i)[r]
      /\ lastFact'[r] = SwapFacts(i)[r]
      /\ mode'[r] = SwapModes(i)[r]
  BY DEF ApplyAuthority
<1>4. CASE r \in ReposOf(runs[i].staged)
  <2>1. /\ current'[r] = PromoteSeen(i, r)
        /\ lastFact'[r] = "starred"
        /\ mode'[r] = Classified(mode[r])
    BY <1>3, <1>4 DEF SwapState, SwapFacts, SwapModes, Dropped
  <2> QED BY SMT, <1>1, <1>2, <1>4, <2>1 DEF PromoteSeen
<1>5. CASE r \in Dropped(i)
  <2>1. /\ current'[r] = UnstarAbsent(i, r)
        /\ lastFact'[r] = "unstarred"
        /\ mode'[r] = IF mode[r] = "auto" THEN NoMode ELSE mode[r]
    BY <1>3, <1>5 DEF SwapState, SwapFacts, SwapModes, Dropped
  <2> QED BY SMT, <1>1, <1>2, <1>5, <2>1 DEF UnstarAbsent
<1>6. CASE r \notin ReposOf(runs[i].staged) /\ r \notin Dropped(i)
  <2>1. /\ current'[r] = current[r]
        /\ lastFact'[r] = lastFact[r]
        /\ mode'[r] = mode[r]
    BY <1>3, <1>6 DEF SwapState, SwapFacts, SwapModes
  <2> QED BY <1>1, <1>2, <1>6, <2>1 DEF Dropped
<1> QED BY <1>4, <1>5, <1>6

\* What the ingestion of an item writes, row by row.
LEMMA IngestRows ==
  ASSUME TypeOK, NEW w \in Workers, RecordIngest(w), NEW r \in Repos
  PROVE  /\ worker[w].run \in RunIds /\ worker[w].pc = "scanIngest"
         /\ \/ /\ r \in ReposOf(worker[w].reply)
               /\ current'[r].known /\ current'[r].starred
               /\ current'[r].evidence = worker[w].run
               /\ lastFact'[r] = "starred"
               /\ mode'[r] = Classified(mode[r])
            \/ /\ current'[r] = current[r]
               /\ lastFact'[r] = lastFact[r]
               /\ mode'[r] = mode[r]
<1>1. worker[w].run \in RunIds /\ worker[w].pc = "scanIngest"
      /\ worker[w].todo \subseteq DOMAIN worker[w].reply
  BY DEF RecordIngest, TypeOK
<1>2. PICK k \in worker[w].todo :
        /\ current' = [current EXCEPT ![worker[w].reply[k].repo] =
                         Ingested(@, worker[w].run, worker[w].reply[k].at)]
        /\ lastFact' = [lastFact EXCEPT ![worker[w].reply[k].repo] = "starred"]
        /\ mode' = [mode EXCEPT ![worker[w].reply[k].repo] = Classified(@)]
  BY DEF RecordIngest
<1>3. CASE r = worker[w].reply[k].repo
  <2>1. r \in ReposOf(worker[w].reply)
    BY <1>1, <1>3 DEF ReposOf
  <2> QED BY <1>1, <1>2, <1>3, <2>1 DEF Ingested, TypeOK
<1>4. CASE r # worker[w].reply[k].repo
  BY <1>1, <1>2, <1>4 DEF TypeOK
<1> QED BY <1>3, <1>4

EvidenceInv == TypeOK /\ CallersHoldRuns /\ EvidenceExists /\ SnapshotEvidenceIsComplete

LEMMA EvidenceInit == Init => EvidenceInv
<1> SUFFICES ASSUME Init PROVE EvidenceInv
  OBVIOUS
<1>1. TypeOK
  BY InitTyped
<1>2. PICK k \in 0..Len(InitialStars), m \in InitialModes : InitFrom(k, m)
  BY DEF Init
<1>3. CallersHoldRuns
  BY <1>2 DEF InitFrom, CallersHoldRuns, Idle
<1>4. ASSUME NEW r \in Repos, current[r].known
      PROVE  /\ current[r].evidence = 1 /\ current[r].starred
             /\ 1 \in RunIds
             /\ runs[1].status = "completed" /\ runs[1].mode = "full"
  <2>1. Synced(k, r)
    BY <1>2, <1>4 DEF InitFrom
  <2>2. k > 0
    BY SMT, <2>1, InitialListingType, ConstantsAssumption DEF Synced, InitialListing
  <2>3. 1 \in RunIds
    BY SMT, ConstantsAssumption DEF RunIds
  <2> QED BY <1>2, <2>1, <2>2, <2>3 DEF InitFrom, BlankRun
<1> QED BY <1>1, <1>3, <1>4
        DEF EvidenceInv, EvidenceExists, SnapshotEvidenceIsComplete

LEMMA EvidenceStep == EvidenceInv /\ [Next]_vars => EvidenceInv'
<1> SUFFICES ASSUME EvidenceInv, [Next]_vars PROVE EvidenceInv'
  OBVIOUS
<1> USE DEF EvidenceInv
<1>1. TypeOK' /\ CallersHoldRuns' /\ RunsForward
  BY NextTyped, CallersHoldRunsStep, StepForward
<1> DEFINE Rests(r) == current[r].known =>
                         LET e == current[r].evidence IN
                         /\ e \in RunIds
                         /\ runs[e].status # "unborn"
                         /\ runs[e].mode = "full" => runs[e].status = "completed"
                         /\ ~current[r].starred => runs[e].mode = "full"
<1>2. SUFFICES ASSUME NEW r \in Repos PROVE Rests(r)'
  BY <1>1 DEF EvidenceExists, SnapshotEvidenceIsComplete
<1>3. Rests(r)
  BY DEF EvidenceExists, SnapshotEvidenceIsComplete
<1>4. CASE current'[r] = current[r]
  BY <1>1, <1>3, <1>4 DEF RunsForward
<1>5. ASSUME NEW w \in Workers, ApplyAuthority(w), current'[r] # current[r]
      PROVE  Rests(r)'
  <2>1. /\ worker[w].run \in RunIds /\ runs'[worker[w].run].status = "completed"
        /\ current'[r].evidence = worker[w].run
    BY <1>5, SwapRows
  <2>2. runs[worker[w].run].mode = "full" /\ runs[worker[w].run].status # "unborn"
    BY <1>5 DEF CallersHoldRuns, ApplyAuthority, FullSteps
  <2> QED BY <1>1, <2>1, <2>2 DEF RunsForward
<1>6. ASSUME NEW w \in Workers, RecordIngest(w), current'[r] # current[r]
      PROVE  Rests(r)'
  <2>1. /\ worker[w].run \in RunIds /\ current'[r].starred
        /\ current'[r].evidence = worker[w].run
    BY <1>6, IngestRows
  <2>2. /\ runs[worker[w].run].mode = "incremental"
        /\ runs[worker[w].run].status # "unborn"
    BY <1>6 DEF CallersHoldRuns, RecordIngest, ScanSteps
  <2> QED BY <1>1, <2>1, <2>2 DEF RunsForward
<1> QED BY <1>4, <1>5, <1>6, RowsWritten

\* A removal rests on a completed full snapshot and no star rests on a full
\* snapshot that did not complete, whatever the number of callers and however
\* their pages, failures and swaps interleave.
THEOREM EvidenceIsComplete == Spec => []SnapshotEvidenceIsComplete
<1>1. Init => EvidenceInv
  BY EvidenceInit
<1>2. EvidenceInv /\ [Next]_vars => EvidenceInv'
  BY EvidenceStep
<1>3. EvidenceInv => SnapshotEvidenceIsComplete
  BY DEF EvidenceInv
<1> QED BY <1>1, <1>2, <1>3, PTL DEF Spec

-----------------------------------------------------------------------------
(* Modes and observations.                                                 *)

ProjectionInv == TypeOK /\ ModeFollowsStars /\ StateMatchesFacts

LEMMA ProjectionInit == Init => ProjectionInv
<1> SUFFICES ASSUME Init PROVE ProjectionInv
  OBVIOUS
<1>1. TypeOK
  BY InitTyped
<1>2. PICK k \in 0..Len(InitialStars), m \in InitialModes : InitFrom(k, m)
  BY DEF Init
<1>3. ModeFollowsStars
  BY <1>2, ConstantsAssumption DEF InitFrom, ModeFollowsStars, NoMode
<1>4. StateMatchesFacts
  BY <1>2 DEF InitFrom, StateMatchesFacts
<1> QED BY <1>1, <1>3, <1>4 DEF ProjectionInv

LEMMA ProjectionStep == ProjectionInv /\ [Next]_vars => ProjectionInv'
<1> SUFFICES ASSUME ProjectionInv, [Next]_vars PROVE ProjectionInv'
  OBVIOUS
<1> USE DEF ProjectionInv
<1> DEFINE Agrees(r) == /\ mode[r] = "auto" => current[r].starred
                        /\ current[r].starred => mode[r] # NoMode
                        /\ current[r].known => lastFact[r] =
                             IF current[r].starred THEN "starred" ELSE "unstarred"
<1>1. TypeOK'
  BY NextTyped
<1>2. SUFFICES ASSUME NEW r \in Repos PROVE Agrees(r)'
  BY <1>1 DEF ModeFollowsStars, StateMatchesFacts
<1>3. Agrees(r)
  BY DEF ModeFollowsStars, StateMatchesFacts
<1>4. ASSUME NEW w \in Workers, ApplyAuthority(w) PROVE Agrees(r)'
  BY SMT, <1>3, <1>4, SwapRows DEF Classified, NoMode, Dropped
<1>5. ASSUME NEW w \in Workers, RecordIngest(w) PROVE Agrees(r)'
  BY <1>3, <1>5, IngestRows DEF Classified, NoMode
<1>6. CASE UNCHANGED <<current, lastFact, mode>>
  BY <1>3, <1>6
<1> QED BY <1>4, <1>5, <1>6, RowsWritten

\* A repository governed as auto is starred and a starred one is classified,
\* for any interleaving of scans and swaps.
THEOREM ModesFollowStars == Spec => []ModeFollowsStars
<1>1. ProjectionInv => ModeFollowsStars
  BY DEF ProjectionInv
<1> QED BY <1>1, ProjectionInit, ProjectionStep, PTL DEF Spec

\* current_star_state never disagrees with the newest observation.
THEOREM ProjectionMatchesFacts == Spec => []StateMatchesFacts
<1>1. ProjectionInv => StateMatchesFacts
  BY DEF ProjectionInv
<1> QED BY <1>1, ProjectionInit, ProjectionStep, PTL DEF Spec

\* No step of either flow changes a tracked or ignored decision.
THEOREM ExplicitDecisionsHold == Spec => ExplicitModesHold
<1> DEFINE Kept == \A r \in Repos :
                     mode[r] \in {"tracked", "ignored"} => mode'[r] = mode[r]
<1>1. TypeOK /\ [Next]_vars => [Kept]_vars
  <2> SUFFICES ASSUME TypeOK, [Next]_vars PROVE Kept
    OBVIOUS
  <2> SUFFICES ASSUME NEW r \in Repos, mode[r] \in {"tracked", "ignored"}
               PROVE  mode'[r] = mode[r]
    OBVIOUS
  <2>1. ASSUME NEW w \in Workers, ApplyAuthority(w) PROVE mode'[r] = mode[r]
    BY <2>1, SwapRows DEF Classified, NoMode
  <2>2. ASSUME NEW w \in Workers, RecordIngest(w) PROVE mode'[r] = mode[r]
    BY <2>2, IngestRows DEF Classified, NoMode
  <2> QED BY <2>1, <2>2, RowsWritten
<1> QED BY <1>1, TypeCorrect, PTL DEF Spec, ExplicitModesHold

-----------------------------------------------------------------------------
(* The high-water mark.                                                    *)

\* The mark never retreats, even when an old full run completes after newer
\* incremental scans or two callers complete out of order.
THEOREM WatermarkOnlyAdvances == Spec => WatermarkNeverRetreats
<1>1. TypeOK /\ [Next]_vars => [watermark' >= watermark]_vars
  <2> SUFFICES ASSUME TypeOK, [Next]_vars PROVE watermark' >= watermark
    OBVIOUS
  <2>1. watermark \in Nat
    BY DEF TypeOK
  <2>2. CASE Owner \/ UNCHANGED vars
    <3>1. watermark' = watermark
      BY <2>2 DEF Owner, UpstreamStar, UpstreamUnstar, vars, catalog
    <3> QED BY SMT, <2>1, <3>1
  <2>3. ASSUME NEW w \in Workers, ApplyAuthority(w) PROVE watermark' >= watermark
    <3>1. worker[w].run \in RunIds
      BY <2>3 DEF ApplyAuthority, TypeOK
    <3> QED BY <2>3, <3>1, SwapTypes DEF ApplyAuthority
  <2>4. ASSUME NEW w \in Workers, CompleteScan(w) PROVE watermark' >= watermark
    <3>1. worker[w].oldest \in Nat
      BY DEF TypeOK, Worker
    <3>2. \/ watermark' = Later(watermark, worker[w].oldest)
          \/ watermark' = watermark
      BY <2>4 DEF CompleteScan
    <3> QED BY SMT, <2>1, <3>1, <3>2 DEF Later
  <2>5. ASSUME NEW w \in Workers,
               \/ StartFull(w) \/ StartScan(w) \/ Proceed(w)
               \/ ProviderError(w) \/ Stop(w),
               ~ApplyAuthority(w), ~CompleteScan(w)
        PROVE  watermark' >= watermark
    <3>1. watermark' = watermark
      BY <2>5 DEF StartFull, StartScan, OpenRun, ResumeRun, Proceed, FetchFullPage,
         RecordPage, ApplyRejected, FetchScanPage, DetectGap, RecordIngest,
         RecordScanPage, FailRun, ProviderError, Stop, catalog
    <3> QED BY SMT, <2>1, <3>1
  <2> QED BY <2>2, <2>3, <2>4, <2>5 DEF Next
<1> QED BY <1>1, TypeCorrect, PTL DEF Spec, WatermarkNeverRetreats

-----------------------------------------------------------------------------
(* Repositories of lists that are put together and taken apart.            *)

LEMMA ReposOfEmpty == ReposOf(<<>>) = {}
  BY SMT DEF ReposOf

LEMMA ReposOfConcat ==
  ASSUME NEW s \in Seq(Item), NEW t \in Seq(Item)
  PROVE  ReposOf(s \o t) = ReposOf(s) \union ReposOf(t)
<1>1. /\ Len(s \o t) = Len(s) + Len(t)
      /\ \A k \in 1..Len(s) : (s \o t)[k] = s[k]
      /\ \A k \in 1..Len(t) : (s \o t)[k + Len(s)] = t[k]
      /\ s \o t \in Seq(Item)
  BY SMT
<1>2. ASSUME NEW k \in 1..Len(s \o t)
      PROVE  (s \o t)[k].repo \in ReposOf(s) \union ReposOf(t)
  <2>1. CASE k <= Len(s)
    BY SMT, <1>1, <2>1 DEF ReposOf
  <2>2. CASE k > Len(s)
    <3>1. k - Len(s) \in 1..Len(t) /\ (s \o t)[(k - Len(s)) + Len(s)] = t[k - Len(s)]
      BY SMT, <1>1, <2>2
    <3> QED BY SMT, <3>1 DEF ReposOf
  <2> QED BY SMT, <2>1, <2>2
<1>3. ASSUME NEW k \in 1..Len(s) PROVE s[k].repo \in ReposOf(s \o t)
  BY SMT, <1>1 DEF ReposOf
<1>4. ASSUME NEW k \in 1..Len(t) PROVE t[k].repo \in ReposOf(s \o t)
  <2>1. k + Len(s) \in DOMAIN (s \o t) /\ (s \o t)[k + Len(s)] = t[k]
    BY SMT, <1>1
  <2>2. (s \o t)[k + Len(s)].repo \in ReposOf(s \o t)
    BY <2>1, Zenon DEF ReposOf
  <2> QED BY <2>1, <2>2, Zenon
<1>5. ReposOf(s \o t) \subseteq ReposOf(s) \union ReposOf(t)
  <2> SUFFICES ASSUME NEW x \in ReposOf(s \o t)
               PROVE  x \in ReposOf(s) \union ReposOf(t)
    OBVIOUS
  <2>1. PICK k \in DOMAIN (s \o t) : x = (s \o t)[k].repo
    BY Zenon DEF ReposOf
  <2>2. k \in 1..Len(s \o t)
    BY SMT, <1>1
  <2> QED BY <1>2, <2>1, <2>2, Zenon
<1>6. DOMAIN s = 1..Len(s) /\ DOMAIN t = 1..Len(t)
  BY SMT
<1>7. ReposOf(s) \subseteq ReposOf(s \o t)
  BY <1>3, <1>6 DEF ReposOf
<1>8. ReposOf(t) \subseteq ReposOf(s \o t)
  BY <1>4, <1>6 DEF ReposOf
<1> QED BY <1>5, <1>7, <1>8

-----------------------------------------------------------------------------
(* What was listed.                                                        *)

\* The history of an existing run only grows.
HistoryGrows ==
  \A i \in RunIds : runs[i].status # "unborn" => seenPresent[i] \subseteq seenPresent'[i]

LEMMA OpenGrows ==
  ASSUME TypeOK, NEW m \in {"full", "incremental"}, NEW i \in RunIds,
         OpenRun(m, i) \/ ResumeRun(m, i)
  PROVE  HistoryGrows
  BY DEF OpenRun, ResumeRun, UnbornRuns, HistoryGrows, TypeOK, history

LEMMA StepGrows ==
  ASSUME TypeOK, [Next]_vars
  PROVE  HistoryGrows
<1>1. CASE UNCHANGED seenPresent
  BY <1>1 DEF HistoryGrows
<1>2. CASE Owner
  <2>1. ASSUME NEW r \in Repos, NEW kind \in StampKinds, UpstreamStar(r, kind) PROVE HistoryGrows
    <3>1. \A i \in RunIds : runs[i].status # "unborn" => seenPresent'[i] = seenPresent[i] \union {r}
      BY <2>1 DEF UpstreamStar
    <3> QED BY <3>1 DEF HistoryGrows
  <2>2. ASSUME NEW r \in Repos, UpstreamUnstar(r) PROVE UNCHANGED seenPresent
    BY <2>2 DEF UpstreamUnstar
  <2> QED BY <1>1, <1>2, <2>1, <2>2 DEF Owner
<1>3. ASSUME NEW w \in Workers, StartFull(w) \/ StartScan(w) PROVE HistoryGrows
  BY <1>3, OpenGrows DEF StartFull, StartScan
<1>4. ASSUME NEW w \in Workers, Proceed(w) \/ ProviderError(w) \/ Stop(w)
      PROVE  UNCHANGED seenPresent
  BY <1>4 DEF Proceed, FetchFullPage, RecordPage, ApplyAuthority, ApplyRejected,
     FetchScanPage, DetectGap, RecordIngest, RecordScanPage, CompleteScan, FailRun,
     ProviderError, Stop, history
<1>5. CASE UNCHANGED vars
  BY <1>1, <1>5 DEF vars, history
<1> QED BY <1>1, <1>2, <1>3, <1>4, <1>5 DEF Next

\* What HeldWasListed says of one run and of one caller.
RunListed(i) ==
  runs[i].status # "unborn" => /\ ReposOf(listing) \subseteq seenPresent[i]
                               /\ ReposOf(runs[i].staged) \subseteq seenPresent[i]

CallerListed(w) ==
  worker[w].pc # "idle" => ReposOf(worker[w].reply) \subseteq seenPresent[worker[w].run]

PresenceInv == TypeOK /\ CallersHoldRuns /\ HeldWasListed

LEMMA PresenceInit == Init => PresenceInv
<1> SUFFICES ASSUME Init PROVE PresenceInv
  OBVIOUS
<1>1. TypeOK /\ CallersHoldRuns
  BY EvidenceInit DEF EvidenceInv
<1>2. PICK k \in 0..Len(InitialStars), m \in InitialModes : InitFrom(k, m)
  BY DEF Init
<1>3. ASSUME NEW i \in RunIds, runs[i].status # "unborn"
      PROVE  /\ ReposOf(listing) \subseteq seenPresent[i]
             /\ ReposOf(runs[i].staged) \subseteq seenPresent[i]
  <2>1. i = 1 /\ k > 0
    BY <1>2, <1>3 DEF InitFrom, BlankRun
  <2>2. seenPresent[i] = ReposOf(listing)
    BY <1>2, <2>1 DEF InitFrom
  <2>3. runs[i].staged = <<>>
    BY <1>2, <2>1 DEF InitFrom, BlankRun
  <2> QED BY <2>2, <2>3, ReposOfEmpty
<1>4. \A w \in Workers : worker[w].pc = "idle"
  BY <1>2 DEF InitFrom, Idle
<1> QED BY <1>1, <1>3, <1>4 DEF PresenceInv, HeldWasListed

\* A step that changes neither the listing nor staged rows.
LEMMA RunListedKept ==
  ASSUME PresenceInv, HistoryGrows, NEW i \in RunIds, runs[i].status # "unborn",
         ReposOf(listing') \subseteq ReposOf(listing),
         ReposOf(runs'[i].staged) \subseteq ReposOf(runs[i].staged)
  PROVE  RunListed(i)'
  BY DEF PresenceInv, HeldWasListed, HistoryGrows, RunListed

\* A caller whose hands do not fill.
LEMMA CallerListedKept ==
  ASSUME PresenceInv, HistoryGrows, NEW w \in Workers, worker[w].pc # "idle",
         worker'[w].run = worker[w].run,
         ReposOf(worker'[w].reply) \subseteq ReposOf(worker[w].reply)
  PROVE  CallerListed(w)'
<1>1. worker[w].run \in RunIds /\ runs[worker[w].run].status # "unborn"
  BY DEF PresenceInv, TypeOK, CallersHoldRuns
<1>2. seenPresent[worker[w].run] \subseteq seenPresent'[worker[w].run]
  BY <1>1 DEF HistoryGrows
<1>3. ReposOf(worker[w].reply) \subseteq seenPresent[worker[w].run]
  BY DEF PresenceInv, HeldWasListed
<1> QED BY <1>2, <1>3 DEF CallerListed

LEMMA OwnerPresence ==
  ASSUME PresenceInv, Owner
  PROVE  HeldWasListed'
<1>1. TypeOK /\ HistoryGrows
  BY StepGrows DEF PresenceInv, Next
<1>2. UNCHANGED <<runs, worker>>
  BY DEF Owner, UpstreamStar, UpstreamUnstar, catalog
<1>3. ASSUME NEW w \in Workers PROVE CallerListed(w)'
  <2>1. CASE worker[w].pc = "idle"
    BY <1>2, <2>1 DEF CallerListed
  <2>2. CASE worker[w].pc # "idle"
    BY <1>1, <1>2, <2>2, CallerListedKept
  <2> QED BY <2>1, <2>2
<1>4. ASSUME NEW i \in RunIds, runs[i].status # "unborn" PROVE RunListed(i)'
  <2>1. ASSUME NEW r \in Repos, NEW kind \in StampKinds, UpstreamStar(r, kind)
        PROVE  RunListed(i)'
    <3> DEFINE item == [repo |-> r, at |-> Stamp(kind)]
    <3>1. Stamp(kind) \in Nat
      BY SMT, <1>1, ConstantsAssumption DEF Stamp, TypeOK
    <3>2. <<item>> \in Seq(Item) /\ listing \in Seq(Item)
      BY SMT, <1>1, <3>1 DEF Item, TypeOK
    <3>3. ReposOf(<<item>>) = {r}
      BY SMT DEF ReposOf
    <3>4. ReposOf(listing') = {r} \union ReposOf(listing)
      <4>1. listing' = <<item>> \o listing
        BY <2>1 DEF UpstreamStar
      <4> HIDE DEF item
      <4> QED BY <3>2, <3>3, <4>1, ReposOfConcat
    <3>5. seenPresent'[i] = seenPresent[i] \union {r}
      BY <1>4, <2>1 DEF UpstreamStar
    <3> QED BY <1>2, <1>4, <3>4, <3>5 DEF PresenceInv, HeldWasListed, RunListed
  <2>2. ASSUME NEW r \in Repos, UpstreamUnstar(r)
        PROVE  RunListed(i)'
    <3>1. PICK k \in DOMAIN listing :
            listing' = SubSeq(listing, 1, k - 1) \o SubSeq(listing, k + 1, Len(listing))
      BY <2>2 DEF UpstreamUnstar
    <3>2. listing \in Seq(Item) /\ k \in 1..Len(listing)
      BY SMT, <1>1, <3>1 DEF TypeOK
    <3>3. /\ SubSeq(listing, 1, k - 1) \in Seq(Item)
          /\ SubSeq(listing, k + 1, Len(listing)) \in Seq(Item)
          /\ ReposOf(SubSeq(listing, 1, k - 1)) \subseteq ReposOf(listing)
          /\ ReposOf(SubSeq(listing, k + 1, Len(listing))) \subseteq ReposOf(listing)
      BY SMT, <3>2, PartOfItems
    <3>4. ReposOf(listing') \subseteq ReposOf(listing)
      BY <3>1, <3>3, ReposOfConcat
    <3> QED BY <1>1, <1>2, <1>4, <3>4, RunListedKept
  <2> QED BY <2>1, <2>2 DEF Owner
<1> QED BY <1>2, <1>3, <1>4 DEF HeldWasListed, RunListed, CallerListed

\* Opening or resuming a run leaves its new caller with empty hands.
LEMMA StartPresence ==
  ASSUME PresenceInv, NEW w \in Workers, NEW m \in {"full", "incremental"},
         NEW i \in RunIds, OpenRun(m, i) \/ ResumeRun(m, i),
         \A v \in Workers : v # w => worker'[v] = worker[v],
         worker'[w].reply = <<>>
  PROVE  HeldWasListed'
<1>1. TypeOK /\ HistoryGrows
  BY OpenGrows DEF PresenceInv
<1>2. ASSUME NEW v \in Workers PROVE CallerListed(v)'
  <2>1. CASE v = w
    BY <2>1, ReposOfEmpty DEF CallerListed
  <2>2. CASE v # w /\ worker[v].pc = "idle"
    BY <2>2 DEF CallerListed
  <2>3. CASE v # w /\ worker[v].pc # "idle"
    BY <1>1, <2>3, CallerListedKept
  <2> QED BY <2>1, <2>2, <2>3
<1>3. listing' = listing
  BY DEF OpenRun, ResumeRun, upstream
<1>4. ASSUME NEW j \in RunIds PROVE RunListed(j)'
  <2>1. CASE OpenRun(m, i) /\ j = i
    <3>1. runs'[i].staged = <<>> /\ seenPresent'[i] = ReposOf(listing)
      BY <1>1, <2>1 DEF OpenRun, TypeOK
    <3> QED BY <1>3, <2>1, <3>1, ReposOfEmpty DEF RunListed
  <2>2. CASE ~(OpenRun(m, i) /\ j = i)
    <3>1. runs'[j] = runs[j]
      BY <1>1, <2>2 DEF OpenRun, ResumeRun, TypeOK, catalog
    <3>2. CASE runs[j].status = "unborn"
      BY <3>1, <3>2 DEF RunListed
    <3>3. CASE runs[j].status # "unborn"
      BY <1>1, <1>3, <3>1, <3>3, RunListedKept
    <3> QED BY <3>2, <3>3
  <2> QED BY <2>1, <2>2
<1> QED BY <1>2, <1>4 DEF HeldWasListed, RunListed, CallerListed

\* Every other step of a caller: the listing stands, the caller's hands hold
\* what they held or what is listed, and only its own run's staging changes.
LEMMA ProceedPresence ==
  ASSUME PresenceInv, NEW w \in Workers,
         Proceed(w) \/ ProviderError(w) \/ Stop(w)
  PROVE  HeldWasListed'
<1> USE DEF PresenceInv
<1>1. /\ TypeOK /\ CallersHoldRuns /\ HistoryGrows /\ RunsForward
      /\ worker \in [Workers -> Worker] /\ runs \in [RunIds -> Run]
  BY StepGrows, StepForward DEF TypeOK, Next
<1>2. UNCHANGED <<listing, seenPresent>>
  BY DEF Proceed, FetchFullPage, RecordPage, ApplyAuthority, ApplyRejected,
     FetchScanPage, DetectGap, RecordIngest, RecordScanPage, CompleteScan, FailRun,
     ProviderError, Stop, history, upstream
<1> DEFINE i == worker[w].run
<1>3. worker[w].pc # "idle"
  BY DEF Proceed, FetchFullPage, RecordPage, ApplyAuthority, ApplyRejected,
     FetchScanPage, DetectGap, RecordIngest, RecordScanPage, CompleteScan, FailRun,
     ProviderError, Stop
<1>4. /\ i \in RunIds /\ runs[i].status # "unborn"
      /\ worker[w].reply \in Seq(Item)
      /\ runs[i].staged \in Seq(Item)
      /\ worker[w].page \in Nat \ {0} /\ worker[w].mark \in Nat
  BY <1>1, <1>3 DEF CallersHoldRuns, TypeOK, Worker, Run
<1>5. /\ ReposOf(listing) \subseteq seenPresent[i]
      /\ ReposOf(runs[i].staged) \subseteq seenPresent[i]
      /\ ReposOf(worker[w].reply) \subseteq seenPresent[i]
  BY <1>3, <1>4 DEF HeldWasListed
<1>6. ASSUME NEW v \in Workers, v # w PROVE CallerListed(v)'
  <2>1. worker'[v] = worker[v]
    BY <1>1, <1>6 DEF Proceed, FetchFullPage, RecordPage, ApplyAuthority,
       ApplyRejected, FetchScanPage, DetectGap, RecordIngest, RecordScanPage,
       CompleteScan, FailRun, ProviderError, Stop
  <2>2. CASE worker[v].pc = "idle"
    BY <2>1, <2>2 DEF CallerListed
  <2>3. CASE worker[v].pc # "idle"
    BY <1>1, <2>1, <2>3, CallerListedKept
  <2> QED BY <2>2, <2>3
<1>7. CallerListed(w)'
  <2>1. CASE FetchFullPage(w) \/ FetchScanPage(w)
    <3>1. worker'[w].run = i /\ worker'[w].reply = Page(worker[w].page)
      BY <1>1, <2>1 DEF FetchFullPage, FetchScanPage, Worker
    <3>2. ReposOf(Page(worker[w].page)) \subseteq ReposOf(listing)
      BY <1>1, <1>4, PageType
    <3> QED BY <1>2, <1>5, <3>1, <3>2 DEF CallerListed
  <2>2. CASE RecordIngest(w) \/ DetectGap(w) \/ ProviderError(w)
    <3>1. worker'[w].run = i /\ worker'[w].reply = worker[w].reply
      <4>1. CASE RecordIngest(w)
        BY <1>1, <4>1, IngestCaller
      <4>2. CASE DetectGap(w) \/ ProviderError(w)
        BY <1>1, <4>2 DEF DetectGap, ProviderError, Worker
      <4> QED BY <2>2, <4>1, <4>2
    <3> QED BY <1>2, <1>5, <3>1 DEF CallerListed
  <2>3. CASE RecordPage(w) \/ RecordScanPage(w)
    <3>1. worker'[w].run = i /\ worker'[w].reply = <<>>
      <4>1. CASE RecordScanPage(w)
        BY <1>1, <4>1, ScanPageCaller
      <4>2. CASE RecordPage(w)
        BY <1>1, <4>2 DEF RecordPage, Worker
      <4> QED BY <2>3, <4>1, <4>2
    <3> QED BY <1>2, <1>5, <3>1, ReposOfEmpty DEF CallerListed
  <2>4. CASE ApplyAuthority(w) \/ ApplyRejected(w) \/ CompleteScan(w)
               \/ FailRun(w) \/ Stop(w)
    <3>1. worker'[w] = Idle
      BY <1>1, <2>4 DEF ApplyAuthority, ApplyRejected, CompleteScan, FailRun, Stop
    <3> QED BY SMT, <3>1 DEF CallerListed, Idle
  <2> QED BY <2>1, <2>2, <2>3, <2>4 DEF Proceed
<1>8. ASSUME NEW j \in RunIds PROVE RunListed(j)'
  <2>1. CASE RecordPage(w) /\ j = i
    <3>1. runs'[i].staged = runs[i].staged \o worker[w].reply
      BY ZenonT(40), <1>1, <1>4, <2>1 DEF RecordPage, Run
    <3>2. ReposOf(runs'[i].staged) \subseteq seenPresent[i]
      BY <1>4, <1>5, <3>1, ReposOfConcat
    <3> QED BY <1>2, <1>5, <2>1, <3>2 DEF RunListed
  <2>2. CASE ~(RecordPage(w) /\ j = i)
    <3>1. /\ runs'[j].staged = runs[j].staged \/ runs'[j].staged = <<>>
          /\ runs[j].status = "unborn" => runs'[j].status = "unborn"
      <4>1. CASE RecordPage(w)
        BY <1>1, <1>4, <2>2, <4>1 DEF RecordPage
      <4>2. CASE ApplyAuthority(w)
        BY <1>1, <1>4, <4>2 DEF ApplyAuthority, Run
      <4>3. CASE RecordScanPage(w)
        BY SMT, <1>1, <1>4, <4>3 DEF RecordScanPage, Run
      <4>4. CASE CompleteScan(w)
        BY <1>1, <1>4, <4>4 DEF CompleteScan, Run
      <4>5. CASE FailRun(w)
        BY <1>1, <1>4, <4>5 DEF FailRun, Run
      <4>6. CASE FetchFullPage(w) \/ ApplyRejected(w) \/ FetchScanPage(w)
                   \/ DetectGap(w) \/ RecordIngest(w) \/ ProviderError(w) \/ Stop(w)
        BY <4>6 DEF FetchFullPage, ApplyRejected, FetchScanPage, DetectGap,
           RecordIngest, ProviderError, Stop, catalog
      <4> QED BY <4>1, <4>2, <4>3, <4>4, <4>5, <4>6 DEF Proceed
    <3>2. CASE runs[j].status = "unborn"
      BY <3>1, <3>2 DEF RunListed
    <3>3. CASE runs[j].status # "unborn"
      BY <1>1, <1>2, <3>1, <3>3, RunListedKept, ReposOfEmpty
    <3> QED BY <3>2, <3>3
  <2> QED BY <2>1, <2>2
<1> QED BY <1>6, <1>7, <1>8 DEF HeldWasListed, RunListed, CallerListed

LEMMA PresenceStep == PresenceInv /\ [Next]_vars => PresenceInv'
<1> SUFFICES ASSUME PresenceInv, [Next]_vars PROVE PresenceInv'
  OBVIOUS
<1>1. TypeOK' /\ CallersHoldRuns' /\ worker \in [Workers -> Worker]
  BY NextTyped, CallersHoldRunsStep DEF PresenceInv, TypeOK
<1>2. SUFFICES HeldWasListed'
  BY <1>1 DEF PresenceInv
<1>3. CASE Owner
  BY <1>3, OwnerPresence
<1>4. ASSUME NEW w \in Workers, StartFull(w) PROVE HeldWasListed'
  <2>1. PICK i \in RunIds :
          /\ OpenRun("full", i) \/ ResumeRun("full", i)
          /\ worker' = [worker EXCEPT ![w] =
                          [Idle EXCEPT !.pc = "fullFetch", !.run = i,
                                       !.page = runs'[i].next]]
    BY <1>4 DEF StartFull
  <2>2. /\ \A v \in Workers : v # w => worker'[v] = worker[v]
        /\ worker'[w].reply = <<>>
    BY <1>1, <2>1 DEF Idle
  <2> QED BY <2>1, <2>2, StartPresence
<1>5. ASSUME NEW w \in Workers, StartScan(w) PROVE HeldWasListed'
  <2>1. PICK i \in RunIds :
          /\ OpenRun("incremental", i) \/ ResumeRun("incremental", i)
          /\ worker' = [worker EXCEPT ![w] =
                          [Idle EXCEPT !.pc = "scanFetch", !.run = i,
                                       !.page = runs'[i].next,
                                       !.mark = watermark,
                                       !.seen = runs'[i].boundary]]
    BY <1>5 DEF StartScan
  <2>2. /\ \A v \in Workers : v # w => worker'[v] = worker[v]
        /\ worker'[w].reply = <<>>
    BY <1>1, <2>1 DEF Idle
  <2> QED BY <2>1, <2>2, StartPresence
<1>6. ASSUME NEW w \in Workers, Proceed(w) \/ ProviderError(w) \/ Stop(w)
      PROVE  HeldWasListed'
  BY <1>6, ProceedPresence
<1>7. CASE UNCHANGED vars
  BY <1>7 DEF PresenceInv, HeldWasListed, vars, upstream, catalog, history
<1> QED BY <1>3, <1>4, <1>5, <1>6, <1>7 DEF Next

\* Whenever a step marks a repository starred, the repository was on the
\* listing at some moment since the run it cites was opened, for any number of
\* callers, pauses, crashes and resumptions.
THEOREM StarsWereListed == Spec => StarsAreEvidenced
<1> DEFINE Evidenced == \A r \in Repos : ~current[r].starred /\ current'[r].starred
                                           => r \in seenPresent[current'[r].evidence]
<1>1. PresenceInv /\ [Next]_vars => [Evidenced]_vars
  <2> SUFFICES ASSUME PresenceInv, [Next]_vars,
                      NEW r \in Repos, ~current[r].starred, current'[r].starred
               PROVE  r \in seenPresent[current'[r].evidence]
    OBVIOUS
  <2>1. TypeOK /\ HeldWasListed /\ CallersHoldRuns /\ worker \in [Workers -> Worker]
    BY DEF PresenceInv, TypeOK
  <2>2. ASSUME NEW w \in Workers, ApplyAuthority(w)
        PROVE  r \in seenPresent[current'[r].evidence]
    <3>1. /\ worker[w].run \in RunIds /\ runs[worker[w].run].status # "unborn"
          /\ current'[r].evidence = worker[w].run
          /\ r \in ReposOf(runs[worker[w].run].staged)
      BY <2>1, <2>2, SwapRows DEF ApplyAuthority, CallersHoldRuns
    <3> QED BY <2>1, <3>1 DEF HeldWasListed
  <2>3. ASSUME NEW w \in Workers, RecordIngest(w)
        PROVE  r \in seenPresent[current'[r].evidence]
    <3>1. /\ worker[w].pc = "scanIngest" /\ r \in ReposOf(worker[w].reply)
          /\ current'[r].evidence = worker[w].run
      BY <2>1, <2>3, IngestRows
    <3> QED BY <2>1, <3>1 DEF HeldWasListed
  <2> QED BY <2>1, <2>2, <2>3, RowsWritten
<1> QED BY <1>1, PresenceInit, PresenceStep, PTL DEF Spec, StarsAreEvidenced

-----------------------------------------------------------------------------
(* The traversal of a full snapshot.  Pages are positions in a listing that   *)
(* moves: what has been listed ever since the run was opened is staged, held  *)
(* or still ahead, as long as positions only move away from the head.  That   *)
(* needs a listing that nothing leaves, or that nobody touches, and a single  *)
(* caller: a second one empties the staging under the first.                  *)

OneCaller == \A v, w \in Workers : v = w

\* Nothing has left the listing since the run was opened.
Steady(i) == ~RemovalsDuringRun \/ i \notin disturbed

\* Entries before page p, and the repositories at or after it.
Start(p) == (p - 1) * PageSize
Ahead(s, p) == {s[k].repo : k \in {j \in DOMAIN s : j > Start(p)}}

\* Repositories listed ever since the run was opened.
Kept(i) == Repos \ seenAbsent[i]

\* What the run has staged, a caller holds or later pages will show.
Reached(i, p, held) == Kept(i) \subseteq ReposOf(runs[i].staged) \union held \union Ahead(listing, p)

StagedAll(i) == Kept(i) \subseteq ReposOf(runs[i].staged)

RunTraverses(i) ==
  runs[i].mode = "full" /\ runs[i].status = "running" /\ Steady(i)
    => Reached(i, runs[i].next, {})

CallerTraverses(w) ==
  worker[w].pc \in FullSteps =>
    LET i == worker[w].run IN
    /\ runs[i].status = "running"
    /\ worker[w].page = runs[i].next
    /\ Steady(i) =>
         /\ worker[w].pc = "fullRecord" =>
              Reached(i, worker[w].page + 1, ReposOf(worker[w].reply))
         /\ worker[w].pc = "fullRecord" /\ worker[w].reply = <<>> => StagedAll(i)
         /\ worker[w].pc = "fullApply" => StagedAll(i)

\* The history of a run during which the owner changed nothing.
Untouched(i) ==
  runs[i].status = "running" /\ i \notin disturbed =>
    seenPresent[i] = ReposOf(listing) /\ seenAbsent[i] = Repos \ ReposOf(listing)

Traversal ==
  /\ \A i \in RunIds : RunTraverses(i) /\ Untouched(i)
  /\ \A w \in Workers : CallerTraverses(w)

TraversalInv == PresenceInv /\ Traversal

LEMMA PageStarts ==
  ASSUME NEW p \in Nat \ {0}
  PROVE  /\ Start(p) \in Nat /\ p * PageSize = Start(p) + PageSize
         /\ Start(p + 1) = Start(p) + PageSize /\ Start(1) = 0
         /\ NextPage(p) \in Nat \ {0} /\ Start(NextPage(p)) <= Start(p + 1)
<1>1. PageSize \in Nat /\ p - 1 \in Nat
  BY SMT, ConstantsAssumption
<1>2. Start(p) \in Nat
  <2>1. \A a, b \in Nat : a * b \in Nat
    BY SMT
  <2> QED BY <1>1, <2>1 DEF Start
<1>3. p * PageSize = Start(p) + PageSize
  <2>1. \A a, b \in Nat : (a + 1) * b = a * b + b
    BY SMT
  <2>2. ((p - 1) + 1) * PageSize = (p - 1) * PageSize + PageSize
    BY <1>1, <2>1
  <2>3. (p - 1) + 1 = p
    BY SMT
  <2> QED BY <2>2, <2>3 DEF Start
<1>4. Start(p + 1) = Start(p) + PageSize
  <2>1. (p + 1) - 1 = p
    BY SMT
  <2> QED BY <1>3, <2>1 DEF Start
<1>5. Start(1) = 0
  BY SMT, <1>1 DEF Start
<1>6. NextPage(p) \in Nat \ {0} /\ NextPage(p) - 1 <= p
  BY SMT, ConstantsAssumption DEF NextPage, Earlier
<1>7. Start(NextPage(p)) <= Start(p + 1)
  <2>1. \A a, b, c \in Nat : a <= b => a * c <= b * c
    BY SMT
  <2>2. NextPage(p) - 1 \in Nat /\ p \in Nat
    BY SMT, <1>6
  <2>3. (NextPage(p) - 1) * PageSize <= p * PageSize
    BY <1>1, <1>6, <2>1, <2>2
  <2> QED BY <1>3, <1>4, <2>3 DEF Start
<1> QED BY <1>2, <1>3, <1>4, <1>5, <1>6, <1>7

\* A page and what is ahead of it.
LEMMA AheadOfPage ==
  ASSUME TypeOK, NEW p \in Nat \ {0}
  PROVE  /\ Ahead(listing, p) \subseteq ReposOf(Page(p)) \union Ahead(listing, p + 1)
         /\ Page(p) = <<>> => Ahead(listing, p) = {}
         /\ Ahead(listing, p + 1) \subseteq Ahead(listing, NextPage(p))
         /\ Ahead(listing, 1) = ReposOf(listing)
<1> DEFINE last == Earlier(p * PageSize, Len(listing))
<1>1. /\ listing \in Seq(Item) /\ PageSize \in Nat \ {0}
      /\ Start(p) \in Nat /\ p * PageSize = Start(p) + PageSize
      /\ Start(p + 1) = Start(p) + PageSize /\ Start(1) = 0
      /\ NextPage(p) \in Nat \ {0} /\ Start(NextPage(p)) <= Start(p + 1)
  BY PageStarts, ConstantsAssumption DEF TypeOK
<1>2. /\ Page(p) = SubSeq(listing, Start(p) + 1, last) /\ last \in Nat /\ last <= Len(listing)
      /\ (last = Len(listing) \/ last = Start(p) + PageSize)
      /\ Start(p) + 1 \in Nat \ {0} /\ Len(listing) \in Nat
  BY SMT, <1>1 DEF Page, Earlier, Start
<1> HIDE DEF last
<1>3. /\ Page(p) \in Seq(Item)
      /\ Len(Page(p)) = IF Start(p) + 1 <= last THEN last - (Start(p) + 1) + 1 ELSE 0
      /\ \A k \in DOMAIN Page(p) : k + (Start(p) + 1) - 1 \in DOMAIN listing
                                   /\ Page(p)[k] = listing[k + (Start(p) + 1) - 1]
  <2> DEFINE a == Start(p) + 1
  <2>1. /\ a \in Nat \ {0} /\ Page(p) = SubSeq(listing, a, last)
        /\ listing \in Seq(Item) /\ last \in Nat /\ last <= Len(listing)
    BY <1>1, <1>2
  <2> HIDE DEF a
  <2>2. /\ SubSeq(listing, a, last) \in Seq(Item)
        /\ Len(SubSeq(listing, a, last)) = IF a <= last THEN last - a + 1 ELSE 0
        /\ \A k \in DOMAIN SubSeq(listing, a, last) :
             k + a - 1 \in DOMAIN listing /\ SubSeq(listing, a, last)[k] = listing[k + a - 1]
    BY <2>1, PartOfItems
  <2>3. /\ Page(p) \in Seq(Item)
        /\ Len(Page(p)) = IF a <= last THEN last - a + 1 ELSE 0
        /\ \A k \in DOMAIN Page(p) : k + a - 1 \in DOMAIN listing /\ Page(p)[k] = listing[k + a - 1]
    BY <2>1, <2>2
  <2> QED BY <2>3 DEF a
<1>4. ASSUME NEW k \in DOMAIN listing, k > Start(p), ~(k > Start(p + 1))
      PROVE  listing[k].repo \in ReposOf(Page(p))
  <2>0. k \in Nat /\ k <= Len(listing) /\ DOMAIN Page(p) = 1..Len(Page(p))
    BY SMT, <1>1, <1>3
  <2>1. k - Start(p) \in DOMAIN Page(p) /\ (k - Start(p)) + (Start(p) + 1) - 1 = k
    <3>1. /\ Start(p) \in Nat /\ PageSize \in Nat /\ last \in Nat /\ Start(p + 1) = Start(p) + PageSize
          /\ Len(listing) \in Nat /\ (last = Len(listing) \/ last = Start(p) + PageSize)
          /\ Len(Page(p)) = IF Start(p) + 1 <= last THEN last - (Start(p) + 1) + 1 ELSE 0
      BY <1>1, <1>2, <1>3
    <3>2. Start(p) + 1 <= last /\ k <= last
      BY SMT, <1>4, <2>0, <3>1
    <3>3. k - Start(p) \in 1..Len(Page(p))
      BY SMT, <1>4, <2>0, <3>1, <3>2
    <3> QED BY SMT, <2>0, <3>1, <3>3
  <2>2. Page(p)[k - Start(p)] = listing[k]
    BY <1>3, <2>1
  <2> QED BY <2>1, <2>2 DEF ReposOf
<1>5. Ahead(listing, p) \subseteq ReposOf(Page(p)) \union Ahead(listing, p + 1)
  BY <1>4 DEF Ahead
<1>6. ASSUME Page(p) = <<>> PROVE Ahead(listing, p) = {}
  <2>1. Len(Page(p)) = 0
    BY SMT, <1>6
  <2>2. ~(Start(p) + 1 <= last) /\ PageSize \in Nat \ {0} /\ Start(p) \in Nat
    BY SMT, <1>1, <1>2, <1>3, <2>1
  <2>3. Len(listing) <= Start(p)
    BY SMT, <1>2, <2>2
  <2>4. \A k \in DOMAIN listing : ~(k > Start(p))
    BY SMT, <1>1, <2>2, <2>3
  <2> QED BY <2>4 DEF Ahead
<1>7. \A k \in DOMAIN listing : /\ k > Start(p + 1) => k > Start(NextPage(p))
                               /\ k > Start(1)
  <2>1. \A k \in DOMAIN listing : k \in Nat /\ k > 0
    BY SMT, <1>1
  <2>2. Start(NextPage(p)) \in Nat
    BY <1>1, PageStarts
  <2> QED BY SMT, <1>1, <2>1, <2>2
<1>8. Ahead(listing, 1) = ReposOf(listing) /\ Ahead(listing, p + 1) \subseteq Ahead(listing, NextPage(p))
  BY <1>7 DEF Ahead, ReposOf
<1> QED BY <1>5, <1>6, <1>8

\* A new star moves every other entry one position further from the head.
LEMMA AheadGrows ==
  ASSUME TypeOK, NEW r \in Repos, NEW kind \in StampKinds, UpstreamStar(r, kind), NEW p \in Nat \ {0}
  PROVE  Ahead(listing, p) \subseteq Ahead(listing', p)
<1> DEFINE item == [repo |-> r, at |-> Stamp(kind)]
<1>1. listing' = <<item>> \o listing /\ listing \in Seq(Item)
  BY DEF UpstreamStar, TypeOK
<1>2. Start(p) \in Nat
  BY PageStarts
<1>3. \A k \in DOMAIN listing : k + 1 \in DOMAIN listing' /\ listing'[k + 1] = listing[k]
  <2> HIDE DEF item
  <2> QED BY SMT, <1>1
<1>4. \A k \in DOMAIN listing : k > Start(p) => k + 1 > Start(p)
  BY SMT, <1>1, <1>2
<1> QED BY <1>3, <1>4 DEF Ahead

LEMMA TraversalInit == Init => TraversalInv
<1> SUFFICES ASSUME Init PROVE TraversalInv
  OBVIOUS
<1>1. PICK k \in 0..Len(InitialStars), m \in InitialModes : InitFrom(k, m)
  BY DEF Init
<1>2. \A i \in RunIds : runs[i].status # "running"
  BY <1>1 DEF InitFrom, BlankRun
<1>3. \A w \in Workers : worker[w].pc = "idle"
  BY <1>1 DEF InitFrom, Idle
<1> QED BY <1>2, <1>3, PresenceInit
        DEF TraversalInv, Traversal, RunTraverses, Untouched, CallerTraverses, FullSteps

\* The owner: a new star moves entries ahead, a removal disturbs what is running.
LEMMA OwnerTraverses ==
  ASSUME TraversalInv, Owner
  PROVE  Traversal'
<1>1. UNCHANGED <<runs, worker>>
  BY DEF Owner, UpstreamStar, UpstreamUnstar, catalog
<1>2. /\ TypeOK /\ \A i \in RunIds : RunTraverses(i) /\ Untouched(i)
      /\ \A w \in Workers : CallerTraverses(w)
      /\ \A w \in Workers : worker[w].pc # "idle" =>
           worker[w].run \in RunIds /\ worker[w].page \in Nat \ {0} /\ worker[w].page + 1 \in Nat \ {0}
      /\ \A i \in RunIds : runs[i].next \in Nat \ {0}
  <2>1. TypeOK /\ Traversal
    BY DEF TraversalInv, PresenceInv
  <2>2. \A w \in Workers : worker[w].pc # "idle" => worker[w].run \in RunIds /\ worker[w].page \in Nat \ {0}
    BY <2>1 DEF TypeOK, Worker
  <2>3. \A i \in RunIds : runs[i].next \in Nat \ {0}
    BY <2>1 DEF TypeOK, Run
  <2>4. \A p \in Nat \ {0} : p + 1 \in Nat \ {0}
    BY SMT
  <2> QED BY <2>1, <2>2, <2>3, <2>4 DEF Traversal
<1>3. disturbed' = disturbed \union {i \in RunIds : runs[i].status = "running"}
  BY DEF Owner, UpstreamStar, UpstreamUnstar
<1>4. ASSUME NEW i \in RunIds PROVE Untouched(i)'
  BY <1>1, <1>3 DEF Untouched
<1>5. CASE \A i \in RunIds : runs[i].status = "running" => ~Steady(i)'
  <2>1. \A i \in RunIds : RunTraverses(i)'
    BY <1>1, <1>5 DEF RunTraverses
  <2>2. ASSUME NEW w \in Workers PROVE CallerTraverses(w)'
    <3>1. CASE worker[w].pc \in FullSteps
      <4>1. PICK i \in RunIds : i = worker[w].run
        BY <1>2, <3>1 DEF FullSteps
      <4>2. runs[i].status = "running" /\ worker[w].page = runs[i].next
        BY <1>2, <3>1, <4>1 DEF CallerTraverses
      <4>3. ~Steady(i)'
        BY <1>5, <4>2
      <4> QED BY <1>1, <4>1, <4>2, <4>3 DEF CallerTraverses
    <3> QED BY <1>1, <3>1 DEF CallerTraverses
  <2> QED BY <1>4, <2>1, <2>2 DEF Traversal
<1>6. ASSUME NEW r \in Repos, NEW kind \in StampKinds, UpstreamStar(r, kind) PROVE Traversal'
  <2>1. seenAbsent' = seenAbsent
    BY <1>6 DEF UpstreamStar
  <2>2. \A p \in Nat \ {0} : Ahead(listing, p) \subseteq Ahead(listing', p)
    BY <1>2, <1>6, AheadGrows
  <2>3. \A i \in RunIds : Steady(i)' => Steady(i)
    BY <1>3 DEF Steady
  <2>4. ASSUME NEW i \in RunIds PROVE RunTraverses(i)'
    BY <1>1, <1>2, <2>1, <2>2, <2>3 DEF RunTraverses, Reached, Kept
  <2>5. ASSUME NEW w \in Workers, worker[w].pc \in FullSteps PROVE CallerTraverses(w)'
    <3>1. PICK i \in RunIds : i = worker[w].run
      BY <1>2, <2>5 DEF FullSteps
    <3>2. Ahead(listing, worker[w].page + 1) \subseteq Ahead(listing', worker[w].page + 1)
      BY <1>2, <2>2, <2>5 DEF FullSteps
    <3>3. CallerTraverses(w) /\ worker'[w] = worker[w] /\ (Steady(i)' => Steady(i))
          /\ runs'[i] = runs[i] /\ Kept(i)' = Kept(i)
      BY <1>1, <1>2, <2>1, <2>3 DEF Kept
    <3> QED BY <2>5, <3>1, <3>2, <3>3 DEF CallerTraverses, Reached, StagedAll
  <2>6. ASSUME NEW w \in Workers PROVE CallerTraverses(w)'
    BY <1>1, <2>5 DEF CallerTraverses
  <2> QED BY <1>4, <2>4, <2>6 DEF Traversal
<1>7. ASSUME NEW r \in Repos, UpstreamUnstar(r) PROVE Traversal'
  <2>1. \A i \in RunIds : runs[i].status = "running" => ~Steady(i)'
    BY <1>3, <1>7 DEF Steady, UpstreamUnstar, AnyRunning
  <2> QED BY <1>5, <2>1
<1> QED BY <1>6, <1>7 DEF Owner

\* A run that a step leaves alone.
LEMMA RunStands ==
  ASSUME NEW i \in RunIds, RunTraverses(i), Untouched(i), runs'[i] = runs[i],
         UNCHANGED <<listing, disturbed>>, seenAbsent'[i] = seenAbsent[i], seenPresent'[i] = seenPresent[i]
  PROVE  RunTraverses(i)' /\ Untouched(i)'
  BY DEF RunTraverses, Untouched, Steady, Reached, Kept

\* A run is opened on the listing of the moment, or resumed where it stood.
LEMMA StartTraverses ==
  ASSUME TraversalInv, OneCaller, NEW w \in Workers, NEW m \in {"full", "incremental"},
         NEW i \in RunIds, OpenRun(m, i) \/ ResumeRun(m, i),
         worker'[w].pc \notin {"fullRecord", "fullApply"}, worker'[w].run = i,
         worker'[w].page = runs'[i].next
  PROVE  Traversal'
<1>1. TypeOK /\ Traversal
  BY DEF TraversalInv, PresenceInv
<1>2. CASE OpenRun(m, i)
  <2>1. /\ UNCHANGED <<listing, disturbed>> /\ runs'[i].next = 1 /\ runs'[i].status = "running"
        /\ runs'[i].staged = <<>> /\ seenPresent'[i] = ReposOf(listing)
        /\ seenAbsent'[i] = Repos \ ReposOf(listing)
        /\ \A j \in RunIds \ {i} : runs'[j] = runs[j] /\ seenPresent'[j] = seenPresent[j]
                                   /\ seenAbsent'[j] = seenAbsent[j]
    BY <1>1, <1>2 DEF OpenRun, upstream, TypeOK
  <2>2. Ahead(listing, 1) = ReposOf(listing)
    <3>1. 1 \in Nat \ {0}
      BY SMT
    <3> QED BY <1>1, <3>1, AheadOfPage
  <2>3. RunTraverses(i)' /\ Untouched(i)'
    BY <2>1, <2>2 DEF RunTraverses, Untouched, Reached, Kept
  <2>4. \A j \in RunIds : RunTraverses(j)' /\ Untouched(j)'
    BY <1>1, <2>1, <2>3, RunStands DEF Traversal
  <2>5. CallerTraverses(w)'
    BY <2>1 DEF CallerTraverses
  <2> QED BY <2>4, <2>5 DEF Traversal, OneCaller
<1>3. CASE ResumeRun(m, i)
  <2>1. UNCHANGED <<runs, listing, disturbed, seenPresent, seenAbsent>> /\ runs[i].status = "running"
    BY <1>3 DEF ResumeRun, Resumable, RunningRuns, upstream, catalog, history
  <2>2. \A j \in RunIds : RunTraverses(j)' /\ Untouched(j)'
    BY <1>1, <2>1, RunStands DEF Traversal
  <2>3. CallerTraverses(w)'
    BY <2>1 DEF CallerTraverses
  <2> QED BY <2>2, <2>3 DEF Traversal, OneCaller
<1> QED BY <1>2, <1>3

\* Steps that leave the traversal or belong to a scan.
LEMMA OtherTraverses ==
  ASSUME TraversalInv, UNCHANGED <<listing, seenPresent, seenAbsent, disturbed>>,
         \A j \in RunIds : \/ runs'[j] = runs[j]
                           \/ runs'[j].status # "running"
                           \/ runs'[j].mode # "full" /\ runs[j].status = "running",
         \A v \in Workers : worker'[v].pc \notin FullSteps
  PROVE  Traversal'
<1>1. \A j \in RunIds : RunTraverses(j) /\ Untouched(j)
  BY DEF TraversalInv, Traversal
<1>2. ASSUME NEW j \in RunIds PROVE RunTraverses(j)' /\ Untouched(j)'
  <2>1. CASE runs'[j] = runs[j]
    BY <1>1, <2>1, RunStands
  <2>2. CASE runs'[j].status # "running"
    BY <2>2 DEF RunTraverses, Untouched
  <2>3. CASE runs'[j].mode # "full" /\ runs[j].status = "running"
    BY <1>1, <2>3 DEF RunTraverses, Untouched
  <2> QED BY <2>1, <2>2, <2>3
<1> QED BY <1>2 DEF Traversal, CallerTraverses

\* A page is fetched: what was ahead of the caller is in its hands or ahead.
LEMMA FetchTraverses ==
  ASSUME TraversalInv, OneCaller, NEW w \in Workers, FetchFullPage(w)
  PROVE  Traversal'
<1>1. TypeOK /\ Traversal /\ CallersHoldRuns
  BY DEF TraversalInv, PresenceInv
<1>2. PICK i \in RunIds : i = worker[w].run
  BY <1>1 DEF TypeOK, FetchFullPage
<1>3. PICK p \in Nat \ {0} : p = worker[w].page
  BY <1>1 DEF TypeOK, Worker, FetchFullPage
<1>4. runs[i].mode = "full" /\ runs[i].status = "running" /\ runs[i].next = p
  BY <1>1, <1>2, <1>3 DEF FetchFullPage, CallersHoldRuns, Traversal, CallerTraverses, FullSteps
<1>5. /\ UNCHANGED <<runs, listing, seenPresent, seenAbsent, disturbed>>
      /\ worker'[w].pc = "fullRecord" /\ worker'[w].run = i /\ worker'[w].page = p
      /\ worker'[w].reply = Page(p)
  BY <1>1, <1>2, <1>3 DEF FetchFullPage, upstream, catalog, history, TypeOK, Worker
<1>6. Steady(i) => Reached(i, p, {})
  BY <1>1, <1>4 DEF Traversal, RunTraverses
<1>7. /\ Ahead(listing, p) \subseteq ReposOf(Page(p)) \union Ahead(listing, p + 1)
      /\ Page(p) = <<>> => Ahead(listing, p) = {}
  BY <1>1, AheadOfPage
<1>8. /\ Steady(i) => Reached(i, p + 1, ReposOf(Page(p)))
      /\ Steady(i) /\ Page(p) = <<>> => StagedAll(i)
  BY <1>6, <1>7 DEF Reached, StagedAll
<1>9. CallerTraverses(w)'
  BY <1>4, <1>5, <1>8 DEF CallerTraverses, Steady, Reached, StagedAll, Kept
<1>10. \A j \in RunIds : RunTraverses(j)' /\ Untouched(j)'
  BY <1>1, <1>5, RunStands DEF Traversal
<1> QED BY <1>9, <1>10 DEF Traversal, OneCaller

\* A page is recorded: what was in the caller's hands is staged.
LEMMA RecordTraverses ==
  ASSUME TraversalInv, OneCaller, NEW w \in Workers, RecordPage(w)
  PROVE  Traversal'
<1>1. TypeOK /\ Traversal /\ CallersHoldRuns
  BY DEF TraversalInv, PresenceInv
<1>2. PICK i \in RunIds : i = worker[w].run
  BY <1>1 DEF TypeOK, RecordPage
<1>3. PICK p \in Nat \ {0} : p = worker[w].page
  BY <1>1 DEF TypeOK, Worker, RecordPage
<1>4. PICK reply \in Seq(Item) : reply = worker[w].reply
  BY <1>1 DEF TypeOK, Worker
<1>5. /\ runs[i].mode = "full" /\ runs[i].status = "running" /\ runs[i] \in Run
      /\ Steady(i) => Reached(i, p + 1, ReposOf(reply))
      /\ Steady(i) /\ reply = <<>> => StagedAll(i)
  BY <1>1, <1>2, <1>3, <1>4 DEF RecordPage, CallersHoldRuns, Traversal, CallerTraverses, FullSteps, TypeOK
<1>6. /\ UNCHANGED <<listing, seenPresent, seenAbsent, disturbed>>
      /\ \A j \in RunIds \ {i} : runs'[j] = runs[j]
      /\ runs'[i] = [runs[i] EXCEPT !.staged = runs[i].staged \o reply, !.next = NextPage(p)]
  BY <1>1, <1>2, <1>3, <1>4 DEF RecordPage, upstream, history, TypeOK
<1>7. /\ runs'[i].staged = runs[i].staged \o reply /\ runs'[i].next = NextPage(p)
      /\ runs'[i].status = "running" /\ runs'[i].mode = "full"
  BY <1>5, <1>6 DEF Run
<1>8. /\ worker'[w].pc = IF reply = <<>> THEN "fullApply" ELSE "fullFetch"
      /\ worker'[w].run = i /\ worker'[w].page = NextPage(p)
  BY <1>1, <1>2, <1>3, <1>4 DEF RecordPage, TypeOK, Worker
<1>9. ReposOf(runs'[i].staged) = ReposOf(runs[i].staged) \union ReposOf(reply)
  BY <1>5, <1>7, ReposOfConcat DEF Run
<1>10. Ahead(listing, p + 1) \subseteq Ahead(listing, NextPage(p))
  BY <1>1, AheadOfPage
<1>11. RunTraverses(i)' /\ Untouched(i)'
  <2>1. RunTraverses(i)'
    BY <1>5, <1>6, <1>7, <1>9, <1>10 DEF RunTraverses, Reached, Kept, Steady
  <2>2. Untouched(i)'
    BY <1>1, <1>5, <1>6 DEF Untouched, Traversal
  <2> QED BY <2>1, <2>2
<1>12. \A j \in RunIds : RunTraverses(j)' /\ Untouched(j)'
  BY <1>1, <1>6, <1>11, RunStands DEF Traversal
<1>13. CallerTraverses(w)'
  BY <1>5, <1>6, <1>7, <1>8, <1>9 DEF CallerTraverses, StagedAll, Kept, Steady
<1> QED BY <1>12, <1>13 DEF Traversal, OneCaller

LEMMA TraversalStep ==
  ASSUME OneCaller, TraversalInv, [Next]_vars
  PROVE  TraversalInv'
<1>1. /\ PresenceInv' /\ PresenceInv /\ TypeOK /\ Traversal /\ CallersHoldRuns
      /\ runs \in [RunIds -> Run] /\ worker \in [Workers -> Worker]
      /\ \A w \in Workers : worker[w].pc # "idle" => worker[w].run \in RunIds
  BY PresenceStep DEF TraversalInv, PresenceInv, TypeOK
<1>2. SUFFICES Traversal'
  BY <1>1 DEF TraversalInv
<1>3. CASE Owner
  BY <1>3, OwnerTraverses
<1>4. ASSUME NEW w \in Workers, StartFull(w) PROVE Traversal'
  <2>1. PICK i \in RunIds :
          /\ OpenRun("full", i) \/ ResumeRun("full", i)
          /\ worker' = [worker EXCEPT ![w] =
                          [Idle EXCEPT !.pc = "fullFetch", !.run = i,
                                       !.page = runs'[i].next]]
    BY <1>4 DEF StartFull
  <2>2. worker'[w].pc = "fullFetch" /\ worker'[w].run = i /\ worker'[w].page = runs'[i].next
    BY <1>1, <2>1 DEF Idle
  <2> QED BY <2>1, <2>2, StartTraverses
<1>5. ASSUME NEW w \in Workers, StartScan(w) PROVE Traversal'
  <2>1. PICK i \in RunIds :
          /\ OpenRun("incremental", i) \/ ResumeRun("incremental", i)
          /\ worker' = [worker EXCEPT ![w] =
                          [Idle EXCEPT !.pc = "scanFetch", !.run = i,
                                       !.page = runs'[i].next,
                                       !.mark = watermark,
                                       !.seen = runs'[i].boundary]]
    BY <1>5 DEF StartScan
  <2>2. worker'[w].pc = "scanFetch" /\ worker'[w].run = i /\ worker'[w].page = runs'[i].next
    BY <1>1, <2>1 DEF Idle
  <2> QED BY <2>1, <2>2, StartTraverses
<1>6. ASSUME NEW w \in Workers,
             \/ ApplyAuthority(w) \/ ApplyRejected(w) \/ CompleteScan(w) \/ FailRun(w) \/ Stop(w)
             \/ FetchScanPage(w) \/ DetectGap(w) \/ RecordIngest(w) \/ RecordScanPage(w)
             \/ ProviderError(w)
      PROVE  Traversal'
  <2>1. UNCHANGED <<listing, seenPresent, seenAbsent, disturbed>>
    BY <1>6 DEF ApplyAuthority, ApplyRejected, CompleteScan, FailRun, Stop, FetchScanPage,
       DetectGap, RecordIngest, RecordScanPage, ProviderError, upstream, history
  <2>2. \A v \in Workers : worker'[v].pc \notin FullSteps
    <3>1. CASE ApplyAuthority(w) \/ ApplyRejected(w) \/ CompleteScan(w) \/ FailRun(w) \/ Stop(w)
      <4>1. worker'[w] = Idle
        BY <1>1, <3>1 DEF ApplyAuthority, ApplyRejected, CompleteScan, FailRun, Stop
      <4>2. worker'[w].pc = "idle"
        BY <4>1, IdleType
      <4> QED BY <4>2 DEF OneCaller, FullSteps
    <3>2. CASE FetchScanPage(w) \/ DetectGap(w) \/ RecordIngest(w) \/ ProviderError(w)
      <4>1. CASE FetchScanPage(w)
        <5>1. worker'[w].pc = "scanIngest"
          BY <1>1, <4>1 DEF FetchScanPage, Worker
        <5> QED BY <5>1 DEF OneCaller, FullSteps
      <4>2. CASE DetectGap(w) \/ ProviderError(w)
        <5>1. worker'[w].pc = "failing"
          BY <1>1, <4>2 DEF DetectGap, ProviderError, Worker
        <5> QED BY <5>1 DEF OneCaller, FullSteps
      <4>3. CASE RecordIngest(w)
        <5>1. worker'[w].pc = "scanIngest"
          BY <1>1, <4>3, IngestCaller
        <5> QED BY <5>1 DEF OneCaller, FullSteps
      <4> QED BY <3>2, <4>1, <4>2, <4>3
    <3>3. CASE RecordScanPage(w)
      <4>1. worker'[w].pc \in {"scanComplete", "scanFetch"}
        BY SMT, <1>1, <3>3 DEF RecordScanPage, Worker
      <4> QED BY <4>1 DEF OneCaller, FullSteps
    <3> QED BY <1>6, <3>1, <3>2, <3>3
  <2>3. ASSUME NEW j \in RunIds
        PROVE  \/ runs'[j] = runs[j]
               \/ runs'[j].status # "running"
               \/ runs'[j].mode # "full" /\ runs[j].status = "running"
    <3>1. CASE ApplyAuthority(w)
      BY <1>1, <3>1 DEF ApplyAuthority, Run
    <3>2. CASE CompleteScan(w)
      BY <1>1, <3>2 DEF CompleteScan, Run
    <3>3. CASE FailRun(w)
      BY <1>1, <3>3 DEF FailRun, Run
    <3>4. CASE RecordScanPage(w)
      <4>1. runs[worker[w].run].mode = "incremental" /\ worker[w].run \in RunIds
        BY <1>1, <3>4 DEF RecordScanPage, CallersHoldRuns, ScanSteps
      <4> QED BY SMT, <1>1, <3>4, <4>1 DEF RecordScanPage, Run
    <3>5. CASE ~(ApplyAuthority(w) \/ CompleteScan(w) \/ FailRun(w) \/ RecordScanPage(w))
      BY <1>6, <3>5 DEF ApplyRejected, Stop, FetchScanPage, DetectGap, RecordIngest,
         ProviderError, catalog
    <3> QED BY <3>1, <3>2, <3>3, <3>4, <3>5
  <2> QED BY <2>1, <2>2, <2>3, OtherTraverses
<1>7. CASE UNCHANGED vars
  BY <1>1, <1>7 DEF vars, upstream, catalog, history, Traversal, RunTraverses, Untouched,
     CallerTraverses, Steady, Reached, StagedAll, Kept
<1> QED BY <1>3, <1>4, <1>5, <1>6, <1>7, FetchTraverses, RecordTraverses DEF Next, Proceed

LEMMA TraversalHolds ==
  ASSUME OneCaller
  PROVE  Spec => []TraversalInv
<1>1. TraversalInv /\ [Next]_vars => TraversalInv'
  BY TraversalStep
<1> QED BY <1>1, TraversalInit, PTL DEF Spec

\* With one caller, and an owner who only adds while a run is open, a repository that
\* a swap marks unstarred was off the listing at some moment since the run was opened,
\* however often the run was paused, stopped and resumed and however many pages it has.
THEOREM RemovalsWereAbsent ==
  ASSUME OneCaller, ~RemovalsDuringRun
  PROVE  Spec => UnstarsAreEvidenced
<1> DEFINE Evidenced == \A r \in Repos : current[r].starred /\ ~current'[r].starred
                                           => r \in seenAbsent[current'[r].evidence]
<1>1. TraversalInv /\ [Next]_vars => [Evidenced]_vars
  <2> SUFFICES ASSUME TraversalInv, [Next]_vars,
                      NEW r \in Repos, current[r].starred, ~current'[r].starred
               PROVE  r \in seenAbsent[current'[r].evidence]
    OBVIOUS
  <2>1. TypeOK /\ Traversal
    BY DEF TraversalInv, PresenceInv
  <2>2. ASSUME NEW w \in Workers, ApplyAuthority(w)
        PROVE  r \in seenAbsent[current'[r].evidence]
    <3>1. PICK i \in RunIds : i = worker[w].run
      BY <2>1, <2>2, SwapRows
    <3>2. r \in Dropped(i) /\ current'[r].evidence = i
      BY <2>1, <2>2, <3>1, SwapRows
    <3>3. StagedAll(i)
      BY <2>1, <2>2, <3>1 DEF Traversal, CallerTraverses, ApplyAuthority, FullSteps, Steady
    <3> QED BY <3>2, <3>3 DEF Dropped, StagedAll, Kept
  <2>3. ASSUME NEW w \in Workers, RecordIngest(w) PROVE FALSE
    BY <2>1, <2>3, IngestRows
  <2> QED BY <2>1, <2>2, <2>3, RowsWritten
<1> QED BY <1>1, TraversalHolds, PTL DEF Spec, UnstarsAreEvidenced

\* With one caller, a full snapshot during which the owner changed nothing ends with
\* exactly the listing as the starred set, and repairs nothing that agreed.
THEOREM QuietSnapshotsConverge ==
  ASSUME OneCaller
  PROVE  Spec => QuietSnapshotConverges
<1> DEFINE Converges(i) ==
      /\ runs[i].mode = "full" /\ i \notin disturbed
      /\ runs[i].status = "running" /\ runs'[i].status = "completed"
      => /\ Starred' = ReposOf(listing)
         /\ Starred = ReposOf(listing) => repairs' = repairs
<1>1. TraversalInv /\ [Next]_vars => [\A i \in RunIds : Converges(i)]_vars
  <2> SUFFICES ASSUME TraversalInv, [Next]_vars, NEW i \in RunIds,
                      runs[i].mode = "full", i \notin disturbed,
                      runs[i].status = "running", runs'[i].status = "completed"
               PROVE  /\ Starred' = ReposOf(listing)
                      /\ Starred = ReposOf(listing) => repairs' = repairs
    OBVIOUS
  <2>1. /\ TypeOK /\ Traversal /\ CallersHoldRuns /\ HeldWasListed
        /\ runs \in [RunIds -> Run] /\ worker \in [Workers -> Worker] /\ listing \in Seq(Item)
        /\ \A w \in Workers : worker[w].pc # "idle" => worker[w].run \in RunIds
    BY DEF TraversalInv, PresenceInv, TypeOK
  <2>2. PICK w \in Workers : ApplyAuthority(w) /\ worker[w].run = i
    <3>1. CASE Owner \/ UNCHANGED vars
      BY <3>1 DEF Owner, UpstreamStar, UpstreamUnstar, vars, catalog
    <3>2. ASSUME NEW w \in Workers, StartFull(w) \/ StartScan(w) PROVE FALSE
      <4>1. PICK m \in {"full", "incremental"}, j \in RunIds : OpenRun(m, j) \/ ResumeRun(m, j)
        BY <3>2 DEF StartFull, StartScan
      <4>2. CASE ResumeRun(m, j)
        BY <4>2 DEF ResumeRun, catalog
      <4>3. CASE OpenRun(m, j)
        <5>1. /\ runs' = [runs EXCEPT ![j] = [mode |-> m, status |-> "running", next |-> 1,
                                              boundary |-> 0, staged |-> <<>>]]
          BY <4>3 DEF OpenRun
        <5>2. i = j => runs'[i].status = "running"
          BY <2>1, <5>1
        <5>3. i # j => runs'[i] = runs[i]
          BY <2>1, <5>1
        <5> QED BY <5>2, <5>3
      <4> QED BY <4>1, <4>2, <4>3
    <3>3. ASSUME NEW w \in Workers, RecordPage(w) PROVE FALSE
      BY SMT, <2>1, <3>3 DEF RecordPage, Run
    <3>4. ASSUME NEW w \in Workers, RecordScanPage(w) PROVE FALSE
      BY SMT, <2>1, <3>4 DEF RecordScanPage, Run
    <3>5. ASSUME NEW w \in Workers, FailRun(w) PROVE FALSE
      BY <2>1, <3>5 DEF FailRun, Run
    <3>6. ASSUME NEW w \in Workers, CompleteScan(w) PROVE FALSE
      <4>1. runs[worker[w].run].mode = "incremental" /\ worker[w].run \in RunIds
        BY <2>1, <3>6 DEF CompleteScan, CallersHoldRuns, ScanSteps
      <4> QED BY <2>1, <3>6, <4>1 DEF CompleteScan, Run
    <3>7. ASSUME NEW w \in Workers, ApplyAuthority(w) PROVE worker[w].run = i
      BY <2>1, <3>7 DEF ApplyAuthority
    <3>8. ASSUME NEW w \in Workers,
                 \/ FetchFullPage(w) \/ ApplyRejected(w) \/ FetchScanPage(w)
                 \/ DetectGap(w) \/ RecordIngest(w) \/ ProviderError(w) \/ Stop(w)
          PROVE  FALSE
      BY <3>8 DEF FetchFullPage, ApplyRejected, FetchScanPage, DetectGap, RecordIngest,
         ProviderError, Stop, catalog
    <3> QED BY <3>1, <3>2, <3>3, <3>4, <3>5, <3>6, <3>7, <3>8 DEF Next, Proceed
  <2>3. StagedAll(i)
    BY <2>1, <2>2 DEF Traversal, CallerTraverses, ApplyAuthority, FullSteps, Steady
  <2>4. ReposOf(runs[i].staged) = ReposOf(listing)
    <3>1. seenPresent[i] = ReposOf(listing) /\ seenAbsent[i] = Repos \ ReposOf(listing)
      BY <2>1 DEF Traversal, Untouched
    <3>2. ReposOf(runs[i].staged) \subseteq ReposOf(listing)
      BY <2>1, <3>1 DEF HeldWasListed
    <3>3. ReposOf(listing) \subseteq Repos
      BY <2>1, ReposOfType
    <3> QED BY <2>3, <3>1, <3>2, <3>3 DEF StagedAll, Kept
  <2>5. \A r \in Repos : current'[r].starred <=> r \in ReposOf(listing)
    <3> SUFFICES ASSUME NEW r \in Repos PROVE current'[r].starred <=> r \in ReposOf(listing)
      OBVIOUS
    <3>1. \/ r \in ReposOf(runs[i].staged) /\ current'[r].starred
          \/ r \in Dropped(i) /\ ~current'[r].starred
          \/ /\ r \notin ReposOf(runs[i].staged) /\ ~current[r].starred
             /\ current'[r] = current[r]
      BY <2>1, <2>2, SwapRows
    <3> QED BY <2>4, <3>1 DEF Dropped
  <2>6. Starred' = ReposOf(listing)
    <3>1. ReposOf(listing) \subseteq Repos
      BY <2>1, ReposOfType
    <3> QED BY <2>5, <3>1 DEF Starred
  <2>7. ASSUME Starred = ReposOf(listing) PROVE repairs' = repairs
    <3>1. Dropped(i) = {} /\ \A q \in ReposOf(runs[i].staged) : current[q].starred
      BY <2>4, <2>7 DEF Dropped, Starred
    <3>2. DriftRepairs(i) = {}
      BY <3>1 DEF DriftRepairs
    <3> QED BY <2>2, <3>2 DEF ApplyAuthority
  <2> QED BY <2>6, <2>7
<1> QED BY <1>1, TraversalHolds, PTL DEF Spec, QuietSnapshotConverges

-----------------------------------------------------------------------------
(* The high-water mark.  With one caller that never stops early, provider     *)
(* timestamps that are new or missing, and an owner who only adds stars while  *)
(* a run is open, everything at or below the mark is starred.                 *)

\* The listing is newest first, as far as its entries have timestamps.
Sorted(s) == \A j, k \in DOMAIN s : j < k /\ s[j].at # 0 /\ s[k].at # 0 => s[k].at < s[j].at

UpTo(s, t)      == \A k \in DOMAIN s : s[k].at <= t
NewerThan(t, s) == \A k \in DOMAIN s : s[k].at < t

\* Nothing that anyone holds is newer than the provider's clock.
Timely ==
  /\ Sorted(listing) /\ UpTo(listing, clock) /\ watermark <= clock
  /\ \A i \in RunIds : UpTo(runs[i].staged, clock)
  /\ \A w \in Workers : UpTo(worker[w].reply, clock) /\ worker[w].oldest <= clock

\* What the swap transaction accepts, as a predicate of the run.
Acceptable(run) ==
  /\ \A j, k \in DOMAIN run.staged : run.staged[j].repo = run.staged[k].repo => j = k
  /\ \A k \in DOMAIN run.staged : run.staged[k].at # 0
  /\ run.status # "failed"

\* A running run has its caller, or is a snapshot that the swap transaction
\* keeps refusing; a call works on a running run and under the present mark.
Attended ==
  /\ \A i \in RunIds : runs[i].status = "running" =>
       \/ \E w \in Workers : worker[w].pc # "idle" /\ worker[w].run = i
       \/ runs[i].mode = "full" /\ ~Acceptable(runs[i])
  /\ \A w \in Workers :
       /\ worker[w].pc \in FullSteps \union ScanSteps => runs[worker[w].run].status = "running"
       /\ worker[w].pc \in ScanSteps => worker[w].mark = watermark

\* The entry e at position k of the listing has been staged by the caller c, is
\* in its hands, lies ahead of it, or is newer than the mark and all it has met.
Unmet(run, mark, e) == e.at > mark /\ NewerThan(e.at, run.staged)

FullPasses(c, run, mark, k, e) ==
  \/ e.repo \in ReposOf(run.staged)
  \/ c.pc = "fullFetch" /\ k > Start(c.page)
  \/ c.pc = "fullRecord" /\ e.repo \in ReposOf(c.reply)
  \/ c.pc = "fullRecord" /\ c.reply # <<>> /\ k > Start(c.page + 1)
  \/ Unmet(run, mark, e) /\ (c.pc = "fullRecord" => NewerThan(e.at, c.reply))

\* An entry above the mark is starred, about to be ingested, ahead of the scan,
\* or newer than everything the scan has ingested.
ScanPasses(c, rows, k, e) ==
  \/ rows[e.repo].starred
  \/ c.pc = "scanFetch" /\ k > Start(c.page)
  \/ c.pc = "scanIngest" /\ \E j \in c.todo : c.reply[j].repo = e.repo
  \/ c.pc = "scanIngest" /\ ~CoverageProven(c.reply, c.mark) /\ k > Start(c.page + 1)
  \/ e.at > c.oldest /\ (c.pc = "scanIngest" => NewerThan(e.at, c.reply))

Passes(c, run, rows, mark, k, e) ==
  e.at # 0 =>
    /\ c.pc \in FullSteps => ~Acceptable(run) \/ FullPasses(c, run, mark, k, e)
    /\ c.pc \in ScanSteps => e.at <= mark \/ ScanPasses(c, rows, k, e)

CallersPass ==
  \A w \in Workers : \A k \in DOMAIN listing :
    Passes(worker[w], runs[worker[w].run], current, watermark, k, listing[k])

Covered == Attended /\ CallersPass /\ WatermarkCovers

MarkInv == EvidenceInv /\ Timely /\ (stops = 0 => Covered)

\* Where the entries of a page stand in the listing.
LEMMA PagePositions ==
  ASSUME TypeOK, NEW p \in Nat \ {0}
  PROVE  /\ Page(p) \in Seq(Item)
         /\ \A j \in DOMAIN Page(p) : /\ j + Start(p) \in DOMAIN listing
                                      /\ j + Start(p) <= Start(p + 1)
                                      /\ Page(p)[j] = listing[j + Start(p)]
         /\ \A k \in DOMAIN listing :
              k > Start(p) /\ ~(k > Start(p + 1)) =>
                k - Start(p) \in DOMAIN Page(p) /\ Page(p)[k - Start(p)] = listing[k]
         /\ Page(p) = <<>> => \A k \in DOMAIN listing : ~(k > Start(p))
<1> DEFINE last == Earlier(p * PageSize, Len(listing))
<1>1. /\ listing \in Seq(Item) /\ PageSize \in Nat \ {0}
      /\ Start(p) \in Nat /\ p * PageSize = Start(p) + PageSize
      /\ Start(p + 1) = Start(p) + PageSize
  BY PageStarts, ConstantsAssumption DEF TypeOK
<1>2. /\ Page(p) = SubSeq(listing, Start(p) + 1, last) /\ last \in Nat /\ last <= Len(listing)
      /\ (last = Len(listing) \/ last = Start(p) + PageSize)
      /\ Start(p) + 1 \in Nat \ {0} /\ Len(listing) \in Nat
  BY SMT, <1>1 DEF Page, Earlier, Start
<1> HIDE DEF last
<1>3. /\ Page(p) \in Seq(Item)
      /\ Len(Page(p)) = IF Start(p) + 1 <= last THEN last - (Start(p) + 1) + 1 ELSE 0
      /\ \A k \in DOMAIN Page(p) : k + (Start(p) + 1) - 1 \in DOMAIN listing
                                   /\ Page(p)[k] = listing[k + (Start(p) + 1) - 1]
  <2> DEFINE a == Start(p) + 1
  <2>1. /\ a \in Nat \ {0} /\ Page(p) = SubSeq(listing, a, last)
        /\ listing \in Seq(Item) /\ last \in Nat /\ last <= Len(listing)
    BY <1>1, <1>2
  <2> HIDE DEF a
  <2>2. /\ SubSeq(listing, a, last) \in Seq(Item)
        /\ Len(SubSeq(listing, a, last)) = IF a <= last THEN last - a + 1 ELSE 0
        /\ \A k \in DOMAIN SubSeq(listing, a, last) :
             k + a - 1 \in DOMAIN listing /\ SubSeq(listing, a, last)[k] = listing[k + a - 1]
    BY <2>1, PartOfItems
  <2>3. /\ Page(p) \in Seq(Item)
        /\ Len(Page(p)) = IF a <= last THEN last - a + 1 ELSE 0
        /\ \A k \in DOMAIN Page(p) : k + a - 1 \in DOMAIN listing /\ Page(p)[k] = listing[k + a - 1]
    BY <2>1, <2>2
  <2> QED BY <2>3 DEF a
<1>4. ASSUME NEW j \in DOMAIN Page(p)
      PROVE  /\ j + Start(p) \in DOMAIN listing /\ Page(p)[j] = listing[j + Start(p)]
             /\ j + Start(p) <= Start(p + 1)
  <2>1. j \in Nat /\ j <= Len(Page(p))
    BY SMT, <1>3
  <2>2. j + (Start(p) + 1) - 1 = j + Start(p)
    BY SMT, <1>1, <2>1
  <2>3. Start(p) \in Nat /\ PageSize \in Nat /\ last <= Start(p) + PageSize
    BY SMT, <1>1, <1>2 DEF last, Earlier
  <2>4. j + Start(p) <= Start(p) + PageSize
    BY SMT, <1>2, <1>3, <2>1, <2>3
  <2> QED BY <1>1, <1>3, <2>2, <2>4
<1>5. ASSUME NEW k \in DOMAIN listing, k > Start(p), ~(k > Start(p + 1))
      PROVE  k - Start(p) \in DOMAIN Page(p) /\ Page(p)[k - Start(p)] = listing[k]
  <2>0. k \in Nat /\ k <= Len(listing) /\ DOMAIN Page(p) = 1..Len(Page(p))
    BY SMT, <1>1, <1>3
  <2>1. k - Start(p) \in DOMAIN Page(p) /\ (k - Start(p)) + (Start(p) + 1) - 1 = k
    <3>1. /\ Start(p) \in Nat /\ PageSize \in Nat /\ last \in Nat /\ Start(p + 1) = Start(p) + PageSize
          /\ Len(listing) \in Nat /\ (last = Len(listing) \/ last = Start(p) + PageSize)
          /\ Len(Page(p)) = IF Start(p) + 1 <= last THEN last - (Start(p) + 1) + 1 ELSE 0
      BY <1>1, <1>2, <1>3
    <3>2. Start(p) + 1 <= last /\ k <= last
      BY SMT, <1>5, <2>0, <3>1
    <3>3. k - Start(p) \in 1..Len(Page(p))
      BY SMT, <1>5, <2>0, <3>1, <3>2
    <3> QED BY SMT, <2>0, <3>1, <3>3
  <2> QED BY <1>3, <2>1
<1>6. ASSUME Page(p) = <<>> PROVE \A k \in DOMAIN listing : ~(k > Start(p))
  <2>1. Len(Page(p)) = 0
    BY SMT, <1>6
  <2>2. ~(Start(p) + 1 <= last) /\ PageSize \in Nat \ {0} /\ Start(p) \in Nat
    BY SMT, <1>1, <1>2, <1>3, <2>1
  <2>3. Len(listing) <= Start(p)
    BY SMT, <1>2, <2>2
  <2> QED BY SMT, <1>1, <2>2, <2>3
<1> QED BY <1>3, <1>4, <1>5, <1>6

\* What stands before a page of a sorted listing is newer, what stands after it
\* is older.
LEMMA PageOfSorted ==
  ASSUME TypeOK, Sorted(listing), NEW p \in Nat \ {0}
  PROVE  \A k \in DOMAIN listing : listing[k].at # 0 =>
           /\ ~(k > Start(p)) => NewerThan(listing[k].at, Page(p))
           /\ k > Start(p + 1) => \A j \in DOMAIN Page(p) :
                                    Page(p)[j].at # 0 => listing[k].at < Page(p)[j].at
<1>1. /\ Start(p) \in Nat /\ Start(p + 1) \in Nat /\ listing \in Seq(Item) /\ Page(p) \in Seq(Item)
      /\ \A j \in DOMAIN Page(p) : /\ j + Start(p) \in DOMAIN listing /\ j + Start(p) <= Start(p + 1)
                                   /\ Page(p)[j] = listing[j + Start(p)]
  <2>1. p + 1 \in Nat \ {0}
    BY SMT
  <2> QED BY <2>1, PagePositions, PageStarts DEF TypeOK
<1>2. /\ \A j \in DOMAIN Page(p) : j \in Nat \ {0}
      /\ \A k \in DOMAIN listing : k \in Nat /\ listing[k].at \in Nat
  <2>1. \A j \in DOMAIN Page(p) : j \in Nat \ {0}
    BY SMT, <1>1
  <2>2. \A k \in DOMAIN listing : k \in Nat /\ listing[k] \in Item
    BY SMT, <1>1
  <2> QED BY <2>1, <2>2 DEF Item
<1>3. ASSUME NEW k \in DOMAIN listing, k > Start(p + 1), listing[k].at # 0,
             NEW j \in DOMAIN Page(p), Page(p)[j].at # 0
      PROVE  listing[k].at < Page(p)[j].at
  <2>1. j + Start(p) < k
    BY SMT, <1>1, <1>2, <1>3
  <2> QED BY <1>1, <1>3, <2>1 DEF Sorted
<1>4. ASSUME NEW k \in DOMAIN listing, ~(k > Start(p)), listing[k].at # 0, NEW j \in DOMAIN Page(p)
      PROVE  Page(p)[j].at < listing[k].at
  <2>1. k < j + Start(p)
    BY SMT, <1>1, <1>2, <1>4
  <2>2. CASE Page(p)[j].at = 0
    BY SMT, <1>2, <1>4, <2>2
  <2>3. CASE Page(p)[j].at # 0
    BY <1>1, <1>4, <2>1, <2>3 DEF Sorted
  <2> QED BY <2>2, <2>3
<1> QED BY <1>3, <1>4 DEF NewerThan

\* Positions in a concatenation, and after the owner adds or removes an entry.
LEMMA ConcatPositions ==
  ASSUME NEW s \in Seq(Item), NEW q \in Seq(Item), NEW k \in DOMAIN (s \o q)
  PROVE  /\ k \in Nat /\ Len(s) \in Nat
         /\ \/ k <= Len(s) /\ k \in DOMAIN s /\ (s \o q)[k] = s[k]
            \/ k > Len(s) /\ k - Len(s) \in DOMAIN q /\ (s \o q)[k] = q[k - Len(s)]
  BY SMT

LEMMA PushPositions ==
  ASSUME NEW e \in Item, NEW s \in Seq(Item), NEW k \in DOMAIN (<<e>> \o s)
  PROVE  \/ k = 1 /\ (<<e>> \o s)[k] = e
         \/ k > 1 /\ k - 1 \in DOMAIN s /\ (<<e>> \o s)[k] = s[k - 1]
  BY SMT

LEMMA AroundCut ==
  \A c, k \in Nat : /\ k <= c - 1 => k < c
                    /\ k > c - 1 => ~(k < c) /\ k - (c - 1) + c = k + 1
  BY SMT

LEMMA CutPositions ==
  ASSUME NEW s \in Seq(Item), NEW c \in DOMAIN s,
         NEW k \in DOMAIN (SubSeq(s, 1, c - 1) \o SubSeq(s, c + 1, Len(s)))
  PROVE  LET t == SubSeq(s, 1, c - 1) \o SubSeq(s, c + 1, Len(s)) IN
         \/ k < c /\ k \in DOMAIN s /\ t[k] = s[k]
         \/ ~(k < c) /\ k + 1 \in DOMAIN s /\ t[k] = s[k + 1]
<1> DEFINE a == SubSeq(s, 1, c - 1)
           b == SubSeq(s, c + 1, Len(s))
<1>1. /\ c \in Nat /\ 1 <= c /\ c <= Len(s) /\ Len(s) \in Nat
      /\ c - 1 \in Nat /\ c - 1 <= Len(s) /\ c + 1 \in Nat \ {0} /\ 1 \in Nat \ {0} /\ Len(s) <= Len(s)
  BY SMT
<1>2. /\ a \in Seq(Item) /\ Len(a) = c - 1
      /\ \A j \in DOMAIN a : j \in DOMAIN s /\ a[j] = s[j]
  <2>1. /\ a \in Seq(Item) /\ Len(a) = IF 1 <= c - 1 THEN c - 1 - 1 + 1 ELSE 0
        /\ \A j \in DOMAIN a : j + 1 - 1 \in DOMAIN s /\ a[j] = s[j + 1 - 1]
    <3>1. PICK n \in Nat : n = c - 1 /\ n <= Len(s)
      BY <1>1
    <3>2. PICK f \in Nat \ {0} : f = 1
      BY <1>1
    <3>3. /\ SubSeq(s, f, n) \in Seq(Item)
          /\ Len(SubSeq(s, f, n)) = IF f <= n THEN n - f + 1 ELSE 0
          /\ \A j \in DOMAIN SubSeq(s, f, n) :
               j + f - 1 \in DOMAIN s /\ SubSeq(s, f, n)[j] = s[j + f - 1]
      BY <3>1, PartOfItems
    <3> QED BY <3>1, <3>2, <3>3
  <2> HIDE DEF a
  <2>2. \A j \in DOMAIN a : j + 1 - 1 = j
    BY SMT, <2>1
  <2>3. Len(a) = c - 1
    BY SMT, <1>1, <2>1
  <2> QED BY <2>1, <2>2, <2>3
<1>3. /\ b \in Seq(Item) /\ Len(b) = Len(s) - c
      /\ \A j \in DOMAIN b : j + c \in DOMAIN s /\ b[j] = s[j + c]
  <2>1. /\ b \in Seq(Item) /\ Len(b) = IF c + 1 <= Len(s) THEN Len(s) - (c + 1) + 1 ELSE 0
        /\ \A j \in DOMAIN b : j + (c + 1) - 1 \in DOMAIN s /\ b[j] = s[j + (c + 1) - 1]
    <3> DEFINE f == c + 1
    <3>1. f \in Nat \ {0}
      BY <1>1
    <3> HIDE DEF f
    <3>2. PICK n \in Nat : n = Len(s) /\ n <= Len(s)
      BY SMT, <1>1
    <3>3. /\ SubSeq(s, f, n) \in Seq(Item)
          /\ Len(SubSeq(s, f, n)) = IF f <= n THEN n - f + 1 ELSE 0
          /\ \A j \in DOMAIN SubSeq(s, f, n) :
               j + f - 1 \in DOMAIN s /\ SubSeq(s, f, n)[j] = s[j + f - 1]
      BY <3>1, <3>2, PartOfItems
    <3> QED BY <3>2, <3>3 DEF f
  <2> HIDE DEF b
  <2>2. \A j \in DOMAIN b : j + (c + 1) - 1 = j + c
    BY SMT, <1>1, <2>1
  <2>3. Len(b) = Len(s) - c
    BY SMT, <1>1, <2>1
  <2> QED BY <2>1, <2>2, <2>3
<1>4. k \in DOMAIN (a \o b)
  OBVIOUS
<1> HIDE DEF a, b
<1>5. /\ k \in Nat
      /\ \/ k <= Len(a) /\ k \in DOMAIN a /\ (a \o b)[k] = a[k]
         \/ k > Len(a) /\ k - Len(a) \in DOMAIN b /\ (a \o b)[k] = b[k - Len(a)]
  BY <1>2, <1>3, <1>4, ConcatPositions
<1>6. /\ k <= c - 1 => k < c
      /\ k > c - 1 => ~(k < c) /\ k - (c - 1) + c = k + 1
  BY <1>1, <1>5, AroundCut
<1>7. \/ k < c /\ k \in DOMAIN s /\ (a \o b)[k] = s[k]
      \/ ~(k < c) /\ k + 1 \in DOMAIN s /\ (a \o b)[k] = s[k + 1]
  BY <1>2, <1>3, <1>5, <1>6
<1> QED BY <1>7 DEF a, b

\* A new star is newer than everything, or has no timestamp.
LEMMA StarPositions ==
  ASSUME TypeOK, Timely, "same" \notin StampKinds,
         NEW r \in Repos, NEW kind \in StampKinds, UpstreamStar(r, kind)
  PROVE  /\ clock' \in Nat /\ clock <= clock'
         /\ UpTo(listing', clock') /\ Sorted(listing')
         /\ \A k \in DOMAIN listing' :
              \/ listing'[k].at = 0 \/ listing'[k].at > clock
              \/ k > 1 /\ k - 1 \in DOMAIN listing /\ listing'[k] = listing[k - 1]
<1>1. /\ listing \in Seq(Item) /\ clock \in Nat /\ Sorted(listing) /\ UpTo(listing, clock)
  BY DEF TypeOK, Timely
<1>2. PICK t \in Nat : t = Stamp(kind) /\ (t = 0 \/ t = clock + 1)
  <2>1. kind = "later" \/ kind = "none"
    BY ConstantsAssumption
  <2>2. kind = "later" => Stamp(kind) = clock + 1
    BY DEF Stamp
  <2>3. kind = "none" => Stamp(kind) = 0
    BY SMT DEF Stamp
  <2>4. clock + 1 \in Nat /\ 0 \in Nat
    BY SMT, <1>1
  <2> QED BY <2>1, <2>2, <2>3, <2>4
<1>3. PICK e \in Item : e = [repo |-> r, at |-> t]
  BY DEF Item
<1>4. e.at = t /\ listing' = <<e>> \o listing /\ clock' = Later(clock, t)
  BY <1>2, <1>3 DEF UpstreamStar
<1>5. clock' \in Nat /\ clock <= clock' /\ t <= clock'
  BY SMT, <1>1, <1>2, <1>4 DEF Later
<1>6. ASSUME NEW k \in DOMAIN listing'
      PROVE  \/ k = 1 /\ listing'[k] = e
             \/ k > 1 /\ k - 1 \in DOMAIN listing /\ listing'[k] = listing[k - 1]
  BY <1>1, <1>4, PushPositions
<1>7. \A k \in DOMAIN listing : k \in Nat /\ listing[k].at \in Nat
  <2>1. \A k \in DOMAIN listing : k \in Nat /\ listing[k] \in Item
    BY SMT, <1>1
  <2> QED BY <2>1 DEF Item
<1>8. \A k \in DOMAIN listing' : k \in Nat /\ k >= 1
  BY SMT, <1>1, <1>4
<1>9. ASSUME NEW k \in DOMAIN listing' PROVE listing'[k].at <= clock'
  <2>1. CASE listing'[k] = e
    BY <1>4, <1>5, <2>1
  <2>2. CASE k - 1 \in DOMAIN listing /\ listing'[k] = listing[k - 1]
    <3>1. listing[k - 1].at \in Nat /\ listing[k - 1].at <= clock
      BY <1>1, <1>7, <2>2 DEF UpTo
    <3>2. listing[k - 1].at <= clock'
      BY SMT, <1>1, <1>5, <3>1
    <3> QED BY <2>2, <3>2
  <2> QED BY <1>6, <2>1, <2>2
<1>10. ASSUME NEW j \in DOMAIN listing', NEW k \in DOMAIN listing', j < k,
              listing'[j].at # 0, listing'[k].at # 0
       PROVE  listing'[k].at < listing'[j].at
  <2>1. k # 1
    BY SMT, <1>8, <1>10
  <2>2. k - 1 \in DOMAIN listing /\ listing'[k] = listing[k - 1]
    BY <1>6, <2>1
  <2>3. listing[k - 1].at \in Nat /\ listing[k - 1].at <= clock
    BY <1>1, <1>7, <2>2 DEF UpTo
  <2>4. CASE listing'[j] = e
    <3>1. t = clock + 1
      BY <1>2, <1>4, <1>10, <2>4
    <3>2. listing[k - 1].at < t
      BY SMT, <1>1, <2>3, <3>1
    <3> QED BY <1>4, <2>2, <2>4, <3>2
  <2>5. CASE j - 1 \in DOMAIN listing /\ listing'[j] = listing[j - 1]
    <3>1. j - 1 < k - 1
      BY SMT, <1>8, <1>10
    <3> QED BY <1>1, <1>10, <2>2, <2>5, <3>1 DEF Sorted
  <2> QED BY <1>6, <2>4, <2>5
<1>11. ASSUME NEW k \in DOMAIN listing', listing'[k] = e
       PROVE  listing'[k].at = 0 \/ listing'[k].at > clock
  <2>1. t = 0 \/ t > clock
    BY SMT, <1>1, <1>2
  <2> QED BY <1>4, <1>11, <2>1
<1> QED BY <1>5, <1>6, <1>9, <1>10, <1>11 DEF UpTo, Sorted

\* A removal leaves a part of the listing, in its order.
LEMMA UnstarPositions ==
  ASSUME TypeOK, NEW r \in Repos, UpstreamUnstar(r)
  PROVE  /\ \A k \in DOMAIN listing' : \E j \in DOMAIN listing : listing'[k] = listing[j]
         /\ Sorted(listing) => Sorted(listing')
<1>1. listing \in Seq(Item)
  BY DEF TypeOK
<1>2. PICK c \in DOMAIN listing : listing' = SubSeq(listing, 1, c - 1) \o SubSeq(listing, c + 1, Len(listing))
  BY DEF UpstreamUnstar
<1>3. ASSUME NEW k \in DOMAIN listing'
      PROVE  \/ k < c /\ k \in DOMAIN listing /\ listing'[k] = listing[k]
             \/ ~(k < c) /\ k + 1 \in DOMAIN listing /\ listing'[k] = listing[k + 1]
  BY <1>1, <1>2, CutPositions
<1>4. c \in Nat /\ \A k \in DOMAIN listing' : k \in Nat
  <2>1. c \in Nat
    BY SMT, <1>1
  <2>2. listing' \in Seq(Item)
    <3>1. TypeOK'
      BY OwnerTyped DEF Owner
    <3> QED BY <3>1 DEF TypeOK
  <2> QED BY SMT, <2>1, <2>2
<1>5. ASSUME NEW j \in DOMAIN listing', NEW k \in DOMAIN listing', j < k, Sorted(listing),
             listing'[j].at # 0, listing'[k].at # 0
      PROVE  listing'[k].at < listing'[j].at
  <2>1. j < k /\ j < k + 1 /\ j + 1 < k + 1 /\ (~(j < c) => ~(k < c))
    BY SMT, <1>4, <1>5
  <2> QED BY <1>3, <1>5, <2>1 DEF Sorted
<1> QED BY <1>3, <1>5 DEF Sorted

LEMMA UpToLater ==
  ASSUME NEW s \in Seq(Item), NEW t \in Nat, NEW u \in Nat, UpTo(s, t), t <= u
  PROVE  UpTo(s, u)
<1>1. \A k \in DOMAIN s : s[k] \in Item
  BY SMT
<1>2. \A k \in DOMAIN s : s[k].at \in Nat
  BY <1>1 DEF Item
<1> QED BY SMT, <1>2 DEF UpTo

LEMMA UpToConcat ==
  ASSUME NEW s \in Seq(Item), NEW q \in Seq(Item), NEW t
  PROVE  /\ UpTo(s, t) /\ UpTo(q, t) => UpTo(s \o q, t)
         /\ NewerThan(t, s) /\ NewerThan(t, q) => NewerThan(t, s \o q)
<1>1. ASSUME NEW k \in DOMAIN (s \o q)
      PROVE  \/ k \in DOMAIN s /\ (s \o q)[k] = s[k]
             \/ k - Len(s) \in DOMAIN q /\ (s \o q)[k] = q[k - Len(s)]
  BY <1>1, ConcatPositions
<1> QED BY <1>1 DEF UpTo, NewerThan

LEMMA UpToEmpty == \A t : UpTo(<<>>, t)
<1>1. \A k : k \notin DOMAIN <<>>
  BY SMT
<1> QED BY <1>1 DEF UpTo

\* The owner's changes and the clock.
LEMMA OwnerTimely ==
  ASSUME TypeOK, Timely, "same" \notin StampKinds, Owner
  PROVE  Timely'
<1>1. /\ UNCHANGED <<runs, worker, watermark>>
      /\ watermark \in Nat /\ clock \in Nat /\ watermark <= clock /\ Sorted(listing) /\ UpTo(listing, clock)
      /\ \A i \in RunIds : runs[i].staged \in Seq(Item) /\ UpTo(runs[i].staged, clock)
      /\ \A w \in Workers : /\ worker[w].reply \in Seq(Item) /\ UpTo(worker[w].reply, clock)
                            /\ worker[w].oldest \in Nat /\ worker[w].oldest <= clock
  BY DEF Owner, UpstreamStar, UpstreamUnstar, catalog, TypeOK, Timely, Run, Worker
<1>2. clock' \in Nat /\ clock <= clock' /\ UpTo(listing', clock') /\ Sorted(listing')
  <2>1. ASSUME NEW r \in Repos, NEW kind \in StampKinds, UpstreamStar(r, kind)
        PROVE  clock' \in Nat /\ clock <= clock' /\ UpTo(listing', clock') /\ Sorted(listing')
    BY <2>1, StarPositions
  <2>2. ASSUME NEW r \in Repos, UpstreamUnstar(r)
        PROVE  clock' \in Nat /\ clock <= clock' /\ UpTo(listing', clock') /\ Sorted(listing')
    <3>1. clock' = clock /\ clock <= clock
      BY SMT, <1>1, <2>2 DEF UpstreamUnstar
    <3> QED BY <1>1, <2>2, <3>1, UnstarPositions DEF UpTo
  <2> QED BY <2>1, <2>2 DEF Owner
<1>3. watermark <= clock' /\ \A w \in Workers : worker[w].oldest <= clock'
  BY SMT, <1>1, <1>2
<1>4. /\ \A i \in RunIds : UpTo(runs[i].staged, clock')
      /\ \A w \in Workers : UpTo(worker[w].reply, clock')
  BY <1>1, <1>2, UpToLater
<1> QED BY <1>1, <1>2, <1>3, <1>4 DEF Timely

\* The step of a caller.
CallerStep(w) == StartFull(w) \/ StartScan(w) \/ Proceed(w) \/ ProviderError(w) \/ Stop(w)

LEMMA StepsOfCallers ==
  ASSUME TypeOK, NEW w \in Workers, CallerStep(w)
  PROVE  /\ UNCHANGED <<listing, clock>>
         /\ \A v \in Workers \ {w} : worker'[v] = worker[v]
         /\ ~Stop(w) => stops' = stops
<1>1. UNCHANGED <<listing, clock>> /\ (~Stop(w) => stops' = stops)
  <2>1. CASE StartFull(w) \/ StartScan(w)
    BY <2>1 DEF StartFull, StartScan, OpenRun, ResumeRun, upstream
  <2>2. CASE Proceed(w) \/ ProviderError(w) \/ Stop(w)
    BY <2>2 DEF Proceed, FetchFullPage, RecordPage, ApplyAuthority, ApplyRejected,
       FetchScanPage, DetectGap, RecordIngest, RecordScanPage, CompleteScan, FailRun,
       ProviderError, Stop, upstream
  <2> QED BY <2>1, <2>2 DEF CallerStep
<1>2. ASSUME NEW v \in Workers \ {w} PROVE worker'[v] = worker[v]
  <2>1. CASE StartFull(w) \/ StartScan(w)
    BY <2>1 DEF StartFull, StartScan, TypeOK
  <2>2. CASE FetchFullPage(w) \/ RecordPage(w) \/ ApplyAuthority(w) \/ ApplyRejected(w) \/ FailRun(w)
    BY <2>2 DEF FetchFullPage, RecordPage, ApplyAuthority, ApplyRejected, FailRun, TypeOK
  <2>3. CASE FetchScanPage(w) \/ DetectGap(w) \/ RecordIngest(w)
    <3>1. CASE FetchScanPage(w) \/ DetectGap(w)
      BY <3>1 DEF FetchScanPage, DetectGap, TypeOK
    <3>2. CASE RecordIngest(w)
      <4>1. PICK k : worker' = [worker EXCEPT ![w].todo = @ \ {k}]
        BY <3>2 DEF RecordIngest
      <4> QED BY <4>1 DEF TypeOK
    <3> QED BY <2>3, <3>1, <3>2
  <2>4. CASE RecordScanPage(w)
    <3>1. PICK row : worker' = [worker EXCEPT ![w] = row]
      BY <2>4 DEF RecordScanPage
    <3> QED BY <3>1 DEF TypeOK
  <2>5. CASE CompleteScan(w) \/ ProviderError(w) \/ Stop(w)
    BY <2>5 DEF CompleteScan, ProviderError, Stop, TypeOK
  <2> QED BY <2>1, <2>2, <2>3, <2>4, <2>5 DEF CallerStep, Proceed
<1> QED BY <1>1, <1>2

\* What a step stages: nothing new, or the page in the caller's hands.
LEMMA StagedStep ==
  ASSUME TypeOK, NEW w \in Workers, CallerStep(w), NEW i \in RunIds
  PROVE  \/ runs'[i].staged = runs[i].staged \/ runs'[i].staged = <<>>
         \/ RecordPage(w) /\ i = worker[w].run /\ runs'[i].staged = runs[i].staged \o worker[w].reply
<1>1. runs \in [RunIds -> Run] /\ runs[i] \in Run
  BY DEF TypeOK
<1>2. ASSUME NEW m, NEW j \in RunIds, OpenRun(m, j) \/ ResumeRun(m, j)
      PROVE  runs'[i].staged = runs[i].staged \/ runs'[i].staged = <<>>
  <2>1. CASE OpenRun(m, j)
    <3>1. runs' = [runs EXCEPT ![j] = [mode |-> m, status |-> "running", next |-> 1,
                                       boundary |-> 0, staged |-> <<>>]]
      BY <2>1 DEF OpenRun
    <3>2. i = j => runs'[i].staged = <<>>
      BY <1>1, <3>1
    <3>3. i # j => runs'[i] = runs[i]
      BY <1>1, <3>1
    <3> QED BY <3>2, <3>3
  <2>2. CASE ResumeRun(m, j)
    BY <2>2 DEF ResumeRun, catalog
  <2> QED BY <1>2, <2>1, <2>2
<1>3. CASE StartFull(w) \/ StartScan(w)
  BY <1>2, <1>3 DEF StartFull, StartScan
<1>4. CASE i # worker[w].run /\ (Proceed(w) \/ ProviderError(w) \/ Stop(w))
  BY <1>1, <1>4 DEF Proceed, FetchFullPage, RecordPage, ApplyAuthority, ApplyRejected, FetchScanPage,
     DetectGap, RecordIngest, RecordScanPage, CompleteScan, FailRun, ProviderError, Stop, catalog
<1>5. CASE i = worker[w].run /\ RecordPage(w)
  <2>1. runs'[i] = [runs[i] EXCEPT !.staged = runs[i].staged \o worker[w].reply, !.next = NextPage(worker[w].page)]
    BY <1>1, <1>5 DEF RecordPage
  <2> QED BY <1>1, <1>5, <2>1 DEF Run
<1>6. CASE i = worker[w].run /\ (ApplyAuthority(w) \/ FailRun(w))
  <2>1. PICK s : runs'[i] = [runs[i] EXCEPT !.status = s, !.staged = <<>>]
    <3>1. CASE ApplyAuthority(w)
      BY <1>1, <1>6, <3>1 DEF ApplyAuthority
    <3>2. CASE FailRun(w)
      BY <1>1, <1>6, <3>2 DEF FailRun
    <3> QED BY <1>6, <3>1, <3>2
  <2> QED BY <1>1, <2>1 DEF Run
<1>7. CASE i = worker[w].run /\ RecordScanPage(w)
  <2>1. PICK n, b : runs'[i] = [runs[i] EXCEPT !.next = n, !.boundary = b]
    BY <1>1, <1>7 DEF RecordScanPage
  <2> QED BY <1>1, <2>1 DEF Run
<1>8. CASE i = worker[w].run /\ CompleteScan(w)
  <2>1. runs'[i] = runs[i] \/ runs'[i] = [runs[i] EXCEPT !.status = "completed"]
    BY <1>1, <1>8 DEF CompleteScan
  <2> QED BY <1>1, <2>1 DEF Run
<1>9. CASE \/ FetchFullPage(w) \/ ApplyRejected(w) \/ FetchScanPage(w) \/ DetectGap(w)
           \/ RecordIngest(w) \/ ProviderError(w) \/ Stop(w)
  BY <1>9 DEF FetchFullPage, ApplyRejected, FetchScanPage, DetectGap, RecordIngest, ProviderError,
     Stop, catalog
<1> QED BY <1>3, <1>4, <1>5, <1>6, <1>7, <1>8, <1>9 DEF CallerStep, Proceed

\* What a step leaves in the caller's hands.
LEMMA HandsStep ==
  ASSUME TypeOK, NEW w \in Workers, CallerStep(w)
  PROVE  /\ \/ worker'[w].reply \in {<<>>, worker[w].reply}
            \/ worker[w].page \in Nat \ {0} /\ worker'[w].reply = Page(worker[w].page)
         /\ \/ worker'[w].oldest \in {0, worker[w].oldest}
            \/ worker'[w].oldest \in OldestIngested(worker[w].oldest, worker[w].reply,
                                                    Window(worker[w].reply, worker[w].mark))
<1>1. worker \in [Workers -> Worker] /\ worker[w] \in Worker
  BY DEF TypeOK
<1>2. CASE StartFull(w) \/ StartScan(w)
  <2>1. worker'[w].reply = <<>> /\ worker'[w].oldest = 0
    <3>1. CASE StartFull(w)
      <4>1. PICK i : worker' = [worker EXCEPT ![w] = [Idle EXCEPT !.pc = "fullFetch", !.run = i,
                                                                  !.page = runs'[i].next]]
        BY <3>1 DEF StartFull
      <4>2. worker'[w] = [Idle EXCEPT !.pc = "fullFetch", !.run = i, !.page = runs'[i].next]
        BY <1>1, <4>1
      <4> QED BY <4>2 DEF Idle
    <3>2. CASE StartScan(w)
      <4>1. PICK i \in RunIds :
              worker' = [worker EXCEPT ![w] = [Idle EXCEPT !.pc = "scanFetch", !.run = i,
                           !.page = runs'[i].next, !.mark = watermark, !.seen = runs'[i].boundary]]
        BY <3>2 DEF StartScan
      <4>2. worker'[w] = [Idle EXCEPT !.pc = "scanFetch", !.run = i, !.page = runs'[i].next,
                                      !.mark = watermark, !.seen = runs'[i].boundary]
        BY <1>1, <4>1
      <4> QED BY <4>2 DEF Idle
    <3> QED BY <1>2, <3>1, <3>2
  <2> QED BY <2>1
<1>3. CASE ApplyAuthority(w) \/ ApplyRejected(w) \/ CompleteScan(w) \/ FailRun(w) \/ Stop(w)
  <2>1. worker'[w] = Idle
    BY <1>1, <1>3 DEF ApplyAuthority, ApplyRejected, CompleteScan, FailRun, Stop
  <2>2. worker'[w].reply = <<>> /\ worker'[w].oldest = 0
    BY <2>1, IdleType
  <2> QED BY <2>2
<1>4. CASE FetchFullPage(w) \/ FetchScanPage(w)
  <2>1. worker[w].page \in Nat \ {0}
    BY <1>1, <1>4 DEF FetchFullPage, FetchScanPage, TypeOK, Worker
  <2>2. worker'[w].reply = Page(worker[w].page) /\ worker'[w].oldest = worker[w].oldest
    <3>1. CASE FetchFullPage(w)
      BY <1>1, <3>1 DEF FetchFullPage, Worker
    <3>2. CASE FetchScanPage(w)
      BY <1>1, <3>2 DEF FetchScanPage, Worker
    <3> QED BY <1>4, <3>1, <3>2
  <2> QED BY <2>1, <2>2
<1>5. CASE DetectGap(w) \/ ProviderError(w)
  <2>1. worker'[w] = [worker[w] EXCEPT !.pc = "failing"]
    BY <1>1, <1>5 DEF DetectGap, ProviderError
  <2> QED BY <1>1, <2>1 DEF Worker
<1>6. CASE RecordIngest(w)
  BY <1>6, IngestCaller
<1>7. CASE RecordScanPage(w)
  BY <1>7, ScanPageCaller
<1>8. CASE RecordPage(w)
  <2>1. PICK pc, n : worker'[w] = [worker[w] EXCEPT !.pc = pc, !.page = n, !.reply = <<>>]
    BY <1>1, <1>8 DEF RecordPage
  <2> QED BY <1>1, <2>1 DEF Worker
<1> QED BY <1>2, <1>3, <1>4, <1>5, <1>6, <1>7, <1>8 DEF CallerStep, Proceed

\* Every step keeps what anyone holds within the provider's clock.
LEMMA TimelyStep ==
  ASSUME TypeOK, TypeOK', Timely, "same" \notin StampKinds, [Next]_vars
  PROVE  Timely'
<1>1. CASE UNCHANGED vars
  BY <1>1 DEF vars, upstream, catalog, Timely
<1>2. CASE Owner
  BY <1>2, OwnerTimely
<1>3. ASSUME NEW w \in Workers, CallerStep(w) PROVE Timely'
  <2>1. /\ UNCHANGED <<listing, clock>> /\ \A v \in Workers \ {w} : worker'[v] = worker[v]
        /\ listing \in Seq(Item) /\ clock \in Nat /\ watermark \in Nat
        /\ \A v \in Workers : worker[v].reply \in Seq(Item) /\ worker[v].oldest \in Nat
        /\ \A i \in RunIds : runs[i].staged \in Seq(Item)
    BY <1>3, StepsOfCallers DEF TypeOK, Worker, Run
  <2>2. /\ Sorted(listing) /\ UpTo(listing, clock) /\ watermark <= clock
        /\ \A i \in RunIds : UpTo(runs[i].staged, clock)
        /\ \A v \in Workers : UpTo(worker[v].reply, clock) /\ worker[v].oldest <= clock
    BY DEF Timely
  <2>3. ASSUME NEW i \in RunIds PROVE UpTo(runs'[i].staged, clock)
    <3>1. UpTo(runs[i].staged \o worker[w].reply, clock)
      BY <2>1, <2>2, UpToConcat
    <3> QED BY <1>3, <2>2, <3>1, StagedStep, UpToEmpty
  <2>4. UpTo(worker'[w].reply, clock)
    <3>1. ASSUME NEW p \in Nat \ {0} PROVE UpTo(Page(p), clock)
      BY <2>2, PagePositions DEF UpTo
    <3> QED BY <1>3, <2>2, <3>1, HandsStep, UpToEmpty
  <2>5. ASSUME NEW o \in OldestIngested(worker[w].oldest, worker[w].reply,
                                        Window(worker[w].reply, worker[w].mark))
        PROVE  o <= clock
    <3>1. ASSUME NEW k \in DOMAIN worker[w].reply
          PROVE  EarliestKnown(worker[w].oldest, worker[w].reply[k].at) <= clock
      <4>1. worker[w].reply[k].at <= clock
        BY <2>2 DEF UpTo
      <4> QED BY <2>2, <4>1 DEF EarliestKnown, Earlier
    <3> QED BY <2>2, <3>1 DEF OldestIngested, Window
  <2>6. worker'[w].oldest <= clock
    <3>1. 0 <= clock
      BY SMT, <2>1
    <3> QED BY <1>3, <2>2, <2>5, <3>1, HandsStep
  <2>7. watermark' <= clock
    <3>1. ASSUME NEW t, t <= clock, watermark' = Later(watermark, t) PROVE watermark' <= clock
      BY <2>2, <3>1 DEF Later
    <3>2. CASE ApplyAuthority(w)
      <4>1. PICK i \in RunIds : i = worker[w].run
        BY <3>2 DEF ApplyAuthority, TypeOK
      <4>2. PICK t \in {0} \union {runs[i].staged[k].at : k \in DOMAIN runs[i].staged} :
              watermark' = Later(watermark, t)
        BY <3>2, <4>1 DEF ApplyAuthority, ReanchorWatermark
      <4>3. 0 <= clock
        BY SMT, <2>1
      <4>4. t <= clock
        BY <2>2, <4>2, <4>3 DEF UpTo
      <4> QED BY <3>1, <4>2, <4>4
    <3>3. CASE CompleteScan(w)
      BY <2>2, <3>1, <3>3 DEF CompleteScan
    <3>4. CASE ~ApplyAuthority(w) /\ ~CompleteScan(w)
      <4>1. watermark' = watermark
        BY <1>3, <3>4 DEF CallerStep, StartFull, StartScan, OpenRun, ResumeRun, Proceed, FetchFullPage,
           RecordPage, ApplyRejected, FetchScanPage, DetectGap, RecordIngest, RecordScanPage, FailRun,
           ProviderError, Stop, catalog
      <4> QED BY <2>2, <4>1
    <3> QED BY <3>2, <3>3, <3>4
  <2> QED BY <2>1, <2>2, <2>3, <2>4, <2>6, <2>7 DEF Timely
<1> QED BY <1>1, <1>2, <1>3 DEF Next, CallerStep

LEMMA AcceptedRuns == \A i : SwapAccepted(i) <=> Acceptable(runs[i])
  BY DEF SwapAccepted, Acceptable

\* What a caller passes stays passed when entries move away from the head.
LEMMA PassesFurther ==
  ASSUME NEW c \in Worker, NEW run, NEW rows, NEW mark, NEW e,
         NEW k \in Nat, NEW l \in Nat, k <= l, c.pc # "idle" => c.page # 0,
         Passes(c, run, rows, mark, k, e)
  PROVE  Passes(c, run, rows, mark, l, e)
<1>1. CASE c.pc \in FullSteps \union ScanSteps
  <2>1. Start(c.page) \in Nat /\ Start(c.page + 1) \in Nat
    <3>1. c.page \in Nat \ {0}
      BY <1>1 DEF Worker, FullSteps, ScanSteps
    <3>2. c.page + 1 \in Nat \ {0}
      BY SMT, <3>1
    <3> QED BY <3>1, <3>2, PageStarts
  <2>2. (k > Start(c.page) => l > Start(c.page)) /\ (k > Start(c.page + 1) => l > Start(c.page + 1))
    BY SMT, <2>1
  <2>3. FullPasses(c, run, mark, k, e) => FullPasses(c, run, mark, l, e)
    BY <2>2 DEF FullPasses
  <2>4. ScanPasses(c, rows, k, e) => ScanPasses(c, rows, l, e)
    BY <2>2 DEF ScanPasses
  <2> QED BY <2>3, <2>4 DEF Passes
<1>2. CASE c.pc \notin FullSteps \union ScanSteps
  BY <1>2 DEF Passes
<1> QED BY <1>1, <1>2

\* The owner stars: the new entry is newer than the mark and all that was met.
LEMMA StarCovered ==
  ASSUME TypeOK, Timely, "same" \notin StampKinds, Covered,
         NEW r \in Repos, NEW kind \in StampKinds, UpstreamStar(r, kind)
  PROVE  Covered'
<1>1. UNCHANGED <<runs, current, watermark, worker>>
  BY DEF UpstreamStar, catalog
<1>2. Attended'
  BY <1>1 DEF Covered, Attended
<1>3. /\ clock \in Nat /\ watermark \in Nat /\ watermark <= clock
      /\ \A v \in Workers : worker[v] \in Worker /\ (worker[v].pc # "idle" => worker[v].page # 0)
      /\ \A k \in DOMAIN listing : k \in Nat
  <2>1. \A k \in DOMAIN listing : k \in Nat
    BY SMT DEF TypeOK
  <2> QED BY <2>1 DEF TypeOK, Timely
<1>4. /\ listing' \in Seq(Item)
      /\ \A k \in DOMAIN listing' :
           \/ listing'[k].at = 0 \/ listing'[k].at > clock
           \/ k > 1 /\ k - 1 \in DOMAIN listing /\ listing'[k] = listing[k - 1]
  <2>1. TypeOK'
    BY OwnerTyped DEF Owner
  <2> QED BY <2>1, StarPositions DEF TypeOK
<1>5. \A k \in DOMAIN listing' : k \in Nat /\ listing'[k].at \in Nat
  <2>1. \A k \in DOMAIN listing' : k \in Nat /\ listing'[k] \in Item
    BY SMT, <1>4
  <2> QED BY <2>1 DEF Item
<1>6. ASSUME NEW k \in DOMAIN listing', listing'[k].at > clock, NEW w \in Workers
      PROVE  /\ ~(listing'[k].at <= watermark)
             /\ Passes(worker[w], runs[worker[w].run], current, watermark, k, listing'[k])
  <2>1. listing'[k].at > watermark /\ ~(listing'[k].at <= watermark)
    BY SMT, <1>3, <1>5, <1>6
  <2>2. \A s \in Seq(Item) : UpTo(s, clock) => NewerThan(listing'[k].at, s)
    <3> SUFFICES ASSUME NEW s \in Seq(Item), UpTo(s, clock), NEW j \in DOMAIN s
                 PROVE  s[j].at < listing'[k].at
      BY DEF NewerThan
    <3>1. s[j] \in Item
      BY SMT
    <3>2. s[j].at \in Nat /\ s[j].at <= clock
      BY <3>1 DEF UpTo, Item
    <3> QED BY SMT, <1>3, <1>5, <1>6, <3>2
  <2>3. NewerThan(listing'[k].at, worker[w].reply)
    BY <2>2 DEF Timely, TypeOK, Worker
  <2>4. listing'[k].at > worker[w].oldest
    <3>1. worker[w].oldest \in Nat /\ worker[w].oldest <= clock
      BY DEF Timely, TypeOK, Worker
    <3> QED BY SMT, <1>3, <1>5, <1>6, <3>1
  <2>5. worker[w].pc \in FullSteps => NewerThan(listing'[k].at, runs[worker[w].run].staged)
    <3> SUFFICES ASSUME worker[w].pc \in FullSteps
                 PROVE  NewerThan(listing'[k].at, runs[worker[w].run].staged)
      OBVIOUS
    <3>1. PICK i \in RunIds : i = worker[w].run
      BY DEF TypeOK, FullSteps
    <3>2. runs[i].staged \in Seq(Item) /\ UpTo(runs[i].staged, clock)
      BY DEF Timely, TypeOK, Run
    <3> QED BY <2>2, <3>1, <3>2
  <2>6. worker[w].pc \in FullSteps =>
          FullPasses(worker[w], runs[worker[w].run], watermark, k, listing'[k])
    BY <2>1, <2>3, <2>5 DEF FullPasses, Unmet
  <2>7. ScanPasses(worker[w], current, k, listing'[k])
    BY <2>3, <2>4 DEF ScanPasses
  <2> QED BY <2>1, <2>6, <2>7 DEF Passes
<1>7. ASSUME NEW k \in DOMAIN listing', k > 1, k - 1 \in DOMAIN listing, listing'[k] = listing[k - 1],
             NEW w \in Workers
      PROVE  Passes(worker[w], runs[worker[w].run], current, watermark, k, listing'[k])
  <2>1. k - 1 \in Nat /\ k \in Nat /\ k - 1 <= k
    BY SMT, <1>3, <1>5, <1>7
  <2>2. Passes(worker[w], runs[worker[w].run], current, watermark, k - 1, listing[k - 1])
    BY <1>7 DEF Covered, CallersPass
  <2> QED BY <1>3, <1>7, <2>1, <2>2, PassesFurther
<1>8. CallersPass'
  <2>1. \A w \in Workers : \A k \in DOMAIN listing' :
          Passes(worker[w], runs[worker[w].run], current, watermark, k, listing'[k])
    BY <1>4, <1>6, <1>7 DEF Passes
  <2> QED BY <1>1, <2>1 DEF CallersPass
<1>9. WatermarkCovers'
  <2>1. ASSUME NEW k \in DOMAIN listing', listing'[k].at # 0, listing'[k].at <= watermark
        PROVE  current[listing'[k].repo].starred
    <3>1. ~(listing'[k].at > clock)
      BY SMT, <1>3, <1>5, <2>1
    <3> QED BY <1>4, <2>1, <3>1 DEF Covered, WatermarkCovers
  <2> QED BY <1>1, <2>1 DEF WatermarkCovers
<1> QED BY <1>2, <1>8, <1>9 DEF Covered

\* The owner unstars: nothing is running, so no caller is under way.
LEMMA UnstarCovered ==
  ASSUME TypeOK, Covered, ~RemovalsDuringRun, NEW r \in Repos, UpstreamUnstar(r)
  PROVE  Covered'
<1>1. UNCHANGED <<runs, current, watermark, worker>> /\ ~AnyRunning
  BY DEF UpstreamUnstar, catalog
<1>2. Attended'
  BY <1>1 DEF Covered, Attended
<1>3. ASSUME NEW w \in Workers PROVE worker[w].pc \notin FullSteps \union ScanSteps
  <2>1. SUFFICES ASSUME worker[w].pc \in FullSteps \union ScanSteps PROVE FALSE
    OBVIOUS
  <2>2. worker[w].run \in RunIds
    BY <2>1 DEF TypeOK, FullSteps, ScanSteps
  <2> QED BY <1>1, <2>1, <2>2 DEF Covered, Attended, AnyRunning
<1>4. CallersPass'
  BY <1>1, <1>3 DEF CallersPass, Passes
<1>5. WatermarkCovers'
  BY <1>1, UnstarPositions DEF Covered, WatermarkCovers
<1> QED BY <1>2, <1>4, <1>5 DEF Covered

\* A step of the only caller touches the run it holds or takes up, and leaves a
\* run that it lets go of finished or refused by the swap.
LEMMA AttendedKept ==
  ASSUME OneCaller, Attended, NEW w \in Workers, NEW i \in RunIds,
         worker[w].pc = "idle" \/ worker[w].run = i,
         \A j \in RunIds \ {i} : runs'[j] = runs[j],
         \/ worker'[w].pc # "idle" /\ worker'[w].run = i
         \/ /\ worker'[w].pc = "idle"
            /\ runs'[i].status = "running" => runs'[i].mode = "full" /\ ~Acceptable(runs'[i]),
         worker'[w].pc \in FullSteps \union ScanSteps => runs'[i].status = "running",
         worker'[w].pc \in ScanSteps => worker'[w].mark = watermark'
  PROVE  Attended'
<1>1. ASSUME NEW j \in RunIds \ {i}, runs'[j].status = "running"
      PROVE  runs'[j].mode = "full" /\ ~Acceptable(runs'[j])
  <2>1. runs'[j] = runs[j] /\ runs[j].status = "running"
    BY <1>1
  <2>2. ~\E v \in Workers : worker[v].pc # "idle" /\ worker[v].run = j
    BY DEF OneCaller
  <2>3. runs[j].mode = "full" /\ ~Acceptable(runs[j])
    BY <2>1, <2>2 DEF Attended
  <2> QED BY <2>1, <2>3
<1>2. ASSUME NEW j \in RunIds, runs'[j].status = "running"
      PROVE  \/ \E v \in Workers : worker'[v].pc # "idle" /\ worker'[v].run = j
             \/ runs'[j].mode = "full" /\ ~Acceptable(runs'[j])
  BY <1>1, <1>2
<1>3. ASSUME NEW v \in Workers
      PROVE  /\ worker'[v].pc \in FullSteps \union ScanSteps => runs'[worker'[v].run].status = "running"
             /\ worker'[v].pc \in ScanSteps => worker'[v].mark = watermark'
  <2>1. v = w /\ "idle" \notin FullSteps \union ScanSteps
    BY DEF OneCaller, FullSteps, ScanSteps
  <2> QED BY <2>1
<1> QED BY <1>2, <1>3 DEF Attended

\* The rest of what is to show of a caller's step.
LEMMA CoveredKept ==
  ASSUME OneCaller, NEW w \in Workers, listing' = listing, Attended',
         worker'[w].pc \in FullSteps \union ScanSteps =>
           \A k \in DOMAIN listing :
             Passes(worker'[w], runs'[worker'[w].run], current', watermark', k, listing[k]),
         \A k \in DOMAIN listing : listing[k].at # 0 /\ listing[k].at <= watermark'
                                     => current'[listing[k].repo].starred
  PROVE  Covered'
<1>1. CallersPass'
  <2>1. ASSUME NEW v \in Workers, NEW k \in DOMAIN listing
        PROVE  Passes(worker'[v], runs'[worker'[v].run], current', watermark', k, listing[k])
    <3>1. v = w
      BY DEF OneCaller
    <3>2. CASE worker'[w].pc \in FullSteps \union ScanSteps
      BY <3>1, <3>2
    <3>3. CASE worker'[w].pc \notin FullSteps \union ScanSteps
      BY <3>1, <3>3 DEF Passes
    <3> QED BY <3>2, <3>3
  <2> QED BY <2>1 DEF CallersPass
<1>2. WatermarkCovers'
  BY DEF WatermarkCovers
<1> QED BY <1>1, <1>2 DEF Covered

\* A call fails, or ends with its snapshot refused.
LEMMA ReturnCovered ==
  ASSUME TypeOK, CallersHoldRuns, OneCaller, Covered, NEW w \in Workers,
         ApplyRejected(w) \/ DetectGap(w) \/ ProviderError(w) \/ FailRun(w)
  PROVE  Covered'
<1>1. /\ worker \in [Workers -> Worker] /\ runs \in [RunIds -> Run] /\ worker[w].pc # "idle"
      /\ UNCHANGED <<listing, current, watermark>> /\ Attended /\ WatermarkCovers
  BY DEF TypeOK, Covered, ApplyRejected, DetectGap, ProviderError, FailRun, upstream, catalog
<1>2. PICK i \in RunIds : i = worker[w].run
  BY <1>1 DEF TypeOK
<1>3. CASE ApplyRejected(w)
  <2>1. worker'[w].pc = "idle" /\ runs' = runs
    BY <1>1, <1>3, IdleType DEF ApplyRejected, catalog
  <2>2. runs[i].mode = "full" /\ ~Acceptable(runs[i])
    BY <1>2, <1>3, AcceptedRuns DEF ApplyRejected, CallersHoldRuns, FullSteps
  <2>3. Attended'
    BY <1>1, <1>2, <2>1, <2>2, AttendedKept DEF FullSteps, ScanSteps
  <2> QED BY <1>1, <2>1, <2>3, CoveredKept DEF WatermarkCovers, FullSteps, ScanSteps
<1>4. CASE DetectGap(w) \/ ProviderError(w)
  <2>1. worker'[w].pc = "failing" /\ worker'[w].run = i /\ runs' = runs
    BY <1>1, <1>2, <1>4 DEF DetectGap, ProviderError, catalog, Worker
  <2>2. Attended'
    BY <1>1, <1>2, <2>1, AttendedKept DEF FullSteps, ScanSteps
  <2> QED BY <1>1, <2>1, <2>2, CoveredKept DEF WatermarkCovers, FullSteps, ScanSteps
<1>5. CASE FailRun(w)
  <2>1. worker'[w].pc = "idle" /\ \A j \in RunIds \ {i} : runs'[j] = runs[j]
    BY <1>1, <1>2, <1>5, IdleType DEF FailRun
  <2>2. runs'[i].status # "running"
    BY SMT, <1>1, <1>2, <1>5 DEF FailRun, Run
  <2>3. Attended'
    BY <1>1, <1>2, <2>1, <2>2, AttendedKept DEF FullSteps, ScanSteps
  <2> QED BY <1>1, <2>1, <2>3, CoveredKept DEF WatermarkCovers, FullSteps, ScanSteps
<1> QED BY <1>3, <1>4, <1>5

\* A call starts: a fresh run has everything ahead of it, and the only run there
\* is to resume is a snapshot that the swap refuses.
LEMMA StartCovered ==
  ASSUME TypeOK, OneCaller, Covered, NEW w \in Workers, StartFull(w) \/ StartScan(w)
  PROVE  Covered'
<1>1. /\ worker \in [Workers -> Worker] /\ runs \in [RunIds -> Run] /\ worker[w].pc = "idle"
      /\ UNCHANGED <<listing, current, watermark>> /\ Attended /\ WatermarkCovers
  BY DEF TypeOK, Covered, StartFull, StartScan, OpenRun, ResumeRun, upstream, catalog
<1>2. PICK m \in {"full", "incremental"}, i \in RunIds :
        /\ OpenRun(m, i) \/ ResumeRun(m, i)
        /\ worker'[w].run = i /\ worker'[w].page = runs'[i].next
        /\ \/ m = "full" /\ worker'[w].pc = "fullFetch"
           \/ m = "incremental" /\ worker'[w].pc = "scanFetch" /\ worker'[w].mark = watermark
  <2>1. CASE StartFull(w)
    <3>1. PICK i \in RunIds :
            /\ OpenRun("full", i) \/ ResumeRun("full", i)
            /\ worker' = [worker EXCEPT ![w] =
                            [Idle EXCEPT !.pc = "fullFetch", !.run = i, !.page = runs'[i].next]]
      BY <2>1 DEF StartFull
    <3>2. worker'[w].pc = "fullFetch" /\ worker'[w].run = i /\ worker'[w].page = runs'[i].next
      BY <1>1, <3>1 DEF Idle
    <3> QED BY <3>1, <3>2
  <2>2. CASE StartScan(w)
    <3>1. PICK i \in RunIds :
            /\ OpenRun("incremental", i) \/ ResumeRun("incremental", i)
            /\ worker' = [worker EXCEPT ![w] =
                            [Idle EXCEPT !.pc = "scanFetch", !.run = i, !.page = runs'[i].next,
                                         !.mark = watermark, !.seen = runs'[i].boundary]]
      BY <2>2 DEF StartScan
    <3>2. /\ worker'[w].pc = "scanFetch" /\ worker'[w].run = i /\ worker'[w].page = runs'[i].next
          /\ worker'[w].mark = watermark
      BY <1>1, <3>1 DEF Idle
    <3> QED BY <3>1, <3>2
  <2> QED BY <2>1, <2>2
<1>3. CASE OpenRun(m, i)
  <2>1. /\ runs'[i].status = "running" /\ runs'[i].next = 1 /\ \A j \in RunIds \ {i} : runs'[j] = runs[j]
    <3>1. runs' = [runs EXCEPT ![i] = [mode |-> m, status |-> "running", next |-> 1,
                                       boundary |-> 0, staged |-> <<>>]]
      BY <1>3 DEF OpenRun
    <3> QED BY <1>1, <3>1
  <2>2. Attended'
    <3>1. worker'[w].pc # "idle" /\ (worker'[w].pc \in ScanSteps => worker'[w].mark = watermark')
      BY <1>1, <1>2 DEF ScanSteps
    <3> QED BY <1>1, <1>2, <2>1, <3>1, AttendedKept
  <2>3. \A k \in DOMAIN listing : k > Start(1)
    <3>1. Start(1) = 0
      <4>1. 1 \in Nat \ {0}
        BY SMT
      <4> QED BY <4>1, PageStarts
    <3> QED BY SMT, <3>1 DEF TypeOK
  <2>4. \A k \in DOMAIN listing :
          Passes(worker'[w], runs'[worker'[w].run], current', watermark', k, listing[k])
    BY <1>2, <2>1, <2>3 DEF Passes, FullPasses, ScanPasses, FullSteps, ScanSteps
  <2> QED BY <1>1, <2>2, <2>4, CoveredKept DEF WatermarkCovers
<1>4. CASE ResumeRun(m, i)
  <2>1. runs' = runs /\ runs[i].mode = m /\ runs[i].status = "running"
    BY <1>4 DEF ResumeRun, Resumable, RunningRuns, catalog
  <2>2. ~\E v \in Workers : worker[v].pc # "idle" /\ worker[v].run = i
    BY <1>1 DEF OneCaller
  <2>3. m = "full" /\ ~Acceptable(runs[i])
    BY <1>1, <2>1, <2>2 DEF Attended
  <2>4. Attended'
    BY <1>1, <1>2, <2>1, <2>3, AttendedKept DEF ScanSteps
  <2>5. \A k \in DOMAIN listing :
          Passes(worker'[w], runs'[worker'[w].run], current', watermark', k, listing[k])
    BY <1>2, <2>1, <2>3 DEF Passes, ScanSteps
  <2> QED BY <1>1, <2>4, <2>5, CoveredKept DEF WatermarkCovers
<1> QED BY <1>2, <1>3, <1>4

\* A page of the snapshot is fetched: an entry ahead is on the page or further
\* ahead, and one that stands before the page is newer than all of it.
LEMMA FetchFullCovered ==
  ASSUME TypeOK, Timely, OneCaller, Covered, NEW w \in Workers, FetchFullPage(w)
  PROVE  Covered'
<1>1. /\ UNCHANGED <<runs, listing, current, watermark>> /\ Attended /\ WatermarkCovers /\ CallersPass
      /\ Sorted(listing) /\ worker[w] \in Worker /\ worker[w].pc = "fullFetch"
  BY DEF TypeOK, Covered, Timely, FetchFullPage, upstream, catalog
<1>2. PICK i \in RunIds : i = worker[w].run
  BY <1>1 DEF TypeOK
<1>3. PICK p \in Nat \ {0} : p = worker[w].page
  BY <1>1 DEF TypeOK, Worker
<1>4. /\ worker'[w].pc = "fullRecord" /\ worker'[w].run = i /\ worker'[w].page = p
      /\ worker'[w].reply = Page(p)
  BY <1>1, <1>2, <1>3 DEF FetchFullPage, TypeOK, Worker
<1>5. Attended'
  <2>1. runs[i].status = "running"
    BY <1>1, <1>2 DEF Attended, FullSteps
  <2> QED BY <1>1, <1>2, <1>4, <2>1, AttendedKept DEF ScanSteps
<1>6. ASSUME NEW k \in DOMAIN listing
      PROVE  Passes(worker'[w], runs[i], current, watermark, k, listing[k])
  <2>1. PICK e : e = listing[k]
    OBVIOUS
  <2>2. e.at # 0 => ~Acceptable(runs[i]) \/ FullPasses(worker[w], runs[i], watermark, k, e)
    BY <1>1, <1>2, <2>1 DEF CallersPass, Passes, FullSteps
  <2>3. ASSUME e.at # 0, FullPasses(worker[w], runs[i], watermark, k, e)
        PROVE  FullPasses(worker'[w], runs[i], watermark, k, e)
    <3>1. CASE k > Start(p) /\ k > Start(p + 1)
      <4>1. Page(p) # <<>>
        BY <3>1, PagePositions
      <4> QED BY <1>4, <3>1, <4>1 DEF FullPasses
    <3>2. CASE k > Start(p) /\ ~(k > Start(p + 1))
      <4>1. k - Start(p) \in DOMAIN Page(p) /\ Page(p)[k - Start(p)] = e
        BY <2>1, <3>2, PagePositions
      <4>2. e.repo \in ReposOf(Page(p))
        BY <4>1 DEF ReposOf
      <4> QED BY <1>4, <4>2 DEF FullPasses
    <3>3. CASE ~(k > Start(p))
      <4>1. NewerThan(e.at, Page(p))
        BY <1>1, <2>1, <2>3, <3>3, PageOfSorted
      <4> QED BY <1>1, <1>3, <1>4, <2>3, <3>3, <4>1 DEF FullPasses
    <3> QED BY <3>1, <3>2, <3>3
  <2> QED BY <1>4, <2>1, <2>2, <2>3 DEF Passes, ScanSteps
<1> QED BY <1>1, <1>4, <1>5, <1>6, CoveredKept DEF WatermarkCovers

\* A run that the swap would accept was acceptable before its last page.
LEMMA AcceptableBefore ==
  ASSUME NEW run \in Run, NEW items \in Seq(Item), NEW n,
         Acceptable([run EXCEPT !.staged = run.staged \o items, !.next = n])
  PROVE  Acceptable(run)
<1>1. run.staged \in Seq(Item)
  BY DEF Run
<1>2. PICK row : row = [run EXCEPT !.staged = run.staged \o items, !.next = n]
  OBVIOUS
<1>3. row.staged = run.staged \o items /\ row.status = run.status /\ Acceptable(row)
  BY <1>2 DEF Run
<1>4. \A k \in DOMAIN run.staged : /\ k \in DOMAIN (run.staged \o items)
                                   /\ (run.staged \o items)[k] = run.staged[k]
  BY SMT, <1>1
<1>5. /\ \A j, k \in DOMAIN row.staged : row.staged[j].repo = row.staged[k].repo => j = k
      /\ \A k \in DOMAIN row.staged : row.staged[k].at # 0
      /\ row.status # "failed"
  BY <1>3 DEF Acceptable
<1>6. \A k \in DOMAIN run.staged : k \in DOMAIN row.staged /\ row.staged[k] = run.staged[k]
  BY <1>3, <1>4
<1> QED BY <1>3, <1>5, <1>6 DEF Acceptable

\* A page is recorded: what was in the caller's hands is staged, and an empty
\* page leaves nothing ahead.
LEMMA RecordCovered ==
  ASSUME TypeOK, OneCaller, Covered, NEW w \in Workers, RecordPage(w)
  PROVE  Covered'
<1>1. /\ UNCHANGED <<listing, current, watermark>> /\ Attended /\ WatermarkCovers /\ CallersPass
      /\ worker[w] \in Worker /\ worker[w].pc = "fullRecord"
  BY DEF TypeOK, Covered, RecordPage, upstream
<1>2. PICK i \in RunIds : i = worker[w].run
  BY <1>1 DEF TypeOK
<1>3. PICK p \in Nat \ {0} : p = worker[w].page
  BY <1>1 DEF TypeOK, Worker
<1>4. PICK reply \in Seq(Item) : reply = worker[w].reply
  BY <1>1 DEF Worker
<1>5. PICK row : row = [runs[i] EXCEPT !.staged = runs[i].staged \o reply, !.next = NextPage(p)]
  OBVIOUS
<1>6. /\ runs[i] \in Run /\ runs[i].staged \in Seq(Item)
      /\ row.staged = runs[i].staged \o reply /\ row.status = runs[i].status /\ row.mode = runs[i].mode
  <2>1. runs[i] \in Run
    BY DEF TypeOK
  <2>2. runs[i].staged \in Seq(Item)
    BY <2>1 DEF Run
  <2>3. row.staged = runs[i].staged \o reply /\ row.status = runs[i].status
    BY <1>5, <2>1 DEF Run
  <2>4. row.mode = runs[i].mode
    BY <1>5, <2>1 DEF Run
  <2> QED BY <2>1, <2>2, <2>3, <2>4
<1>7. runs'[i] = row /\ \A j \in RunIds \ {i} : runs'[j] = runs[j]
  BY <1>2, <1>3, <1>4, <1>5 DEF RecordPage, TypeOK
<1>8. /\ worker'[w].pc = IF reply = <<>> THEN "fullApply" ELSE "fullFetch"
      /\ worker'[w].run = i /\ worker'[w].page = NextPage(p)
  BY <1>1, <1>2, <1>3, <1>4 DEF RecordPage, TypeOK, Worker
<1>9. worker'[w].pc \in {"fullApply", "fullFetch"} /\ (reply # <<>> => worker'[w].pc = "fullFetch")
  BY <1>8
<1>10. Attended'
  <2>1. row.status = "running"
    BY <1>1, <1>2, <1>6 DEF Attended, FullSteps
  <2> QED BY <1>1, <1>2, <1>7, <1>8, <1>9, <2>1, AttendedKept DEF ScanSteps
<1>11. ASSUME NEW k \in DOMAIN listing
       PROVE  Passes(worker'[w], row, current, watermark, k, listing[k])
  <2>1. PICK e : e = listing[k]
    OBVIOUS
  <2>2. e.at # 0 => ~Acceptable(runs[i]) \/ FullPasses(worker[w], runs[i], watermark, k, e)
    BY <1>1, <1>2, <2>1 DEF CallersPass, Passes, FullSteps
  <2>3. Acceptable(row) => Acceptable(runs[i])
    BY <1>4, <1>5, <1>6, AcceptableBefore
  <2>4. ReposOf(row.staged) = ReposOf(runs[i].staged) \union ReposOf(reply)
    BY <1>6, ReposOfConcat
  <2>5. k > Start(p + 1) => k > Start(NextPage(p))
    <3>1. NextPage(p) \in Nat \ {0} /\ p + 1 \in Nat \ {0} /\ Start(NextPage(p)) <= Start(p + 1)
      <4>1. p + 1 \in Nat \ {0}
        BY SMT
      <4> QED BY <4>1, PageStarts
    <3>2. Start(NextPage(p)) \in Nat /\ Start(p + 1) \in Nat
      BY <3>1, PageStarts
    <3>3. k \in Nat
      BY SMT DEF TypeOK
    <3> QED BY SMT, <3>1, <3>2, <3>3
  <2>6. NewerThan(e.at, runs[i].staged) /\ NewerThan(e.at, reply) => NewerThan(e.at, row.staged)
    BY <1>6, UpToConcat
  <2>7. FullPasses(worker[w], runs[i], watermark, k, e) => FullPasses(worker'[w], row, watermark, k, e)
    BY <1>1, <1>3, <1>4, <1>8, <1>9, <2>4, <2>5, <2>6 DEF FullPasses, Unmet
  <2> QED BY <1>9, <2>1, <2>2, <2>3, <2>7 DEF Passes, ScanSteps
<1>12. runs'[worker'[w].run] = row
  BY <1>7, <1>8
<1> QED BY <1>1, <1>10, <1>11, <1>12, CoveredKept DEF WatermarkCovers

\* The swap: everything at or below the new mark was staged, so it is starred.
LEMMA ApplyCovered ==
  ASSUME TypeOK, OneCaller, Covered, NEW w \in Workers, ApplyAuthority(w)
  PROVE  Covered'
<1>1. /\ listing' = listing /\ Attended /\ CallersPass /\ watermark \in Nat /\ listing \in Seq(Item)
      /\ worker[w] \in Worker /\ worker[w].pc = "fullApply"
  BY DEF TypeOK, Covered, ApplyAuthority, upstream
<1>2. PICK i \in RunIds : i = worker[w].run
  BY <1>1 DEF TypeOK
<1>3. PICK staged \in Seq(Item) : staged = runs[i].staged
  BY DEF TypeOK, Run
<1>4. /\ worker'[w].pc = "idle" /\ runs'[i].status = "completed"
      /\ \A j \in RunIds \ {i} : runs'[j] = runs[j]
  <2>1. runs' = [runs EXCEPT ![i] = [@ EXCEPT !.status = "completed", !.staged = <<>>]]
    BY <1>2 DEF ApplyAuthority
  <2>2. \A j \in RunIds \ {i} : runs'[j] = runs[j]
    BY <2>1 DEF TypeOK
  <2>3. runs'[i] = [runs[i] EXCEPT !.status = "completed", !.staged = <<>>] /\ runs[i] \in Run
    BY <2>1 DEF TypeOK
  <2>4. runs'[i].status = "completed"
    BY <2>3 DEF Run
  <2> QED BY <2>2, <2>4, IdleType DEF ApplyAuthority, TypeOK
<1>5. Attended'
  BY <1>1, <1>2, <1>4, AttendedKept DEF FullSteps, ScanSteps
<1>6. PICK newest \in {0} \union {staged[k].at : k \in DOMAIN staged} :
        watermark' = Later(watermark, newest)
  BY <1>2, <1>3 DEF ApplyAuthority, ReanchorWatermark
<1>7. ASSUME NEW k \in DOMAIN listing, listing[k].at # 0, listing[k].at <= watermark'
      PROVE  current'[listing[k].repo].starred
  <2>1. PICK e : e = listing[k]
    OBVIOUS
  <2>2. e \in Item
    BY SMT, <1>1, <2>1
  <2>3. e.repo \in Repos /\ e.at \in Nat
    BY <2>2 DEF Item
  <2>4. FullPasses(worker[w], runs[i], watermark, k, e)
    <3>1. Acceptable(runs[i])
      BY <1>2, AcceptedRuns DEF ApplyAuthority
    <3> QED BY <1>1, <1>2, <1>7, <2>1, <3>1 DEF CallersPass, Passes, FullSteps
  <2>5. e.repo \in ReposOf(staged) \/ (e.at > watermark /\ NewerThan(e.at, staged))
    BY <1>1, <1>3, <2>4 DEF FullPasses, Unmet
  <2>6. ~(e.at > watermark /\ NewerThan(e.at, staged))
    <3>1. SUFFICES ASSUME e.at > watermark, NewerThan(e.at, staged) PROVE FALSE
      OBVIOUS
    <3>2. newest \in Nat /\ newest < e.at
      <4>1. CASE newest = 0
        BY SMT, <1>7, <2>1, <2>3, <4>1
      <4>2. ASSUME NEW j \in DOMAIN staged, newest = staged[j].at PROVE newest \in Nat /\ newest < e.at
        <5>1. staged[j] \in Item
          BY SMT
        <5> QED BY <3>1, <4>2, <5>1 DEF NewerThan, Item
      <4> QED BY <1>6, <4>1, <4>2
    <3>3. e.at <= Later(watermark, newest)
      BY <1>6, <1>7, <2>1
    <3> QED BY SMT, <1>1, <2>3, <3>1, <3>2, <3>3 DEF Later
  <2>7. e.repo \in ReposOf(runs[i].staged) /\ e.repo \notin Dropped(i)
    BY <1>3, <2>5, <2>6 DEF Dropped
  <2>8. current'[e.repo].starred
    BY <1>2, <2>3, <2>7, SwapRows
  <2> QED BY <2>1, <2>8
<1> QED BY <1>1, <1>4, <1>5, <1>7, CoveredKept DEF FullSteps, ScanSteps

\* A page of the scan is fetched: an entry above the mark that was ahead is in
\* the window or further ahead, and a page that proves coverage reaches the mark
\* before it.
LEMMA FetchScanCovered ==
  ASSUME TypeOK, Timely, OneCaller, Covered, NEW w \in Workers, FetchScanPage(w)
  PROVE  Covered'
<1>1. /\ UNCHANGED <<runs, listing, current, watermark>> /\ Attended /\ WatermarkCovers /\ CallersPass
      /\ Sorted(listing) /\ worker[w] \in Worker /\ worker[w].pc = "scanFetch" /\ watermark \in Nat
  BY DEF TypeOK, Covered, Timely, FetchScanPage, upstream, catalog
<1>2. PICK i \in RunIds : i = worker[w].run
  BY <1>1 DEF TypeOK
<1>3. PICK p \in Nat \ {0} : p = worker[w].page
  BY <1>1 DEF TypeOK, Worker
<1>4. runs[i].status = "running" /\ worker[w].mark = watermark
  BY <1>1, <1>2 DEF Attended, ScanSteps
<1>5. /\ worker'[w].pc = "scanIngest" /\ worker'[w].run = i /\ worker'[w].page = p
      /\ worker'[w].reply = Page(p) /\ worker'[w].mark = watermark
      /\ worker'[w].oldest = worker[w].oldest /\ worker'[w].todo = Window(Page(p), watermark)
  <2>1. worker'[w] = [worker[w] EXCEPT !.pc = "scanIngest", !.reply = Page(p),
                                       !.todo = Window(Page(p), watermark)]
    BY <1>3, <1>4 DEF FetchScanPage, TypeOK
  <2> QED BY <1>1, <1>2, <1>3, <1>4, <2>1 DEF Worker
<1>6. \A j \in DOMAIN Page(p) : Page(p)[j].at # 0 /\ Page(p)[j].at \in Nat
  <2>1. \A j \in DOMAIN Page(p) : Page(p)[j].at # 0
    BY <1>3 DEF FetchScanPage, OrderProof
  <2>2. Page(p) \in Seq(Item)
    BY PageType
  <2>3. \A j \in DOMAIN Page(p) : Page(p)[j] \in Item
    BY SMT, <2>2
  <2> QED BY <2>1, <2>3 DEF Item
<1>7. Attended'
  BY <1>1, <1>2, <1>4, <1>5, AttendedKept
<1>8. ASSUME NEW k \in DOMAIN listing
      PROVE  Passes(worker'[w], runs[i], current, watermark, k, listing[k])
  <2>1. PICK e : e = listing[k]
    OBVIOUS
  <2>2. e \in Item
    BY SMT, <2>1 DEF TypeOK
  <2>3. e.at \in Nat
    BY <2>2 DEF Item
  <2>4. e.at # 0 => e.at <= watermark \/ ScanPasses(worker[w], current, k, e)
    BY <1>1, <1>2, <2>1 DEF CallersPass, Passes, ScanSteps
  <2>5. ASSUME e.at # 0, ~(e.at <= watermark), ScanPasses(worker[w], current, k, e)
        PROVE  ScanPasses(worker'[w], current, k, e)
    <3>0. e.at > watermark
      BY SMT, <1>1, <2>3, <2>5
    <3>1. CASE k > Start(p) /\ k > Start(p + 1)
      <4>1. Page(p) # <<>>
        BY <3>1, PagePositions
      <4>2. ASSUME NEW j \in DOMAIN Page(p) PROVE Page(p)[j].at > watermark
        <5>1. e.at < Page(p)[j].at
          BY <1>1, <1>6, <2>1, <2>5, <3>1, PageOfSorted
        <5> QED BY SMT, <1>1, <1>6, <2>3, <3>0, <5>1
      <4>3. ~CoverageProven(Page(p), watermark)
        BY <4>1, <4>2 DEF CoverageProven, Window
      <4> QED BY <1>5, <3>1, <4>3 DEF ScanPasses
    <3>2. CASE k > Start(p) /\ ~(k > Start(p + 1))
      <4>1. k - Start(p) \in DOMAIN Page(p) /\ Page(p)[k - Start(p)] = e
        BY <2>1, <3>2, PagePositions
      <4>2. k - Start(p) \in Window(Page(p), watermark)
        BY <3>0, <4>1 DEF Window
      <4> QED BY <1>5, <4>1, <4>2 DEF ScanPasses
    <3>3. CASE ~(k > Start(p))
      <4>1. NewerThan(e.at, Page(p))
        BY <1>1, <2>1, <2>5, <3>3, PageOfSorted
      <4> QED BY <1>1, <1>3, <1>5, <2>5, <3>3, <4>1 DEF ScanPasses
    <3> QED BY <3>1, <3>2, <3>3
  <2> QED BY <1>5, <2>1, <2>4, <2>5 DEF Passes, FullSteps
<1> QED BY <1>1, <1>5, <1>7, <1>8, CoveredKept DEF WatermarkCovers

\* An item of the window is ingested: it is starred now, and no star is lost.
LEMMA IngestCovered ==
  ASSUME TypeOK, OneCaller, Covered, NEW w \in Workers, RecordIngest(w)
  PROVE  Covered'
<1>1. /\ UNCHANGED <<runs, listing, watermark>> /\ Attended /\ WatermarkCovers /\ CallersPass
      /\ worker[w] \in Worker /\ worker[w].pc = "scanIngest"
      /\ worker[w].todo \subseteq DOMAIN worker[w].reply /\ worker[w].reply \in Seq(Item)
  BY DEF TypeOK, Covered, RecordIngest, upstream, Worker
<1>2. PICK i \in RunIds : i = worker[w].run
  BY <1>1 DEF TypeOK
<1>3. PICK c \in worker[w].todo :
        /\ current' = [current EXCEPT ![worker[w].reply[c].repo] =
                         Ingested(@, worker[w].run, worker[w].reply[c].at)]
        /\ worker' = [worker EXCEPT ![w].todo = @ \ {c}]
  BY DEF RecordIngest
<1>4. /\ worker'[w].pc = "scanIngest" /\ worker'[w].run = i /\ worker'[w].page = worker[w].page
      /\ worker'[w].reply = worker[w].reply /\ worker'[w].mark = worker[w].mark
      /\ worker'[w].oldest = worker[w].oldest
  BY <1>2, IngestCaller
<1>5. worker'[w].todo = worker[w].todo \ {c}
  <2>1. worker'[w] = [worker[w] EXCEPT !.todo = @ \ {c}]
    BY <1>3 DEF TypeOK
  <2> QED BY <1>1, <2>1 DEF Worker
<1>6. current'[worker[w].reply[c].repo].starred
  <2>1. worker[w].reply[c] \in Item
    BY SMT, <1>1
  <2>2. worker[w].reply[c].repo \in Repos
    BY <2>1 DEF Item
  <2> QED BY <1>3, <2>2 DEF TypeOK, Ingested
<1>7. \A r \in Repos : current[r].starred => current'[r].starred
  BY IngestRows
<1>8. Attended'
  <2>1. runs[i].status = "running" /\ worker[w].mark = watermark
    BY <1>1, <1>2 DEF Attended, ScanSteps
  <2> QED BY <1>1, <1>2, <1>4, <2>1, AttendedKept
<1>9. \A k \in DOMAIN listing : listing[k].repo \in Repos
  <2>1. \A k \in DOMAIN listing : listing[k] \in Item
    BY SMT DEF TypeOK
  <2> QED BY <2>1 DEF Item
<1>10. ASSUME NEW k \in DOMAIN listing
       PROVE  Passes(worker'[w], runs[i], current', watermark, k, listing[k])
  <2>1. PICK e : e = listing[k]
    OBVIOUS
  <2>2. e.at # 0 => e.at <= watermark \/ ScanPasses(worker[w], current, k, e)
    BY <1>1, <1>2, <2>1 DEF CallersPass, Passes, ScanSteps
  <2>3. current[e.repo].starred => current'[e.repo].starred
    BY <1>7, <1>9, <2>1
  <2>4. (\E j \in worker[w].todo : worker[w].reply[j].repo = e.repo) =>
          \/ current'[e.repo].starred
          \/ \E j \in worker'[w].todo : worker'[w].reply[j].repo = e.repo
    BY <1>4, <1>5, <1>6
  <2>5. ScanPasses(worker[w], current, k, e) => ScanPasses(worker'[w], current', k, e)
    BY <1>1, <1>4, <2>3, <2>4 DEF ScanPasses
  <2> QED BY <1>4, <2>1, <2>2, <2>5 DEF Passes, FullSteps
<1>11. \A k \in DOMAIN listing : listing[k].at # 0 /\ listing[k].at <= watermark
                                   => current'[listing[k].repo].starred
  BY <1>1, <1>7, <1>9 DEF WatermarkCovers
<1> QED BY <1>1, <1>4, <1>8, <1>10, <1>11, CoveredKept

\* The page is checkpointed: what is ahead of it stays ahead unless coverage is
\* proven, and what is newer than its items is newer than the oldest ingested.
LEMMA ScanPageCovered ==
  ASSUME TypeOK, OneCaller, Covered, NEW w \in Workers, RecordScanPage(w)
  PROVE  Covered'
<1>1. /\ UNCHANGED <<listing, current, watermark>> /\ Attended /\ WatermarkCovers /\ CallersPass
      /\ worker[w] \in Worker
  BY DEF TypeOK, Covered, RecordScanPage, upstream
<1>2. PICK i \in RunIds : i = worker[w].run
  BY DEF TypeOK, RecordScanPage
<1>3. PICK p \in Nat \ {0} : p = worker[w].page
  BY <1>1 DEF TypeOK, Worker, RecordScanPage
<1>4. PICK reply \in Seq(Item) : reply = worker[w].reply
  BY <1>1 DEF Worker
<1>5. PICK oldest \in Nat : oldest = worker[w].oldest
  BY <1>1 DEF Worker
<1>6. runs[i].status = "running" /\ worker[w].mark = watermark
  BY <1>1, <1>2, ScanPageCaller DEF Attended, ScanSteps
<1>7. /\ worker'[w].pc = IF CoverageProven(reply, watermark) THEN "scanComplete" ELSE "scanFetch"
      /\ worker[w].pc = "scanIngest" /\ worker[w].todo = {}
      /\ worker'[w].run = i /\ worker'[w].page = NextPage(p) /\ worker'[w].mark = watermark
      /\ worker'[w].oldest \in OldestIngested(oldest, reply, Window(reply, watermark))
  BY <1>2, <1>3, <1>4, <1>5, <1>6, ScanPageCaller
<1>8. /\ worker'[w].pc \in {"scanComplete", "scanFetch"}
      /\ ~CoverageProven(reply, watermark) => worker'[w].pc = "scanFetch"
  BY <1>7
<1>9. runs'[i].status = "running" /\ \A j \in RunIds \ {i} : runs'[j] = runs[j]
  <2>1. PICK n, b : runs' = [runs EXCEPT ![i] = [@ EXCEPT !.next = n, !.boundary = b]]
    BY <1>2 DEF RecordScanPage
  <2> QED BY <1>6, <2>1 DEF TypeOK, Run
<1>10. Attended'
  BY <1>1, <1>2, <1>7, <1>8, <1>9, AttendedKept
<1>11. ASSUME NEW k \in DOMAIN listing
       PROVE  Passes(worker'[w], runs'[i], current, watermark, k, listing[k])
  <2>1. PICK e : e = listing[k]
    OBVIOUS
  <2>2. e.at # 0 => e.at <= watermark \/ ScanPasses(worker[w], current, k, e)
    BY <1>1, <1>2, <1>7, <2>1 DEF CallersPass, Passes, ScanSteps
  <2>3. k > Start(p + 1) => k > Start(NextPage(p))
    <3>1. NextPage(p) \in Nat \ {0} /\ p + 1 \in Nat \ {0} /\ Start(NextPage(p)) <= Start(p + 1)
      <4>1. p + 1 \in Nat \ {0}
        BY SMT
      <4> QED BY <4>1, PageStarts
    <3>2. Start(NextPage(p)) \in Nat /\ Start(p + 1) \in Nat
      BY <3>1, PageStarts
    <3>3. k \in Nat
      BY SMT DEF TypeOK
    <3> QED BY SMT, <3>1, <3>2, <3>3
  <2>4. ASSUME e.at > oldest, NewerThan(e.at, reply) PROVE e.at > worker'[w].oldest
    <3>1. e \in Item
      BY SMT, <2>1 DEF TypeOK
    <3>2. e.at \in Nat
      BY <3>1 DEF Item
    <3>3. ASSUME NEW j \in DOMAIN reply PROVE e.at > EarliestKnown(oldest, reply[j].at)
      <4>1. reply[j] \in Item
        BY SMT
      <4>2. reply[j].at \in Nat /\ reply[j].at < e.at
        BY <2>4, <4>1 DEF Item, NewerThan
      <4> QED BY SMT, <2>4, <3>2, <4>2 DEF EarliestKnown, Earlier
    <3> QED BY <1>7, <2>4, <3>3 DEF OldestIngested, Window
  <2>5. ScanPasses(worker[w], current, k, e) => ScanPasses(worker'[w], current, k, e)
    BY <1>3, <1>4, <1>5, <1>6, <1>7, <1>8, <2>3, <2>4 DEF ScanPasses
  <2> QED BY <1>8, <2>1, <2>2, <2>5 DEF Passes, FullSteps
<1> QED BY <1>1, <1>7, <1>10, <1>11, CoveredKept DEF WatermarkCovers

\* The scan completes: everything up to the new mark is starred.
LEMMA CompleteCovered ==
  ASSUME TypeOK, OneCaller, Covered, NEW w \in Workers, CompleteScan(w)
  PROVE  Covered'
<1>1. /\ UNCHANGED <<listing, current>> /\ Attended /\ WatermarkCovers /\ CallersPass
      /\ worker[w] \in Worker /\ worker[w].pc = "scanComplete" /\ watermark \in Nat
  BY DEF TypeOK, Covered, CompleteScan, upstream
<1>2. PICK i \in RunIds : i = worker[w].run
  BY <1>1 DEF TypeOK
<1>3. runs[i].status = "running"
  BY <1>1, <1>2 DEF Attended, ScanSteps
<1>4. /\ watermark' = Later(watermark, worker[w].oldest)
      /\ runs' = [runs EXCEPT ![i].status = "completed"] /\ worker' = [worker EXCEPT ![w] = Idle]
  <2>1. runs[i].status # "failed"
    BY <1>3
  <2> QED BY <1>2, <2>1 DEF CompleteScan
<1>5. /\ worker'[w].pc = "idle" /\ runs'[i].status # "running"
      /\ \A j \in RunIds \ {i} : runs'[j] = runs[j]
  <2>1. runs'[i].status = "completed" /\ \A j \in RunIds \ {i} : runs'[j] = runs[j]
    BY <1>4 DEF TypeOK, Run
  <2>2. worker'[w] = Idle
    BY <1>4 DEF TypeOK
  <2> QED BY <2>1, <2>2, IdleType
<1>6. Attended'
  BY <1>1, <1>2, <1>5, AttendedKept DEF FullSteps, ScanSteps
<1>7. ASSUME NEW k \in DOMAIN listing, listing[k].at # 0, listing[k].at <= watermark'
      PROVE  current[listing[k].repo].starred
  <2>1. PICK e : e = listing[k]
    OBVIOUS
  <2>2. e \in Item
    BY SMT, <2>1 DEF TypeOK
  <2>3. e.at \in Nat /\ worker[w].oldest \in Nat
    BY <1>1, <2>2 DEF Item, Worker
  <2>4. e.at <= watermark \/ e.at <= worker[w].oldest
    BY SMT, <1>1, <1>4, <1>7, <2>1, <2>3 DEF Later
  <2>5. e.at <= watermark \/ current[e.repo].starred \/ e.at > worker[w].oldest
    BY <1>1, <1>7, <2>1 DEF CallersPass, Passes, ScanPasses, ScanSteps
  <2>6. ~(e.at <= worker[w].oldest /\ e.at > worker[w].oldest)
    BY SMT, <2>3
  <2>7. e.at <= watermark => current[e.repo].starred
    BY <1>1, <1>7, <2>1 DEF WatermarkCovers
  <2> QED BY <2>1, <2>4, <2>5, <2>6, <2>7
<1> QED BY <1>1, <1>5, <1>6, <1>7, CoveredKept DEF FullSteps, ScanSteps

LEMMA MarkInit == Init => MarkInv
<1> SUFFICES ASSUME Init PROVE MarkInv
  OBVIOUS
<1>1. PICK n \in 0..Len(InitialStars), m \in InitialModes : InitFrom(n, m)
  BY DEF Init
<1>2. PICK stars \in Nat : stars = Len(InitialStars)
  BY SMT, ConstantsAssumption
<1>3. /\ listing = InitialListing /\ clock = stars /\ watermark = n /\ n \in 0..stars
      /\ \A w \in Workers : worker[w] = Idle
      /\ \A i \in RunIds : runs[i].staged = <<>> /\ runs[i].status # "running"
  BY <1>1, <1>2 DEF InitFrom, BlankRun
<1>4. DOMAIN listing = 1..stars /\ \A k \in 1..stars : listing[k].at = stars + 1 - k
  BY <1>2, <1>3 DEF InitialListing
<1>5. Timely
  <2>1. Sorted(listing)
    BY SMT, <1>4 DEF Sorted
  <2>2. UpTo(listing, clock)
    BY SMT, <1>3, <1>4 DEF UpTo
  <2>3. watermark <= clock /\ 0 <= clock
    BY SMT, <1>3
  <2> QED BY <1>3, <2>1, <2>2, <2>3, UpToEmpty, IdleType DEF Timely
<1>6. \A w \in Workers : worker[w].pc \notin FullSteps \union ScanSteps
  BY <1>3, IdleType DEF FullSteps, ScanSteps
<1>7. Attended /\ CallersPass
  BY <1>3, <1>6 DEF Attended, CallersPass, Passes
<1>8. ASSUME NEW k \in DOMAIN listing, listing[k].at <= watermark
      PROVE  current[listing[k].repo].starred
  <2>1. listing[k].repo \in Repos
    <3>1. listing[k] \in Item
      BY SMT, <1>3, InitialListingType
    <3> QED BY <3>1 DEF Item
  <2>2. Synced(n, listing[k].repo)
    BY <1>3, <1>8 DEF Synced
  <2> QED BY <1>1, <2>1, <2>2 DEF InitFrom
<1>9. Covered
  BY <1>7, <1>8 DEF Covered, WatermarkCovers
<1> QED BY <1>5, <1>9, EvidenceInit DEF MarkInv

LEMMA MarkStep ==
  ASSUME OneCaller, ~RemovalsDuringRun, "same" \notin StampKinds, MarkInv, [Next]_vars
  PROVE  MarkInv'
<1>1. EvidenceInv' /\ TypeOK /\ TypeOK' /\ CallersHoldRuns /\ Timely
  BY EvidenceStep DEF MarkInv, EvidenceInv
<1>2. Timely'
  BY <1>1, TimelyStep
<1>3. ASSUME stops' = 0 PROVE Covered'
  <2>1. CASE UNCHANGED vars
    <3>1. UNCHANGED <<listing, runs, current, watermark, worker, stops>>
      BY <2>1 DEF vars, upstream, catalog
    <3>2. Covered
      BY <1>3, <3>1 DEF MarkInv
    <3> QED BY <3>1, <3>2 DEF Covered, Attended, CallersPass, WatermarkCovers
  <2>2. ASSUME NEW r \in Repos, NEW kind \in StampKinds, UpstreamStar(r, kind) PROVE Covered'
    <3>1. Covered
      BY <1>3, <2>2 DEF UpstreamStar, MarkInv
    <3> QED BY <1>1, <2>2, <3>1, StarCovered
  <2>3. ASSUME NEW r \in Repos, UpstreamUnstar(r) PROVE Covered'
    <3>1. Covered
      BY <1>3, <2>3 DEF UpstreamUnstar, MarkInv
    <3> QED BY <1>1, <2>3, <3>1, UnstarCovered
  <2>4. ASSUME NEW w \in Workers, Stop(w) PROVE FALSE
    <3>1. stops \in Nat /\ stops' = stops + 1
      BY <1>1, <2>4 DEF Stop, TypeOK
    <3> QED BY SMT, <1>3, <3>1
  <2>5. ASSUME NEW w \in Workers, CallerStep(w) PROVE Covered'
    <3>1. ~Stop(w)
      BY <2>4
    <3>2. Covered
      BY <1>1, <1>3, <2>5, <3>1, StepsOfCallers DEF MarkInv
    <3>3. CASE StartFull(w) \/ StartScan(w)
      BY <1>1, <3>2, <3>3, StartCovered
    <3>4. CASE ApplyRejected(w) \/ DetectGap(w) \/ ProviderError(w) \/ FailRun(w)
      BY <1>1, <3>2, <3>4, ReturnCovered
    <3>5. CASE FetchFullPage(w)
      BY <1>1, <3>2, <3>5, FetchFullCovered
    <3>6. CASE RecordPage(w)
      BY <1>1, <3>2, <3>6, RecordCovered
    <3>7. CASE ApplyAuthority(w)
      BY <1>1, <3>2, <3>7, ApplyCovered
    <3>8. CASE FetchScanPage(w)
      BY <1>1, <3>2, <3>8, FetchScanCovered
    <3>9. CASE RecordIngest(w)
      BY <1>1, <3>2, <3>9, IngestCovered
    <3>10. CASE RecordScanPage(w)
      BY <1>1, <3>2, <3>10, ScanPageCovered
    <3>11. CASE CompleteScan(w)
      BY <1>1, <3>2, <3>11, CompleteCovered
    <3> QED BY <2>5, <3>1, <3>3, <3>4, <3>5, <3>6, <3>7, <3>8, <3>9, <3>10, <3>11
            DEF CallerStep, Proceed
  <2>6. \/ UNCHANGED vars
        \/ \E r \in Repos, kind \in StampKinds : UpstreamStar(r, kind)
        \/ \E r \in Repos : UpstreamUnstar(r)
        \/ \E w \in Workers : CallerStep(w)
    BY DEF Next, Owner, CallerStep
  <2> QED BY <2>1, <2>2, <2>3, <2>5, <2>6
<1> QED BY <1>1, <1>2, <1>3 DEF MarkInv

\* With one caller that never stops early, an owner who only adds stars while a run is
\* open, and provider timestamps that are new or missing, everything the listing stamps
\* at or below the high-water mark is starred, so a scan may stop at the mark.
THEOREM MarkCoversWhenUninterrupted ==
  ASSUME OneCaller, ~RemovalsDuringRun, "same" \notin StampKinds
  PROVE  Spec => []MarkCoversUninterrupted
<1>1. MarkInv /\ [Next]_vars => MarkInv'
  BY MarkStep
<1>2. MarkInv => MarkCoversUninterrupted
  BY DEF MarkInv, Covered, MarkCoversUninterrupted
<1> QED BY <1>1, <1>2, MarkInit, PTL DEF Spec
=============================================================================
