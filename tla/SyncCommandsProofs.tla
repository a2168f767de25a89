------------------------- MODULE SyncCommandsProofs -------------------------
(***************************************************************************)
(* Theorems about SyncCommands and the star-list snapshot it composes, for *)
(* every value of their constants: any number of lists, repositories,      *)
(* commands, list runs and concurrent handlers.                            *)
(***************************************************************************)
EXTENDS SyncCommands, FiniteSetTheorems, TLAPS

\* Zenon takes the steps that reason about sets and functions; a step that
\* needs arithmetic or records says SMT.
USE Zenon

-----------------------------------------------------------------------------
(* The inductive invariant.                                                *)

\* A call is at work on a run.
Live(c) == caller[c].pc # "idle"

\* Only what a handler accepted is claimed, and it is dispatched by the claim.
ClaimsOK ==
  /\ \A c \in Commands : inbox[c] = "absent" => dispatches[c] = 0
  /\ \A h \in Handlers : handler[h].pc # "idle" => Acceptable(handler[h].command)

\* A list that does not exist holds nothing, a live call's run was opened, and
\* what an open run has seen includes what is upstream now.
ListsOK ==
  /\ \A l \in Lists \ shelf : filed[l] = {}
  /\ \A c \in Callers : Live(c) => listRuns[caller[c].run].status # "unborn"
  /\ \A i \in OpenListRuns : /\ FiledPairs \subseteq wasFiled[i]
                             /\ Pairs \ FiledPairs \subseteq wasNot[i]

\* A run that was never shared has one live call at most, which keeps it open
\* and stands where its checkpoint stands.
Alone ==
  /\ \A c, d \in Callers :
       c # d /\ Live(c) /\ Live(d) /\ caller[c].run = caller[d].run
         => caller[c].run \in shared
  /\ \A c \in Callers : Live(c) /\ caller[c].run \notin shared =>
       /\ listRuns[caller[c].run].status = "running"
       /\ caller[c].pc \in {"fetch", "record"}
            => caller[c].cursor = listRuns[caller[c].run].cursor

\* What is staged was filed, and what the enumeration has passed without
\* staging it was not.
StagedIsEvidenced ==
  \A i \in OpenListRuns \ shared :
    /\ listRuns[i].staged \subseteq wasFiled[i]
    /\ \A p \in Pairs \ listRuns[i].staged :
         p[1] <= listRuns[i].cursor => p \in wasNot[i]

\* The list lies on the page that a call has fetched and not yet staged, or
\* behind the last page.
OnPage(c, l) ==
  /\ l > caller[c].cursor
  /\ caller[c].page = {} \/ l <= EndCursor(caller[c].page)

\* The same for the page in a call's hands, and for everything at the end.
FetchedIsEvidenced ==
  \A c \in Callers : LET i == caller[c].run IN
    Live(c) /\ i \notin shared =>
      /\ caller[c].pc = "record" =>
           /\ caller[c].items \subseteq wasFiled[i]
           /\ \A p \in Pairs \ caller[c].items : OnPage(c, p[1]) => p \in wasNot[i]
      /\ caller[c].pc = "apply" => Pairs \ listRuns[i].staged \subseteq wasNot[i]

\* The list is upstream whole in a set of pairs.
Whole(l, pairs) ==
  /\ ~(Cardinality(filed[l]) > PageItems)
  /\ \A r \in filed[l] : <<l, r>> \in pairs

\* While the owner changes nothing, what is staged is filed, and the lists that
\* the enumeration has passed are staged whole.
QuietStaged ==
  \A i \in OpenListRuns \ edited :
    /\ listRuns[i].staged \subseteq FiledPairs
    /\ \A l \in shelf : l <= listRuns[i].cursor => Whole(l, listRuns[i].staged)

\* The same for every call at work on the run, shared or not.
QuietFetched ==
  \A c \in Callers : LET i == caller[c].run IN
    Live(c) /\ i \in OpenListRuns \ edited =>
      /\ caller[c].pc \in {"fetch", "record"} =>
           \A l \in shelf : l <= caller[c].cursor => Whole(l, listRuns[i].staged)
      /\ caller[c].pc = "record" =>
           /\ caller[c].items \subseteq FiledPairs
           /\ \A l \in shelf : OnPage(c, l) => Whole(l, caller[c].items)
      /\ caller[c].pc = "apply" => \A l \in shelf : Whole(l, listRuns[i].staged)

\* What the snapshot has on record, and what its runs and calls hold.
CatalogOK == ListEvidenceIsComplete /\ MembersOfActiveLists
RunsOK    == /\ ListsOK /\ Alone /\ StagedIsEvidenced /\ FetchedIsEvidenced
             /\ QuietStaged /\ QuietFetched

IInv == TypeOK /\ OneDispatchPerCommand /\ ClaimsOK /\ CatalogOK /\ RunsOK

-----------------------------------------------------------------------------
(* The first and the last element of a finite set of numbers.              *)

\* The newest element exists: the sets of elements above one of S are finite,
\* so one of them is minimal.
LEMMA NewestIsLast ==
  ASSUME NEW S \in SUBSET Nat, IsFiniteSet(S), S # {}
  PROVE  Newest(S) \in S /\ \A j \in S : j <= Newest(S)
<1> DEFINE Above(i) == {j \in S : j > i}
           T == {Above(i) : i \in S}
<1>1. T \subseteq SUBSET S /\ T # {}
  OBVIOUS
<1>2. IsWellFoundedOn(StrictSubsetOrdering(S), SUBSET S)
  BY FS_StrictSubsetOrderingWellFounded, FS_FiniteSubsetsOfFinite
<1>3. PICK X \in T : \A Y \in T : ~(<<Y, X>> \in StrictSubsetOrdering(S))
  <2> HIDE DEF T
  <2> QED BY <1>1, <1>2, WFMin
<1>4. PICK i \in S : X = Above(i)
  OBVIOUS
<1>5. \A j \in S : j <= i
  <2> SUFFICES ASSUME NEW j \in S, j > i
               PROVE  FALSE
    BY SMT
  <2>1. i \in Nat /\ j \in Nat /\ \A k \in S : k \in Nat
    OBVIOUS
  <2>2. Above(j) \in T
    OBVIOUS
  <2>3. Above(j) \subseteq X /\ j \in X /\ j \notin Above(j)
    <3>1. \A k \in S : k > j => k > i
      BY SMT, <2>1
    <3>2. ~(j > j)
      BY SMT, <2>1
    <3> QED BY <1>4, <3>1, <3>2
  <2>4. <<Above(j), X>> \in StrictSubsetOrdering(S)
    BY <1>1, <2>2, <2>3 DEF StrictSubsetOrdering
  <2> QED BY <1>3, <2>2, <2>4
<1> QED BY <1>5 DEF Newest

\* The oldest element exists, by the same argument downwards.
LEMMA OldestIsFirst ==
  ASSUME NEW S \in SUBSET Nat, IsFiniteSet(S), S # {}
  PROVE  Oldest(S) \in S /\ \A j \in S : Oldest(S) <= j
<1> DEFINE Below(i) == {j \in S : j < i}
           T == {Below(i) : i \in S}
<1>1. T \subseteq SUBSET S /\ T # {}
  OBVIOUS
<1>2. IsWellFoundedOn(StrictSubsetOrdering(S), SUBSET S)
  BY FS_StrictSubsetOrderingWellFounded, FS_FiniteSubsetsOfFinite
<1>3. PICK X \in T : \A Y \in T : ~(<<Y, X>> \in StrictSubsetOrdering(S))
  <2> HIDE DEF T
  <2> QED BY <1>1, <1>2, WFMin
<1>4. PICK i \in S : X = Below(i)
  OBVIOUS
<1>5. \A j \in S : i <= j
  <2> SUFFICES ASSUME NEW j \in S, j < i
               PROVE  FALSE
    BY SMT
  <2>1. i \in Nat /\ j \in Nat /\ \A k \in S : k \in Nat
    OBVIOUS
  <2>2. Below(j) \in T
    OBVIOUS
  <2>3. Below(j) \subseteq X /\ j \in X /\ j \notin Below(j)
    <3>1. \A k \in S : k < j => k < i
      BY SMT, <2>1
    <3>2. ~(j < j)
      BY SMT, <2>1
    <3> QED BY <1>4, <3>1, <3>2
  <2>4. <<Below(j), X>> \in StrictSubsetOrdering(S)
    BY <1>1, <2>2, <2>3 DEF StrictSubsetOrdering
  <2> QED BY <1>3, <2>2, <2>4
<1> QED BY <1>5 DEF Oldest

\* The run ids that resuming and opening choose from.
LEMMA RunChosen ==
  ASSUME NEW S \in SUBSET ListRunIds, S # {}
  PROVE  Newest(S) \in S /\ Oldest(S) \in S
<1>1. IsFiniteSet(ListRunIds)
  BY SMT, ListConstants, FS_Interval DEF ListRunIds
<1>2. S \in SUBSET Nat /\ IsFiniteSet(S)
  <2>1. ListRunIds \subseteq Nat
    BY SMT, ListConstants DEF ListRunIds
  <2> QED BY <1>1, <2>1, FS_Subset
<1> QED BY <1>2, NewestIsLast, OldestIsFirst

-----------------------------------------------------------------------------
(* The pages of the connection.                                            *)

\* A page that is not empty holds every list upstream between the cursor it
\* was asked for and the end cursor it returns (list_user_lists).
LEMMA PageIsContiguous ==
  ASSUME NEW cursor \in Nat, shelf \subseteq Lists,
         ListUserLists(cursor) # {}
  PROVE  /\ EndCursor(ListUserLists(cursor)) \in ListUserLists(cursor)
         /\ \A l \in shelf : l > cursor /\ l <= EndCursor(ListUserLists(cursor))
                               => l \in ListUserLists(cursor)
<1> DEFINE page == ListUserLists(cursor)
           last == EndCursor(page)
           upto(l) == {k \in shelf : cursor < k /\ k <= l}
<1>1. page \subseteq shelf /\ shelf \subseteq Nat /\ IsFiniteSet(shelf) /\ IsFiniteSet(page)
  <2>1. shelf \subseteq Nat /\ IsFiniteSet(shelf)
    BY ListConstants, FS_Subset
  <2>2. page \subseteq shelf
    BY DEF ListUserLists
  <2> QED BY <2>1, <2>2, FS_Subset
<1>2. last \in page /\ \A j \in page : j <= last
  <2> HIDE DEF page
  <2> QED BY <1>1, NewestIsLast DEF EndCursor, page
<1>3. ASSUME NEW l \in shelf, l > cursor, l <= last
      PROVE  l \in page
  <2>1. IsFiniteSet(upto(last)) /\ Cardinality(upto(l)) <= Cardinality(upto(last))
    <3>1. upto(last) \subseteq shelf /\ upto(l) \subseteq upto(last)
      <4>1. l \in Nat /\ last \in Nat /\ \A k \in shelf : k \in Nat
        BY <1>1, <1>2
      <4> HIDE DEF last
      <4>2. \A k \in shelf : k <= l => k <= last
        BY SMT, <4>1, <1>3
      <4> QED BY <4>2
    <3> HIDE DEF upto, last
    <3> QED BY <1>1, <3>1, FS_Subset
  <2>2. Cardinality(upto(last)) <= PageSize
    BY <1>2 DEF ListUserLists
  <2>3. Cardinality(upto(l)) \in Nat /\ Cardinality(upto(last)) \in Nat
    <3>1. IsFiniteSet(upto(l))
      BY <1>1, FS_Subset, upto(l) \subseteq shelf
    <3> HIDE DEF upto, last
    <3> QED BY <2>1, <3>1, FS_CardinalityType
  <2>4. Cardinality(upto(l)) <= PageSize
    <3> HIDE DEF upto, last
    <3> QED BY SMT, <2>1, <2>2, <2>3, ListConstants
  <2> QED BY <1>3, <2>4 DEF ListUserLists
<1> QED BY <1>2, <1>3

\* An empty page means that no list upstream follows the cursor.
LEMMA EmptyPageIsLast ==
  ASSUME NEW cursor \in Nat, shelf \subseteq Lists,
         ListUserLists(cursor) = {}
  PROVE  \A l \in shelf : l <= cursor
<1> SUFFICES ASSUME NEW k \in shelf, k > cursor
             PROVE  FALSE
  BY SMT, ListConstants
<1> DEFINE later == {l \in shelf : l > cursor}
           l == Oldest(later)
<1>1. later \in SUBSET Nat /\ IsFiniteSet(later) /\ later # {}
  BY ListConstants, FS_Subset, later \subseteq Lists
<1>2. l \in later /\ \A j \in later : l <= j
  <2> HIDE DEF later
  <2> QED BY <1>1, OldestIsFirst
<1>3. {j \in shelf : cursor < j /\ j <= l} = {l}
  <2> HIDE DEF l
  <2> QED BY SMT, <1>1, <1>2
<1>4. Cardinality({j \in shelf : cursor < j /\ j <= l}) <= PageSize
  <2>1. Cardinality({l}) = 1
    BY FS_Singleton
  <2> HIDE DEF l, later
  <2> QED BY SMT, <1>3, <2>1, ListConstants
<1> HIDE DEF l
<1> QED BY <1>2, <1>4 DEF ListUserLists

-----------------------------------------------------------------------------
(* Types.                                                                  *)

LEMMA InitTyped == Init => TypeOK
<1> SUFFICES ASSUME Init PROVE TypeOK
  OBVIOUS
<1>1. ListTypeOK
  BY ListConstants DEF Init, ListInit, ListTypeOK, ListRun, Caller, IdleCaller, ListRunIds
<1>2. (CHOOSE c \in Commands : TRUE) \in Commands
  BY CommandConstants
<1> QED BY <1>1, <1>2 DEF Init, TypeOK, Handler

\* A call that returns, or that crashes, is idle.
LEMMA IdleTyped ==
  ASSUME NEW result \in {"none", "completed", "paused", "failed", "error"}
  PROVE  IdleCaller(result) \in Caller /\ IdleCaller(result).pc = "idle"
BY DEF IdleCaller, Caller

LEMMA ReturnTyped ==
  ASSUME ListTypeOK, NEW c \in Callers,
         NEW result \in {"none", "completed", "paused", "failed", "error"},
         Return(c, result)
  PROVE  /\ caller' \in [Callers -> Caller]
         /\ \A d \in Callers : caller'[d].pc # "idle" => caller'[d].run \in ListRunIds
BY IdleTyped DEF ListTypeOK, Return

\* The owner's edits.
LEMMA EditTyped ==
  ASSUME ListTypeOK, NEW s \in SUBSET Lists, NEW f \in [Lists -> SUBSET Repos], Edit(s, f)
  PROVE  ListTypeOK'
BY SMT, ListConstants DEF Edit, ListTypeOK, listCatalog, Pairs, OpenListRuns

LEMMA OwnerIsEdit ==
  ASSUME ListTypeOK, ListOwner
  PROVE  \E s \in SUBSET Lists, f \in [Lists -> SUBSET Repos] :
           /\ Edit(s, f)
           /\ (\A l \in Lists \ shelf : filed[l] = {}) => \A l \in Lists \ s : f[l] = {}
<1>1. CASE \E l \in Lists, r \in Repos : FileUpstream(l, r)
  <2> PICK l \in Lists, r \in Repos : FileUpstream(l, r)
    BY <1>1
  <2> DEFINE f == [filed EXCEPT ![l] = @ \union {r}]
  <2>1. f \in [Lists -> SUBSET Repos] /\ shelf \in SUBSET Lists
    BY DEF ListTypeOK
  <2>2. (\A k \in Lists \ shelf : filed[k] = {}) => \A k \in Lists \ shelf : f[k] = {}
    BY DEF ListTypeOK, FileUpstream
  <2> QED BY <2>1, <2>2 DEF FileUpstream
<1>2. CASE \E l \in Lists, r \in Repos : UnfileUpstream(l, r)
  <2> PICK l \in Lists, r \in Repos : UnfileUpstream(l, r)
    BY <1>2
  <2> DEFINE f == [filed EXCEPT ![l] = @ \ {r}]
  <2>1. f \in [Lists -> SUBSET Repos] /\ shelf \in SUBSET Lists
    BY DEF ListTypeOK
  <2>2. (\A k \in Lists \ shelf : filed[k] = {}) => \A k \in Lists \ shelf : f[k] = {}
    BY DEF ListTypeOK, UnfileUpstream
  <2> QED BY <2>1, <2>2 DEF UnfileUpstream
<1>3. CASE \E l \in Lists : CreateList(l)
  <2> PICK l \in Lists : CreateList(l)
    BY <1>3
  <2> DEFINE f == [filed EXCEPT ![l] = {}]
             s == shelf \union {l}
  <2>1. f \in [Lists -> SUBSET Repos] /\ s \in SUBSET Lists
    BY DEF ListTypeOK
  <2>2. (\A k \in Lists \ shelf : filed[k] = {}) => \A k \in Lists \ s : f[k] = {}
    BY DEF ListTypeOK
  <2> QED BY <2>1, <2>2 DEF CreateList
<1>4. CASE \E l \in Lists : DeleteList(l)
  <2> PICK l \in Lists : DeleteList(l)
    BY <1>4
  <2> DEFINE f == [filed EXCEPT ![l] = {}]
             s == shelf \ {l}
  <2>1. f \in [Lists -> SUBSET Repos] /\ s \in SUBSET Lists
    BY DEF ListTypeOK
  <2>2. (\A k \in Lists \ shelf : filed[k] = {}) => \A k \in Lists \ s : f[k] = {}
    BY DEF ListTypeOK
  <2> QED BY <2>1, <2>2 DEF DeleteList
<1> QED BY <1>1, <1>2, <1>3, <1>4 DEF ListOwner

\* A page that is fetched, and its end cursor.
LEMMA PageTyped ==
  ASSUME ListTypeOK, NEW c \in Callers
  PROVE  /\ caller[c].cursor \in Nat
         /\ ListUserLists(caller[c].cursor) \in SUBSET Lists
         /\ \A page \in SUBSET Lists : EndCursor(page) \in {0} \union Lists
<1>1. caller[c].cursor \in Nat
  <2>1. caller[c].cursor \in {0} \union Lists
    BY DEF ListTypeOK, Caller
  <2>2. {0} \union Lists \subseteq Nat
    BY SMT, ListConstants
  <2> QED BY <2>1, <2>2
<1>2. ListUserLists(caller[c].cursor) \in SUBSET Lists
  BY DEF ListTypeOK, ListUserLists
<1>3. ASSUME NEW page \in SUBSET Lists, page # {}
      PROVE  Newest(page) \in page
  <2>1. page \in SUBSET Nat /\ IsFiniteSet(page)
    BY ListConstants, FS_Subset
  <2> QED BY <1>3, <2>1, NewestIsLast
<1> QED BY <1>1, <1>2, <1>3 DEF EndCursor

\* A live call stays on its run.
LEMMA MovesTyped ==
  ASSUME ListTypeOK, NEW c \in Callers, caller[c].pc # "idle",
         NEW k \in Caller, k.run = caller[c].run, caller' = [caller EXCEPT ![c] = k]
  PROVE  /\ caller' \in [Callers -> Caller]
         /\ \A d \in Callers : caller'[d].pc # "idle" => caller'[d].run \in ListRunIds
BY DEF ListTypeOK

\* The local state and the run row with some of their fields set.
LEMMA FieldsTyped ==
  ASSUME NEW k \in Caller, NEW pc \in {"fetch", "record", "apply", "failing"},
         NEW cursor \in {0} \union Lists, NEW page \in SUBSET Lists,
         NEW items \in SUBSET Pairs
  PROVE  /\ [k EXCEPT !.pc = pc] \in Caller
         /\ [k EXCEPT !.pc = pc, !.page = page, !.items = items] \in Caller
         /\ [k EXCEPT !.pc = pc, !.cursor = cursor, !.page = page, !.items = items] \in Caller
BY DEF Caller

LEMMA RowTyped ==
  ASSUME NEW q \in ListRun, NEW status \in {"unborn", "running", "completed", "failed"},
         NEW cursor \in {0} \union Lists, NEW staged \in SUBSET Pairs,
         NEW repeated \in SUBSET Pairs
  PROVE  /\ [q EXCEPT !.status = status, !.staged = staged, !.repeated = repeated] \in ListRun
         /\ [q EXCEPT !.cursor = cursor, !.staged = staged, !.repeated = repeated] \in ListRun
BY DEF ListRun

\* The steps of a call.
LEMMA CallTyped ==
  ASSUME ListTypeOK, NEW c \in Callers,
         \/ ResumeListRun(c) \/ OpenListRun(c)
         \/ ProceedLists(c) \/ InterruptLists(c)
  PROVE  ListTypeOK'
<1> USE DEF listUpstream, listCatalog, listHistory
<1>1. CASE ResumeListRun(c)
  <2>1. Newest(OpenListRuns) \in ListRunIds
    BY <1>1, RunChosen DEF ResumeListRun, OpenListRuns
  <2> DEFINE i == Newest(OpenListRuns)
  <2>2. listRuns[i].cursor \in {0} \union Lists
    BY <2>1 DEF ListTypeOK, ListRun
  <2> HIDE DEF i
  <2>3. [IdleCaller("none") EXCEPT !.pc = "fetch", !.run = i, !.cursor = listRuns[i].cursor]
          \in Caller
    BY <2>1, <2>2 DEF IdleCaller, Caller, i
  <2>4. /\ caller' \in [Callers -> Caller]
        /\ \A d \in Callers : caller'[d].pc # "idle" => caller'[d].run \in ListRunIds
    BY <1>1, <2>1, <2>3 DEF ResumeListRun, i, ListTypeOK, IdleCaller
  <2> QED BY <1>1, <2>4 DEF ResumeListRun, ListTypeOK
<1>2. CASE OpenListRun(c)
  <2> DEFINE unborn == {j \in ListRunIds : listRuns[j].status = "unborn"}
             i == Oldest(unborn)
  <2>1. i \in ListRunIds
    BY <1>2, RunChosen DEF OpenListRun
  <2> HIDE DEF i
  <2>2. [IdleCaller("none") EXCEPT !.pc = "fetch", !.run = i] \in Caller
    BY <2>1 DEF IdleCaller, Caller
  <2>3. /\ caller' \in [Callers -> Caller]
        /\ \A d \in Callers : caller'[d].pc # "idle" => caller'[d].run \in ListRunIds
    BY <1>2, <2>1, <2>2 DEF OpenListRun, i, ListTypeOK, IdleCaller
  <2>4. listRuns' \in [ListRunIds -> ListRun]
    BY <1>2, <2>1 DEF OpenListRun, i, ListTypeOK, ListRun
  <2>5. wasFiled' \in [ListRunIds -> SUBSET Pairs] /\ wasNot' \in [ListRunIds -> SUBSET Pairs]
    BY <1>2, <2>1 DEF OpenListRun, i, ListTypeOK, FiledPairs
  <2> QED BY <1>2, <2>3, <2>4, <2>5 DEF OpenListRun, ListTypeOK
<1>3. CASE FetchListPage(c)
  <2> DEFINE page == ListUserLists(caller[c].cursor)
             items == {p \in FiledPairs : p[1] \in page}
  <2>1. page \in SUBSET Lists /\ items \in SUBSET Pairs
    BY PageTyped DEF FiledPairs
  <2> HIDE DEF page, items
  <2>2. caller' = [caller EXCEPT ![c] = [@ EXCEPT !.pc = "record", !.page = page, !.items = items]]
    BY <1>3 DEF FetchListPage, page, items
  <2>3. /\ caller' \in [Callers -> Caller]
        /\ \A d \in Callers : caller'[d].pc # "idle" => caller'[d].run \in ListRunIds
    <3>1. caller[c] \in Caller
      BY DEF ListTypeOK
    <3> DEFINE k == [caller[c] EXCEPT !.pc = "record", !.page = page, !.items = items]
    <3>2. k \in Caller
      BY <2>1, <3>1, FieldsTyped
    <3>3. k.run = caller[c].run /\ caller' = [caller EXCEPT ![c] = k]
      BY <2>2, <3>1 DEF ListTypeOK, Caller
    <3> HIDE DEF k
    <3> QED BY <1>3, <3>2, <3>3, MovesTyped DEF FetchListPage
  <2> QED BY <1>3, <2>3 DEF FetchListPage, ListTypeOK
<1>4. CASE FetchTruncated(c)
  <2>1. /\ caller' \in [Callers -> Caller]
        /\ \A d \in Callers : caller'[d].pc # "idle" => caller'[d].run \in ListRunIds
    <3>1. caller[c] \in Caller
      BY DEF ListTypeOK
    <3> DEFINE k == [caller[c] EXCEPT !.pc = "failing"]
    <3>2. k \in Caller
      BY <3>1 DEF Caller
    <3>3. k.run = caller[c].run /\ caller' = [caller EXCEPT ![c] = k]
      BY <1>4, <3>1 DEF FetchTruncated, ListTypeOK, Caller
    <3> HIDE DEF k
    <3> QED BY <1>4, <3>2, <3>3, MovesTyped DEF FetchTruncated
  <2> QED BY <1>4, <2>1 DEF FetchTruncated, ListTypeOK
<1>5. CASE FailListRun(c)
  <2>1. caller[c].run \in ListRunIds
    BY <1>5 DEF FailListRun, ListTypeOK
  <2>2. listRuns' \in [ListRunIds -> ListRun]
    <3>1. listRuns[caller[c].run] \in ListRun
      BY <2>1 DEF ListTypeOK
    <3>2. listRuns[caller[c].run].status \in {"unborn", "running", "completed", "failed"}
      BY <3>1 DEF ListRun
    <3> QED BY <1>5, <2>1, <3>1, <3>2, RowTyped DEF FailListRun, ListTypeOK
  <2> QED BY <1>5, <2>2, ReturnTyped DEF FailListRun, ListTypeOK
<1>6. CASE RecordListPage(c)
  <2> DEFINE next == EndCursor(caller[c].page)
  <2>1. caller[c].run \in ListRunIds /\ caller[c].items \in SUBSET Pairs
    BY <1>6 DEF RecordListPage, ListTypeOK, Caller
  <2>2. next \in {0} \union Lists
    BY PageTyped DEF ListTypeOK, Caller
  <2> HIDE DEF next
  <2>3. listRuns' \in [ListRunIds -> ListRun]
    <3> DEFINE row == listRuns[caller[c].run]
               staged == row.staged \union caller[c].items
               repeated == row.repeated \union (row.staged \intersect caller[c].items)
    <3>1. row \in ListRun
      BY <2>1 DEF ListTypeOK
    <3>2. staged \in SUBSET Pairs /\ repeated \in SUBSET Pairs
      BY <2>1, <3>1 DEF ListRun
    <3>3. listRuns' = [listRuns EXCEPT ![caller[c].run] =
                         [row EXCEPT !.cursor = next, !.staged = staged, !.repeated = repeated]]
      BY <1>6 DEF RecordListPage, next
    <3> HIDE DEF row, staged, repeated
    <3> QED BY <2>1, <2>2, <3>1, <3>2, <3>3, RowTyped DEF ListTypeOK
  <2>4. /\ caller' \in [Callers -> Caller]
        /\ \A d \in Callers : caller'[d].pc # "idle" => caller'[d].run \in ListRunIds
    <3>1. caller[c] \in Caller
      BY DEF ListTypeOK
    <3> DEFINE pc == IF caller[c].page = {} THEN "apply" ELSE "fetch"
               k == [caller[c] EXCEPT !.pc = pc, !.cursor = next, !.page = {}, !.items = {}]
    <3>2. k \in Caller
      BY <2>2, <3>1, FieldsTyped
    <3>3. k.run = caller[c].run /\ caller' = [caller EXCEPT ![c] = k]
      BY <1>6, <3>1 DEF RecordListPage, next, ListTypeOK, Caller
    <3> HIDE DEF k
    <3> QED BY <1>6, <3>2, <3>3, MovesTyped DEF RecordListPage
  <2> QED BY <1>6, <2>3, <2>4 DEF RecordListPage, ListTypeOK
<1>7. CASE ApplyListAuthority(c)
  <2> DEFINE i == caller[c].run
  <2>1. i \in ListRunIds
    BY <1>7 DEF ApplyListAuthority, ListTypeOK
  <2>2. listRuns' \in [ListRunIds -> ListRun]
    <3>1. listRuns[i] \in ListRun
      BY <2>1 DEF ListTypeOK
    <3> QED BY <1>7, <2>1, <3>1, RowTyped DEF ApplyListAuthority, ListTypeOK
  <2>3. starLists' \in [Lists -> [status : {"unknown", "active", "removed"},
                                  evidence : {0} \union ListRunIds]]
    BY <1>7, <2>1 DEF ApplyListAuthority, ListTypeOK, PromotedLists
  <2>4. members' \in [Pairs -> [state : {"unknown", "member", "former"},
                                evidence : {0} \union ListRunIds]]
    BY <1>7, <2>1 DEF ApplyListAuthority, ListTypeOK, PromotedMembers
  <2>5. lastSeen' \in [Pairs -> {"none", "member", "removed"}]
    BY <1>7, <2>1 DEF ApplyListAuthority, ListTypeOK, MembershipObservations
  <2> QED BY <1>7, <2>2, <2>3, <2>4, <2>5, ReturnTyped DEF ApplyListAuthority, ListTypeOK
<1>8. CASE ListAuthorityRefused(c)
  BY <1>8, ReturnTyped DEF ListAuthorityRefused, ListTypeOK
<1>9. CASE InterruptLists(c)
  <2>1. stops' \in Nat
    BY SMT, <1>9 DEF InterruptLists, ListProviderError, PauseListRun, StopListCall, ListTypeOK
  <2>2. /\ caller' \in [Callers -> Caller]
        /\ \A d \in Callers : caller'[d].pc # "idle" => caller'[d].run \in ListRunIds
    <3>1. CASE ListProviderError(c)
      <4>1. caller[c] \in Caller
        BY DEF ListTypeOK
      <4> DEFINE k == [caller[c] EXCEPT !.pc = "failing"]
      <4>2. k \in Caller
        BY <4>1 DEF Caller
      <4>3. k.run = caller[c].run /\ caller' = [caller EXCEPT ![c] = k]
        BY <3>1, <4>1 DEF ListProviderError, ListTypeOK, Caller
      <4> HIDE DEF k
      <4> QED BY <3>1, <4>2, <4>3, MovesTyped DEF ListProviderError
    <3>2. CASE PauseListRun(c) \/ StopListCall(c)
      BY <3>2, ReturnTyped DEF PauseListRun, StopListCall
    <3> QED BY <1>9, <3>1, <3>2 DEF InterruptLists
  <2> QED BY <1>9, <2>1, <2>2
        DEF InterruptLists, ListProviderError, PauseListRun, StopListCall, ListTypeOK
<1> QED BY <1>1, <1>2, <1>3, <1>4, <1>5, <1>6, <1>7, <1>8, <1>9 DEF ProceedLists

\* The steps of a handler, and the crash.
LEMMA StepTyped == TypeOK /\ [Next]_vars => TypeOK'
<1> SUFFICES ASSUME TypeOK, [Next]_vars PROVE TypeOK'
  OBVIOUS
<1> USE DEF commandVars
<1>1. CASE ListOwner /\ UNCHANGED <<commandVars, shared>>
  BY <1>1, OwnerIsEdit, EditTyped DEF TypeOK
<1>2. CASE \E h \in Handlers, c \in Commands : Deliver(h, c)
  BY SMT, <1>2 DEF Deliver, TypeOK, Handler, listVars, listUpstream, listCatalog, listHistory, ListTypeOK
<1>3. CASE \E h \in Handlers : Claim(h)
  <2> PICK h \in Handlers : Claim(h)
    BY <1>3
  <2>1. ListTypeOK'
    BY DEF Claim, TypeOK, listVars, listUpstream, listCatalog, listHistory, ListTypeOK
  <2> QED BY SMT, <2>1 DEF Claim, TypeOK, Handler, Go
<1>4. CASE \E h \in Handlers, gap \in BOOLEAN : StarFlowReturns(h, gap)
  <2> PICK h \in Handlers, gap \in BOOLEAN : StarFlowReturns(h, gap)
    BY <1>4
  <2>1. ListTypeOK'
    BY DEF StarFlowReturns, TypeOK, listVars, listUpstream, listCatalog, listHistory, ListTypeOK
  <2> QED BY SMT, <2>1 DEF StarFlowReturns, TypeOK, Handler, Go
<1>5. CASE \E h \in Handlers : StarFlowErrs(h)
  <2> PICK h \in Handlers : StarFlowErrs(h)
    BY <1>5
  <2>1. ListTypeOK'
    BY SMT DEF StarFlowErrs, TypeOK, listUpstream, listCatalog, listHistory, ListTypeOK
  <2> QED BY <2>1 DEF StarFlowErrs, TypeOK, Handler, Go
<1>6. CASE \E h \in Handlers : StartLists(h)
  <2> PICK h \in Handlers : StartLists(h)
    BY <1>6
  <2>1. ListTypeOK'
    BY CallTyped DEF StartLists, TypeOK, Handlers
  <2>2. shared' \subseteq ListRunIds
    BY DEF StartLists, Sharing, TypeOK
  <2> QED BY <2>1, <2>2 DEF StartLists, TypeOK, Handler, Go
<1>7. CASE \E h \in Handlers : RunLists(h)
  BY <1>7, CallTyped DEF RunLists, TypeOK, Handlers
<1>8. CASE \E h \in Handlers : ListsReturn(h)
  <2> PICK h \in Handlers : ListsReturn(h)
    BY <1>8
  <2>1. ListTypeOK'
    BY DEF ListsReturn, TypeOK, listVars, listUpstream, listCatalog, listHistory, ListTypeOK
  <2>2. caller[h].result \in {"none", "completed", "paused", "failed", "error"}
    BY DEF TypeOK, ListTypeOK, Caller, Handlers
  <2> QED BY SMT, <2>1, <2>2 DEF ListsReturn, TypeOK, Handler, Go
<1>9. CASE \E h \in Handlers : Consume(h)
  <2> PICK h \in Handlers : Consume(h)
    BY <1>9
  <2>1. ListTypeOK'
    BY DEF Consume, TypeOK, listVars, listUpstream, listCatalog, listHistory, ListTypeOK
  <2> QED BY <2>1 DEF Consume, TypeOK, Handler, Go
<1>10. CASE Crash
  <2>1. ListTypeOK'
    BY SMT, <1>10, IdleTyped
       DEF Crash, TypeOK, Handlers, listUpstream, listCatalog, listHistory, ListTypeOK
  <2>2. handler' \in [Handlers -> Handler]
    BY <1>10 DEF Crash, TypeOK, Handler
  <2> QED BY <1>10, <2>1, <2>2 DEF Crash, TypeOK
<1>11. CASE UNCHANGED vars
  BY <1>11 DEF vars, TypeOK, listVars, listUpstream, listCatalog, listHistory, ListTypeOK
<1> QED BY <1>1, <1>2, <1>3, <1>4, <1>5, <1>6, <1>7, <1>8, <1>9, <1>10, <1>11 DEF Next

-----------------------------------------------------------------------------
(* The claims of the inbox.                                                *)

\* The claim of a handler is the only step that dispatches, and it takes the
\* identity from absent to claimed (handle_sync_command).
LEMMA StepClaims ==
  TypeOK /\ OneDispatchPerCommand /\ ClaimsOK /\ [Next]_vars
    => OneDispatchPerCommand' /\ ClaimsOK'
<1> SUFFICES ASSUME TypeOK, OneDispatchPerCommand, ClaimsOK, [Next]_vars
             PROVE  OneDispatchPerCommand' /\ ClaimsOK'
  OBVIOUS
<1> USE DEF commandVars
<1>1. UNCHANGED <<account, envelope>>
  BY DEF Next, Deliver, Claim, StarFlowReturns, StarFlowErrs, StartLists, RunLists,
         ListsReturn, Consume, Crash, vars
<1>2. CASE \E h \in Handlers, c \in Commands : Deliver(h, c)
  BY SMT, <1>1, <1>2 DEF Deliver, Acceptable, TypeOK, OneDispatchPerCommand, ClaimsOK
<1>3. CASE \E h \in Handlers : Claim(h)
  <2> PICK h \in Handlers : Claim(h)
    BY <1>3
  <2> DEFINE c == handler[h].command
  <2>1. c \in Commands /\ Acceptable(c)
    BY DEF TypeOK, Handler, ClaimsOK, Claim
  <2>2. \A g \in Handlers : handler'[g].command = handler[g].command
    BY DEF Claim, Go, TypeOK, Handler
  <2>3. \A g \in Handlers : handler'[g].pc # "idle" => handler[g].pc # "idle"
    BY DEF Claim, Go, TypeOK, Handler
  <2>4. \A g \in Handlers : (handler[g].pc # "idle" => Acceptable(handler[g].command))'
    BY <1>1, <2>2, <2>3 DEF ClaimsOK, Acceptable
  <2>5. ASSUME NEW d \in Commands
        PROVE  /\ inbox'[d] = "absent" => dispatches'[d] = 0
               /\ dispatches'[d] <= 1
               /\ inbox'[d] # "absent" => envelope'[d] # "malformed" /\ account' = "connected"
    <3>1. CASE d # c
      BY <1>1, <2>1, <3>1 DEF Claim, TypeOK, OneDispatchPerCommand, ClaimsOK
    <3>2. CASE d = c /\ inbox[c] = "absent"
      BY SMT, <1>1, <2>1, <3>2 DEF Claim, TypeOK, OneDispatchPerCommand, ClaimsOK, Acceptable
    <3>3. CASE d = c /\ inbox[c] # "absent"
      BY <1>1, <2>1, <3>3 DEF Claim, TypeOK, OneDispatchPerCommand, ClaimsOK, Acceptable
    <3> QED BY <3>1, <3>2, <3>3
  <2> QED BY <2>4, <2>5 DEF OneDispatchPerCommand, ClaimsOK
<1>4. CASE \E h \in Handlers : Consume(h)
  <2> PICK h \in Handlers : Consume(h)
    BY <1>4
  <2>1. Acceptable(handler[h].command) /\ handler[h].command \in Commands
    BY DEF ClaimsOK, Consume, TypeOK, Handler
  <2>2. \A g \in Handlers : /\ handler'[g].command = handler[g].command
                            /\ handler'[g].pc # "idle" => handler[g].pc # "idle"
    BY DEF Consume, Go, TypeOK, Handler
  <2> QED BY <1>1, <2>1, <2>2 DEF Consume, Acceptable, TypeOK, OneDispatchPerCommand, ClaimsOK
<1>5. CASE \/ ListOwner /\ UNCHANGED <<commandVars, shared>>
           \/ \E h \in Handlers : \/ \E gap \in BOOLEAN : StarFlowReturns(h, gap)
                                  \/ StarFlowErrs(h) \/ StartLists(h)
                                  \/ RunLists(h) \/ ListsReturn(h)
           \/ Crash \/ UNCHANGED vars
  <2>1. UNCHANGED <<inbox, dispatches>>
    BY <1>5 DEF StarFlowReturns, StarFlowErrs, StartLists, RunLists, ListsReturn, Crash, vars
  <2>2. \A g \in Handlers : /\ handler'[g].command = handler[g].command
                            /\ handler'[g].pc # "idle" => handler[g].pc # "idle"
    BY SMT, <1>5 DEF StarFlowReturns, StarFlowErrs, StartLists, RunLists, ListsReturn, Crash, vars,
                Go, TypeOK, Handler
  <2> QED BY <1>1, <2>1, <2>2 DEF OneDispatchPerCommand, ClaimsOK, Acceptable
<1> QED BY <1>2, <1>3, <1>4, <1>5 DEF Next

-----------------------------------------------------------------------------
(* The catalog.                                                            *)

\* Only the promotion writes the catalog, and a completed run stays completed.
LEMMA CatalogKept ==
  ASSUME TypeOK, CatalogOK, UNCHANGED listCatalog,
         \A i \in ListRunIds : listRuns[i].status = "completed"
                                 => listRuns'[i].status = "completed"
  PROVE  CatalogOK'
<1>1. /\ \A p \in Pairs : members[p].evidence \in {0} \union ListRunIds
      /\ \A l \in Lists : starLists[l].evidence \in {0} \union ListRunIds
  BY DEF TypeOK, ListTypeOK
<1>2. ListEvidenceIsComplete'
  BY <1>1 DEF CatalogOK, ListEvidenceIsComplete, listCatalog
<1>3. MembersOfActiveLists'
  BY DEF CatalogOK, MembersOfActiveLists, listCatalog, MemberPairs, CurrentStarLists
<1> QED BY <1>2, <1>3 DEF CatalogOK

\* After the promotion the members are exactly the staged pairs, and everything
\* it writes cites the completed run (apply_list_authority_and_complete).
LEMMA PromotionWrites ==
  ASSUME TypeOK, CatalogOK, NEW c \in Callers, ApplyListAuthority(c)
  PROVE  /\ caller[c].run \in ListRunIds
         /\ listRuns'[caller[c].run].status = "completed"
         /\ MemberPairs' = listRuns[caller[c].run].staged
         /\ CurrentStarLists' = StagedLists(caller[c].run)
         /\ CatalogOK'
<1> DEFINE i == caller[c].run
<1>1. i \in ListRunIds /\ listRuns[i] \in ListRun
  BY DEF ApplyListAuthority, TypeOK, ListTypeOK
<1>2. \A j \in ListRunIds : /\ listRuns[j].status = "completed" => listRuns'[j].status = "completed"
                            /\ j = i => listRuns'[j].status = "completed"
  BY <1>1 DEF ApplyListAuthority, TypeOK, ListTypeOK, ListRun
<1> HIDE DEF i
<1>3. /\ members' = PromotedMembers(i) /\ starLists' = PromotedLists(i)
      /\ lastSeen' = MembershipObservations(i)
  BY DEF ApplyListAuthority, i
<1>4. listRuns[i].staged \subseteq Pairs
  BY <1>1 DEF ListRun
<1>5. MemberPairs' = listRuns[i].staged
  BY <1>3, <1>4 DEF MemberPairs, PromotedMembers, AbsentMembers
<1>6. StagedLists(i) \subseteq Lists
  BY <1>4 DEF StagedLists, Pairs
<1>7. CurrentStarLists' = StagedLists(i)
  BY <1>3, <1>6 DEF CurrentStarLists, PromotedLists
<1>8. \A p \in Pairs : members[p].evidence \in {0} \union ListRunIds
  BY DEF TypeOK, ListTypeOK
<1>9. \A l \in Lists : starLists[l].evidence \in {0} \union ListRunIds
  BY DEF TypeOK, ListTypeOK
<1>10. \A p \in Pairs : \/ members'[p].evidence = i
                        \/ members'[p] = members[p]
  BY <1>3 DEF PromotedMembers
<1>11. \A l \in Lists : \/ starLists'[l].evidence \in {0, i}
                        \/ starLists'[l] = starLists[l]
  BY <1>3 DEF PromotedLists
<1>12. ListEvidenceIsComplete'
  BY <1>1, <1>2, <1>8, <1>9, <1>10, <1>11 DEF CatalogOK, ListEvidenceIsComplete
<1>13. \A p \in MemberPairs' : p[1] \in CurrentStarLists'
  BY <1>5, <1>7 DEF StagedLists
<1>14. ASSUME NEW p \in Pairs, members'[p].evidence # 0
       PROVE  lastSeen'[p] = IF members'[p].state = "member" THEN "member" ELSE "removed"
  <2>1. CASE p \in listRuns[i].staged
    BY SMT, <1>3, <2>1 DEF PromotedMembers, MembershipObservations
  <2>2. CASE p \notin listRuns[i].staged /\ p \in AbsentMembers(i)
    BY <1>3, <2>2 DEF PromotedMembers, MembershipObservations
  <2>3. CASE p \notin listRuns[i].staged /\ p \notin AbsentMembers(i)
    BY <1>3, <1>14, <2>3 DEF PromotedMembers, MembershipObservations, CatalogOK, MembersOfActiveLists
  <2> QED BY <2>1, <2>2, <2>3
<1>15. MembersOfActiveLists'
  BY <1>13, <1>14 DEF MembersOfActiveLists
<1> QED BY <1>1, <1>2, <1>5, <1>7, <1>12, <1>15 DEF CatalogOK, i

-----------------------------------------------------------------------------
(* The runs and the calls at work on them.                                 *)

LEMMA InitRuns == Init => CatalogOK /\ RunsOK /\ OneDispatchPerCommand /\ ClaimsOK
<1> SUFFICES ASSUME Init PROVE CatalogOK /\ RunsOK /\ OneDispatchPerCommand /\ ClaimsOK
  OBVIOUS
<1>1. /\ \A c \in Callers : ~Live(c)
      /\ OpenListRuns = {}
  BY DEF Init, ListInit, IdleCaller, Live, OpenListRuns
<1>2. \A l \in Lists \ shelf : filed[l] = {}
  BY DEF Init, ListInit
<1>3. RunsOK
  BY <1>1, <1>2 DEF RunsOK, ListsOK, Alone, StagedIsEvidenced, FetchedIsEvidenced,
                    QuietStaged, QuietFetched
<1>4. CatalogOK
  BY DEF Init, ListInit, CatalogOK, ListEvidenceIsComplete, MembersOfActiveLists, MemberPairs
<1>5. OneDispatchPerCommand /\ ClaimsOK
  BY SMT DEF Init, OneDispatchPerCommand, ClaimsOK
<1> QED BY <1>3, <1>4, <1>5

\* Nothing is lost when calls return, fail or crash where they stand.
LEMMA StandingOK ==
  ASSUME TypeOK, RunsOK, UNCHANGED <<shelf, filed, listRuns, listHistory, shared>>,
         \A d \in Callers :
           \/ caller'[d] = caller[d]
           \/ caller'[d].pc = "idle"
           \/ Live(d) /\ caller'[d].pc = "failing" /\ caller'[d].run = caller[d].run
  PROVE  RunsOK'
<1> USE DEF listHistory
<1>1. \A d \in Callers : Live(d)' =>
        /\ Live(d) /\ caller'[d].run = caller[d].run
        /\ caller'[d] = caller[d] \/ caller'[d].pc = "failing"
  BY DEF Live
<1>2. OpenListRuns' = OpenListRuns /\ FiledPairs' = FiledPairs
  BY DEF OpenListRuns, FiledPairs
<1>3. ListsOK'
  BY <1>1, <1>2 DEF RunsOK, ListsOK
<1>4. Alone'
  <2>1. \A c, d \in Callers :
          c # d /\ Live(c)' /\ Live(d)' /\ caller'[c].run = caller'[d].run
            => caller'[c].run \in shared'
    BY <1>1 DEF RunsOK, Alone
  <2>2. \A c \in Callers : Live(c)' /\ caller'[c].run \notin shared' =>
          /\ listRuns'[caller'[c].run].status = "running"
          /\ caller'[c].pc \in {"fetch", "record"}
               => caller'[c].cursor = listRuns'[caller'[c].run].cursor
    BY <1>1 DEF RunsOK, Alone
  <2> QED BY <2>1, <2>2 DEF Alone
<1>5. StagedIsEvidenced'
  BY <1>2 DEF RunsOK, StagedIsEvidenced
<1>6. FetchedIsEvidenced'
  BY <1>1 DEF RunsOK, FetchedIsEvidenced, OnPage, EndCursor
<1>7. QuietStaged'
  BY <1>2 DEF RunsOK, QuietStaged, Whole
<1>8. QuietFetched'
  BY SMT, <1>1, <1>2 DEF RunsOK, QuietFetched, Whole, OnPage, EndCursor
<1> QED BY <1>3, <1>4, <1>5, <1>6, <1>7, <1>8 DEF RunsOK

\* An edit adds to what the open runs have seen, and ends their quiet.
LEMMA EditOK ==
  ASSUME TypeOK, RunsOK, NEW s \in SUBSET Lists, NEW f \in [Lists -> SUBSET Repos],
         Edit(s, f), \A l \in Lists \ s : f[l] = {}, UNCHANGED shared
  PROVE  RunsOK'
<1>1. UNCHANGED <<listRuns, caller, shared>> /\ shelf' = s /\ filed' = f
  BY DEF Edit
<1>2. /\ OpenListRuns' = OpenListRuns
      /\ \A c \in Callers : Live(c)' = Live(c)
  BY <1>1 DEF OpenListRuns, Live
<1>3. \A i \in OpenListRuns : /\ i \in edited'
                              /\ wasFiled[i] \subseteq wasFiled'[i]
                              /\ wasNot[i] \subseteq wasNot'[i]
                              /\ FiledPairs' \subseteq wasFiled'[i]
                              /\ Pairs \ FiledPairs' \subseteq wasNot'[i]
  BY <1>1 DEF Edit, OpenListRuns, FiledPairs
<1>4. ListsOK'
  BY <1>1, <1>2, <1>3 DEF RunsOK, ListsOK
<1>5. Alone'
  BY <1>1, <1>2 DEF RunsOK, Alone
<1>6. StagedIsEvidenced'
  BY <1>1, <1>2, <1>3 DEF RunsOK, StagedIsEvidenced
<1>7. FetchedIsEvidenced'
  <2>1. \A c \in Callers : Live(c) /\ caller[c].run \notin shared => caller[c].run \in OpenListRuns
    BY DEF RunsOK, Alone, OpenListRuns, TypeOK, ListTypeOK, Live
  <2> QED BY <1>1, <1>2, <1>3, <2>1 DEF RunsOK, FetchedIsEvidenced, OnPage, EndCursor
<1>8. QuietStaged' /\ QuietFetched'
  BY <1>1, <1>2, <1>3 DEF QuietStaged, QuietFetched
<1> QED BY <1>4, <1>5, <1>6, <1>7, <1>8 DEF RunsOK

\* Two live calls on one run after a call starts have been noticed.
LEMMA SharingNotices ==
  ASSUME TypeOK, TypeOK', Sharing
  PROVE  /\ shared \subseteq shared'
         /\ \A c, d \in Callers :
              c # d /\ Live(c)' /\ Live(d)' /\ caller'[c].run = caller'[d].run
                => caller'[c].run \in shared'
<1>1. \A c \in Callers : Live(c)' => caller'[c].run \in ListRunIds
  BY DEF TypeOK, ListTypeOK, Live
<1> QED BY <1>1 DEF Sharing, Live

\* The cursors are numbers, and below every list when null.
LEMMA CursorsAreNumbers ==
  ASSUME TypeOK
  PROVE  /\ \A l \in Lists : l \in Nat /\ ~(l <= 0)
         /\ \A p \in Pairs : p[1] \in Lists
         /\ \A i \in ListRunIds : listRuns[i].cursor \in Nat
         /\ \A c \in Callers : caller[c].cursor \in Nat
<1>1. {0} \union Lists \subseteq Nat /\ \A l \in Lists : l \in Nat /\ ~(l <= 0)
  BY SMT, ListConstants
<1>2. /\ \A i \in ListRunIds : listRuns[i].cursor \in {0} \union Lists
      /\ \A c \in Callers : caller[c].cursor \in {0} \union Lists
  BY DEF TypeOK, ListTypeOK, ListRun, Caller
<1>3. \A p \in Pairs : p[1] \in Lists
  BY DEF Pairs
<1> QED BY <1>1, <1>2, <1>3

\* A resumed call stands where the checkpoint of its run stands.
LEMMA ResumeOK ==
  ASSUME TypeOK, TypeOK', RunsOK, NEW c \in Callers, ResumeListRun(c), Sharing
  PROVE  RunsOK'
<1> DEFINE i == Newest(OpenListRuns)
<1>1. i \in OpenListRuns /\ i \in ListRunIds
  BY RunChosen DEF ResumeListRun, OpenListRuns
<1>2. /\ UNCHANGED <<shelf, filed, listRuns, wasFiled, wasNot, edited>>
      /\ \A d \in Callers \ {c} : caller'[d] = caller[d]
  BY DEF ResumeListRun, listUpstream, listHistory, TypeOK, ListTypeOK
<1>3. caller'[c].pc = "fetch" /\ caller'[c].run = i /\ caller'[c].cursor = listRuns[i].cursor
  BY DEF ResumeListRun, IdleCaller, TypeOK, ListTypeOK
<1> HIDE DEF i
<1>4. OpenListRuns' = OpenListRuns /\ FiledPairs' = FiledPairs
  BY <1>2 DEF OpenListRuns, FiledPairs
<1>5. \A d \in Callers \ {c} : Live(d)' = Live(d)
  BY <1>2 DEF Live
<1>6. listRuns[i].status = "running"
  BY <1>1 DEF OpenListRuns
<1>7. ListsOK'
  <2>1. \A d \in Callers : Live(d)' => listRuns'[caller'[d].run].status # "unborn"
    BY <1>2, <1>3, <1>5, <1>6 DEF RunsOK, ListsOK
  <2> QED BY <1>2, <1>4, <2>1 DEF RunsOK, ListsOK
<1>8. Alone'
  <2>1. ASSUME NEW d \in Callers, Live(d)', caller'[d].run \notin shared'
        PROVE  /\ listRuns'[caller'[d].run].status = "running"
               /\ caller'[d].pc \in {"fetch", "record"}
                    => caller'[d].cursor = listRuns'[caller'[d].run].cursor
    <3>1. CASE d = c
      BY <1>2, <1>3, <1>6, <3>1
    <3>2. CASE d # c
      BY <1>2, <1>5, <2>1, <3>2, SharingNotices DEF RunsOK, Alone
    <3> QED BY <3>1, <3>2
  <2> QED BY <2>1, SharingNotices DEF Alone
<1>9. StagedIsEvidenced'
  BY <1>2, <1>4, SharingNotices DEF RunsOK, StagedIsEvidenced
<1>10. FetchedIsEvidenced'
  BY SMT, <1>2, <1>3, <1>5, SharingNotices DEF RunsOK, FetchedIsEvidenced, OnPage, EndCursor
<1>11. QuietStaged'
  BY <1>2, <1>4 DEF RunsOK, QuietStaged, Whole
<1>12. QuietFetched'
  <2> SUFFICES ASSUME NEW d \in Callers, Live(d)', caller'[d].run \in OpenListRuns' \ edited'
               PROVE  (/\ caller[d].pc \in {"fetch", "record"} =>
                            \A l \in shelf : l <= caller[d].cursor
                              => Whole(l, listRuns[caller[d].run].staged)
                       /\ caller[d].pc = "record" =>
                            /\ caller[d].items \subseteq FiledPairs
                            /\ \A l \in shelf : OnPage(d, l) => Whole(l, caller[d].items)
                       /\ caller[d].pc = "apply" =>
                            \A l \in shelf : Whole(l, listRuns[caller[d].run].staged))'
    BY DEF QuietFetched
  <2>1. CASE d = c
    BY <1>1, <1>2, <1>3, <1>4, <2>1 DEF RunsOK, QuietStaged, Whole
  <2>2. CASE d # c
    BY <1>2, <1>4, <1>5, <2>2 DEF RunsOK, QuietFetched, Whole, OnPage, EndCursor
  <2> QED BY <2>1, <2>2
<1> QED BY <1>7, <1>8, <1>9, <1>10, <1>11, <1>12 DEF RunsOK

\* A fresh run has one call and nothing staged.
LEMMA OpenOK ==
  ASSUME TypeOK, TypeOK', RunsOK, NEW c \in Callers, OpenListRun(c), Sharing
  PROVE  RunsOK'
<1> DEFINE unborn == {j \in ListRunIds : listRuns[j].status = "unborn"}
           i == Oldest(unborn)
<1>1. i \in ListRunIds /\ listRuns[i].status = "unborn"
  BY RunChosen DEF OpenListRun
<1>2. /\ UNCHANGED <<shelf, filed, edited>>
      /\ \A d \in Callers \ {c} : caller'[d] = caller[d]
      /\ \A j \in ListRunIds \ {i} : listRuns'[j] = listRuns[j]
      /\ OpenListRuns = {}
  BY SMT DEF OpenListRun, listUpstream, TypeOK, ListTypeOK
<1>3. caller'[c].pc = "fetch" /\ caller'[c].run = i /\ caller'[c].cursor = 0
  BY SMT DEF OpenListRun, IdleCaller, TypeOK, ListTypeOK
<1>4. /\ listRuns'[i] = [status |-> "running", cursor |-> 0, staged |-> {}, repeated |-> {}]
      /\ wasFiled'[i] = FiledPairs /\ wasNot'[i] = Pairs \ FiledPairs
  BY SMT, <1>1 DEF OpenListRun, TypeOK, ListTypeOK
<1> HIDE DEF i
<1>5. OpenListRuns' = {i} /\ FiledPairs' = FiledPairs
  BY SMT, <1>1, <1>2, <1>4 DEF OpenListRuns, FiledPairs
<1>6. \A d \in Callers \ {c} : /\ Live(d)' = Live(d)
                               /\ Live(d) => caller[d].run \in ListRunIds \ {i}
  BY SMT, <1>1, <1>2 DEF Live, RunsOK, ListsOK, TypeOK, ListTypeOK
<1>7. \A d \in Callers \ {c} : Live(d) => caller[d].run \in shared
  BY <1>2, <1>6 DEF RunsOK, Alone, OpenListRuns
<1>8. ListsOK'
  <2>1. \A d \in Callers : Live(d)' => listRuns'[caller'[d].run].status # "unborn"
    BY SMT, <1>2, <1>3, <1>4, <1>6 DEF RunsOK, ListsOK
  <2> QED BY <1>2, <1>4, <1>5, <2>1 DEF RunsOK, ListsOK
<1>9. Alone'
  <2>1. ASSUME NEW d \in Callers, Live(d)', caller'[d].run \notin shared'
        PROVE  /\ listRuns'[caller'[d].run].status = "running"
               /\ caller'[d].pc \in {"fetch", "record"}
                    => caller'[d].cursor = listRuns'[caller'[d].run].cursor
    BY SMT, <1>2, <1>3, <1>4, <1>6, <1>7, <2>1, SharingNotices
  <2> QED BY <2>1, SharingNotices DEF Alone
<1>10. StagedIsEvidenced'
  BY SMT, <1>4, <1>5, CursorsAreNumbers DEF StagedIsEvidenced
<1>11. FetchedIsEvidenced'
  BY <1>2, <1>3, <1>6, <1>7, SharingNotices DEF FetchedIsEvidenced
<1>12. \A l \in shelf' : l \in Lists
  BY DEF TypeOK, ListTypeOK
<1>13. QuietStaged'
  BY SMT, <1>4, <1>5, <1>12, CursorsAreNumbers DEF QuietStaged
<1>14. QuietFetched'
  BY <1>2, <1>3, <1>5, <1>6, <1>12, CursorsAreNumbers DEF QuietFetched
<1> QED BY <1>8, <1>9, <1>10, <1>11, <1>13, <1>14 DEF RunsOK

\* A fetched page is what is upstream behind the cursor, up to its last list.
LEMMA FetchOK ==
  ASSUME TypeOK, RunsOK, NEW c \in Callers, FetchListPage(c), UNCHANGED shared
  PROVE  RunsOK'
<1> DEFINE i == caller[c].run
           page == ListUserLists(caller[c].cursor)
           items == {p \in FiledPairs : p[1] \in page}
<1>1. /\ UNCHANGED <<shelf, filed, listRuns, wasFiled, wasNot, edited, shared>>
      /\ \A d \in Callers \ {c} : caller'[d] = caller[d]
      /\ caller[c].pc = "fetch" /\ Live(c)
      /\ ~Truncated(page)
  BY DEF FetchListPage, listUpstream, listHistory, TypeOK, ListTypeOK, Live
<1>2. /\ caller'[c].pc = "record" /\ caller'[c].run = i /\ caller'[c].cursor = caller[c].cursor
      /\ caller'[c].page = page /\ caller'[c].items = items
  BY SMT DEF FetchListPage, TypeOK, ListTypeOK, Caller
<1>3. OpenListRuns' = OpenListRuns /\ FiledPairs' = FiledPairs
  BY <1>1 DEF OpenListRuns, FiledPairs
<1>4. \A d \in Callers : Live(d)' = Live(d) /\ caller'[d].run = caller[d].run
  BY <1>1, <1>2 DEF Live
<1>5. \A l \in shelf : OnPage(c, l)' => l \in page
  <2> SUFFICES ASSUME NEW l \in shelf, OnPage(c, l)'
               PROVE  l \in page
    OBVIOUS
  <2>1. caller[c].cursor \in Nat /\ shelf \subseteq Lists /\ l \in Nat
    BY CursorsAreNumbers DEF TypeOK, ListTypeOK
  <2>2. l > caller[c].cursor /\ (page = {} \/ l <= EndCursor(page))
    BY <1>2 DEF OnPage, EndCursor
  <2>3. CASE page = {}
    BY SMT, <2>1, <2>2, <2>3, EmptyPageIsLast
  <2>4. CASE page # {}
    BY <2>1, <2>2, <2>4, PageIsContiguous
  <2> QED BY <2>3, <2>4
<1> HIDE DEF page
<1>6. \A p \in Pairs \ items : OnPage(c, p[1])' => p \notin FiledPairs
  BY <1>5 DEF FiledPairs
<1>7. \A l \in shelf : OnPage(c, l)' => Whole(l, items)
  <2> SUFFICES ASSUME NEW l \in shelf, OnPage(c, l)'
               PROVE  Whole(l, items)
    OBVIOUS
  <2>1. l \in page /\ l \in Lists
    BY <1>5 DEF TypeOK, ListTypeOK
  <2>2. \A r \in filed[l] : <<l, r>> \in Pairs
    BY <2>1 DEF TypeOK, ListTypeOK, Pairs
  <2>3. \A r \in filed[l] : <<l, r>> \in items
    BY <2>1, <2>2 DEF FiledPairs
  <2>4. ~(Cardinality(filed[l]) > PageItems)
    BY <1>1, <2>1 DEF Truncated
  <2> QED BY <2>3, <2>4 DEF Whole
<1> HIDE DEF items
<1>8. items \subseteq FiledPairs
  BY DEF items
<1>9. ListsOK'
  BY <1>1, <1>3, <1>4 DEF RunsOK, ListsOK
<1>10. Alone'
  <2>1. \A d \in Callers : Live(d)' /\ caller'[d].run \notin shared' =>
          /\ listRuns'[caller'[d].run].status = "running"
          /\ caller'[d].pc \in {"fetch", "record"}
               => caller'[d].cursor = listRuns'[caller'[d].run].cursor
    BY SMT, <1>1, <1>2, <1>4 DEF RunsOK, Alone
  <2>2. \A b, d \in Callers :
          b # d /\ Live(b)' /\ Live(d)' /\ caller'[b].run = caller'[d].run
            => caller'[b].run \in shared'
    BY <1>1, <1>4 DEF RunsOK, Alone
  <2> QED BY <2>1, <2>2 DEF Alone
<1>11. StagedIsEvidenced'
  BY <1>1, <1>3 DEF RunsOK, StagedIsEvidenced
<1>12. FetchedIsEvidenced'
  <2>1. i \notin shared => /\ items \subseteq wasFiled[i]
                           /\ \A p \in Pairs \ items : OnPage(c, p[1])' => p \in wasNot[i]
    <3>1. i \notin shared => i \in OpenListRuns
      BY <1>1 DEF RunsOK, Alone, OpenListRuns, TypeOK, ListTypeOK
    <3> QED BY <1>6, <1>8, <3>1 DEF RunsOK, ListsOK
  <2>2. \A d \in Callers \ {c} : \A l : OnPage(d, l)' = OnPage(d, l)
    BY <1>1 DEF OnPage, EndCursor
  <2> QED BY SMTT(20), <1>1, <1>2, <1>4, <2>1, <2>2 DEF RunsOK, FetchedIsEvidenced
<1>13. QuietStaged'
  BY <1>1, <1>3 DEF RunsOK, QuietStaged, Whole
<1>14. QuietFetched'
  <2>1. \A d \in Callers \ {c} : \A l : OnPage(d, l)' = OnPage(d, l)
    BY <1>1 DEF OnPage, EndCursor
  <2>2. \A l, pairs : Whole(l, pairs)' = Whole(l, pairs)
    BY <1>1 DEF Whole
  <2> QED BY SMTT(20), <1>1, <1>2, <1>3, <1>4, <1>7, <1>8, <2>1, <2>2 DEF RunsOK, QuietFetched
<1> QED BY <1>9, <1>10, <1>11, <1>12, <1>13, <1>14 DEF RunsOK

\* A run that completes or fails leaves the others as they were.
LEMMA RunEndsOK ==
  ASSUME TypeOK, RunsOK, NEW c \in Callers, Live(c), caller'[c].pc = "idle",
         UNCHANGED <<shelf, filed, listHistory, shared>>,
         \A d \in Callers \ {c} : caller'[d] = caller[d],
         \A j \in ListRunIds \ {caller[c].run} : listRuns'[j] = listRuns[j],
         listRuns'[caller[c].run].status \in {"completed", "failed"}
  PROVE  RunsOK'
<1> DEFINE i == caller[c].run
<1> USE DEF listHistory
<1>1. FiledPairs' = FiledPairs /\ OpenListRuns' \subseteq OpenListRuns \ {i}
  BY DEF FiledPairs, OpenListRuns
<1>2. \A d \in Callers : Live(d)' => /\ d # c /\ Live(d) /\ caller'[d] = caller[d]
                                     /\ caller[d].run \in ListRunIds
                                     /\ caller[d].run \notin shared => caller[d].run # i
  BY SMT DEF Live, RunsOK, Alone, TypeOK, ListTypeOK
<1>3. \A j \in OpenListRuns' : j \in OpenListRuns /\ listRuns'[j] = listRuns[j]
  BY <1>1 DEF OpenListRuns
<1>4. ListsOK'
  <2>1. \A d \in Callers : Live(d)' => listRuns'[caller'[d].run].status # "unborn"
    BY SMT, <1>2 DEF RunsOK, ListsOK
  <2> QED BY <1>1, <1>3, <2>1 DEF RunsOK, ListsOK
<1>5. Alone'
  <2>1. \A d \in Callers : Live(d)' /\ caller'[d].run \notin shared' =>
          /\ listRuns'[caller'[d].run].status = "running"
          /\ caller'[d].pc \in {"fetch", "record"}
               => caller'[d].cursor = listRuns'[caller'[d].run].cursor
    BY SMTT(20), <1>2 DEF RunsOK, Alone
  <2>2. \A b, d \in Callers :
          b # d /\ Live(b)' /\ Live(d)' /\ caller'[b].run = caller'[d].run
            => caller'[b].run \in shared'
    BY <1>2 DEF RunsOK, Alone
  <2> QED BY <2>1, <2>2 DEF Alone
<1>6. StagedIsEvidenced'
  BY <1>3 DEF RunsOK, StagedIsEvidenced
<1>7. FetchedIsEvidenced'
  BY SMT, <1>2 DEF RunsOK, FetchedIsEvidenced, OnPage, EndCursor
<1>8. QuietStaged'
  BY <1>1, <1>3 DEF RunsOK, QuietStaged, Whole
<1>9. QuietFetched'
  BY SMTT(20), <1>1, <1>2, <1>3 DEF RunsOK, QuietFetched, Whole, OnPage, EndCursor
<1> QED BY <1>4, <1>5, <1>6, <1>7, <1>8, <1>9 DEF RunsOK

\* A recorded page extends what is staged up to the new cursor; the empty page
\* leaves nothing behind it.
LEMMA RecordOK ==
  ASSUME TypeOK, RunsOK, NEW c \in Callers, RecordListPage(c), UNCHANGED shared
  PROVE  RunsOK'
<1> DEFINE i == caller[c].run
           page == caller[c].page
           items == caller[c].items
           next == EndCursor(page)
           old == listRuns[i].staged
           new == old \union items
<1>1. /\ UNCHANGED <<shelf, filed, wasFiled, wasNot, edited, shared>>
      /\ \A d \in Callers \ {c} : caller'[d] = caller[d]
      /\ \A j \in ListRunIds \ {i} : listRuns'[j] = listRuns[j]
      /\ caller[c].pc = "record" /\ Live(c)
      /\ i \in ListRunIds
  BY DEF RecordListPage, listUpstream, listHistory, TypeOK, ListTypeOK, Live
<1>2. /\ caller'[c].pc = IF page = {} THEN "apply" ELSE "fetch"
      /\ caller'[c].run = i /\ caller'[c].cursor = next
  BY SMT DEF RecordListPage, TypeOK, ListTypeOK, Caller
<1>3. /\ listRuns'[i].status = listRuns[i].status
      /\ listRuns'[i].cursor = next /\ listRuns'[i].staged = new
  BY SMT, <1>1 DEF RecordListPage, TypeOK, ListTypeOK, ListRun
<1>4. OpenListRuns' = OpenListRuns /\ FiledPairs' = FiledPairs
  BY <1>1, <1>3 DEF OpenListRuns, FiledPairs
<1>5. \A d \in Callers : Live(d)' = Live(d) /\ caller'[d].run = caller[d].run
  BY <1>1, <1>2 DEF Live
<1>6. \A l \in Lists : l <= next => l <= caller[c].cursor \/ OnPage(c, l)
  <2>1. page = {} => next = 0
    BY DEF EndCursor
  <2>2. \A l \in Lists : l \in Nat /\ ~(l <= 0) /\ caller[c].cursor \in Nat
    BY CursorsAreNumbers
  <2> QED BY SMT, <2>1, <2>2 DEF OnPage
<1>7. page = {} => \A l \in Lists : l <= caller[c].cursor \/ OnPage(c, l)
  <2>1. \A l \in Lists : l \in Nat /\ caller[c].cursor \in Nat
    BY CursorsAreNumbers
  <2> QED BY SMT, <2>1 DEF OnPage
<1> HIDE DEF next, new
<1>8. old \subseteq new /\ items \subseteq new /\ \A p \in new : p \in old \/ p \in items
  BY DEF new
<1>9. \A d \in Callers \ {c} : Live(d) /\ caller[d].run = i => i \in shared
  BY <1>1 DEF RunsOK, Alone
<1>10. ListsOK'
  <2>1. \A d \in Callers : Live(d)' => listRuns'[caller'[d].run].status # "unborn"
    BY SMTT(20), <1>1, <1>3, <1>5 DEF RunsOK, ListsOK, TypeOK, ListTypeOK, Live
  <2> QED BY <1>1, <1>4, <2>1 DEF RunsOK, ListsOK
<1>11. Alone'
  <2>1. ASSUME NEW d \in Callers, Live(d)', caller'[d].run \notin shared'
        PROVE  /\ listRuns'[caller'[d].run].status = "running"
               /\ caller'[d].pc \in {"fetch", "record"}
                    => caller'[d].cursor = listRuns'[caller'[d].run].cursor
    <3>1. CASE d = c
      BY <1>1, <1>2, <1>3, <2>1, <3>1 DEF RunsOK, Alone
    <3>2. CASE d # c
      <4>1. caller[d].run \in ListRunIds \ {i}
        BY <1>1, <1>5, <1>9, <2>1, <3>2 DEF TypeOK, ListTypeOK, Live
      <4> QED BY SMT, <1>1, <1>5, <2>1, <3>2, <4>1 DEF RunsOK, Alone
    <3> QED BY <3>1, <3>2
  <2>2. \A b, d \in Callers :
          b # d /\ Live(b)' /\ Live(d)' /\ caller'[b].run = caller'[d].run
            => caller'[b].run \in shared'
    BY <1>1, <1>5 DEF RunsOK, Alone
  <2> QED BY <2>1, <2>2 DEF Alone
<1>12. ASSUME i \notin shared
       PROVE  /\ i \in OpenListRuns /\ caller[c].cursor = listRuns[i].cursor
              /\ new \subseteq wasFiled[i]
              /\ \A p \in Pairs \ new : \/ p[1] <= caller[c].cursor
                                        \/ OnPage(c, p[1])
                                        => p \in wasNot[i]
  <2>1. i \in OpenListRuns /\ caller[c].cursor = listRuns[i].cursor
    BY <1>1, <1>12 DEF RunsOK, Alone, OpenListRuns
  <2>2. /\ old \subseteq wasFiled[i]
        /\ \A p \in Pairs \ old : p[1] <= listRuns[i].cursor => p \in wasNot[i]
    BY <1>12, <2>1 DEF RunsOK, StagedIsEvidenced
  <2>3. /\ items \subseteq wasFiled[i]
        /\ \A p \in Pairs \ items : OnPage(c, p[1]) => p \in wasNot[i]
    BY <1>1, <1>12 DEF RunsOK, FetchedIsEvidenced
  <2>4. \A p \in Pairs \ new : p \in Pairs \ old /\ p \in Pairs \ items
    BY <1>8
  <2>5. new \subseteq wasFiled[i]
    BY <1>8, <2>2, <2>3
  <2> QED BY <2>1, <2>2, <2>3, <2>4, <2>5
<1>13. StagedIsEvidenced'
  <2> SUFFICES ASSUME NEW j \in OpenListRuns \ shared
               PROVE  /\ listRuns'[j].staged \subseteq wasFiled[j]
                      /\ \A p \in Pairs \ listRuns'[j].staged :
                           p[1] <= listRuns'[j].cursor => p \in wasNot[j]
    BY <1>1, <1>4 DEF StagedIsEvidenced
  <2>1. CASE j = i
    BY <1>3, <1>6, <1>12, <2>1, CursorsAreNumbers
  <2>2. CASE j # i
    BY <1>1, <2>2 DEF RunsOK, StagedIsEvidenced, OpenListRuns
  <2> QED BY <2>1, <2>2
<1>14. FetchedIsEvidenced'
  <2> SUFFICES ASSUME NEW d \in Callers, Live(d), caller[d].run \notin shared
               PROVE  LET j == caller[d].run IN
                      (/\ caller[d].pc = "record" =>
                            /\ caller[d].items \subseteq wasFiled[j]
                            /\ \A p \in Pairs \ caller[d].items : OnPage(d, p[1]) => p \in wasNot[j]
                       /\ caller[d].pc = "apply" => Pairs \ listRuns[j].staged \subseteq wasNot[j])'
    BY <1>1, <1>5 DEF FetchedIsEvidenced
  <2>1. CASE d = c
    <3>1. caller'[c].pc # "record" /\ (caller'[c].pc = "apply" => page = {})
      BY <1>2
    <3>2. page = {} => Pairs \ new \subseteq wasNot[i]
      BY <1>7, <1>12, <2>1, CursorsAreNumbers
    <3> QED BY <1>1, <1>3, <1>5, <2>1, <3>1, <3>2
  <2>2. CASE d # c
    <3>1. caller[d].run \in ListRunIds \ {i}
      BY <1>9, <2>2 DEF TypeOK, ListTypeOK, Live
    <3> QED BY <1>1, <2>2, <3>1 DEF RunsOK, FetchedIsEvidenced, OnPage, EndCursor
  <2> QED BY <2>1, <2>2
<1>15. \A l, pairs : Whole(l, pairs)' = Whole(l, pairs)
  BY <1>1 DEF Whole
<1>16. \A l : Whole(l, old) \/ Whole(l, items) => Whole(l, new)
  BY <1>8 DEF Whole
<1>17. ASSUME i \in OpenListRuns \ edited
       PROVE  /\ new \subseteq FiledPairs
              /\ \A l \in shelf : l <= caller[c].cursor \/ OnPage(c, l) => Whole(l, new)
  <2>1. /\ \A l \in shelf : l <= caller[c].cursor => Whole(l, old)
        /\ items \subseteq FiledPairs
        /\ \A l \in shelf : OnPage(c, l) => Whole(l, items)
    BY <1>1, <1>17 DEF RunsOK, QuietFetched
  <2>2. old \subseteq FiledPairs
    BY <1>17 DEF RunsOK, QuietStaged
  <2> QED BY <1>8, <1>16, <2>1, <2>2
<1>18. \A l \in shelf : l \in Lists
  BY DEF TypeOK, ListTypeOK
<1>19. QuietStaged'
  <2> SUFFICES ASSUME NEW j \in OpenListRuns \ edited
               PROVE  /\ listRuns'[j].staged \subseteq FiledPairs
                      /\ \A l \in shelf : l <= listRuns'[j].cursor
                                            => Whole(l, listRuns'[j].staged)
    BY <1>1, <1>4, <1>15 DEF QuietStaged
  <2>1. CASE j = i
    BY <1>3, <1>6, <1>17, <1>18, <2>1
  <2>2. CASE j # i
    BY <1>1, <2>2 DEF RunsOK, QuietStaged, OpenListRuns
  <2> QED BY <2>1, <2>2
<1>20. QuietFetched'
  <2> SUFFICES ASSUME NEW d \in Callers, Live(d), caller[d].run \in OpenListRuns \ edited
               PROVE  LET j == caller[d].run IN
                      /\ caller'[d].pc \in {"fetch", "record"} =>
                           \A l \in shelf : l <= caller'[d].cursor => Whole(l, listRuns'[j].staged)
                      /\ caller'[d].pc = "record" =>
                           /\ caller'[d].items \subseteq FiledPairs
                           /\ \A l \in shelf : OnPage(d, l)' => Whole(l, caller'[d].items)
                      /\ caller'[d].pc = "apply" => \A l \in shelf : Whole(l, listRuns'[j].staged)
    BY <1>1, <1>4, <1>5, <1>15 DEF QuietFetched
  <2>1. CASE d = c
    BY <1>2, <1>3, <1>6, <1>7, <1>17, <1>18, <2>1
  <2>2. CASE d # c
    <3>1. \A l : OnPage(d, l)' = OnPage(d, l)
      BY <1>1, <2>2 DEF OnPage, EndCursor
    <3>2. caller[d].run = i => listRuns'[i].staged = new
      BY <1>3
    <3>3. caller[d].run # i => listRuns'[caller[d].run] = listRuns[caller[d].run]
      BY <1>1 DEF OpenListRuns
    <3> QED BY <1>1, <1>16, <2>2, <3>1, <3>2, <3>3 DEF RunsOK, QuietFetched
  <2> QED BY <2>1, <2>2
<1> QED BY <1>10, <1>11, <1>13, <1>14, <1>19, <1>20 DEF RunsOK

-----------------------------------------------------------------------------
(* The invariant.                                                          *)

\* Every step either promotes a run or leaves the catalog alone.
LEMMA StepLists ==
  ASSUME TypeOK, TypeOK', CatalogOK, RunsOK, [Next]_vars
  PROVE  /\ CatalogOK' /\ RunsOK'
         /\ \/ \E c \in Callers : ApplyListAuthority(c) /\ UNCHANGED shared
            \/ /\ UNCHANGED listCatalog
               /\ \A i \in ListRunIds : listRuns'[i].status = "completed"
                                          => listRuns[i].status = "completed"
<1> DEFINE Standing == UNCHANGED <<shelf, filed, listRuns, listHistory, shared, listCatalog>> /\
             \A d \in Callers :
               \/ caller'[d] = caller[d]
               \/ caller'[d].pc = "idle"
               \/ Live(d) /\ caller'[d].pc = "failing" /\ caller'[d].run = caller[d].run
           Kept == /\ UNCHANGED listCatalog
                   /\ \A i \in ListRunIds : listRuns'[i].status = "completed"
                                              <=> listRuns[i].status = "completed"
<1>1. ASSUME Standing
      PROVE  RunsOK' /\ Kept
  BY <1>1, StandingOK
<1>2. CASE ListOwner /\ UNCHANGED <<commandVars, shared>>
  <2> PICK s \in SUBSET Lists, f \in [Lists -> SUBSET Repos] :
             /\ Edit(s, f)
             /\ (\A l \in Lists \ shelf : filed[l] = {}) => \A l \in Lists \ s : f[l] = {}
    BY <1>2, OwnerIsEdit DEF TypeOK
  <2>1. \A l \in Lists \ s : f[l] = {}
    BY DEF RunsOK, ListsOK
  <2>2. RunsOK'
    BY <1>2, <2>1, EditOK
  <2>3. Kept
    BY DEF Edit, listCatalog
  <2> QED BY <2>2, <2>3, CatalogKept
<1>3. CASE \/ \E h \in Handlers, c \in Commands : Deliver(h, c)
           \/ \E h \in Handlers : \/ Claim(h)
                                  \/ \E gap \in BOOLEAN : StarFlowReturns(h, gap)
                                  \/ StarFlowErrs(h) \/ ListsReturn(h) \/ Consume(h)
           \/ UNCHANGED vars
  <2>1. Standing
    BY <1>3 DEF Deliver, Claim, StarFlowReturns, StarFlowErrs, ListsReturn, Consume, vars,
                listVars, listUpstream, listCatalog, listHistory
  <2> HIDE DEF Standing
  <2> QED BY <1>1, <2>1, CatalogKept
<1>4. CASE \E h \in Handlers : StartLists(h)
  <2> PICK h \in Callers : (ResumeListRun(h) \/ OpenListRun(h)) /\ Sharing
    BY <1>4 DEF StartLists, Handlers
  <2>1. RunsOK'
    BY ResumeOK, OpenOK
  <2>2. Kept
    <3>1. CASE ResumeListRun(h)
      BY <3>1 DEF ResumeListRun, listCatalog
    <3>2. CASE OpenListRun(h)
      <4> DEFINE unborn == {j \in ListRunIds : listRuns[j].status = "unborn"}
      <4>1. Oldest(unborn) \in unborn
        BY <3>2, RunChosen DEF OpenListRun
      <4> QED BY SMT, <3>2, <4>1 DEF OpenListRun, listCatalog, TypeOK, ListTypeOK
    <3> QED BY <3>1, <3>2
  <2> QED BY <2>1, <2>2, CatalogKept
<1>5. CASE \E h \in Handlers : RunLists(h)
  <2> PICK h \in Callers : (ProceedLists(h) \/ InterruptLists(h)) /\ UNCHANGED shared
    BY <1>5 DEF RunLists, Handlers
  <2>1. CASE FetchListPage(h)
    <3>1. Kept
      BY <2>1 DEF FetchListPage, listCatalog
    <3> QED BY <2>1, <3>1, FetchOK, CatalogKept
  <2>2. CASE \/ FetchTruncated(h) \/ ListAuthorityRefused(h) \/ InterruptLists(h)
    <3>1. Standing
      <4>1. UNCHANGED <<shelf, filed, listRuns, listHistory, shared, listCatalog>>
        BY <2>2 DEF FetchTruncated, ListAuthorityRefused, InterruptLists, ListProviderError,
                    PauseListRun, StopListCall, listUpstream
      <4>2. CASE ListAuthorityRefused(h) \/ PauseListRun(h) \/ StopListCall(h)
        <5>1. \A d \in Callers : caller'[d] = caller[d] \/ caller'[d].pc = "idle"
          BY SMTT(20), <4>2 DEF ListAuthorityRefused, PauseListRun, StopListCall, Return, IdleCaller,
                      TypeOK, ListTypeOK
        <5> QED BY <4>1, <5>1
      <4>3. CASE FetchTruncated(h) \/ ListProviderError(h)
        <5>1. \A d \in Callers : \/ caller'[d] = caller[d]
                                 \/ /\ Live(d) /\ caller'[d].pc = "failing"
                                    /\ caller'[d].run = caller[d].run
          BY SMT, <4>3 DEF FetchTruncated, ListProviderError, Live, TypeOK, ListTypeOK, Caller
        <5> QED BY <4>1, <5>1
      <4> QED BY <2>2, <4>2, <4>3 DEF InterruptLists
    <3> HIDE DEF Standing
    <3> QED BY <1>1, <3>1, CatalogKept
  <2>3. CASE RecordListPage(h)
    <3>1. Kept
      <4>1. \A i \in ListRunIds : listRuns'[i].status = listRuns[i].status
        <5>1. \A i \in ListRunIds : listRuns[i] \in ListRun
          BY DEF TypeOK, ListTypeOK
        <5>2. listRuns = [i \in ListRunIds |-> listRuns[i]]
          BY DEF TypeOK, ListTypeOK
        <5> QED BY SMT, <2>3, <5>1, <5>2 DEF RecordListPage, ListRun
      <4> QED BY <2>3, <4>1 DEF RecordListPage, listCatalog
    <3> QED BY <2>3, <3>1, RecordOK, CatalogKept
  <2>4. CASE FailListRun(h) \/ ApplyListAuthority(h)
    <3> DEFINE i == caller[h].run
    <3>1. /\ Live(h) /\ i \in ListRunIds /\ listRuns[i] \in ListRun
          /\ listRuns[i].status # "unborn"
      BY <2>4 DEF FailListRun, ApplyListAuthority, Live, TypeOK, ListTypeOK, RunsOK, ListsOK
    <3>2. /\ UNCHANGED <<shelf, filed, listHistory, shared>>
          /\ \A d \in Callers \ {h} : caller'[d] = caller[d]
          /\ caller'[h].pc = "idle"
          /\ \A j \in ListRunIds \ {i} : listRuns'[j] = listRuns[j]
      BY SMT, <2>4, <3>1 DEF FailListRun, ApplyListAuthority, Return, IdleCaller, listUpstream,
                        TypeOK, ListTypeOK
    <3>3. ApplyListAuthority(h) => listRuns'[i].status = "completed"
      BY SMTT(20), <3>1 DEF ApplyListAuthority, TypeOK, ListTypeOK, ListRun
    <3>4. FailListRun(h) => /\ listRuns'[i].status \in {"completed", "failed"}
                            /\ listRuns'[i].status = "completed"
                                 <=> listRuns[i].status = "completed"
      BY SMTT(20), <3>1 DEF FailListRun, TypeOK, ListTypeOK, ListRun
    <3>5. RunsOK'
      BY <2>4, <3>1, <3>2, <3>3, <3>4, RunEndsOK
    <3>6. CASE FailListRun(h)
      <4>1. Kept
        BY <3>1, <3>2, <3>4, <3>6 DEF FailListRun, listCatalog
      <4> QED BY <3>5, <4>1, CatalogKept
    <3>7. CASE ApplyListAuthority(h)
      BY <3>5, <3>7, PromotionWrites
    <3> QED BY <2>4, <3>6, <3>7
  <2> QED BY <2>1, <2>2, <2>3, <2>4 DEF ProceedLists
<1>6. CASE Crash
  <2>1. Standing
    BY <1>6 DEF Crash, IdleCaller, listUpstream, Handlers
  <2> HIDE DEF Standing
  <2> QED BY <1>1, <2>1, CatalogKept
<1> QED BY <1>2, <1>3, <1>4, <1>5, <1>6 DEF Next

LEMMA Invariant == Spec => []IInv
<1>1. Init => IInv
  BY InitTyped, InitRuns DEF IInv
<1>2. IInv /\ [Next]_vars => IInv'
  BY StepTyped, StepClaims, StepLists DEF IInv
<1> QED BY <1>1, <1>2, PTL DEF Spec

-----------------------------------------------------------------------------
(* Theorems.                                                               *)

\* However often a command is delivered, and whatever handlers run at once or
\* die, it starts one star flow at most, and only when its envelope is well
\* formed and its account connected (handle_sync_command, commands.rs).
THEOREM CommandsDispatchOnce == Spec => []OneDispatchPerCommand
<1>1. IInv => OneDispatchPerCommand
  BY DEF IInv
<1> QED BY <1>1, Invariant, PTL

\* No membership, removal or tombstone ever rests on a list run that did not
\* complete (apply_list_authority_and_complete, star_lists.rs).
THEOREM ListEvidenceCompletes == Spec => []ListEvidenceIsComplete
<1>1. IInv => ListEvidenceIsComplete
  BY DEF IInv, CatalogOK
<1> QED BY <1>1, Invariant, PTL

\* Members are in active lists, and the projection says what the newest
\* observation says (demote_absent_pairs before tombstone_absent_lists).
THEOREM MembershipsAgree == Spec => []MembersOfActiveLists
<1>1. IInv => MembersOfActiveLists
  BY DEF IInv, CatalogOK
<1> QED BY <1>1, Invariant, PTL

\* A promotion of a run that two calls never worked on at one time writes only
\* what was so while the run was open (promote_seen_pairs, demote_absent_pairs).
THEOREM MembershipsWereSeen == Spec => EvidencedUnlessShared
<1> DEFINE Seen == \A p \in Pairs :
             LET e == members'[p].evidence IN
             members'[p] # members[p] /\ e \notin shared =>
               /\ members'[p].state = "member" => p \in wasFiled[e]
               /\ members'[p].state = "former" => p \in wasNot[e]
<1>1. IInv /\ IInv' /\ [Next]_vars => [Seen]_vars
  <2> SUFFICES ASSUME IInv, IInv', [Next]_vars, NEW p \in Pairs,
                      members'[p] # members[p], members'[p].evidence \notin shared
               PROVE  /\ members'[p].state = "member" => p \in wasFiled[members'[p].evidence]
                      /\ members'[p].state = "former" => p \in wasNot[members'[p].evidence]
    OBVIOUS
  <2>1. PICK c \in Callers : ApplyListAuthority(c)
    BY StepLists DEF IInv, listCatalog
  <2> DEFINE i == caller[c].run
  <2>2. members' = PromotedMembers(i) /\ caller[c].pc = "apply" /\ Live(c)
    BY <2>1 DEF ApplyListAuthority, Live
  <2>3. \/ members'[p] = [state |-> "member", evidence |-> i] /\ p \in listRuns[i].staged
        \/ members'[p] = [state |-> "former", evidence |-> i] /\ p \notin listRuns[i].staged
    <3> HIDE DEF i
    <3>1. CASE p \in listRuns[i].staged
      BY <2>2, <3>1 DEF PromotedMembers, AbsentMembers
    <3>2. CASE p \notin listRuns[i].staged /\ p \in AbsentMembers(i)
      BY <2>2, <3>2 DEF PromotedMembers
    <3>3. CASE p \notin listRuns[i].staged /\ p \notin AbsentMembers(i)
      BY <2>2, <3>3 DEF PromotedMembers
    <3> QED BY <3>1, <3>2, <3>3
  <2>4. i \notin shared /\ members'[p].evidence = i
    BY SMT, <2>3
  <2>5. i \in OpenListRuns
    BY <2>2, <2>4 DEF IInv, RunsOK, Alone, OpenListRuns, TypeOK, ListTypeOK, Live
  <2>6. listRuns[i].staged \subseteq wasFiled[i]
    BY <2>4, <2>5 DEF IInv, RunsOK, StagedIsEvidenced
  <2>7. Pairs \ listRuns[i].staged \subseteq wasNot[i]
    BY <2>2, <2>4 DEF IInv, RunsOK, FetchedIsEvidenced
  <2> QED BY SMTT(20), <2>3, <2>6, <2>7
<1> QED BY <1>1, Invariant, PTL DEF Spec, EvidencedUnlessShared

\* A list run during which the owner changed nothing promotes exactly what is
\* upstream, whatever errors, pauses, crashes and concurrent calls it met, and
\* no list it promotes was truncated (run_star_list_snapshot).
THEOREM QuietListsConverge == Spec => QuietEnumerationConverges
<1> DEFINE Exact == \A i \in ListRunIds :
             /\ i \notin edited
             /\ listRuns[i].status = "running" /\ listRuns'[i].status = "completed"
             => /\ \A l \in Lists : CurrentListMembers(l)' = filed[l]
                /\ CurrentStarLists' = {l \in shelf : filed[l] # {}}
                /\ ~Truncated(shelf)
<1>1. IInv /\ IInv' /\ [Next]_vars => [Exact]_listVars
  <2> SUFFICES ASSUME IInv, IInv', [Next]_vars, NEW i \in ListRunIds, i \notin edited,
                      listRuns[i].status = "running", listRuns'[i].status = "completed"
               PROVE  /\ \A l \in Lists : CurrentListMembers(l)' = filed[l]
                      /\ CurrentStarLists' = {l \in shelf : filed[l] # {}}
                      /\ ~Truncated(shelf)
    OBVIOUS
  <2>1. PICK c \in Callers : ApplyListAuthority(c)
    BY StepLists DEF IInv
  <2>2. caller[c].run = i /\ caller[c].pc = "apply" /\ Live(c)
    BY SMT, <2>1 DEF ApplyListAuthority, Live, IInv, TypeOK, ListTypeOK
  <2>3. MemberPairs' = listRuns[i].staged /\ CurrentStarLists' = StagedLists(i)
    BY <2>1, <2>2, PromotionWrites DEF IInv
  <2>4. i \in OpenListRuns \ edited
    BY DEF OpenListRuns
  <2>5. /\ listRuns[i].staged \subseteq FiledPairs
        /\ \A l \in shelf : Whole(l, listRuns[i].staged)
    BY <2>2, <2>4 DEF IInv, RunsOK, QuietStaged, QuietFetched
  <2>6. \A l \in Lists, r \in Repos : <<l, r>> \in MemberPairs' <=> r \in filed[l]
    BY <2>3, <2>5 DEF FiledPairs, Whole, IInv, RunsOK, ListsOK
  <2>7. \A l \in Lists : CurrentListMembers(l)' = filed[l]
    BY SMT, <2>6 DEF CurrentListMembers, MemberPairs, Pairs, IInv, TypeOK, ListTypeOK
  <2>8. StagedLists(i) = {l \in shelf : filed[l] # {}}
    <3>1. StagedLists(i) \subseteq {l \in shelf : filed[l] # {}}
      BY <2>5 DEF StagedLists, FiledPairs
    <3>2. ASSUME NEW l \in shelf, filed[l] # {}
          PROVE  l \in StagedLists(i)
      <4>1. PICK r : r \in filed[l]
        BY <3>2
      <4>2. <<l, r>> \in listRuns[i].staged /\ <<l, r>>[1] = l
        BY <2>5, <4>1 DEF Whole
      <4> QED BY <4>2 DEF StagedLists
    <3> QED BY <3>1, <3>2
  <2>9. ~Truncated(shelf)
    BY <2>5 DEF Truncated, Whole
  <2> QED BY <2>3, <2>7, <2>8, <2>9
<1> QED BY <1>1, Invariant, PTL DEF Spec, QuietEnumerationConverges
=============================================================================
