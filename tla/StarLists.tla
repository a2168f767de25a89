----------------------------- MODULE StarLists ------------------------------
(***************************************************************************)
(* The star-list snapshot of one account (crates/catalog/src/star_lists.rs *)
(* and list_user_lists of provider.rs): a cursor-paginated enumeration of  *)
(* the account's native lists, staged page by page under checkpoints and   *)
(* promoted in one transaction, while the owner keeps editing the lists.   *)
(*                                                                         *)
(* Lists are positive naturals in the order the connection enumerates      *)
(* them; a cursor is the last list of a page and 0 stands for null.  Run   *)
(* ids are positive naturals handed out in order, 0 stands for null.       *)
(***************************************************************************)
EXTENDS Naturals, FiniteSets

CONSTANTS
  Lists,         \* provider lists
  Repos,         \* provider repositories
  Callers,       \* callers of run_star_list_snapshot for this account
  PageSize,      \* lists per page of the connection
  PageItems,     \* items of a list that one page carries
  InitialFiled,  \* what the lists may hold at the start
  MaxEdits,      \* bound: changes the owner makes upstream
  MaxRuns,       \* bound: sync_runs rows of mode star_lists
  MaxStops       \* bound: errors and crashes of callers

ASSUME ListConstants ==
  /\ Lists \subseteq Nat \ {0} /\ IsFiniteSet(Lists)
  /\ PageSize \in Nat \ {0} /\ PageItems \in Nat
  /\ InitialFiled \subseteq [Lists -> SUBSET Repos]
  /\ MaxEdits \in Nat /\ MaxRuns \in Nat \ {0} /\ MaxStops \in Nat

VARIABLES
  shelf,      \* the lists that exist upstream (external)
  filed,      \* the repositories each of them holds (external)
  edits,      \* changes the owner has made
  listRuns,   \* sync_runs with their latest checkpoint and staged items
  starLists,  \* star_lists: status and evidence_run_id
  members,    \* star_list_memberships: state and evidence_run_id
  lastSeen,   \* newest star_list_membership_observations row of each pair
  caller,     \* the local state of each call
  stops,      \* errors and crashes so far
  wasFiled,   \* history: pairs filed at some time while a run was open
  wasNot,     \* history: pairs not filed at some time while a run was open
  edited      \* history: runs during which the owner changed something

listUpstream == <<shelf, filed, edits>>
listCatalog  == <<starLists, members, lastSeen>>
listHistory  == <<wasFiled, wasNot, edited>>
listVars == <<listUpstream, listRuns, listCatalog, caller, stops, listHistory>>

-----------------------------------------------------------------------------
(* Types.                                                                  *)

Pairs      == Lists \X Repos
ListRunIds == 1..MaxRuns

ListRun == [status   : {"unborn", "running", "completed", "failed"},
            cursor   : {0} \union Lists,   \* graphql_cursor of the checkpoint
            staged   : SUBSET Pairs,       \* list_snapshot_items
            repeated : SUBSET Pairs]       \* the pairs staged more than once

Caller == [pc     : {"idle", "fetch", "record", "apply", "failing"},
           run    : {0} \union ListRunIds,
           cursor : {0} \union Lists,
           page   : SUBSET Lists,          \* reply.page.lists
           items  : SUBSET Pairs,          \* their items
           result : {"none", "completed", "paused", "failed", "error"}]

ListTypeOK ==
  /\ shelf \subseteq Lists
  /\ filed \in [Lists -> SUBSET Repos]
  /\ edits \in Nat /\ stops \in Nat
  /\ listRuns \in [ListRunIds -> ListRun]
  /\ starLists \in [Lists -> [status : {"unknown", "active", "removed"},
                              evidence : {0} \union ListRunIds]]
  /\ members \in [Pairs -> [state : {"unknown", "member", "former"},
                            evidence : {0} \union ListRunIds]]
  /\ lastSeen \in [Pairs -> {"none", "member", "removed"}]
  /\ caller \in [Callers -> Caller]
  /\ \A c \in Callers : caller[c].pc # "idle" => caller[c].run \in ListRunIds
  /\ wasFiled \in [ListRunIds -> SUBSET Pairs]
  /\ wasNot \in [ListRunIds -> SUBSET Pairs]
  /\ edited \subseteq ListRunIds

-----------------------------------------------------------------------------
(* What the readers of the projection return.                              *)

CurrentStarLists      == {l \in Lists : starLists[l].status = "active"}
CurrentListMembers(l) == {r \in Repos : members[<<l, r>>].state = "member"}

MemberPairs == {p \in Pairs : members[p].state = "member"}
FiledPairs  == {p \in Pairs : p[1] \in shelf /\ p[2] \in filed[p[1]]}

-----------------------------------------------------------------------------
(* The owner edits the lists on GitHub.                                    *)

OpenListRuns == {i \in ListRunIds : listRuns[i].status = "running"}

\* The lists are now s with contents f.
Edit(s, f) ==
  LET now == {p \in Pairs : p[1] \in s /\ p[2] \in f[p[1]]} IN
  /\ edits < MaxEdits
  /\ edits' = edits + 1
  /\ shelf' = s
  /\ filed' = f
  /\ wasFiled' = [i \in ListRunIds |-> IF i \in OpenListRuns
                                       THEN wasFiled[i] \union now ELSE wasFiled[i]]
  /\ wasNot' = [i \in ListRunIds |-> IF i \in OpenListRuns
                                     THEN wasNot[i] \union (Pairs \ now) ELSE wasNot[i]]
  /\ edited' = edited \union OpenListRuns
  /\ UNCHANGED <<listRuns, listCatalog, caller, stops>>

FileUpstream(l, r) ==
  /\ l \in shelf /\ r \notin filed[l]
  /\ Edit(shelf, [filed EXCEPT ![l] = @ \union {r}])

UnfileUpstream(l, r) ==
  /\ l \in shelf /\ r \in filed[l]
  /\ Edit(shelf, [filed EXCEPT ![l] = @ \ {r}])

CreateList(l) ==
  /\ l \notin shelf
  /\ Edit(shelf \union {l}, [filed EXCEPT ![l] = {}])

DeleteList(l) ==
  /\ l \in shelf
  /\ Edit(shelf \ {l}, [filed EXCEPT ![l] = {}])

-----------------------------------------------------------------------------
(* One call of run_star_list_snapshot.                                     *)

IdleCaller(result) == [pc |-> "idle", run |-> 0, cursor |-> 0, page |-> {},
                       items |-> {}, result |-> result]

\* The call returns.
Return(c, result) == caller' = [caller EXCEPT ![c] = IdleCaller(result)]

Newest(S) == CHOOSE i \in S : \A j \in S : j <= i
Oldest(S) == CHOOSE i \in S : \A j \in S : i <= j

\* Resumes the newest running run at the cursor of its latest checkpoint.
ResumeListRun(c) ==
  LET i == Newest(OpenListRuns) IN
  /\ caller[c].pc = "idle"
  /\ OpenListRuns # {}
  /\ caller' = [caller EXCEPT ![c] =
                  [IdleCaller("none") EXCEPT !.pc = "fetch", !.run = i,
                                             !.cursor = listRuns[i].cursor]]
  /\ UNCHANGED <<listUpstream, listRuns, listCatalog, stops, listHistory>>

\* Opens a fresh run; only when none is running.
OpenListRun(c) ==
  LET unborn == {j \in ListRunIds : listRuns[j].status = "unborn"}
      i      == Oldest(unborn)
  IN /\ caller[c].pc = "idle"
     /\ OpenListRuns = {} /\ unborn # {}
     /\ listRuns' = [listRuns EXCEPT ![i] = [status |-> "running", cursor |-> 0,
                                             staged |-> {}, repeated |-> {}]]
     /\ caller' = [caller EXCEPT ![c] =
                     [IdleCaller("none") EXCEPT !.pc = "fetch", !.run = i]]
     /\ wasFiled' = [wasFiled EXCEPT ![i] = FiledPairs]
     /\ wasNot' = [wasNot EXCEPT ![i] = Pairs \ FiledPairs]
     /\ UNCHANGED <<listUpstream, listCatalog, stops, edited>>

\* The lists of the page after a cursor.
ListUserLists(cursor) ==
  {l \in shelf : /\ l > cursor
                 /\ Cardinality({k \in shelf : cursor < k /\ k <= l}) <= PageSize}

\* The connection's end cursor, null when the page is empty.  The gateway
\* passes it on whether or not there is a next page.
EndCursor(page) == IF page = {} THEN 0 ELSE Newest(page)

Truncated(page) == \E l \in page : Cardinality(filed[l]) > PageItems

\* Mutant: a truncated list counts with the items that the page carries.
FetchListPagePartial(c) ==
  LET page == ListUserLists(caller[c].cursor) IN
  /\ caller[c].pc = "fetch"
  /\ \E items \in SUBSET {p \in FiledPairs : p[1] \in page} :
       /\ \A l \in page : Cardinality({p \in items : p[1] = l}) <= PageItems
       /\ \A l \in page : filed[l] # {} => \E p \in items : p[1] = l
       /\ caller' = [caller EXCEPT ![c] =
                       [@ EXCEPT !.pc = "record", !.page = page, !.items = items]]
  /\ UNCHANGED <<listUpstream, listRuns, listCatalog, stops, listHistory>>

\* A page arrives whole.
FetchListPage(c) ==
  LET page == ListUserLists(caller[c].cursor) IN
  /\ caller[c].pc = "fetch"
  /\ ~Truncated(page)
  /\ caller' = [caller EXCEPT ![c] =
                  [@ EXCEPT !.pc = "record", !.page = page,
                            !.items = {p \in FiledPairs : p[1] \in page}]]
  /\ UNCHANGED <<listUpstream, listRuns, listCatalog, stops, listHistory>>

\* A list holds more items than one page carries.
FetchTruncated(c) ==
  /\ caller[c].pc = "fetch"
  /\ Truncated(ListUserLists(caller[c].cursor))
  /\ caller' = [caller EXCEPT ![c].pc = "failing"]
  /\ UNCHANGED <<listUpstream, listRuns, listCatalog, stops, listHistory>>

\* The provider answers with an error.
ListProviderError(c) ==
  /\ caller[c].pc = "fetch"
  /\ stops < MaxStops
  /\ stops' = stops + 1
  /\ caller' = [caller EXCEPT ![c].pc = "failing"]
  /\ UNCHANGED <<listUpstream, listRuns, listCatalog, listHistory>>

\* The budget withholds the page; the run stays open.
PauseListRun(c) ==
  /\ caller[c].pc = "fetch"
  /\ stops < MaxStops
  /\ stops' = stops + 1
  /\ Return(c, "paused")
  /\ UNCHANGED <<listUpstream, listRuns, listCatalog, listHistory>>

\* The run fails if it still runs; its staging goes either way.
FailListRun(c) ==
  LET i == caller[c].run IN
  /\ caller[c].pc = "failing"
  /\ listRuns' = [listRuns EXCEPT ![i] =
                    [@ EXCEPT !.status = IF listRuns[i].status = "running"
                                         THEN "failed" ELSE listRuns[i].status,
                              !.staged = {}, !.repeated = {}]]
  /\ Return(c, "failed")
  /\ UNCHANGED <<listUpstream, listCatalog, stops, listHistory>>

\* Stages the page with its checkpoint; also the empty page that ends the
\* enumeration leaves a checkpoint, with a null cursor.
RecordListPage(c) ==
  LET i    == caller[c].run
      next == EndCursor(caller[c].page)
  IN /\ caller[c].pc = "record"
     /\ listRuns' = [listRuns EXCEPT ![i] =
                       [@ EXCEPT !.cursor = next,
                                 !.staged = listRuns[i].staged \union caller[c].items,
                                 !.repeated = listRuns[i].repeated \union
                                   (listRuns[i].staged \intersect caller[c].items)]]
     /\ caller' = [caller EXCEPT ![c] =
                     [@ EXCEPT !.pc = IF caller[c].page = {} THEN "apply" ELSE "fetch",
                               !.cursor = next, !.page = {}, !.items = {}]]
     /\ UNCHANGED <<listUpstream, listCatalog, stops, listHistory>>

\* What the database accepts: the promotion may not touch a row twice, and a
\* failed run's failure reason forbids another status.
PromotionAccepted(i) == listRuns[i].repeated = {} /\ listRuns[i].status # "failed"

StagedLists(i) == {p[1] : p \in listRuns[i].staged}

\* Members of the account's lists that the enumeration did not see.
AbsentMembers(i) == {p \in MemberPairs : p \notin listRuns[i].staged}

\* Mutant: a removal keeps the evidence of the membership.
PromotedMembersKeepEvidence(i) ==
  [p \in Pairs |->
     CASE p \in listRuns[i].staged -> [state |-> "member", evidence |-> i]
       [] p \in AbsentMembers(i)   -> [members[p] EXCEPT !.state = "former"]
       [] OTHER -> members[p]]

\* Seen pairs become members, absent members become evidenced removals.
PromotedMembers(i) ==
  [p \in Pairs |->
     CASE p \in listRuns[i].staged -> [state |-> "member", evidence |-> i]
       [] p \in AbsentMembers(i)   -> [state |-> "former", evidence |-> i]
       [] OTHER -> members[p]]

\* Mutant: a removal leaves no observation.
MembershipObservationsSeen(i) ==
  [p \in Pairs |-> IF p \in listRuns[i].staged THEN "member" ELSE lastSeen[p]]

MembershipObservations(i) ==
  [p \in Pairs |-> CASE p \in listRuns[i].staged -> "member"
                     [] p \in AbsentMembers(i)   -> "removed"
                     [] OTHER -> lastSeen[p]]

\* Lists with a staged item are active; active lists without one are removed.
PromotedLists(i) ==
  [l \in Lists |->
     CASE l \in StagedLists(i)      -> [status |-> "active", evidence |-> 0]
       [] l \in CurrentStarLists \ StagedLists(i)
                                    -> [status |-> "removed", evidence |-> i]
       [] OTHER -> starLists[l]]

\* Mutant: the run is not marked finished.
ApplyListAuthorityOpen(c) ==
  LET i == caller[c].run IN
  /\ caller[c].pc = "apply"
  /\ PromotionAccepted(i)
  /\ starLists' = PromotedLists(i)
  /\ members' = PromotedMembers(i)
  /\ lastSeen' = MembershipObservations(i)
  /\ listRuns' = [listRuns EXCEPT ![i].staged = {}]
  /\ Return(c, "completed")
  /\ UNCHANGED <<listUpstream, stops, listHistory>>

\* The promotion: one transaction.
ApplyListAuthority(c) ==
  LET i == caller[c].run IN
  /\ caller[c].pc = "apply"
  /\ PromotionAccepted(i)
  /\ starLists' = PromotedLists(i)
  /\ members' = PromotedMembers(i)
  /\ lastSeen' = MembershipObservations(i)
  /\ listRuns' = [listRuns EXCEPT ![i] =
                    [@ EXCEPT !.status = "completed", !.staged = {}, !.repeated = {}]]
  /\ Return(c, "completed")
  /\ UNCHANGED <<listUpstream, stops, listHistory>>

\* The transaction is refused; the run stays open with its staging.
ListAuthorityRefused(c) ==
  /\ caller[c].pc = "apply"
  /\ ~PromotionAccepted(caller[c].run)
  /\ Return(c, "error")
  /\ UNCHANGED <<listUpstream, listRuns, listCatalog, stops, listHistory>>

\* A database error ends the call where it stands.
StopListCall(c) ==
  /\ caller[c].pc # "idle"
  /\ stops < MaxStops
  /\ stops' = stops + 1
  /\ Return(c, "error")
  /\ UNCHANGED <<listUpstream, listRuns, listCatalog, listHistory>>

-----------------------------------------------------------------------------
(* The steps of the component.  A call is started by whoever composes it.  *)

ListInit ==
  /\ filed \in InitialFiled
  /\ shelf = {l \in Lists : filed[l] # {}}
  /\ edits = 0 /\ stops = 0
  /\ listRuns = [i \in ListRunIds |-> [status |-> "unborn", cursor |-> 0,
                                       staged |-> {}, repeated |-> {}]]
  /\ starLists = [l \in Lists |-> [status |-> "unknown", evidence |-> 0]]
  /\ members = [p \in Pairs |-> [state |-> "unknown", evidence |-> 0]]
  /\ lastSeen = [p \in Pairs |-> "none"]
  /\ caller = [c \in Callers |-> IdleCaller("none")]
  /\ wasFiled = [i \in ListRunIds |-> {}]
  /\ wasNot = [i \in ListRunIds |-> {}]
  /\ edited = {}

ListOwner ==
  \/ \E l \in Lists, r \in Repos : FileUpstream(l, r) \/ UnfileUpstream(l, r)
  \/ \E l \in Lists : CreateList(l) \/ DeleteList(l)

\* What a live call does next of its own accord.
ProceedLists(c) ==
  \/ FetchListPage(c)
  \/ FetchTruncated(c)
  \/ FailListRun(c)
  \/ RecordListPage(c)
  \/ ApplyListAuthority(c)
  \/ ListAuthorityRefused(c)

InterruptLists(c) == ListProviderError(c) \/ PauseListRun(c) \/ StopListCall(c)

-----------------------------------------------------------------------------
(* Properties.                                                             *)

\* No membership, removal or tombstone rests on an enumeration that did not
\* complete: what an open, paused, truncated or failed run staged never
\* reaches star_lists or star_list_memberships (star_lists.rs 6-9, 117-119).
ListEvidenceIsComplete ==
  /\ \A p \in Pairs : members[p].evidence # 0
                        => listRuns[members[p].evidence].status = "completed"
  /\ \A l \in Lists : starLists[l].evidence # 0
                        => listRuns[starLists[l].evidence].status = "completed"

\* An enumeration during which the owner changed nothing ends with exactly the
\* upstream memberships, and with the lists that hold something active; it can
\* only complete while no list is truncated (apply_list_authority_and_complete).
QuietEnumerationConverges ==
  [][\A i \in ListRunIds :
       /\ i \notin edited
       /\ listRuns[i].status = "running" /\ listRuns'[i].status = "completed"
       => /\ \A l \in Lists : CurrentListMembers(l)' = filed[l]
          /\ CurrentStarLists' = {l \in shelf : filed[l] # {}}
          /\ ~Truncated(shelf)]_listVars

\* Memberships exist only in active lists, and the projection agrees with the
\* newest observation wherever a snapshot wrote it (tombstone_absent_lists
\* relies on the demotion before it, star_lists.rs 530-533).
MembersOfActiveLists ==
  /\ \A p \in MemberPairs : p[1] \in CurrentStarLists
  /\ \A p \in Pairs : members[p].evidence # 0 =>
       lastSeen[p] = IF members[p].state = "member" THEN "member" ELSE "removed"
=============================================================================
