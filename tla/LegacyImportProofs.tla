------------------------- MODULE LegacyImportProofs -------------------------
(***************************************************************************)
(* Proofs about LegacyImport, for every archive, set of users and of runs: *)
(* imports are all or nothing, repeating one undoes no evidence, and a     *)
(* clean shadow report means that every account was confirmed and, when    *)
(* nothing changed meanwhile, that the archive and GitHub agree.           *)
(*                                                                         *)
(* A report is six queries in a row.  That its early counts still hold     *)
(* when the last is taken is the point of the invariant: between them, an  *)
(* import apart, accounts, snapshots and times are only ever gained.       *)
(***************************************************************************)
EXTENDS LegacyImport, TLAPS

Typed ==
  /\ account \in [Users -> {"none", "reauthorization_required", "connected"}]
  /\ records \subseteq Records
  /\ star \in [Pairs -> {"absent", "starred", "unstarred"}]
  /\ fresh \in [full : SUBSET Users, lists : SUBSET Users]
  /\ run \in [Runs -> {"none", "running", "completed", "failed"}]
  /\ content \in [Runs -> SUBSET Records]
  /\ shadow \in Shadow \union {Ready}
  /\ shadow.pc = "lists" => shadow.user \in Users

Completed == {j \in Runs : run[j] = "completed"}

\* An imported star was seen by a snapshot, or its time is unknown.
SeenOrUnknown == \A rec \in records \intersect Starred : Pair(rec) \in unknown \union seen

\* What the counts taken so far still say.
Counted ==
  /\ shadow.pc # "count" => shadow.at = 1
  /\ shadow.found = "none" /\ ~overlapped =>
       /\ shadow.at > 1 => \A u \in Imported : account[u] = "connected"
       /\ shadow.at > 2 => Imported \subseteq fresh.full
       /\ shadow.at > 3 => Imported \subseteq fresh.lists
       /\ shadow.at > 5 => \A rec \in records \intersect Starred : Pair(rec) \notin unknown

IInv == Typed /\ ImportsAreAllOrNothing /\ SeenOrUnknown /\ Counted

\* The initial state satisfies the invariant.
LEMMA InitIInv == Init => IInv
<1> SUFFICES ASSUME Init PROVE IInv
  OBVIOUS
<1>1. Typed
  BY DEF Init, Typed, Ready
<1>2. ImportsAreAllOrNothing
  BY DEF Init, ImportsAreAllOrNothing
<1>3. SeenOrUnknown /\ Counted
  BY DEF Init, SeenOrUnknown, Counted, Ready
<1> QED
  BY <1>1, <1>2, <1>3 DEF IInv

\* A snapshot keeps the types, and only gains snapshots and times.
LEMMA SnapshotGains ==
  ASSUME Typed, SeenOrUnknown, NEW u \in Users, (FullSnapshot(u) \/ ListSnapshot(u))
  PROVE  /\ UNCHANGED <<account, records, claims>>
         /\ star' \in [Pairs -> {"absent", "starred", "unstarred"}]
         /\ fresh' \in [full : SUBSET Users, lists : SUBSET Users]
         /\ fresh.full \subseteq fresh'.full /\ fresh.lists \subseteq fresh'.lists
         /\ unknown' \subseteq unknown
         /\ SeenOrUnknown'
<1>1. CASE FullSnapshot(u)
  <2>1. star' \in [Pairs -> {"absent", "starred", "unstarred"}]
    BY <1>1 DEF FullSnapshot, Typed
  <2>2. unknown' = unknown \ Own(u) /\ seen' = seen \union Own(u) /\ records' = records
    BY <1>1 DEF FullSnapshot
  <2>3. SeenOrUnknown'
    BY <2>2 DEF SeenOrUnknown
  <2> QED
    BY <1>1, <2>1, <2>2, <2>3 DEF FullSnapshot, Typed
<1>2. CASE ListSnapshot(u)
  BY <1>2 DEF ListSnapshot, Typed, SeenOrUnknown
<1> QED
  BY <1>1, <1>2

\* Steps outside the import: the runs stay, and what was counted stays true.
LEMMA Gains ==
  ASSUME IInv, UNCHANGED <<run, content, records>>,
         Typed', SeenOrUnknown', unknown' \subseteq unknown,
         fresh.full \subseteq fresh'.full, fresh.lists \subseteq fresh'.lists,
         \A u \in Users : \/ account'[u] = account[u]
                          \/ account[u] # "none" /\ account'[u] = "connected",
         \/ shadow' = Ready
         \/ overlapped' = overlapped /\ shadow'.at = shadow.at /\ shadow'.found = shadow.found
            /\ (shadow'.pc = shadow.pc \/ shadow.at = 1)
  PROVE  IInv'
<1>1. ImportsAreAllOrNothing'
  BY DEF IInv, ImportsAreAllOrNothing
<1>2. Imported' = Imported /\ \A u \in Imported : account[u] = "connected" => account'[u] = "connected"
  BY DEF Imported
<1>3. CASE shadow' = Ready
  BY <1>1, <1>3 DEF IInv, Counted, Ready
<1>4. CASE shadow' # Ready
  <2>1. /\ overlapped' = overlapped /\ shadow'.at = shadow.at /\ shadow'.found = shadow.found
        /\ shadow'.pc = shadow.pc \/ shadow.at = 1
    BY <1>4
  <2>2. Counted'
    BY <1>2, <2>1 DEF IInv, Counted
  <2> QED
    BY <1>1, <2>2 DEF IInv
<1> QED
  BY <1>3, <1>4

\* The import's transaction adds a whole run, and ends what the counts say.
LEMMA ImportIInv ==
  ASSUME IInv, NEW i \in Runs, ImportTransaction(i)
  PROVE  IInv'
<1>1. /\ records' = records \union content[i] /\ content' = content /\ shadow' = shadow
      /\ run' = [run EXCEPT ![i] = "completed"] /\ fresh' = fresh
      /\ overlapped' = (overlapped \/ shadow # Ready)
  BY DEF ImportTransaction, NewRecords
<1>2. Typed'
  <2>1. account' \in [Users -> {"none", "reauthorization_required", "connected"}]
    BY DEF ImportTransaction, ImportedAccounts, IInv, Typed
  <2>2. star' \in [Pairs -> {"absent", "starred", "unstarred"}]
    BY DEF ImportTransaction, ImportLegacyStars, IInv, Typed
  <2> QED
    BY <1>1, <2>1, <2>2 DEF IInv, Typed
<1>3. ImportsAreAllOrNothing'
  <2>1. Completed' = Completed \union {i}
    BY <1>1 DEF Completed, IInv, Typed
  <2>2. records = UNION {content[j] : j \in Completed}
    BY DEF IInv, ImportsAreAllOrNothing, Completed
  <2>3. {content[j] : j \in Completed \union {i}} = {content[j] : j \in Completed} \union {content[i]}
    OBVIOUS
  <2>4. records' = UNION {content[j] : j \in Completed \union {i}}
    BY <1>1, <2>2, <2>3
  <2> QED
    BY <1>1, <2>1, <2>4 DEF ImportsAreAllOrNothing, Completed
<1>4. SeenOrUnknown'
  <2> DEFINE new == content[i] \ records
             pairs == {Pair(rec) : rec \in new \intersect Starred}
  <2>1. unknown' = unknown \union pairs /\ seen' = seen \ pairs
    BY DEF ImportTransaction, NewRecords, ImportLegacyStars
  <2>2. \A rec \in records' \intersect Starred : rec \in records \/ Pair(rec) \in pairs
    BY <1>1
  <2> HIDE DEF pairs
  <2> QED
    BY <2>1, <2>2 DEF IInv, SeenOrUnknown
<1>5. Counted'
  <2>1. CASE shadow = Ready
    BY <1>1, <2>1 DEF Counted, Ready
  <2>2. CASE shadow # Ready
    BY <1>1, <2>2 DEF IInv, Counted
  <2> QED
    BY <2>1, <2>2
<1> QED
  BY <1>2, <1>3, <1>4, <1>5 DEF IInv

\* Beginning and failing a run leaves the completed ones.
LEMMA RunIInv ==
  ASSUME IInv, NEW i \in Runs, ImportFails(i) \/ \E S \in SUBSET Records : BeginImport(i, S)
  PROVE  IInv'
<1>1. run[i] # "completed" /\ run'[i] # "completed"
      /\ \A j \in Runs \ {i} : run'[j] = run[j] /\ content'[j] = content[j]
  BY DEF ImportFails, BeginImport, IInv, Typed
<1>2. UNCHANGED <<account, records, star, unknown, fresh, shadow, seen, overlapped>>
  BY DEF ImportFails, BeginImport, targetVars, history
<1>3. Typed'
  <2>1. run' \in [Runs -> {"none", "running", "completed", "failed"}]
    BY DEF ImportFails, BeginImport, IInv, Typed
  <2>2. content' \in [Runs -> SUBSET Records]
    BY DEF ImportFails, BeginImport, IInv, Typed
  <2> QED
    BY <1>2, <2>1, <2>2 DEF IInv, Typed
<1>4. ImportsAreAllOrNothing'
  <2>1. Completed' = Completed /\ \A j \in Completed : content'[j] = content[j]
    BY <1>1 DEF Completed
  <2>2. {content'[j] : j \in Completed} = {content[j] : j \in Completed}
    BY <2>1
  <2> QED
    BY <1>2, <2>1, <2>2 DEF IInv, ImportsAreAllOrNothing, Completed
<1>5. SeenOrUnknown' /\ Counted'
  BY <1>2 DEF IInv, SeenOrUnknown, Counted, Imported
<1> QED
  BY <1>3, <1>4, <1>5 DEF IInv

\* Each count adds what it found, and the earlier ones still hold.
LEMMA CountIInv ==
  ASSUME IInv, Count
  PROVE  IInv'
<1>1. UNCHANGED <<account, records, star, unknown, fresh, run, content, seen, overlapped>>
  BY DEF Count, targetVars, history
<1>2. shadow \in Shadow /\ shadow.at \in Counts /\ shadow.pc = "count"
  BY DEF Count, IInv, Typed, Ready
<1>3. PICK f \in {"none", "some"} : /\ shadow' = [shadow EXCEPT !.at = @ + 1, !.found = f]
                                    /\ f = "none" => shadow.found = "none" /\ CountIsZero(shadow.at)
  BY <1>2 DEF Count, Shadow
<1>4. shadow' \in Shadow /\ shadow'.at = shadow.at + 1 /\ shadow'.pc = "count" /\ shadow'.found = f
  <2>1. PICK n \in 1..7 : n = shadow.at + 1
    BY <1>2 DEF Counts
  <2>2. shadow' = [shadow EXCEPT !.at = n, !.found = f]
    BY <1>3, <2>1
  <2>3. shadow' \in Shadow /\ shadow'.at = n /\ shadow'.pc = shadow.pc /\ shadow'.found = f
    BY <1>2, <2>2 DEF Shadow
  <2> QED
    BY <1>2, <2>1, <2>3
<1>5. Typed'
  BY <1>1, <1>4 DEF IInv, Typed, Ready
<1>6. ImportsAreAllOrNothing' /\ SeenOrUnknown'
  BY <1>1 DEF IInv, ImportsAreAllOrNothing, SeenOrUnknown
<1>7. Counted'
  <2> DEFINE Found(n) ==
        /\ n > 1 => \A u \in Imported : account[u] = "connected"
        /\ n > 2 => Imported \subseteq fresh.full
        /\ n > 3 => Imported \subseteq fresh.lists
        /\ n > 5 => \A rec \in records \intersect Starred : Pair(rec) \notin unknown
  <2> SUFFICES ASSUME f = "none", ~overlapped PROVE Found(shadow.at + 1)
    <3>1. Imported' = Imported
      BY <1>1 DEF Imported
    <3> QED
      BY <1>1, <1>4, <3>1 DEF Counted
  <2>1. CountIsZero(shadow.at) /\ Found(shadow.at)
    BY <1>3 DEF IInv, Counted
  <2>2. CASE shadow.at = 1
    BY <2>1, <2>2 DEF CountIsZero
  <2>3. CASE shadow.at = 2
    BY <2>1, <2>3 DEF CountIsZero
  <2>4. CASE shadow.at = 3
    BY <2>1, <2>4 DEF CountIsZero
  <2>5. CASE shadow.at = 4
    BY <2>1, <2>5
  <2>6. CASE shadow.at = 5
    BY <2>1, <2>6 DEF CountIsZero
  <2>7. CASE shadow.at = 6
    BY <2>1, <2>7
  <2> QED
    BY <1>2, <2>2, <2>3, <2>4, <2>5, <2>6, <2>7 DEF Counts
<1> QED
  BY <1>5, <1>6, <1>7 DEF IInv

\* Users and the service: edits, credentials and snapshots.
LEMMA OthersIInv ==
  ASSUME IInv,
         \/ \E p \in Pairs : EditStar(p)
         \/ \E p \in Claimed : EditFiled(p)
         \/ \E u \in Users : Register(u) \/ ServiceSync(u)
         \/ UNCHANGED vars
  PROVE  IInv'
<1>1. CASE \/ \E p \in Pairs : EditStar(p)
           \/ \E p \in Claimed : EditFiled(p)
           \/ UNCHANGED vars
  <2>1. UNCHANGED <<account, records, star, unknown, fresh, run, content, shadow, seen, overlapped>>
    BY <1>1 DEF EditStar, EditFiled, targetVars, vars, history
  <2>2. Typed' /\ SeenOrUnknown'
    BY <2>1 DEF IInv, Typed, SeenOrUnknown
  <2> QED
    BY <2>1, <2>2, Gains
<1>2. ASSUME NEW u \in Users, Register(u) PROVE IInv'
  <2>1. /\ UNCHANGED <<records, star, unknown, fresh, run, content, shadow, seen, overlapped>>
        /\ account[u] = "reauthorization_required" /\ account' = [account EXCEPT ![u] = "connected"]
    BY <1>2 DEF Register, history
  <2>2. Typed' /\ SeenOrUnknown'
    BY <2>1 DEF IInv, Typed, SeenOrUnknown
  <2>3. \A v \in Users : account'[v] = account[v] \/ (account[v] # "none" /\ account'[v] = "connected")
    BY <2>1 DEF IInv, Typed
  <2> QED
    BY <2>1, <2>2, <2>3, Gains
<1>3. ASSUME NEW u \in Users, ServiceSync(u) PROVE IInv'
  <2>1. UNCHANGED <<run, content, shadow, overlapped>> /\ (FullSnapshot(u) \/ ListSnapshot(u))
    BY <1>3 DEF ServiceSync
  <2>2. /\ UNCHANGED <<account, records>> /\ SeenOrUnknown' /\ unknown' \subseteq unknown
        /\ star' \in [Pairs -> {"absent", "starred", "unstarred"}]
        /\ fresh' \in [full : SUBSET Users, lists : SUBSET Users]
        /\ fresh.full \subseteq fresh'.full /\ fresh.lists \subseteq fresh'.lists
    BY <2>1, SnapshotGains DEF IInv
  <2>3. Typed'
    BY <2>1, <2>2 DEF IInv, Typed
  <2> QED
    BY <2>1, <2>2, <2>3, Gains
<1> QED
  BY <1>1, <1>2, <1>3

\* The shadow command's steps before and after its counts.
LEMMA ShadowIInv ==
  ASSUME IInv, \/ BeginShadow \/ ShadowLists \/ ShadowAborts \/ Report
               \/ \E u \in Users : ShadowStars(u)
  PROVE  IInv'
<1>1. CASE ShadowAborts \/ Report
  <2>1. UNCHANGED <<account, records, star, unknown, fresh, run, content, seen>> /\ shadow' = Ready
    BY <1>1 DEF ShadowAborts, Report, targetVars
  <2>2. Typed' /\ SeenOrUnknown'
    BY <2>1 DEF IInv, Typed, SeenOrUnknown, Ready
  <2> QED
    BY <2>1, <2>2, Gains
<1>2. CASE BeginShadow
  <2>1. UNCHANGED <<account, records, star, unknown, fresh, run, content, seen, overlapped>>
    BY <1>2 DEF BeginShadow, targetVars, history
  <2>2. /\ shadow' \in Shadow /\ shadow'.pc # "lists" /\ shadow'.at = 1 /\ shadow'.found = "none"
        /\ shadow.at = 1 /\ shadow.found = "none"
    <3>1. PICK pc \in {"count", "stars"}, todo \in SUBSET Users :
            shadow' = [Ready EXCEPT !.pc = pc, !.todo = todo]
      BY <1>2 DEF BeginShadow
    <3>2. shadow = Ready
      BY <1>2 DEF BeginShadow
    <3>3. shadow' = [pc |-> pc, todo |-> todo, user |-> "none", at |-> 1, found |-> "none"]
      BY <3>1 DEF Ready
    <3> QED
      BY <3>2, <3>3 DEF Ready, Shadow
  <2>3. Typed' /\ SeenOrUnknown'
    BY <2>1, <2>2 DEF IInv, Typed, SeenOrUnknown
  <2> QED
    BY <2>1, <2>2, <2>3, Gains
<1>3. ASSUME NEW u \in Users, ShadowStars(u) \/ (ShadowLists /\ u = shadow.user)
      PROVE  IInv'
  <2>1. /\ UNCHANGED <<run, content, overlapped>> /\ (FullSnapshot(u) \/ ListSnapshot(u))
        /\ shadow.pc \in {"stars", "lists"} /\ shadow \in Shadow
    <3>1. UNCHANGED <<run, content, overlapped>> /\ shadow.pc \in {"stars", "lists"}
      BY <1>3 DEF ShadowStars, ShadowLists
    <3>2. FullSnapshot(u) \/ ListSnapshot(u)
      BY <1>3, Zenon DEF ShadowStars, ShadowLists
    <3>3. shadow \in Shadow
      BY <3>1 DEF IInv, Typed, Ready
    <3> QED
      BY <3>1, <3>2, <3>3
  <2>2. /\ UNCHANGED <<account, records>> /\ SeenOrUnknown' /\ unknown' \subseteq unknown
        /\ star' \in [Pairs -> {"absent", "starred", "unstarred"}]
        /\ fresh' \in [full : SUBSET Users, lists : SUBSET Users]
        /\ fresh.full \subseteq fresh'.full /\ fresh.lists \subseteq fresh'.lists
    BY <2>1, SnapshotGains DEF IInv
  <2>3. /\ shadow' \in Shadow /\ shadow'.at = shadow.at /\ shadow'.found = shadow.found
        /\ shadow'.pc = "lists" => shadow'.user \in Users
    <3>1. CASE ShadowStars(u)
      BY <2>1, <3>1 DEF ShadowStars, Shadow
    <3>2. CASE ShadowLists
      <4>1. PICK pc \in {"count", "stars"} : shadow' = [shadow EXCEPT !.pc = pc, !.user = "none"]
        BY <3>2 DEF ShadowLists
      <4> QED
        BY <2>1, <4>1 DEF Shadow
    <3> QED
      BY <1>3, <3>1, <3>2
  <2>4. Typed' /\ shadow.at = 1
    BY <2>1, <2>2, <2>3 DEF IInv, Typed, Counted
  <2> QED
    BY <2>1, <2>2, <2>3, <2>4, Gains
<1>4. CASE ShadowLists
  <2>1. shadow.user \in Users
    BY <1>4 DEF ShadowLists, IInv, Typed
  <2> QED
    BY <1>3, <1>4, <2>1
<1> QED
  BY <1>1, <1>2, <1>3, <1>4

\* The invariant holds in every reachable state.
LEMMA Invariant == Spec => []IInv
<1>1. IInv /\ [Next]_vars => IInv'
  BY ImportIInv, RunIInv, CountIInv, OthersIInv, ShadowIInv DEF Next
<1> QED
  BY <1>1, InitIInv, PTL DEF Spec

\* The catalog's legacy records are those of the completed runs, whatever failed or
\* stopped halfway.
THEOREM ImportsAreWhole == Spec => []ImportsAreAllOrNothing
BY Invariant, PTL DEF IInv

\* No repeated import stars again what a snapshot has seen unstarred.
THEOREM EvidenceStays == Spec => EvidenceOutlivesReimport
<1> DEFINE Back == \A p \in Pairs : star[p] = "unstarred" /\ star'[p] = "starred" =>
                     p \in atGithub.starred \/ \E rec \in records' \ records : Pair(rec) = p
<1>1. ASSUME [Next]_vars PROVE [Back]_vars
  <2>1. CASE UNCHANGED star
    BY <2>1
  <2>2. ASSUME NEW u \in Users, FullSnapshot(u) PROVE Back
    BY <2>2 DEF FullSnapshot
  <2>3. ASSUME NEW i \in Runs, ImportTransaction(i) PROVE Back
    BY <2>3 DEF ImportTransaction, ImportLegacyStars, NewRecords
  <2>4. ASSUME NEW u \in Users, ServiceSync(u) \/ ShadowStars(u) PROVE Back
    <3>1. FullSnapshot(u) \/ star' = star
      BY <2>4 DEF ServiceSync, ShadowStars, ListSnapshot
    <3> QED
      BY <2>2, <3>1
  <2> QED
    BY <1>1, <2>1, <2>3, <2>4 DEF Next, EditStar, EditFiled, Register, BeginImport, ImportFails,
       BeginShadow, ShadowLists, ListSnapshot, ShadowAborts, Count, Report, targetVars, vars
<1> QED
  BY <1>1, PTL DEF Spec, EvidenceOutlivesReimport

\* A clean report is stored only when every imported account has its credential and
\* both snapshots and every imported star was seen, imports during the command apart.
THEOREM CleanIsConfirmed == Spec => CleanMeansConfirmed
<1> DEFINE Confirmed ==
      StoresClean /\ ~overlapped =>
        /\ \A u \in Imported : account[u] = "connected" /\ u \in fresh.full \intersect fresh.lists
        /\ \A rec \in records \intersect Starred : Pair(rec) \in seen
<1>1. ASSUME IInv PROVE Confirmed
  <2> SUFFICES ASSUME shadow.at = 7, shadow.found = "none", ~overlapped
               PROVE  /\ \A u \in Imported : account[u] = "connected" /\ u \in fresh.full \intersect fresh.lists
                      /\ \A rec \in records \intersect Starred : Pair(rec) \in seen
    BY DEF StoresClean
  <2> QED
    BY <1>1 DEF IInv, Counted, SeenOrUnknown
<1> QED
  BY <1>1, Invariant, PTL DEF CleanMeansConfirmed

-----------------------------------------------------------------------------
(* A quiet command.  While nothing changes at GitHub and no import commits,   *)
(* an account whose snapshot is newer than its credential, and that the      *)
(* command has passed or that was registered since it began, agrees with     *)
(* GitHub; what counts four and six compare is then GitHub itself.           *)

\* The catalog's stars, and list memberships, of an account are those at GitHub.
StarsAgree(u) == \A p \in Own(u) : (star[p] = "starred") <=> (p \in atGithub.starred)
ListsAgree(u) == \A p \in Own(u) : (p \in members) => (p \in atGithub.filed)

\* Records have accounts, list claims have records, snapshots count only after the
\* credential, the command's accounts are connected, and its counts begin when every
\* account was passed.
Rows ==
  /\ claims \subseteq records
  /\ \A rec \in records : account[UserOf[rec]] # "none"
  /\ \A u \in Users : u \in fresh.full \/ u \in fresh.lists => account[u] = "connected"
  /\ shadow.pc = "count" => shadow.todo = {}
  /\ \A u \in shadow.todo : account[u] = "connected"
  /\ shadow.pc = "lists" => account[shadow.user] = "connected"

Quiet == quiet /\ ~overlapped /\ shadow # Ready

Passed ==
  Quiet => \A u \in Users :
    /\ u \in fresh.full /\ u \notin shadow.todo => StarsAgree(u)
    /\ u \in fresh.lists /\ u \notin shadow.todo /\ (shadow.pc = "lists" => u # shadow.user) => ListsAgree(u)

Compared ==
  Quiet /\ shadow.found = "none" =>
    /\ shadow.at > 4 => \A rec \in records : (rec \in Starred) = (Pair(rec) \in atGithub.starred)
    /\ shadow.at > 6 => \A rec \in claims : Pair(rec) \in atGithub.filed

QInv == Rows /\ Passed /\ Compared

\* A full snapshot makes its account's stars GitHub's, and touches no other account's.
LEMMA FullAgrees ==
  ASSUME Typed, NEW u \in Users, FullSnapshot(u), UNCHANGED atGithub
  PROVE  /\ StarsAgree(u)'
         /\ \A v \in Users : v # u /\ StarsAgree(v) => StarsAgree(v)'
         /\ \A v \in Users : ListsAgree(v) => ListsAgree(v)'
         /\ fresh'.full = fresh.full \union {u} /\ fresh'.lists = fresh.lists
<1>1. \A p \in Pairs : star'[p] = CASE p \notin Own(u) -> star[p]
                                    [] p \in Own(u) \intersect atGithub.starred -> "starred"
                                    [] OTHER -> IF star[p] = "absent" THEN "absent" ELSE "unstarred"
  BY DEF FullSnapshot
<1>2. StarsAgree(u)'
  BY <1>1 DEF StarsAgree, Own
<1>3. ASSUME NEW v \in Users, v # u, StarsAgree(v) PROVE StarsAgree(v)'
  <2>1. \A p \in Own(v) : p \in Pairs /\ p \notin Own(u)
    BY <1>3 DEF Own
  <2>2. \A p \in Own(v) : star'[p] = star[p]
    BY <1>1, <2>1
  <2> QED
    BY <1>3, <2>2 DEF StarsAgree
<1>4. \A v \in Users : ListsAgree(v) => ListsAgree(v)'
  BY DEF FullSnapshot, ListsAgree
<1>5. fresh'.full = fresh.full \union {u} /\ fresh'.lists = fresh.lists
  BY DEF FullSnapshot, Typed
<1> QED
  BY <1>2, <1>3, <1>4, <1>5

\* A list snapshot does the same for the memberships.
LEMMA ListAgrees ==
  ASSUME Typed, NEW u \in Users, ListSnapshot(u), UNCHANGED atGithub
  PROVE  /\ ListsAgree(u)'
         /\ \A v \in Users : v # u /\ ListsAgree(v) => ListsAgree(v)'
         /\ \A v \in Users : StarsAgree(v) => StarsAgree(v)'
         /\ fresh'.lists = fresh.lists \union {u} /\ fresh'.full = fresh.full
<1>1. members' = (members \ Own(u)) \union (atGithub.filed \intersect Own(u))
  BY DEF ListSnapshot
<1>2. ListsAgree(u)'
  BY <1>1 DEF ListsAgree
<1>3. \A v \in Users : ListsAgree(v) => ListsAgree(v)'
  BY <1>1 DEF ListsAgree
<1>4. \A v \in Users : StarsAgree(v) => StarsAgree(v)'
  BY DEF ListSnapshot, StarsAgree
<1>5. fresh'.lists = fresh.lists \union {u} /\ fresh'.full = fresh.full
  BY DEF ListSnapshot, Typed
<1> QED
  BY <1>2, <1>3, <1>4, <1>5

\* A full snapshot, of the service or of the command.
LEMMA FullQInv ==
  ASSUME IInv, QInv, NEW u \in Users, account[u] = "connected", FullSnapshot(u),
         UNCHANGED <<atGithub, quiet, overlapped>>,
         \/ UNCHANGED shadow
         \/ /\ shadow # Ready /\ shadow'.at = shadow.at /\ shadow'.found = shadow.found
            /\ shadow'.todo = shadow.todo \ {u} /\ shadow'.pc = "lists" /\ shadow'.user = u
            /\ shadow.pc = "stars"
  PROVE  QInv'
<1>1. UNCHANGED <<account, records, claims>> /\ (Quiet' => Quiet)
  BY SnapshotGains DEF IInv, Quiet
<1>2. Compared'
  BY <1>1 DEF QInv, Compared
<1>3. /\ StarsAgree(u)' /\ fresh'.full = fresh.full \union {u} /\ fresh'.lists = fresh.lists
      /\ \A v \in Users : v # u /\ StarsAgree(v) => StarsAgree(v)'
      /\ \A v \in Users : ListsAgree(v) => ListsAgree(v)'
  BY FullAgrees DEF IInv
<1>4. Rows'
  BY <1>1, <1>3 DEF QInv, Rows
<1>5. Passed'
  BY <1>1, <1>3 DEF QInv, Passed
<1> QED
  BY <1>2, <1>4, <1>5 DEF QInv

\* A list snapshot, of the service or of the command.
LEMMA ListQInv ==
  ASSUME IInv, QInv, NEW u \in Users, account[u] = "connected", ListSnapshot(u),
         UNCHANGED <<atGithub, quiet, overlapped>>,
         \/ UNCHANGED shadow
         \/ /\ shadow # Ready /\ shadow'.at = shadow.at /\ shadow'.found = shadow.found
            /\ shadow'.todo = shadow.todo /\ shadow'.pc \in {"count", "stars"}
            /\ shadow'.pc = "count" => shadow.todo = {}
            /\ shadow.pc = "lists" /\ shadow.user = u
  PROVE  QInv'
<1>1. UNCHANGED <<account, records, claims>> /\ (Quiet' => Quiet)
  BY SnapshotGains DEF IInv, Quiet
<1>2. Compared'
  BY <1>1 DEF QInv, Compared
<1>3. /\ ListsAgree(u)' /\ fresh'.lists = fresh.lists \union {u} /\ fresh'.full = fresh.full
      /\ \A v \in Users : v # u /\ ListsAgree(v) => ListsAgree(v)'
      /\ \A v \in Users : StarsAgree(v) => StarsAgree(v)'
  BY ListAgrees DEF IInv
<1>4. Rows'
  BY <1>1, <1>3 DEF QInv, Rows
<1>5. Passed'
  BY <1>1, <1>3 DEF QInv, Passed
<1> QED
  BY <1>2, <1>4, <1>5 DEF QInv

\* The import's transaction ends the quiet; it makes the accounts of its records.
LEMMA ImportQInv ==
  ASSUME IInv, QInv, NEW i \in Runs, ImportTransaction(i)
  PROVE  QInv'
<1>1. /\ account' = ImportedAccounts(content[i]) /\ UNCHANGED <<fresh, shadow>>
      /\ claims' = claims \union (NewRecords(i) \intersect Filed)
      /\ records' = records \union NewRecords(i)
      /\ overlapped' = (overlapped \/ shadow # Ready)
  BY DEF ImportTransaction
<1>2. \A u \in Users : /\ account[u] # "none" => account'[u] = account[u]
                       /\ (\E rec \in content[i] : UserOf[rec] = u) => account'[u] # "none"
  BY <1>1 DEF ImportedAccounts
<1>3. NewRecords(i) \subseteq content[i] /\ content[i] \subseteq Records /\ records \subseteq Records
  BY DEF NewRecords, IInv, Typed
<1>4. Rows'
  <2>1. \A rec \in records' : account'[UserOf[rec]] # "none"
    BY <1>1, <1>2, <1>3, LegacyConstants DEF QInv, Rows
  <2>2. \A u \in Users : u \in fresh'.full \/ u \in fresh'.lists => account'[u] = "connected"
    BY <1>1, <1>2 DEF QInv, Rows
  <2>3. shadow.todo \subseteq Users /\ (shadow.pc = "lists" => shadow.user \in Users)
    BY DEF IInv, Typed, Shadow, Ready
  <2> QED
    BY <1>1, <1>2, <2>1, <2>2, <2>3 DEF QInv, Rows
<1>5. ~Quiet'
  BY <1>1 DEF Quiet
<1> QED
  BY <1>4, <1>5 DEF QInv, Passed, Compared

\* A count that finds nothing compares the archive with GitHub itself.
LEMMA CountQInv ==
  ASSUME IInv, QInv, Count
  PROVE  QInv'
<1>1. UNCHANGED <<atGithub, account, records, claims, star, members, fresh, quiet, overlapped>>
  BY DEF Count, targetVars, history
<1>2. shadow \in Shadow /\ shadow.at \in Counts /\ shadow.pc = "count" /\ shadow.todo = {}
  BY DEF Count, IInv, QInv, Rows, Typed, Ready
<1>3. PICK f \in {"none", "some"} : /\ shadow' = [shadow EXCEPT !.at = @ + 1, !.found = f]
                                    /\ f = "none" => shadow.found = "none" /\ CountIsZero(shadow.at)
  BY <1>2 DEF Count, Shadow
<1>4. /\ shadow'.at = shadow.at + 1 /\ shadow'.pc = "count" /\ shadow'.todo = {} /\ shadow'.found = f
      /\ shadow # Ready
  BY <1>2, <1>3 DEF Shadow, Ready
<1>5. Rows'
  BY <1>1, <1>4 DEF QInv, Rows
<1>6. Quiet' => Quiet
  BY <1>1, <1>4 DEF Quiet
<1>7. Passed'
  BY <1>1, <1>2, <1>4, <1>6 DEF QInv, Passed, StarsAgree, ListsAgree
<1>8. Compared'
  <2> SUFFICES ASSUME Quiet, f = "none"
               PROVE  /\ shadow.at > 3 => \A rec \in records : (rec \in Starred) = (Pair(rec) \in atGithub.starred)
                      /\ shadow.at > 5 => \A rec \in claims : Pair(rec) \in atGithub.filed
    BY <1>1, <1>2, <1>4, <1>6 DEF Compared, Counts
  <2>1. CountIsZero(shadow.at) /\ shadow.found = "none" /\ ~overlapped
    BY <1>3 DEF Quiet
  <2>2. \A rec \in records : UserOf[rec] \in Imported /\ UserOf[rec] \in Users /\ Pair(rec) \in Own(UserOf[rec])
    BY LegacyConstants DEF QInv, Rows, Imported, IInv, Typed, Own, Pairs, Pair
  <2>3. ASSUME shadow.at > 3, NEW rec \in records PROVE StarsAgree(UserOf[rec]) /\ ListsAgree(UserOf[rec])
    <3>1. UserOf[rec] \in fresh.full /\ UserOf[rec] \in fresh.lists
      BY <1>2, <2>1, <2>2, <2>3 DEF IInv, Counted, Counts
    <3> QED
      BY <1>2, <2>2, <3>1 DEF QInv, Passed
  <2>4. CASE shadow.at = 4
    <3>1. \A rec \in records : (rec \in Starred) = (star[Pair(rec)] = "starred")
      BY <2>1, <2>4 DEF CountIsZero, Mismatched
    <3> QED
      BY <2>2, <2>3, <2>4, <3>1 DEF StarsAgree
  <2>5. CASE shadow.at > 4
    <3>1. \A rec \in records : (rec \in Starred) = (Pair(rec) \in atGithub.starred)
      BY <2>1, <2>5 DEF QInv, Compared
    <3>2. ASSUME shadow.at = 6, NEW rec \in claims PROVE Pair(rec) \in atGithub.filed
      <4>1. rec \in records /\ Pair(rec) \in members
        BY <2>1, <3>2 DEF CountIsZero, QInv, Rows
      <4> QED
        BY <2>2, <2>3, <3>2, <4>1 DEF ListsAgree
    <3> QED
      BY <1>2, <3>1, <3>2 DEF Counts
  <2> QED
    BY <1>2, <2>4, <2>5 DEF Counts
<1> QED
  BY <1>5, <1>7, <1>8 DEF QInv

\* The other steps of users, of the import and of the command.
LEMMA OthersQInv ==
  ASSUME IInv, QInv,
         \/ \E p \in Pairs : EditStar(p)
         \/ \E p \in Claimed : EditFiled(p)
         \/ \E u \in Users : Register(u)
         \/ \E i \in Runs : ImportFails(i) \/ \E S \in SUBSET Records : BeginImport(i, S)
         \/ BeginShadow \/ ShadowAborts \/ Report
         \/ UNCHANGED vars
  PROVE  QInv'
<1>1. CASE (\E p \in Pairs : EditStar(p)) \/ (\E p \in Claimed : EditFiled(p))
  <2>1. UNCHANGED <<account, records, claims, fresh, shadow>> /\ quiet' = (shadow = Ready)
    BY <1>1 DEF EditStar, EditFiled, targetVars
  <2>2. Rows' /\ ~Quiet'
    BY <2>1 DEF QInv, Rows, Quiet
  <2> QED
    BY <2>2 DEF QInv, Passed, Compared
<1>2. ASSUME NEW u \in Users, Register(u) PROVE QInv'
  <2>1. /\ UNCHANGED <<atGithub, records, claims, star, members, fresh, shadow, quiet, overlapped>>
        /\ account' = [account EXCEPT ![u] = "connected"]
    BY <1>2 DEF Register, history
  <2>2. Rows'
    <3>1. /\ Rows /\ account \in [Users -> {"none", "reauthorization_required", "connected"}]
          /\ records \subseteq Records /\ (shadow.pc = "lists" => shadow.user \in Users)
          /\ \A rec \in Records : UserOf[rec] \in Users
      BY LegacyConstants, Zenon DEF QInv, IInv, Typed
    <3>2. \A v \in Users : account'[v] = account[v] \/ account'[v] = "connected"
      BY <2>1, <3>1, Zenon
    <3>3. /\ \A v \in Users : account[v] = "connected" => account'[v] = "connected"
          /\ \A v \in Users : account[v] # "none" => account'[v] # "none"
      BY <3>2, Zenon
    <3>4. /\ \A rec \in records : account'[UserOf[rec]] # "none"
          /\ \A v \in Users : v \in fresh.full \/ v \in fresh.lists => account'[v] = "connected"
          /\ shadow.pc = "lists" => account'[shadow.user] = "connected"
      BY <3>1, <3>3, Zenon DEF Rows
    <3>5. \A v \in shadow.todo : account'[v] = "connected"
      <4>1. shadow.todo \subseteq Users
        BY DEF IInv, Typed, Shadow, Ready
      <4> QED
        BY <3>1, <3>3, <4>1, Zenon DEF Rows
    <3> QED
      BY <2>1, <3>1, <3>4, <3>5, Zenon DEF Rows
  <2>3. Passed' /\ Compared'
    BY <2>1 DEF QInv, Passed, Compared, Quiet, StarsAgree, ListsAgree
  <2> QED
    BY <2>2, <2>3 DEF QInv
<1>3. CASE \/ \E i \in Runs : ImportFails(i) \/ \E S \in SUBSET Records : BeginImport(i, S)
           \/ UNCHANGED vars
  <2>1. UNCHANGED <<atGithub, account, records, claims, star, members, fresh, shadow, quiet, overlapped>>
    BY <1>3 DEF ImportFails, BeginImport, targetVars, history, vars
  <2> QED
    BY <2>1 DEF QInv, Rows, Passed, Compared, Quiet, StarsAgree, ListsAgree
<1>4. CASE ShadowAborts \/ Report
  <2>1. UNCHANGED <<account, records, claims, fresh>> /\ shadow' = Ready
    BY <1>4 DEF ShadowAborts, Report, targetVars
  <2>2. Rows' /\ ~Quiet'
    BY <2>1 DEF QInv, Rows, Quiet, Ready
  <2> QED
    BY <2>2 DEF QInv, Passed, Compared
<1>5. CASE BeginShadow
  <2>1. UNCHANGED <<account, records, claims, fresh>>
    BY <1>5 DEF BeginShadow, targetVars
  <2>2. PICK pc \in {"count", "stars"} :
          /\ shadow' = [Ready EXCEPT !.pc = pc, !.todo = {u \in Users : account[u] = "connected"}]
          /\ pc = "count" => {u \in Users : account[u] = "connected"} = {}
    BY <1>5 DEF BeginShadow
  <2>3. /\ shadow'.pc = pc /\ shadow'.todo = {u \in Users : account[u] = "connected"} /\ shadow'.at = 1
    BY <2>2 DEF Ready
  <2>4. Rows' /\ Compared'
    BY <2>1, <2>2, <2>3 DEF QInv, Rows, Compared
  <2>5. \A u \in Users : u \in fresh'.full \/ u \in fresh'.lists => u \in shadow'.todo
    BY <2>1, <2>3 DEF QInv, Rows
  <2>6. Passed'
    BY <2>5 DEF Passed
  <2> QED
    BY <2>4, <2>6 DEF QInv
<1> QED
  BY <1>1, <1>2, <1>3, <1>4, <1>5

\* A synchronisation of the service, or of the shadow command.
LEMMA SyncQInv ==
  ASSUME IInv, QInv, ShadowLists \/ \E u \in Users : ServiceSync(u) \/ ShadowStars(u)
  PROVE  QInv'
<1>1. ASSUME NEW u \in Users, ServiceSync(u) PROVE QInv'
  <2>1. account[u] = "connected" /\ UNCHANGED <<atGithub, quiet, overlapped, shadow>>
        /\ (FullSnapshot(u) \/ ListSnapshot(u))
    BY <1>1 DEF ServiceSync
  <2> QED
    BY <2>1, FullQInv, ListQInv
<1>2. ASSUME NEW u \in Users, ShadowStars(u) PROVE QInv'
  <2>1. /\ FullSnapshot(u) /\ UNCHANGED <<atGithub, quiet, overlapped>>
        /\ shadow.pc = "stars" /\ u \in shadow.todo
        /\ shadow' = [shadow EXCEPT !.pc = "lists", !.todo = @ \ {u}, !.user = u]
    BY <1>2 DEF ShadowStars
  <2>2. shadow \in Shadow /\ shadow # Ready
    <3>0. Ready.pc = "idle"
      BY DEF Ready
    <3>1. shadow # Ready
      BY <2>1, <3>0
    <3>2. shadow \in Shadow \union {Ready}
      BY DEF IInv, Typed
    <3> QED
      BY <3>1, <3>2
  <2>3. /\ shadow'.at = shadow.at /\ shadow'.found = shadow.found
        /\ shadow'.todo = shadow.todo \ {u} /\ shadow'.pc = "lists" /\ shadow'.user = u
    BY <2>1, <2>2 DEF Shadow
  <2>4. account[u] = "connected"
    BY <2>1 DEF QInv, Rows
  <2> QED
    BY <2>1, <2>2, <2>3, <2>4, FullQInv
<1>3. CASE ShadowLists
  <2>1. PICK u \in Users : u = shadow.user
    BY <1>3 DEF ShadowLists, IInv, Typed
  <2>2. ListSnapshot(u) /\ UNCHANGED <<atGithub, quiet, overlapped>> /\ shadow.pc = "lists"
    BY <1>3, <2>1, Zenon DEF ShadowLists
  <2>3. PICK pc \in {"count", "stars"} : /\ shadow' = [shadow EXCEPT !.pc = pc, !.user = "none"]
                                         /\ pc = "count" => shadow.todo = {}
    BY <1>3 DEF ShadowLists
  <2>4. shadow \in Shadow /\ shadow # Ready
    <3>0. Ready.pc = "idle"
      BY DEF Ready
    <3>1. shadow # Ready
      BY <2>2, <3>0
    <3>2. shadow \in Shadow \union {Ready}
      BY DEF IInv, Typed
    <3> QED
      BY <3>1, <3>2
  <2>5. /\ shadow'.at = shadow.at /\ shadow'.found = shadow.found
        /\ shadow'.todo = shadow.todo /\ shadow'.pc = pc
    BY <2>3, <2>4 DEF Shadow
  <2>6. account[u] = "connected"
    BY <2>1, <2>2 DEF QInv, Rows
  <2> QED
    BY <2>1, <2>2, <2>3, <2>4, <2>5, <2>6, ListQInv
<1> QED
  BY <1>1, <1>2, <1>3

\* Both invariants hold in every reachable state.
LEMMA QuietInvariant == Spec => [](IInv /\ QInv)
<1>1. Init => QInv
  <2> SUFFICES ASSUME Init PROVE QInv
    OBVIOUS
  <2>1. /\ records = {} /\ claims = {} /\ fresh.full = {} /\ fresh.lists = {} /\ shadow = Ready
        /\ shadow.pc = "idle" /\ shadow.todo = {}
    BY Zenon DEF Init, Ready
  <2> QED
    BY <2>1, Zenon DEF QInv, Rows, Passed, Compared, Quiet
<1>2. IInv /\ QInv /\ [Next]_vars => QInv'
  BY ImportQInv, CountQInv, OthersQInv, SyncQInv DEF Next
<1> QED
  BY <1>1, <1>2, Invariant, PTL DEF Spec

\* A clean report of a command during which GitHub was left alone and no import
\* committed says what it seems to say: the archive and GitHub agree on every imported
\* star, and every imported list claim is filed there.
THEOREM CleanIsAgreed == Spec => CleanMeansAgreed
<1> DEFINE Agreed ==
      StoresClean /\ ~overlapped /\ quiet =>
        /\ \A rec \in records : (rec \in Starred) = (Pair(rec) \in atGithub.starred)
        /\ \A rec \in claims : Pair(rec) \in atGithub.filed
<1>1. ASSUME IInv, QInv PROVE Agreed
  <2> SUFFICES ASSUME shadow.at = 7, shadow.found = "none", ~overlapped, quiet
               PROVE  /\ \A rec \in records : (rec \in Starred) = (Pair(rec) \in atGithub.starred)
                      /\ \A rec \in claims : Pair(rec) \in atGithub.filed
    BY DEF StoresClean
  <2>1. Quiet
    BY DEF Quiet, Ready
  <2> QED
    BY <1>1, <2>1 DEF QInv, Compared
<1> QED
  BY <1>1, QuietInvariant, PTL DEF CleanMeansAgreed
=============================================================================
