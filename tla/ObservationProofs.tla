-------------------------- MODULE ObservationProofs -------------------------
(***************************************************************************)
(* Proofs about Observation for every set of repositories, names, README   *)
(* versions and concurrent callers and every bound: what a validator that  *)
(* GitHub still confirms stands for, and where README bytes may be lost.   *)
(***************************************************************************)
EXTENDS Observation, TLAPS

\* Zenon takes the steps that reason about sets and functions; a step that
\* needs arithmetic or records says SMT.
USE Zenon

-----------------------------------------------------------------------------
(* Names, versions and stored metadata.                                    *)

Meta == [source : Revisions, etag : 0..MaxVersion]

\* No two repositories share a name.
GitHubOK ==
  /\ name \in [Repos -> Names] /\ version \in [Repos -> 0..MaxVersion]
  /\ renamed \subseteq Repos
  /\ \A q, r \in Repos : name[q] = name[r] => q = r

\* A stored validator is not of the future.
MetadataOK ==
  /\ metadata \in [Repos -> Meta \union {NoMeta}]
  /\ \A r \in Repos : metadata[r] # NoMeta => metadata[r].etag <= version[r]

Fields == {"pc", "kind", "selected", "repo", "alias", "etag", "fresh", "observed", "readme",
           "evaluated"}

\* A call sends validators of stored metadata only.  Between its fetch and
\* apply_fresh_source, on a repository that has kept its name, it uses that name, and
\* while the version is still the fetched one its README is of that version too.
CallOK(c) ==
  LET l == caller[c] IN
  /\ DOMAIN l = Fields
  /\ l.pc = "fetch" => \A r \in Repos, v \in 0..MaxVersion : l.etag = <<r, v>> => metadata[r] # NoMeta
  /\ l.pc \in {"alias", "readme", "store", "apply"} =>
       /\ l.repo \in Repos /\ l.fresh \in 0..MaxVersion /\ l.fresh <= version[l.repo]
       /\ l.repo \notin renamed => l.alias = name[l.repo]
  /\ l.pc \in {"store", "apply"} =>
       /\ l.readme \in Bytes \union {Absent}
       /\ l.repo \notin renamed /\ l.fresh = version[l.repo]
            => l.readme = ReadmeAt(l.repo, l.fresh) \/ (l.readme = Absent /\ l.repo \in refused)
  /\ l.pc \in {"register", "evaluate", "queue"} => l.repo \in Repos /\ metadata[l.repo] # NoMeta

CallersOK == DOMAIN caller = Callers /\ \A c \in Callers : CallOK(c)

OInv == GitHubOK /\ MetadataOK /\ CallersOK /\ ValidatorTruthful

\* Bytes that a caller is about to name are kept too.
KeptFor(c) ==
  LET l == caller[c] IN
  /\ l.pc = "apply" /\ l.readme # Absent => l.readme \in blobs \union swept
  /\ l.pc = "queue" /\ l.evaluated.readme # Absent => l.evaluated.readme \in blobs \union swept

BInv == ReadmeBytesKept /\ \A c \in Callers : KeptFor(c)

\* A README of a version of a repository, and a source.
LEMMA SourceTyped ==
  ASSUME NEW r \in Repos, NEW v \in 0..MaxVersion
  PROVE  /\ ReadmeAt(r, v) \in Bytes \union {Absent}
         /\ \A d \in Bytes \union {Absent} :
              [attributes |-> <<r, Attributes[v]>>, readme |-> d] \in Revisions
<1>1. ReadmeAt(r, v) \in Bytes \union {Absent}
  BY SMT DEF Bytes
<1>2. <<r, Attributes[v]>> \in {<<q, Attributes[u]>> : q \in Repos, u \in 0..MaxVersion}
  BY SMT
<1> QED
  BY SMT, <1>1, <1>2 DEF Revisions

LEMMA BlankFields == DOMAIN Blank = Fields /\ Blank.pc = "idle"
BY SMT DEF Blank, Fields

\* Metadata with a source is metadata.
LEMMA MetaTyped ==
  ASSUME NEW x \in Revisions, NEW e \in 0..MaxVersion
  PROVE  /\ [source |-> x, etag |-> e] \in Meta
         /\ [source |-> x, etag |-> e] # NoMeta
BY SMT, NoneIsNoValue DEF Meta, NoMeta

LEMMA InitOInv == Init => OInv
<1> SUFFICES ASSUME Init PROVE OInv
  OBVIOUS
<1>0. 0 \in 0..MaxVersion
  BY SMT, ObservationConstants
<1>1. GitHubOK
  BY SMT, <1>0, ObservationConstants DEF Init, GitHubOK
<1>2. metadata = [r \in Repos |-> IF r \in Known THEN Recorded(r) ELSE NoMeta] /\ version = [r \in Repos |-> 0]
  BY DEF Init
<1>3. \A r \in Repos : Recorded(r) \in Meta /\ Recorded(r).etag = 0 /\ Recorded(r).source = SourceAt(r, 0)
  BY <1>0, SourceTyped, MetaTyped DEF Recorded, SourceAt
<1>4. MetadataOK
  BY SMT, <1>2, <1>3 DEF MetadataOK
<1>5. CallersOK
  BY BlankFields DEF Init, CallersOK, CallOK
<1>6. ValidatorTruthful
  BY <1>2, <1>3 DEF ValidatorTruthful, Truthful, Source
<1> QED
  BY <1>1, <1>4, <1>5, <1>6 DEF OInv

-----------------------------------------------------------------------------
(* What a step does to the callers.                                        *)

\* A caller that stays where it is, while GitHub stays and metadata only comes in.
LEMMA OtherCall ==
  ASSUME NEW c, CallOK(c), caller'[c] = caller[c], UNCHANGED <<name, version, renamed>>,
         refused \subseteq refused', \A r \in Repos : metadata[r] # NoMeta => metadata'[r] # NoMeta
  PROVE  CallOK(c)'
BY DEF CallOK

\* One caller moves.
LEMMA OneCall ==
  ASSUME CallersOK, NEW c \in Callers, NEW n, caller' = [caller EXCEPT ![c] = n],
         caller'[c] = n => CallOK(c)', UNCHANGED <<name, version, renamed>>,
         refused \subseteq refused', \A r \in Repos : metadata[r] # NoMeta => metadata'[r] # NoMeta
  PROVE  CallersOK'
<1>1. DOMAIN caller' = Callers /\ caller'[c] = n /\ \A d \in Callers \ {c} : caller'[d] = caller[d]
  BY DEF CallersOK
<1>2. ASSUME NEW d \in Callers \ {c} PROVE CallOK(d)'
  BY <1>1, OtherCall DEF CallersOK
<1> QED
  BY <1>1, <1>2 DEF CallersOK

\* A call that is over, for the observer up to its record of the attempt.
LEMMA OverCall ==
  ASSUME CallersOK, NEW c \in Callers, Leave(c) \/ End(c), UNCHANGED <<name, version, renamed>>,
         refused \subseteq refused', \A r \in Repos : metadata[r] # NoMeta => metadata'[r] # NoMeta
  PROVE  CallersOK' /\ caller'[c].pc \in {"idle", "attempt"}
                    /\ \A d \in Callers \ {c} : caller'[d] = caller[d]
<1>1. PICK n : caller' = [caller EXCEPT ![c] = n] /\ DOMAIN n = Fields /\ n.pc \in {"idle", "attempt"}
  <2>1. ASSUME NEW x PROVE LET m == [Blank EXCEPT !.pc = "attempt", !.selected = x]
                           IN  DOMAIN m = Fields /\ m.pc = "attempt"
    BY SMT DEF Blank, Fields
  <2> QED
    BY <2>1, BlankFields DEF Leave, End
<1>2. caller'[c] = n => CallOK(c)'
  BY <1>1 DEF CallOK
<1>3. caller'[c] = n /\ \A d \in Callers \ {c} : caller'[d] = caller[d]
  BY <1>1 DEF CallersOK
<1> QED
  BY <1>1, <1>2, <1>3, OneCall

\* The validators still stand for what they stood for.
LEMMA SameTruth ==
  ASSUME ValidatorTruthful, UNCHANGED <<version, renamed, metadata>>, refused \subseteq refused'
  PROVE  ValidatorTruthful'
BY DEF ValidatorTruthful, Truthful, Source

\* GitHub, the owner of the watches and the erasure of another owner.
LEMMA OutsideOInv ==
  ASSUME OInv,
         \/ \E r \in Repos : Push(r) \/ SetEnabled(r)
         \/ \E r \in Repos, n \in Names : Rename(r, n)
         \/ \E d \in Bytes : CollectReadme(d)
  PROVE  OInv'
<1>0. GitHubOK /\ MetadataOK /\ CallersOK /\ ValidatorTruthful
  BY DEF OInv
<1>1. ASSUME NEW r \in Repos, Push(r) PROVE OInv'
  <2>1. /\ version' = [version EXCEPT ![r] = version[r] + 1] /\ version[r] < MaxVersion
        /\ UNCHANGED <<name, renamed, refused, metadata, caller>>
    BY <1>1 DEF Push, tables
  <2>2. MaxVersion \in Nat
    BY ObservationConstants
  <2>3. /\ version' \in [Repos -> 0..MaxVersion]
        /\ \A q \in Repos \ {r} : version'[q] = version[q]
        /\ version[r] \in Nat /\ version'[r] = version[r] + 1
    BY SMT, <1>0, <2>1, <2>2 DEF GitHubOK
  <2>4. GitHubOK'
    BY <1>0, <2>1, <2>3 DEF GitHubOK
  <2>5. \A q \in Repos : \A e \in 0..MaxVersion :
          e <= version[q] => e <= version'[q] /\ (e = version'[q] => q # r)
    BY SMT, <1>0, <2>2, <2>3 DEF GitHubOK
  <2>6. MetadataOK'
    <3>1. \A q \in Repos : metadata[q] # NoMeta => metadata[q].etag \in 0..MaxVersion
      BY SMT, <1>0 DEF MetadataOK, Meta
    <3> QED
      BY <1>0, <2>1, <2>5, <3>1 DEF MetadataOK
  <2>7. CallersOK'
    <3>1. ASSUME NEW c \in Callers PROVE CallOK(c)'
      <4>1. CallOK(c) /\ caller'[c] = caller[c]
        BY <1>0, <2>1 DEF CallersOK
      <4> QED
        BY <2>1, <2>3, <2>5, <4>1 DEF CallOK
    <3> QED
      BY <1>0, <2>1, <3>1 DEF CallersOK
  <2>8. ValidatorTruthful'
    <3>1. ASSUME NEW q \in Repos \ renamed, metadata[q] # NoMeta, metadata[q].etag = version'[q]
          PROVE  metadata[q].source \in Truthful(q)'
      <4>1. metadata[q].etag \in 0..MaxVersion /\ metadata[q].etag <= version[q]
        BY SMT, <1>0, <3>1 DEF MetadataOK, Meta
      <4>2. q # r /\ version'[q] = version[q]
        BY <2>3, <2>5, <3>1, <4>1
      <4> QED
        BY <1>0, <2>1, <3>1, <4>2 DEF ValidatorTruthful, Truthful, Source
    <3> QED
      BY <2>1, <3>1 DEF ValidatorTruthful
  <2> QED
    BY <2>4, <2>6, <2>7, <2>8 DEF OInv
<1>2. ASSUME NEW r \in Repos, NEW n \in Names, Rename(r, n) PROVE OInv'
  <2>1. /\ name' = [name EXCEPT ![r] = n] /\ renamed' = renamed \union {r} /\ \A q \in Repos : name[q] # n
        /\ UNCHANGED <<version, refused, metadata, caller>>
    BY <1>2 DEF Rename, tables
  <2>2. GitHubOK'
    BY <1>0, <2>1 DEF GitHubOK
  <2>3. MetadataOK'
    BY <1>0, <2>1 DEF MetadataOK
  <2>4. ASSUME NEW c \in Callers PROVE CallOK(c)'
    <3>1. CallOK(c) /\ caller'[c] = caller[c] /\ \A q \in Repos : q \notin renamed' => name'[q] = name[q]
      BY <1>0, <2>1 DEF CallersOK, GitHubOK
    <3> QED
      BY <2>1, <3>1 DEF CallOK
  <2>5. ValidatorTruthful'
    BY <1>0, <2>1 DEF ValidatorTruthful, Truthful, Source
  <2> QED
    BY <1>0, <2>1, <2>2, <2>3, <2>4, <2>5 DEF OInv, CallersOK
<1>3. ASSUME UNCHANGED <<name, version, renamed, refused, metadata, caller>> PROVE OInv'
  <2>1. \A c \in Callers : CallOK(c)'
    BY <1>0, <1>3, OtherCall DEF CallersOK
  <2> QED
    BY <1>0, <1>3, <2>1, SameTruth DEF OInv, GitHubOK, MetadataOK, CallersOK
<1>4. ASSUME NEW r \in Repos, SetEnabled(r) PROVE OInv'
  BY <1>3, <1>4 DEF SetEnabled, github
<1>5. ASSUME NEW d \in Bytes, CollectReadme(d) PROVE OInv'
  BY <1>3, <1>5 DEF CollectReadme, github
<1> QED
  BY <1>1, <1>2, <1>4, <1>5

-----------------------------------------------------------------------------
(* The steps of a call.                                                    *)

\* A step of a call that leaves GitHub and the metadata alone.
LEMMA CallOInv ==
  ASSUME OInv, UNCHANGED <<name, version, renamed, metadata>>, refused \subseteq refused', CallersOK'
  PROVE  OInv'
BY SameTruth DEF OInv, GitHubOK, MetadataOK

\* The records that the steps write.
Selected(x, r, a, e)  == [Blank EXCEPT !.pc = "fetch", !.selected = x, !.repo = r, !.alias = a, !.etag = e]
Asked(k, r, a)        == [Blank EXCEPT !.pc = "fetch", !.kind = k, !.repo = r, !.alias = a]
Applied(p, r, x)      == [Blank EXCEPT !.pc = p, !.repo = r, !.selected = x]
Fetched(l, r, v, x)   == [l EXCEPT !.pc = "alias", !.repo = r, !.etag = None, !.fresh = v, !.observed = x]
WithReadme(l, x, p)   == [l EXCEPT !.readme = x, !.pc = p]
Evaluating(l, x)      == [l EXCEPT !.pc = "queue", !.evaluated = x]
MovedTo(l, p)         == [l EXCEPT !.pc = p]

LEMMA SelectedFields ==
  ASSUME NEW x, NEW r, NEW a, NEW e
  PROVE  /\ DOMAIN Selected(x, r, a, e) = Fields /\ Selected(x, r, a, e).pc = "fetch"
         /\ Selected(x, r, a, e).etag = e
BY SMT DEF Blank, Fields, Selected

LEMMA AskedFields ==
  ASSUME NEW k, NEW r, NEW a
  PROVE  /\ DOMAIN Asked(k, r, a) = Fields /\ Asked(k, r, a).pc = "fetch"
         /\ Asked(k, r, a).etag = None
BY SMT DEF Blank, Fields, Asked

LEMMA AppliedFields ==
  ASSUME NEW p, NEW r, NEW x
  PROVE  /\ DOMAIN Applied(p, r, x) = Fields /\ Applied(p, r, x).pc = p
         /\ Applied(p, r, x).repo = r
BY SMT DEF Blank, Fields, Applied

LEMMA FetchedFields ==
  ASSUME NEW l, DOMAIN l = Fields, NEW r, NEW v, NEW x
  PROVE  /\ DOMAIN Fetched(l, r, v, x) = Fields /\ Fetched(l, r, v, x).pc = "alias"
         /\ Fetched(l, r, v, x).repo = r /\ Fetched(l, r, v, x).fresh = v
         /\ Fetched(l, r, v, x).alias = l.alias
BY DEF Fields, Fetched

LEMMA WithReadmeFields ==
  ASSUME NEW l, DOMAIN l = Fields, NEW x, NEW p
  PROVE  /\ DOMAIN WithReadme(l, x, p) = Fields /\ WithReadme(l, x, p).pc = p
         /\ WithReadme(l, x, p).repo = l.repo /\ WithReadme(l, x, p).fresh = l.fresh
         /\ WithReadme(l, x, p).alias = l.alias /\ WithReadme(l, x, p).readme = x
BY DEF Fields, WithReadme

LEMMA EvaluatingFields ==
  ASSUME NEW l, DOMAIN l = Fields, NEW x
  PROVE  /\ DOMAIN Evaluating(l, x) = Fields /\ Evaluating(l, x).pc = "queue"
         /\ Evaluating(l, x).repo = l.repo /\ Evaluating(l, x).evaluated = x
BY DEF Fields, Evaluating

LEMMA MovedToFields ==
  ASSUME NEW l, DOMAIN l = Fields, NEW p
  PROVE  /\ DOMAIN MovedTo(l, p) = Fields /\ MovedTo(l, p).pc = p
         /\ MovedTo(l, p).repo = l.repo /\ MovedTo(l, p).fresh = l.fresh
         /\ MovedTo(l, p).alias = l.alias /\ MovedTo(l, p).readme = l.readme
BY DEF Fields, MovedTo

\* The observer and an action start with a validator of stored metadata, or none.
LEMMA BeginOInv ==
  ASSUME OInv, BeginObserve \/ \E c \in Api, r \in Repos, kind \in {"metadata", "track"} : BeginAction(c, r, kind)
  PROVE  OInv'
<1>0. CallersOK /\ UNCHANGED <<name, version, renamed, refused, metadata>>
  BY DEF OInv, BeginObserve, BeginAction, Frame, github, tables
<1>1. ASSUME NEW c \in Callers, NEW n, caller' = [caller EXCEPT ![c] = n], DOMAIN n = Fields,
             n.pc = "fetch", \A r \in Repos, v \in 0..MaxVersion : n.etag = <<r, v>> => metadata[r] # NoMeta
      PROVE  OInv'
  <2>1. caller'[c] = n => CallOK(c)'
    BY <1>0, <1>1 DEF CallOK
  <2> QED
    BY <1>0, <1>1, <2>1, OneCall, CallOInv
<1>2. \A r \in Repos, v \in 0..MaxVersion : None # <<r, v>>
  BY SMT, NoneIsNoValue DEF Validators
<1>3. CASE BeginObserve
  <2> DEFINE due   == {i \in DOMAIN rotation : Watchable(rotation[i])}
             r     == rotation[CHOOSE i \in due : \A j \in due : i <= j]
             known == Resolve(LastAlias(r))
             e     == IF known = None THEN None
                      ELSE IF metadata[known] = NoMeta THEN None ELSE <<known, metadata[known].etag>>
             n     == Selected(r, r, LastAlias(r), e)
  <2>1. caller' = [caller EXCEPT ![Observer] = n]
    BY <1>3 DEF BeginObserve, Selected
  <2> HIDE DEF known
  <2>2. \A q \in Repos, v \in 0..MaxVersion : e = <<q, v>> => metadata[q] # NoMeta
    BY SMT, <1>2
  <2> HIDE DEF e, r
  <2>3. DOMAIN n = Fields /\ n.pc = "fetch" /\ n.etag = e
    BY SMT, SelectedFields
  <2> HIDE DEF n
  <2> QED
    BY <1>1, <2>1, <2>2, <2>3 DEF Callers
<1>4. ASSUME NEW c \in Api, NEW r \in Repos, NEW kind \in {"metadata", "track"}, BeginAction(c, r, kind)
      PROVE  OInv'
  <2> DEFINE n == Asked(kind, r, name[r])
  <2>1. caller' = [caller EXCEPT ![c] = n]
    BY <1>4 DEF BeginAction, Asked
  <2>2. DOMAIN n = Fields /\ n.pc = "fetch" /\ n.etag = None
    BY SMT, AskedFields
  <2> HIDE DEF n
  <2> QED
    BY <1>1, <1>2, <2>1, <2>2 DEF Callers
<1> QED
  BY <1>3, <1>4

\* GitHub's answer: the repository that has the name, or one that was renamed.
LEMMA FetchOInv ==
  ASSUME OInv, NEW c \in Callers, FetchFresh(c) \/ FetchNotModified(c)
  PROVE  OInv'
<1>0. GitHubOK /\ CallersOK /\ CallOK(c) /\ DOMAIN caller[c] = Fields /\ caller[c].pc = "fetch"
      /\ UNCHANGED <<name, version, renamed, refused, metadata>>
  BY DEF OInv, CallersOK, CallOK, FetchFresh, FetchNotModified, At, Frame, github, tables
<1>1. CASE FetchFresh(c)
  <2>1. PICK r \in Answers(caller[c].alias) :
          caller' = [caller EXCEPT ![c] = Fetched(caller[c], r, version[r], name[r])]
    BY <1>1 DEF FetchFresh, Local, Fetched
  <2>2. r \in Repos /\ (r \notin renamed => caller[c].alias = name[r])
    BY <1>0 DEF Answers, Bearer, GitHubOK
  <2>3. version[r] \in 0..MaxVersion /\ version[r] <= version[r]
    BY SMT, <1>0, <2>2, ObservationConstants DEF GitHubOK
  <2> DEFINE n == Fetched(caller[c], r, version[r], name[r])
  <2>4. DOMAIN n = Fields /\ n.pc = "alias" /\ n.repo = r /\ n.fresh = version[r] /\ n.alias = caller[c].alias
    BY SMT, <1>0, FetchedFields
  <2>5. caller' = [caller EXCEPT ![c] = n]
    BY <2>1
  <2> HIDE DEF n
  <2>6. /\ n.fresh \in 0..MaxVersion /\ n.fresh <= version'[n.repo]
        /\ n.repo \in Repos /\ (n.repo \notin renamed' => n.alias = name'[n.repo])
    BY <1>0, <2>2, <2>3, <2>4
  <2>7. caller'[c] = n => CallOK(c)'
    BY <2>4, <2>6 DEF CallOK
  <2> QED
    BY <1>0, <2>5, <2>7, OneCall, CallOInv
<1>2. CASE FetchNotModified(c)
  <2>1. PICK r \in Bearer(caller[c].alias) :
          /\ caller[c].etag = <<r, version[r]>>
          /\ caller' = [caller EXCEPT ![c] = Applied("evaluate", r, caller[c].selected)]
    BY <1>2 DEF FetchNotModified, Local, Applied
  <2>2. r \in Repos /\ version[r] \in 0..MaxVersion
    BY <1>0 DEF Bearer, GitHubOK
  <2>3. metadata[r] # NoMeta
    BY <1>0, <2>1, <2>2 DEF CallOK
  <2> DEFINE n == Applied("evaluate", r, caller[c].selected)
  <2>4. DOMAIN n = Fields /\ n.pc = "evaluate" /\ n.repo = r
    BY SMT, AppliedFields
  <2>5. caller' = [caller EXCEPT ![c] = n]
    BY <2>1
  <2> HIDE DEF n
  <2>6. caller'[c] = n => CallOK(c)'
    BY <1>0, <2>2, <2>3, <2>4 DEF CallOK
  <2> QED
    BY <1>0, <2>5, <2>6, OneCall, CallOInv
<1> QED
  BY <1>1, <1>2

\* The steps that only move on: the alias is recorded, the README stored, the watch
\* registered, the stored source read.
LEMMA GoOInv ==
  ASSUME OInv, NEW c \in Callers, RecordAlias(c) \/ StoreReadme(c) \/ RegisterWatch(c) \/ EvaluateRead(c)
  PROVE  OInv'
<1>0. CallersOK /\ CallOK(c) /\ DOMAIN caller[c] = Fields
      /\ UNCHANGED <<name, version, renamed, refused, metadata>>
  BY DEF OInv, CallersOK, CallOK, RecordAlias, StoreReadme, RegisterWatch, EvaluateRead, Frame, github, tables
<1>1. ASSUME NEW p, caller' = [caller EXCEPT ![c] = MovedTo(caller[c], p)],
             \/ caller[c].pc = "alias" /\ p = "readme"
             \/ caller[c].pc = "store" /\ p = "apply"
             \/ caller[c].pc = "register" /\ p = "evaluate"
      PROVE  OInv'
  <2> DEFINE n == MovedTo(caller[c], p)
  <2>1. /\ DOMAIN n = Fields /\ n.pc = p /\ n.repo = caller[c].repo /\ n.fresh = caller[c].fresh
        /\ n.alias = caller[c].alias /\ n.readme = caller[c].readme
    BY ZenonT(40), <1>0, MovedToFields
  <2>2. caller' = [caller EXCEPT ![c] = n]
    BY <1>1
  <2> HIDE DEF n
  <2>3. ASSUME caller'[c] = n PROVE CallOK(c)'
    <3>1. CASE p = "readme" /\ caller[c].pc = "alias"
      BY SMT, <1>0, <2>1, <2>3, <3>1 DEF CallOK
    <3>2. CASE p = "apply" /\ caller[c].pc = "store"
      BY SMT, <1>0, <2>1, <2>3, <3>2 DEF CallOK
    <3>3. CASE p = "evaluate" /\ caller[c].pc = "register"
      BY <1>0, <2>1, <2>3, <3>3 DEF CallOK
    <3> QED
      BY <1>1, <3>1, <3>2, <3>3
  <2> QED
    BY <1>0, <2>2, <2>3, OneCall, CallOInv
<1>2. CASE RecordAlias(c) \/ StoreReadme(c) \/ RegisterWatch(c)
  BY <1>1, <1>2 DEF RecordAlias, StoreReadme, RegisterWatch, Go, At, MovedTo
<1>3. CASE EvaluateRead(c)
  <2> DEFINE n == Evaluating(caller[c], metadata[caller[c].repo].source)
  <2>1. DOMAIN n = Fields /\ n.pc = "queue" /\ n.repo = caller[c].repo
    BY ZenonT(40), <1>0, EvaluatingFields
  <2>2. caller' = [caller EXCEPT ![c] = n]
    BY <1>3 DEF EvaluateRead, Local, Evaluating
  <2> HIDE DEF n
  <2>3. caller'[c] = n => CallOK(c)'
    BY <1>0, <1>3, <2>1 DEF CallOK, EvaluateRead, At
  <2> QED
    BY <1>0, <2>2, <2>3, OneCall, CallOInv
<1> QED
  BY <1>2, <1>3

\* The README comes from whoever has the requested name, or is refused.
LEMMA ReadmeOInv ==
  ASSUME OInv, NEW c \in Callers, FetchReadme(c) \/ FetchReadmeRefused(c)
  PROVE  OInv'
<1>0. /\ GitHubOK /\ CallersOK /\ CallOK(c) /\ DOMAIN caller[c] = Fields /\ caller[c].pc = "readme"
      /\ UNCHANGED <<name, version, renamed, metadata>> /\ refused \subseteq refused'
  BY DEF OInv, CallersOK, CallOK, FetchReadme, FetchReadmeRefused, At, Frame, github, tables
<1> DEFINE r == caller[c].repo
           v == caller[c].fresh
<1>1. /\ r \in Repos /\ v \in 0..MaxVersion /\ v <= version[r]
      /\ r \notin renamed => caller[c].alias = name[r]
  BY <1>0 DEF CallOK
<1>2. ASSUME NEW x \in Bytes \union {Absent}, NEW p \in {"store", "apply"},
             caller' = [caller EXCEPT ![c] = WithReadme(caller[c], x, p)],
             r \notin renamed /\ v = version[r] => x = ReadmeAt(r, v) \/ (x = Absent /\ r \in refused')
      PROVE  OInv'
  <2> DEFINE n == WithReadme(caller[c], x, p)
  <2>1. /\ DOMAIN n = Fields /\ n.pc = p /\ n.repo = r /\ n.fresh = v
        /\ n.alias = caller[c].alias /\ n.readme = x
    BY SMT, <1>0, WithReadmeFields
  <2>2. caller' = [caller EXCEPT ![c] = n]
    BY <1>2
  <2> HIDE DEF n, r, v
  <2>3. ASSUME caller'[c] = n PROVE CallOK(c)'
    BY SMT, <1>0, <1>1, <1>2, <2>1, <2>3 DEF CallOK
  <2> QED
    BY <1>0, <2>2, <2>3, OneCall, CallOInv
<1>3. CASE FetchReadme(c)
  <2>1. PICK q \in Bearer(caller[c].alias), p \in {"store", "apply"} :
          caller' = [caller EXCEPT ![c] = WithReadme(caller[c], ReadmeReply(c, q), p)]
    BY <1>3 DEF FetchReadme, Local, WithReadme
  <2>2. q \in Repos /\ version[q] \in 0..MaxVersion /\ name[q] = caller[c].alias
    BY <1>0, <2>1 DEF Bearer, GitHubOK
  <2>3. ReadmeReply(c, q) \in Bytes \union {Absent}
    BY <2>2, SourceTyped DEF ReadmeReply
  <2>4. r \notin renamed => q = r
    BY <1>0, <1>1, <2>2 DEF GitHubOK
  <2>5. r \notin renamed /\ v = version[r] => ReadmeReply(c, q) = ReadmeAt(r, v)
    BY <2>4 DEF ReadmeReply
  <2> QED
    BY <1>2, <2>1, <2>3, <2>5
<1>4. CASE FetchReadmeRefused(c)
  <2>1. caller' = [caller EXCEPT ![c] = WithReadme(caller[c], Absent, "apply")] /\ r \in refused'
    BY <1>4 DEF FetchReadmeRefused, Local, WithReadme
  <2> QED
    BY <1>2, <2>1
<1> QED
  BY <1>3, <1>4

\* apply_fresh_source stores a source with the validator that came with it.
LEMMA ApplyOInv ==
  ASSUME OInv, NEW c \in Callers, ApplySource(c)
  PROVE  OInv'
<1>0. /\ GitHubOK /\ MetadataOK /\ CallersOK /\ ValidatorTruthful /\ CallOK(c) /\ caller[c].pc = "apply"
      /\ UNCHANGED <<name, version, renamed, refused>>
  BY DEF OInv, CallersOK, ApplySource, At, Frame, github
<1> DEFINE r == caller[c].repo
           v == caller[c].fresh
           x == FreshSource(c)
           m == [source |-> x, etag |-> v]
<1>1. /\ r \in Repos /\ v \in 0..MaxVersion /\ v <= version[r] /\ caller[c].readme \in Bytes \union {Absent}
      /\ r \notin renamed /\ v = version[r]
           => caller[c].readme = ReadmeAt(r, v) \/ (caller[c].readme = Absent /\ r \in refused)
  BY <1>0 DEF CallOK
<1>2. x = [attributes |-> <<r, Attributes[v]>>, readme |-> caller[c].readme]
  BY DEF FreshSource, Local
<1>3. x \in Revisions
  BY <1>1, <1>2, SourceTyped
<1>4. m \in Meta /\ m # NoMeta /\ m.source = x /\ m.etag = v
  BY <1>1, <1>3, MetaTyped
<1>5. r \notin renamed /\ v = version[r] => x \in Truthful(r)
  <2>1. SUFFICES ASSUME r \notin renamed, v = version[r] PROVE x \in Truthful(r)
    OBVIOUS
  <2>2. CASE caller[c].readme = ReadmeAt(r, v)
    BY <1>2, <2>1, <2>2 DEF Truthful, Source, SourceAt
  <2>3. CASE caller[c].readme = Absent /\ r \in refused
    <3>1. [Source(r) EXCEPT !.readme = Absent] = x
      BY SMT, <1>2, <2>1, <2>3 DEF Source, SourceAt
    <3> QED
      BY <2>3, <3>1 DEF Truthful
  <2> QED
    BY <1>1, <2>1, <2>2, <2>3
<1>6. /\ metadata' = metadata \/ metadata' = [metadata EXCEPT ![r] = m]
      /\ metadata[r] = NoMeta => metadata' = [metadata EXCEPT ![r] = m]
  <2>1. metadata' = IF metadata[r].source = m.source THEN metadata ELSE [metadata EXCEPT ![r] = m]
    BY DEF ApplySource, Local
  <2>2. metadata[r] = NoMeta => metadata[r].source # m.source
    BY SMT, <1>3, <1>4, NoneIsNoValue DEF NoMeta
  <2> QED
    BY <2>1, <2>2
<1>7. ASSUME NEW q \in Repos
      PROVE  \/ metadata'[q] = metadata[q] /\ (q = r => metadata[q] # NoMeta)
             \/ q = r /\ metadata'[q] = m
  <2> HIDE DEF m, r
  <2>1. CASE metadata' = [metadata EXCEPT ![r] = m]
    BY <1>0, <1>1, <2>1 DEF MetadataOK
  <2>2. CASE metadata' = metadata /\ metadata[r] # NoMeta
    BY <2>2
  <2> QED
    BY <1>6, <2>1, <2>2
<1>8. metadata'[r] # NoMeta /\ \A q \in Repos : metadata[q] # NoMeta => metadata'[q] # NoMeta
  BY <1>1, <1>4, <1>7
<1>9. MetadataOK'
  <2> HIDE DEF m, r, v, x
  <2>1. metadata' \in [Repos -> Meta \union {NoMeta}]
    BY <1>0, <1>1, <1>4, <1>6 DEF MetadataOK
  <2>2. ASSUME NEW q \in Repos, metadata'[q] # NoMeta PROVE metadata'[q].etag <= version'[q]
    BY <1>0, <1>1, <1>4, <1>7, <2>2 DEF MetadataOK
  <2> QED
    BY <2>1, <2>2 DEF MetadataOK
<1>10. ValidatorTruthful'
  <2> HIDE DEF m, r, v, x
  <2>1. \A q : Truthful(q)' = Truthful(q)
    BY <1>0 DEF Truthful, Source
  <2>2. ASSUME NEW q \in Repos \ renamed, metadata'[q] # NoMeta, metadata'[q].etag = version[q]
        PROVE  metadata'[q].source \in Truthful(q)
    BY <1>0, <1>4, <1>5, <1>7, <2>2 DEF ValidatorTruthful
  <2> QED
    BY <1>0, <2>1, <2>2 DEF ValidatorTruthful
<1>11. CallersOK'
  <2>1. PICK p \in {"register", "evaluate"} : caller' = [caller EXCEPT ![c] = Applied(p, r, caller[c].selected)]
    BY DEF ApplySource, Local, Applied
  <2> DEFINE n == Applied(p, r, caller[c].selected)
  <2>2. DOMAIN n = Fields /\ n.pc = p /\ n.repo = r
    BY SMT, AppliedFields
  <2>3. caller' = [caller EXCEPT ![c] = n]
    BY <2>1
  <2> HIDE DEF n, r, v, x, m
  <2>4. caller'[c] = n => CallOK(c)'
    BY <1>1, <1>8, <2>2 DEF CallOK
  <2> QED
    BY <1>0, <1>8, <2>3, <2>4, OneCall
<1>12. GitHubOK'
  BY <1>0 DEF GitHubOK
<1> QED
  BY <1>9, <1>10, <1>11, <1>12 DEF OInv

\* Every step preserves the invariant.
LEMMA StepOInv == OInv /\ [Next]_vars => OInv'
<1> SUFFICES ASSUME OInv, [Next]_vars PROVE OInv'
  OBVIOUS
<1>0. CallersOK
  BY DEF OInv
<1>1. CASE UNCHANGED vars
  <2>1. UNCHANGED <<name, version, renamed, refused, metadata, caller>>
    BY <1>1 DEF vars, github, tables
  <2>2. CallersOK'
    BY <1>0, <2>1, OtherCall DEF CallersOK
  <2> QED
    BY <2>1, <2>2, CallOInv
<1>2. ASSUME NEW c \in Callers, Leave(c) \/ End(c), UNCHANGED <<name, version, renamed, refused, metadata>>
      PROVE  OInv'
  BY <1>0, <1>2, OverCall, CallOInv
<1>3. ASSUME NEW c \in Callers, Work(c) PROVE OInv'
  <2>1. CASE FetchMoved(c) \/ AliasConflict(c) \/ FetchReadmeMoved(c) \/ EvaluateWrite(c)
    BY <1>2, <2>1 DEF FetchMoved, AliasConflict, FetchReadmeMoved, EvaluateWrite, Frame, github, tables
  <2> QED
    BY <1>3, <2>1, FetchOInv, GoOInv, ReadmeOInv, ApplyOInv DEF Work
<1>4. ASSUME NEW c \in Callers, CallFails(c) \/ CallStops(c) PROVE OInv'
  BY <1>2, <1>4 DEF CallFails, CallStops, Frame, github, tables
<1>5. CASE RecordAttempt
  BY <1>2, <1>5 DEF RecordAttempt, Callers, Frame, github
<1> QED
  BY <1>1, <1>3, <1>4, <1>5, OutsideOInv, BeginOInv, ReadmeOInv DEF Next

\* The invariant holds in every reachable state.
LEMMA ObservationInvariant == Spec => []OInv
BY InitOInv, StepOInv, PTL DEF Spec

\* A validator that GitHub still confirms stands for the current source of a repository
\* that has kept its name, or for its attributes beside a README that was refused: the
\* answer 304 hides no other change, whichever callers stored what in which order
\* (observe_repository, apply_fresh_source).
THEOREM ValidatorsAreTruthful == Spec => []ValidatorTruthful
BY ObservationInvariant, PTL DEF OInv

-----------------------------------------------------------------------------
(* README bytes.                                                           *)

\* Metadata names bytes that are kept, and so does a request.
LEMMA NamedIsKept ==
  ASSUME ReadmeBytesKept
  PROVE  /\ \A r \in Repos : metadata[r] # NoMeta /\ metadata[r].source.readme # Absent
                              => metadata[r].source.readme \in blobs \union swept
         /\ \A q \in requests : q[2].readme # Absent => q[2].readme \in blobs \union swept
BY DEF ReadmeBytesKept, Referenced

LEMMA KeptIsNamed ==
  ASSUME \A r \in Repos : metadata[r] # NoMeta /\ metadata[r].source.readme # Absent
                           => metadata[r].source.readme \in blobs \union swept,
         \A q \in requests : q[2].readme # Absent => q[2].readme \in blobs \union swept
  PROVE  ReadmeBytesKept
BY DEF ReadmeBytesKept, Referenced

LEMMA InitBInv == Init => BInv
<1> SUFFICES ASSUME Init PROVE BInv
  OBVIOUS
<1>1. /\ metadata = [r \in Repos |-> IF r \in Known THEN Recorded(r) ELSE NoMeta]
      /\ requests = {<<r, SourceAt(r, 0)>> : r \in Known} /\ blobs = {ReadmeAt(r, 0) : r \in Known} \ {Absent}
      /\ caller = [c \in Callers |-> Blank]
  BY DEF Init
<1>2. \A r \in Repos : Recorded(r).source.readme = ReadmeAt(r, 0) /\ <<r, SourceAt(r, 0)>>[2].readme = ReadmeAt(r, 0)
  BY SMT DEF Recorded, SourceAt
<1>3. Known \subseteq Repos
  BY ObservationConstants
<1>4. ReadmeBytesKept
  BY <1>1, <1>2, <1>3, KeptIsNamed
<1>5. \A c \in Callers : KeptFor(c)
  BY <1>1, BlankFields DEF KeptFor
<1> QED
  BY <1>4, <1>5 DEF BInv

\* A step that names no new bytes and deletes none.
LEMMA SameBytes ==
  ASSUME BInv, UNCHANGED <<metadata, requests>>, blobs \union swept \subseteq blobs' \union swept',
         \A c \in Callers : caller'[c] = caller[c] \/ KeptFor(c)'
  PROVE  BInv'
<1>1. ReadmeBytesKept'
  BY DEF BInv, ReadmeBytesKept, Referenced
<1>2. \A c \in Callers : KeptFor(c)'
  BY DEF BInv, KeptFor
<1> QED
  BY <1>1, <1>2 DEF BInv

\* One caller moves to a step that relies on no bytes.
LEMMA IdleBytes ==
  ASSUME BInv, CallersOK, NEW c \in Callers, NEW n, caller' = [caller EXCEPT ![c] = n],
         n.pc \notin {"apply", "queue"}, UNCHANGED <<metadata, requests>>,
         blobs \union swept \subseteq blobs' \union swept'
  PROVE  BInv'
<1>1. caller'[c] = n /\ \A d \in Callers \ {c} : caller'[d] = caller[d]
  BY DEF CallersOK
<1>2. KeptFor(c)'
  BY <1>1 DEF KeptFor
<1> QED
  BY <1>1, <1>2, SameBytes

\* An erasure deletes bytes that no row names, and remembers whom it cut the ground from.
LEMMA CollectBInv ==
  ASSUME BInv, NEW d \in Bytes, CollectReadme(d)
  PROVE  BInv'
<1>1. /\ d \notin Referenced /\ blobs' = blobs \ {d} /\ swept \subseteq swept' /\ (Relying(d) # {} => d \in swept')
      /\ UNCHANGED <<metadata, requests, caller>>
  BY DEF CollectReadme
<1>2. ReadmeBytesKept'
  <2>1. Referenced' = Referenced
    BY <1>1 DEF Referenced
  <2> QED
    BY <1>1, <2>1 DEF BInv, ReadmeBytesKept
<1>3. ASSUME NEW c \in Callers PROVE KeptFor(c)'
  <2>1. KeptFor(c) /\ caller'[c] = caller[c]
    BY <1>1 DEF BInv
  <2>2. /\ caller[c].pc = "apply" /\ caller[c].readme = d => d \in swept'
        /\ caller[c].pc = "queue" /\ caller[c].evaluated.readme = d => d \in swept'
    BY <1>1 DEF Relying
  <2> QED
    BY <1>1, <2>1, <2>2 DEF KeptFor
<1> QED
  BY <1>2, <1>3 DEF BInv

\* The bytes are sent and still to be stored, or those of the stored revision, or absent.
LEMMA FetchReadmeBInv ==
  ASSUME OInv, BInv, NEW c \in Callers, FetchReadme(c) \/ FetchReadmeRefused(c) \/ StoreReadme(c)
  PROVE  BInv'
<1>0. /\ CallersOK /\ DOMAIN caller = Callers /\ DOMAIN caller[c] = Fields /\ UNCHANGED <<metadata, requests>>
      /\ blobs \union swept \subseteq blobs' \union swept'
  BY DEF OInv, CallersOK, CallOK, FetchReadme, FetchReadmeRefused, StoreReadme, Frame, tables
<1>1. ASSUME NEW n, caller' = [caller EXCEPT ![c] = n],
             n.pc = "store" \/ (n.pc = "apply" /\ (n.readme # Absent => n.readme \in blobs' \union swept'))
      PROVE  BInv'
  <2>1. caller'[c] = n /\ \A d \in Callers \ {c} : caller'[d] = caller[d]
    BY <1>0, <1>1
  <2>2. KeptFor(c)'
    BY <1>1, <2>1 DEF KeptFor
  <2> QED
    BY <1>0, <2>1, <2>2, SameBytes
<1>2. CASE FetchReadme(c)
  <2>1. PICK q : \E p \in {"store", "apply"} :
          /\ caller' = [caller EXCEPT ![c] = WithReadme(caller[c], ReadmeReply(c, q), p)]
          /\ p = "apply" => \/ ReadmeReply(c, q) = Absent
                            \/ /\ metadata[caller[c].repo] # NoMeta
                               /\ metadata[caller[c].repo].source.readme = ReadmeReply(c, q)
    BY <1>2 DEF FetchReadme, Local, WithReadme
  <2>2. PICK p \in {"store", "apply"} :
          /\ caller' = [caller EXCEPT ![c] = WithReadme(caller[c], ReadmeReply(c, q), p)]
          /\ p = "apply" => \/ ReadmeReply(c, q) = Absent
                            \/ /\ metadata[caller[c].repo] # NoMeta
                               /\ metadata[caller[c].repo].source.readme = ReadmeReply(c, q)
    BY <2>1
  <2>3. caller[c].repo \in Repos
    BY <1>0, <1>2 DEF CallersOK, CallOK, FetchReadme, At
  <2> DEFINE n == WithReadme(caller[c], ReadmeReply(c, q), p)
  <2>4. n.pc = p /\ n.readme = ReadmeReply(c, q)
    BY SMT, <1>0, WithReadmeFields
  <2>5. caller' = [caller EXCEPT ![c] = n]
    BY <2>2
  <2>6. p = "apply" /\ ReadmeReply(c, q) # Absent => ReadmeReply(c, q) \in blobs \union swept
    BY <2>2, <2>3, NamedIsKept DEF BInv
  <2> HIDE DEF n
  <2> QED
    BY <1>0, <1>1, <2>2, <2>4, <2>5, <2>6
<1>3. CASE FetchReadmeRefused(c)
  <2> DEFINE n == WithReadme(caller[c], Absent, "apply")
  <2>1. caller' = [caller EXCEPT ![c] = n]
    BY <1>3 DEF FetchReadmeRefused, WithReadme
  <2>2. n.pc = "apply" /\ n.readme = Absent
    BY SMT, <1>0, WithReadmeFields
  <2> HIDE DEF n
  <2> QED
    BY <1>1, <2>1, <2>2
<1>4. CASE StoreReadme(c)
  <2> DEFINE n == MovedTo(caller[c], "apply")
  <2>1. caller' = [caller EXCEPT ![c] = n] /\ caller[c].readme \in blobs'
    BY <1>4 DEF StoreReadme, Go, Local, MovedTo
  <2>2. n.pc = "apply" /\ n.readme = caller[c].readme
    BY ZenonT(40), <1>0, MovedToFields
  <2> HIDE DEF n
  <2> QED
    BY <1>1, <2>1, <2>2
<1> QED
  BY <1>2, <1>3, <1>4

\* The source that is stored names the bytes that the call relies on.
LEMMA ApplyBInv ==
  ASSUME OInv, BInv, NEW c \in Callers, ApplySource(c)
  PROVE  BInv'
<1>0. CallersOK /\ metadata \in [Repos -> Meta \union {NoMeta}] /\ caller[c].pc = "apply" /\ KeptFor(c)
      /\ UNCHANGED <<requests, blobs, swept>> /\ caller[c].repo \in Repos
  BY DEF OInv, MetadataOK, BInv, CallersOK, CallOK, ApplySource, At, Frame
<1> DEFINE r == caller[c].repo
           m == [source |-> FreshSource(c), etag |-> caller[c].fresh]
<1>1. metadata' = metadata \/ metadata' = [metadata EXCEPT ![r] = m]
  BY DEF ApplySource, Local
<1>2. m.source.readme = caller[c].readme
  BY SMT DEF FreshSource, Local
<1> HIDE DEF m, r
<1>3. ASSUME NEW q \in Repos PROVE metadata'[q] = metadata[q] \/ metadata'[q] = m
  BY <1>0, <1>1
<1>4. m.source.readme # Absent => m.source.readme \in blobs \union swept
  BY <1>0, <1>2 DEF KeptFor
<1>5. ReadmeBytesKept'
  <2>1. \A q \in Repos : metadata'[q] # NoMeta /\ metadata'[q].source.readme # Absent
                         => metadata'[q].source.readme \in blobs' \union swept'
    BY <1>0, <1>3, <1>4, NamedIsKept DEF BInv
  <2>2. \A q \in requests' : q[2].readme # Absent => q[2].readme \in blobs' \union swept'
    BY <1>0, NamedIsKept DEF BInv
  <2> QED
    BY <2>1, <2>2 DEF ReadmeBytesKept, Referenced
<1>6. PICK p \in {"register", "evaluate"} : caller' = [caller EXCEPT ![c] = Applied(p, caller[c].repo, caller[c].selected)]
  BY DEF ApplySource, Local, Applied
<1> DEFINE n == Applied(p, caller[c].repo, caller[c].selected)
<1>7. n.pc = p /\ caller' = [caller EXCEPT ![c] = n]
  BY SMT, <1>6, AppliedFields
<1> HIDE DEF n
<1>8. ASSUME NEW d \in Callers PROVE KeptFor(d)'
  <2>1. d # c => caller'[d] = caller[d] /\ KeptFor(d)
    BY <1>0, <1>7 DEF CallersOK, BInv
  <2>2. caller'[c].pc = p
    BY <1>0, <1>7 DEF CallersOK
  <2> QED
    BY <1>0, <1>6, <2>1, <2>2 DEF KeptFor
<1> QED
  BY <1>5, <1>8 DEF BInv

\* An evaluation reads the stored source, and queues a request for what it read.
LEMMA EvaluateBInv ==
  ASSUME OInv, BInv, NEW c \in Callers, EvaluateRead(c) \/ EvaluateWrite(c)
  PROVE  BInv'
<1>0. CallersOK /\ CallOK(c) /\ KeptFor(c) /\ UNCHANGED <<metadata, blobs, swept>>
      /\ DOMAIN caller[c] = Fields
  BY DEF OInv, BInv, CallersOK, CallOK, EvaluateRead, EvaluateWrite, Frame, tables
<1>1. CASE EvaluateRead(c)
  <2> DEFINE n == Evaluating(caller[c], metadata[caller[c].repo].source)
  <2>1. caller' = [caller EXCEPT ![c] = n] /\ requests' = requests
    BY <1>1 DEF EvaluateRead, Local, Evaluating, tables
  <2>2. n.pc = "queue" /\ n.evaluated = metadata[caller[c].repo].source
    BY ZenonT(40), <1>0, EvaluatingFields
  <2>3. caller[c].repo \in Repos /\ metadata[caller[c].repo] # NoMeta
    BY <1>0, <1>1 DEF CallOK, EvaluateRead, At
  <2> HIDE DEF n
  <2>4. caller'[c] = n /\ \A d \in Callers \ {c} : caller'[d] = caller[d]
    BY <1>0, <2>1 DEF CallersOK
  <2>5. KeptFor(c)'
    BY <1>0, <2>2, <2>3, <2>4, NamedIsKept DEF BInv, KeptFor
  <2> QED
    BY <1>0, <2>1, <2>4, <2>5, SameBytes
<1>2. CASE EvaluateWrite(c)
  <2> DEFINE h == <<caller[c].repo, caller[c].evaluated>>
  <2>1. caller[c].pc = "queue" /\ requests' \subseteq requests \union {h} /\ End(c)
    BY <1>2 DEF EvaluateWrite, At, Local
  <2>2. h[2].readme # Absent => h[2].readme \in blobs \union swept
    BY <1>0, <2>1 DEF KeptFor
  <2> HIDE DEF h
  <2>3. ReadmeBytesKept'
    <3>1. \A q \in Repos : metadata'[q] # NoMeta /\ metadata'[q].source.readme # Absent
                           => metadata'[q].source.readme \in blobs' \union swept'
      BY <1>0, NamedIsKept DEF BInv
    <3>2. \A q \in requests' : q[2].readme # Absent => q[2].readme \in blobs' \union swept'
      BY <1>0, <2>1, <2>2, NamedIsKept DEF BInv
    <3> QED
      BY <3>1, <3>2 DEF ReadmeBytesKept, Referenced
  <2>4. caller'[c].pc \in {"idle", "attempt"} /\ \A d \in Callers \ {c} : caller'[d] = caller[d]
    BY <1>0, <1>2, <2>1, OverCall DEF EvaluateWrite, Frame, github
  <2>5. \A d \in Callers : KeptFor(d)'
    BY <1>0, <2>4 DEF BInv, KeptFor
  <2> QED
    BY <2>3, <2>5 DEF BInv
<1> QED
  BY <1>1, <1>2

\* The other steps of a call rely on no bytes.
LEMMA OtherBInv ==
  ASSUME OInv, BInv, NEW c \in Callers,
         \/ BeginObserve /\ c = Observer
         \/ \E r \in Repos, kind \in {"metadata", "track"} : BeginAction(c, r, kind)
         \/ FetchFresh(c) \/ FetchNotModified(c) \/ RecordAlias(c) \/ RegisterWatch(c)
  PROVE  BInv'
<1>0. CallersOK /\ DOMAIN caller[c] = Fields /\ UNCHANGED <<metadata, requests, blobs, swept>>
  BY DEF OInv, CallersOK, CallOK, BeginObserve, BeginAction, FetchFresh, FetchNotModified, RecordAlias,
         RegisterWatch, Frame, tables
<1>1. CASE BeginObserve /\ c = Observer
  <2>1. \E x, r, a, e : caller' = [caller EXCEPT ![c] = Selected(x, r, a, e)]
    BY <1>1 DEF BeginObserve, Selected
  <2>2. PICK x, r, a, e : caller' = [caller EXCEPT ![c] = Selected(x, r, a, e)]
    BY <2>1
  <2>3. Selected(x, r, a, e).pc = "fetch"
    BY SMT, SelectedFields
  <2> QED
    BY <1>0, <2>2, <2>3, IdleBytes
<1>2. ASSUME NEW r \in Repos, NEW kind \in {"metadata", "track"}, BeginAction(c, r, kind) PROVE BInv'
  <2>1. caller' = [caller EXCEPT ![c] = Asked(kind, r, name[r])]
    BY <1>2 DEF BeginAction, Asked
  <2>2. Asked(kind, r, name[r]).pc = "fetch"
    BY SMT, AskedFields
  <2> QED
    BY <1>0, <2>1, <2>2, IdleBytes
<1>3. CASE FetchFresh(c)
  <2>1. PICK r : caller' = [caller EXCEPT ![c] = Fetched(caller[c], r, version[r], name[r])]
    BY <1>3 DEF FetchFresh, Fetched
  <2>2. Fetched(caller[c], r, version[r], name[r]).pc = "alias"
    BY SMT, <1>0, FetchedFields
  <2> QED
    BY <1>0, <2>1, <2>2, IdleBytes
<1>4. CASE FetchNotModified(c)
  <2>1. PICK r : caller' = [caller EXCEPT ![c] = Applied("evaluate", r, caller[c].selected)]
    BY <1>4 DEF FetchNotModified, Local, Applied
  <2>2. Applied("evaluate", r, caller[c].selected).pc = "evaluate"
    BY SMT, AppliedFields
  <2> QED
    BY <1>0, <2>1, <2>2, IdleBytes
<1>5. CASE RecordAlias(c) \/ RegisterWatch(c)
  <2>1. PICK p \in {"readme", "evaluate"} : caller' = [caller EXCEPT ![c] = MovedTo(caller[c], p)]
    BY <1>5 DEF RecordAlias, RegisterWatch, Go, MovedTo
  <2>2. MovedTo(caller[c], p).pc = p
    BY ZenonT(40), <1>0, MovedToFields
  <2> QED
    BY <1>0, <2>1, <2>2, IdleBytes
<1> QED
  BY <1>1, <1>2, <1>3, <1>4, <1>5

\* Every step keeps the bytes that are named, or knows who lost them.
LEMMA StepBInv == OInv /\ BInv /\ [Next]_vars => BInv'
<1> SUFFICES ASSUME OInv, BInv, [Next]_vars PROVE BInv'
  OBVIOUS
<1>0. CallersOK
  BY DEF OInv
<1>1. ASSUME UNCHANGED <<metadata, requests, blobs, swept, caller>> PROVE BInv'
  BY <1>1, SameBytes
<1>2. CASE UNCHANGED vars \/ (\E r \in Repos : Push(r) \/ SetEnabled(r))
           \/ \E r \in Repos, n \in Names : Rename(r, n)
  BY <1>1, <1>2 DEF vars, Push, SetEnabled, Rename, tables
<1>3. ASSUME NEW c \in Callers, Leave(c) \/ End(c), UNCHANGED <<name, version, renamed, refused>>,
             UNCHANGED <<metadata, requests, blobs, swept>>
      PROVE  BInv'
  <2>1. caller'[c].pc \in {"idle", "attempt"} /\ \A d \in Callers \ {c} : caller'[d] = caller[d]
    BY <1>0, <1>3, OverCall
  <2>2. KeptFor(c)'
    BY <2>1 DEF KeptFor
  <2> QED
    BY <1>3, <2>1, <2>2, SameBytes
<1>4. ASSUME NEW c \in Callers, Work(c) PROVE BInv'
  <2>1. CASE FetchMoved(c) \/ AliasConflict(c) \/ FetchReadmeMoved(c)
    BY <1>3, <2>1 DEF FetchMoved, AliasConflict, FetchReadmeMoved, Frame, github, tables
  <2> QED
    BY <1>4, <2>1, OtherBInv, FetchReadmeBInv, ApplyBInv, EvaluateBInv DEF Work
<1>5. ASSUME NEW c \in Callers, CallFails(c) \/ CallStops(c) PROVE BInv'
  BY <1>3, <1>5 DEF CallFails, CallStops, Frame, github, tables
<1>6. CASE RecordAttempt
  BY <1>3, <1>6 DEF RecordAttempt, Callers, Frame, github
<1>7. CASE BeginObserve \/ \E c \in Api, r \in Repos, kind \in {"metadata", "track"} : BeginAction(c, r, kind)
  BY <1>7, OtherBInv DEF Callers
<1> QED
  BY <1>2, <1>4, <1>5, <1>6, <1>7, CollectBInv, FetchReadmeBInv DEF Next

\* The bytes of every README that metadata or a request names are kept, unless an
\* erasure collected them while a call was between the two statements that rely on
\* them (store_readme and apply_fresh_source, evaluate_metadata_watches).
THEOREM ReadmeBytesAreKept == Spec => []ReadmeBytesKept
<1>1. Init => BInv
  BY InitBInv
<1>2. OInv /\ BInv /\ [Next]_vars => BInv'
  BY StepBInv
<1>3. BInv => ReadmeBytesKept
  BY DEF BInv
<1> QED
  BY <1>1, <1>2, <1>3, ObservationInvariant, PTL DEF Spec
=============================================================================
