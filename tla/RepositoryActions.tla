-------------------------- MODULE RepositoryActions -------------------------
(***************************************************************************)
(* Confirmed repository actions of the loopback API: metadata, track and   *)
(* star (services/catalog/src/repository_api.rs), each claimed under its   *)
(* idempotency key and recorded when it ends                               *)
(* (repository_action_attempts.rs).  The star path runs a mutation of      *)
(* module Mutations with the same key; the metadata that an action records *)
(* is the subject of module Observation and is an outcome here.            *)
(***************************************************************************)
EXTENDS Mutations

CONSTANTS
  Actions,     \* the requests of the API: mode, repo, key and owner
  MaxCalls     \* bound: calls of the action route

Modes == {"metadata", "track", "star"}
ActionKeys == {a.key : a \in Actions}

\* The mutation that a star action asks for.
StarRequest(a) == CHOOSE q \in Requests : q.kind = "star" /\ q.repo = a.repo /\ q.key = a.key

ASSUME ActionConstants ==
  /\ \A a \in Actions : a.mode \in Modes /\ a.repo \in Repos
  /\ \A a \in Actions : a.mode = "star" =>
       \E q \in Requests : q.kind = "star" /\ q.repo = a.repo /\ q.key = a.key
  /\ IsFiniteSet(Actions) /\ Actions # {} /\ MaxCalls \in Nat

VARIABLES
  attempt,   \* repository_action_attempts, by idempotency key
  act,       \* the action that each worker executes
  calls,     \* bounded counter
  replies,   \* history: results answered for a key
  writes,    \* history: star writes that GitHub carried out for a key
  confirmed, \* history: keys whose star write GitHub confirmed
  lost       \* history: keys of executions that a fault, a crash or a failed
             \* completion write cut off

actionVars == <<attempt, act, calls, replies, writes, confirmed, lost>>
allVars    == <<vars, actionVars>>

Result == [metadata : {"succeeded", "already_applied", "failed", "refused", "skipped"},
           star     : {"succeeded", "already_applied", "failed", "refused", "skipped"},
           backup   : {"accepted", "already_applied", "failed", "skipped"}]
Answered(m, s, b) == [metadata |-> m, star |-> s, backup |-> b]
Unfinished == Answered("skipped", "skipped", "skipped")

Attempt == [status : {"absent", "in_progress", "completed"}, action : Actions, result : Result]
AnyAction == CHOOSE a \in Actions : TRUE
NoAttempt == [status |-> "absent", action |-> AnyAction, result |-> Unfinished]
NoAct     == [pc |-> "idle", action |-> AnyAction, result |-> Unfinished]

ActionsTypeOK ==
  /\ TypeOK
  /\ attempt \in [ActionKeys -> Attempt]
  /\ act \in [Workers -> [pc : {"idle", "refusal", "fetch", "record", "track", "credential",
                                "mutation", "complete"},
                          action : Actions, result : Result]]
  /\ calls \in 0..MaxCalls
  /\ replies \in [ActionKeys -> SUBSET Result]
  /\ writes \in [ActionKeys -> Nat]
  /\ confirmed \subseteq ActionKeys /\ lost \subseteq ActionKeys

-----------------------------------------------------------------------------
(* Steps of one execution.                                                 *)

ActionKey(w) == act[w].action.key

\* Worker w, at step pc, goes on to step next with the result so far.
Proceed(w, pc, next, result) ==
  /\ act[w].pc = pc
  /\ act' = [act EXCEPT ![w] = [@ EXCEPT !.pc = next, !.result = result]]
  /\ UNCHANGED <<attempt, calls, replies, lost>>

Quiet == UNCHANGED <<vars, writes, confirmed>>

\* Mutant: a claim in progress is taken over by whoever asks again.
ClaimActionTakeover(w, a) ==
  LET row == attempt[a.key] IN
  /\ act[w].pc = "idle" /\ calls < MaxCalls
  /\ calls' = calls + 1
  /\ IF row.status # "completed"
     THEN /\ attempt' = [attempt EXCEPT ![a.key] = [NoAttempt EXCEPT !.status = "in_progress", !.action = a]]
          /\ act' = [act EXCEPT ![w] = [NoAct EXCEPT !.action = a,
                                          !.pc = IF a.mode = "star" THEN "refusal" ELSE "fetch"]]
          /\ UNCHANGED replies
     ELSE UNCHANGED <<attempt, act, replies>>
  /\ Quiet /\ UNCHANGED lost

\* claim_action: the inserted row executes, the same completed request replays
\* its recorded result, everything else conflicts.
ClaimAction(w, a) ==
  LET row == attempt[a.key] IN
  /\ act[w].pc = "idle" /\ calls < MaxCalls
  /\ calls' = calls + 1
  /\ IF row.status = "absent"
     THEN /\ attempt' = [attempt EXCEPT ![a.key] = [NoAttempt EXCEPT !.status = "in_progress", !.action = a]]
          /\ act' = [act EXCEPT ![w] = [NoAct EXCEPT !.action = a,
                                          !.pc = IF a.mode = "star" THEN "refusal" ELSE "fetch"]]
          /\ UNCHANGED replies
     ELSE /\ replies' = IF row.action = a /\ row.status = "completed"
                        THEN [replies EXCEPT ![a.key] = @ \union {row.result}] ELSE replies
          /\ UNCHANGED <<attempt, act>>
  /\ Quiet /\ UNCHANGED lost

\* star_refusal: the account is missing, not connected or lacks the scope.
StarRefused(w) ==
  /\ "star" \notin granted
  /\ Proceed(w, "refusal", "complete", Answered("skipped", "refused", "skipped"))
  /\ Quiet

StarAccepted(w) ==
  /\ "star" \in granted
  /\ Proceed(w, "refusal", "fetch", Unfinished)
  /\ Quiet

\* Mutant: a failed fetch starts the action over, without end.
FetchStopsRetry(w, outcome) ==
  /\ outcome \in {"failed", "refused"}
  /\ Proceed(w, "fetch", "refusal", Unfinished)
  /\ Quiet

\* fetch_action_metadata: the budget, the provider or the identity check may end
\* the action with the components that depend on it skipped.
FetchStops(w, outcome) ==
  /\ outcome \in {"failed", "refused"}
  /\ Proceed(w, "fetch", "complete", Answered(outcome, "skipped", "skipped"))
  /\ Quiet

Fetched(w) ==
  /\ Proceed(w, "fetch", "record", Unfinished)
  /\ Quiet

\* upsert_repository, record_alias twice and record_fresh_repository.
RecordStops(w) ==
  /\ Proceed(w, "record", "complete", Answered("failed", "skipped", "skipped"))
  /\ Quiet

Recorded(w, outcome) ==
  /\ outcome \in {"succeeded", "already_applied"}
  /\ Proceed(w, "record", CASE act[w].action.mode = "metadata" -> "complete"
                            [] act[w].action.mode = "track" -> "track"
                            [] OTHER -> "credential",
             Answered(outcome, "skipped", "skipped"))
  /\ Quiet

\* track_repository locks the row; the mode and the policy mark commit together.
Track(w) ==
  LET r == act[w].action.repo
      already == mode[r] = "tracked"
  IN /\ Proceed(w, "track", "complete",
                [act[w].result EXCEPT !.backup = IF already THEN "already_applied" ELSE "accepted"])
     /\ mode' = [mode EXCEPT ![r] = "tracked"]
     /\ Overtake(IF already THEN {} ELSE {r})
     /\ UNCHANGED <<granted, upstream, starred, filedIn, active, audit, sync, bounds,
                    effects, answers, disturbed, writes, confirmed>>

TrackFails(w) ==
  /\ Proceed(w, "track", "complete", [act[w].result EXCEPT !.backup = "failed"])
  /\ Quiet

\* star_component_failed: no credential key, no active credential.
NoCredential(w) ==
  /\ Proceed(w, "credential", "complete", [act[w].result EXCEPT !.star = "failed"])
  /\ Quiet

-----------------------------------------------------------------------------
(* The star mutation, and how its outcome becomes the action's.            *)

StarEnds(w, star, backup) ==
  Proceed(w, "mutation", "complete", [act[w].result EXCEPT !.star = star, !.backup = backup])

MutationStarts(w) ==
  LET q == StarRequest(act[w].action) IN
  /\ act[w].pc = "credential"
  /\ Submit(w, q)
  /\ IF SuccessfulOutcomeExists(q.key) \/ ~Authorized(q)
     THEN Proceed(w, "credential", "complete",
                  IF Authorized(q)
                  THEN [act[w].result EXCEPT !.star = "already_applied", !.backup = "already_applied"]
                  ELSE [act[w].result EXCEPT !.star = "refused"])
     ELSE Proceed(w, "credential", "mutation", act[w].result)
  /\ UNCHANGED <<writes, confirmed>>

MutationRefused(w) ==
  /\ RefuseIgnored(w) /\ StarEnds(w, "refused", "skipped")
  /\ UNCHANGED <<writes, confirmed>>

MutationFails(w) ==
  /\ Pause(w) \/ WriteRefused(w)
  /\ StarEnds(w, "failed", "skipped")
  /\ UNCHANGED <<writes, confirmed>>

MutationPrepares(w) ==
  /\ Prepare(w) /\ UNCHANGED actionVars

MutationWrites(w) ==
  /\ WriteConfirmed(w)
  /\ writes' = [writes EXCEPT ![ActionKey(w)] = @ + 1]
  /\ confirmed' = confirmed \union {ActionKey(w)}
  /\ UNCHANGED <<attempt, act, calls, replies, lost>>

\* Mutant: a star without an answer is asked for again.
MutationUnansweredRetries(w) ==
  /\ WriteUnanswered(w) /\ Proceed(w, "mutation", "credential", act[w].result)
  /\ writes' = [writes EXCEPT ![ActionKey(w)] = @ + 1]
  /\ UNCHANGED confirmed

MutationUnanswered(w) ==
  /\ WriteUnanswered(w) /\ StarEnds(w, "failed", "skipped")
  /\ writes' = [writes EXCEPT ![ActionKey(w)] = @ + 1]
  /\ UNCHANGED confirmed

MutationPersists(w) ==
  /\ Persist(w)
  /\ IF NewlyApplied(w) THEN StarEnds(w, "succeeded", "accepted")
                        ELSE StarEnds(w, "already_applied", "already_applied")
  /\ UNCHANGED <<writes, confirmed>>

\* Mutant: every database error reads as a star that GitHub confirmed.
MutationErrsConfirmed(w) ==
  /\ Stop(w)
  /\ StarEnds(w, "succeeded", "failed")
  /\ UNCHANGED <<writes, confirmed>>

\* A database error: after the confirmation the star did succeed and only the
\* policy failed (ProviderConfirmedPersistence); before it the star failed.
MutationErrs(w) ==
  /\ Stop(w)
  /\ IF worker[w].pc = "persist" THEN StarEnds(w, "succeeded", "failed")
                                 ELSE StarEnds(w, "failed", "skipped")
  /\ UNCHANGED <<writes, confirmed>>

-----------------------------------------------------------------------------
(* The end of an execution.                                                *)

Reply(w) == replies' = [replies EXCEPT ![ActionKey(w)] = @ \union {act[w].result}]

CompleteAction(w) ==
  /\ act[w].pc = "complete"
  /\ attempt' = [attempt EXCEPT ![ActionKey(w)] =
                   [@ EXCEPT !.status = "completed", !.result = act[w].result]]
  /\ Reply(w)
  /\ act' = [act EXCEPT ![w] = NoAct]
  /\ Quiet /\ UNCHANGED <<calls, lost>>

\* The terminal row is not written; the caller has its answer all the same.
CompletionFails(w) ==
  /\ act[w].pc = "complete"
  /\ bounds.stops < MaxStops /\ Spend("stops")
  /\ Reply(w)
  /\ act' = [act EXCEPT ![w] = NoAct]
  /\ lost' = lost \union {ActionKey(w)}
  /\ UNCHANGED <<granted, upstream, catalog, audit, worker, sync, effects, answers, disturbed,
                 attempt, calls, writes, confirmed>>

\* An early return with a fault, or the end of the process, before the result.
ActionCutOff(w) ==
  /\ act[w].pc # "idle"
  /\ IF worker[w].pc # "idle" THEN Stop(w)
     ELSE /\ bounds.stops < MaxStops /\ Spend("stops")
          /\ UNCHANGED <<granted, upstream, catalog, audit, worker, sync, effects, answers, disturbed>>
  /\ act' = [act EXCEPT ![w] = NoAct]
  /\ lost' = lost \union {ActionKey(w)}
  /\ UNCHANGED <<attempt, calls, replies, writes, confirmed>>

-----------------------------------------------------------------------------
ActionsInit ==
  /\ Init
  /\ attempt = [k \in ActionKeys |-> NoAttempt]
  /\ act = [w \in Workers |-> NoAct]
  /\ calls = 0
  /\ replies = [k \in ActionKeys |-> {}]
  /\ writes = [k \in ActionKeys |-> 0]
  /\ confirmed = {} /\ lost = {}

Execute(w) ==
  \/ StarRefused(w) \/ StarAccepted(w)
  \/ \E o \in {"failed", "refused"} : FetchStops(w, o)
  \/ Fetched(w) \/ RecordStops(w)
  \/ \E o \in {"succeeded", "already_applied"} : Recorded(w, o)
  \/ Track(w) \/ TrackFails(w) \/ NoCredential(w)
  \/ MutationStarts(w) \/ MutationRefused(w) \/ MutationFails(w) \/ MutationPrepares(w)
  \/ MutationWrites(w) \/ MutationUnanswered(w) \/ MutationPersists(w) \/ MutationErrs(w)
  \/ CompleteAction(w) \/ CompletionFails(w)

ActionsNext ==
  \/ Environment /\ UNCHANGED actionVars
  \/ \E w \in Workers, a \in Actions : ClaimAction(w, a)
  \/ \E w \in Workers : Execute(w) \/ ActionCutOff(w)

\* Each request has a task of its own, which the runtime keeps polling.
ActionsSpec == ActionsInit /\ [][ActionsNext]_allVars /\ \A w \in Workers : WF_allVars(Execute(w))

-----------------------------------------------------------------------------
(* Properties.                                                             *)

\* However often a client repeats an action, and wherever earlier executions
\* were cut off, GitHub carries out at most one star write for its key
\* (claim_action before any effect).
OneWritePerAction == \A k \in ActionKeys : writes[k] <= 1

\* Every result that is ever answered for a key is the same one, the replays of
\* the recorded row included (complete_action).
RepliesAgree == \A k \in ActionKeys : \A x, y \in replies[k] : x = y

\* The star component of an answer is the truth about the provider: a success
\* was confirmed, and a refused or skipped star was never written
\* (execute_star_action, star_component_failed).
StarComponentTruthful ==
  \A k \in ActionKeys : \A result \in replies[k] :
    /\ result.star = "succeeded" => k \in confirmed
    /\ result.star \in {"refused", "skipped"} => writes[k] = 0

\* A claim that is not cut off ends in a recorded result.
ClaimsComplete ==
  \A k \in ActionKeys :
    attempt[k].status = "in_progress" ~> (attempt[k].status = "completed" \/ k \in lost)
=============================================================================
