---------------------------- MODULE SyncCommands ----------------------------
(***************************************************************************)
(* Consumption of sync commands (crates/catalog/src/commands.rs), composed *)
(* with the star-list snapshot that every handled command runs.  The       *)
(* star-mode flow a command dispatches first is one step here with the     *)
(* outcomes that the caller tells apart; StarSync models what it does.     *)
(*                                                                         *)
(* Commands are delivered at least once and handlers run concurrently; a   *)
(* handler is a caller of the star-list snapshot.                          *)
(***************************************************************************)
EXTENDS StarLists

CONSTANTS
  Commands,      \* command identities
  Envelopes,     \* what their envelopes may say: a mode, or malformed
  MaxDeliveries  \* bound: deliveries of all commands

ASSUME CommandConstants ==
  /\ Commands # {}
  /\ Envelopes \subseteq [Commands -> {"malformed", "incremental", "full"}]
  /\ MaxDeliveries \in Nat

VARIABLES
  account,    \* the account row that the command's owner reference finds
  envelope,   \* what each command's envelope says
  delivered,  \* how many deliveries there have been
  inbox,      \* inbox_events: no row, claimed, or consumed_at set
  handler,    \* the local state of each handler
  dispatches, \* history: star flows started for a command
  lists,      \* history: how the list snapshot of a command ended
  shared      \* history: list runs that two calls worked on at one time

commandVars == <<account, envelope, delivered, inbox, handler, dispatches, lists>>
vars == <<listVars, commandVars, shared>>

Handlers == Callers

Handler == [pc      : {"idle", "claim", "star", "converge", "lists", "listing", "consume"},
            command : Commands]

TypeOK ==
  /\ ListTypeOK
  /\ account \in {"unknown", "disconnected", "connected"}
  /\ envelope \in Envelopes
  /\ delivered \in Nat
  /\ inbox \in [Commands -> {"absent", "claimed", "consumed"}]
  /\ handler \in [Handlers -> Handler]
  /\ dispatches \in [Commands -> Nat]
  /\ lists \in [Commands -> {"none", "completed", "paused", "failed", "error"}]
  /\ shared \subseteq ListRunIds

Go(h, pc) == handler' = [handler EXCEPT ![h].pc = pc]

\* A run that another live call is working on as well becomes shared.
Sharing ==
  shared' = shared \union
    {i \in ListRunIds : \E c, d \in Callers :
       /\ c # d
       /\ caller'[c].pc # "idle" /\ caller'[d].pc # "idle"
       /\ caller'[c].run = i /\ caller'[d].run = i}

-----------------------------------------------------------------------------
(* One delivery.                                                           *)

\* validate_envelope and resolve_account.
Acceptable(c) == envelope[c] # "malformed" /\ account = "connected"

Deliver(h, c) ==
  /\ handler[h].pc = "idle"
  /\ delivered < MaxDeliveries
  /\ delivered' = delivered + 1
  /\ handler' = IF Acceptable(c)
                THEN [handler EXCEPT ![h] = [pc |-> "claim", command |-> c]]
                ELSE handler
  /\ UNCHANGED <<listVars, account, envelope, inbox, dispatches, lists, shared>>

\* Mutant: only a consumed identity is a duplicate.
ClaimUnconsumed(h) ==
  LET c == handler[h].command IN
  /\ handler[h].pc = "claim"
  /\ inbox' = [inbox EXCEPT ![c] = IF @ = "absent" THEN "claimed" ELSE @]
  /\ Go(h, IF inbox[c] # "consumed" THEN "star" ELSE "idle")
  /\ dispatches' = [dispatches EXCEPT ![c] = IF inbox[c] # "consumed" THEN @ + 1 ELSE @]
  /\ UNCHANGED <<listVars, account, envelope, delivered, lists, shared>>

\* The inbox row is inserted, or its conflict makes the delivery a duplicate.
Claim(h) ==
  LET c == handler[h].command IN
  /\ handler[h].pc = "claim"
  /\ inbox' = [inbox EXCEPT ![c] = IF @ = "absent" THEN "claimed" ELSE @]
  /\ Go(h, IF inbox[c] = "absent" THEN "star" ELSE "idle")
  /\ dispatches' = [dispatches EXCEPT ![c] = IF inbox[c] = "absent" THEN @ + 1 ELSE @]
  /\ UNCHANGED <<listVars, account, envelope, delivered, lists, shared>>

\* Mutant: a gap ends the handler until the next periodic pass.
StarFlowReturnsStall(h, gap) ==
  LET c == handler[h].command IN
  /\ handler[h].pc \in {"star", "converge"}
  /\ gap => handler[h].pc = "star" /\ envelope[c] = "incremental"
  /\ Go(h, IF gap THEN "idle" ELSE "lists")
  /\ UNCHANGED <<listVars, account, envelope, delivered, inbox, dispatches, lists, shared>>

\* The star flow returns an outcome; a gap of an incremental scan is followed
\* by a full snapshot.
StarFlowReturns(h, gap) ==
  LET c == handler[h].command IN
  /\ handler[h].pc \in {"star", "converge"}
  /\ gap => handler[h].pc = "star" /\ envelope[c] = "incremental"
  /\ Go(h, IF gap THEN "converge" ELSE "lists")
  /\ UNCHANGED <<listVars, account, envelope, delivered, inbox, dispatches, lists, shared>>

\* The star flow returns an error, and so does the handler.
StarFlowErrs(h) ==
  /\ handler[h].pc \in {"star", "converge"}
  /\ stops < MaxStops
  /\ stops' = stops + 1
  /\ Go(h, "idle")
  /\ UNCHANGED <<listUpstream, listRuns, listCatalog, caller, listHistory,
                 account, envelope, delivered, inbox, dispatches, lists, shared>>

\* The star-list snapshot is called, whatever outcome the star flow had.
StartLists(h) ==
  /\ handler[h].pc = "lists"
  /\ ResumeListRun(h) \/ OpenListRun(h)
  /\ Go(h, "listing")
  /\ Sharing
  /\ UNCHANGED <<account, envelope, delivered, inbox, dispatches, lists>>

RunLists(h) ==
  /\ handler[h].pc = "listing"
  /\ ProceedLists(h) \/ InterruptLists(h)
  /\ UNCHANGED <<commandVars, shared>>

\* The snapshot has returned; its error ends the handler.
ListsReturn(h) ==
  /\ handler[h].pc = "listing"
  /\ caller[h].pc = "idle"
  /\ lists' = [lists EXCEPT ![handler[h].command] = caller[h].result]
  /\ Go(h, IF caller[h].result = "error" THEN "idle" ELSE "consume")
  /\ UNCHANGED <<listVars, account, envelope, delivered, inbox, dispatches, shared>>

Consume(h) ==
  /\ handler[h].pc = "consume"
  /\ inbox' = [inbox EXCEPT ![handler[h].command] = "consumed"]
  /\ Go(h, "idle")
  /\ UNCHANGED <<listVars, account, envelope, delivered, dispatches, lists, shared>>

\* The process dies, with every handler in it.
Crash ==
  /\ stops < MaxStops
  /\ \E h \in Handlers : handler[h].pc # "idle"
  /\ stops' = stops + 1
  /\ handler' = [h \in Handlers |-> [handler[h] EXCEPT !.pc = "idle"]]
  /\ caller' = [h \in Handlers |-> IdleCaller("none")]
  /\ UNCHANGED <<listUpstream, listRuns, listCatalog, listHistory,
                 account, envelope, delivered, inbox, dispatches, lists, shared>>

-----------------------------------------------------------------------------

Init ==
  /\ ListInit
  /\ account \in {"unknown", "disconnected", "connected"}
  /\ envelope \in Envelopes
  /\ delivered = 0
  /\ inbox = [c \in Commands |-> "absent"]
  /\ handler = [h \in Handlers |-> [pc |-> "idle", command |-> CHOOSE c \in Commands : TRUE]]
  /\ dispatches = [c \in Commands |-> 0]
  /\ lists = [c \in Commands |-> "none"]
  /\ shared = {}

\* What a live handler does next.
Handle(h) ==
  \/ Claim(h)
  \/ \E gap \in BOOLEAN : StarFlowReturns(h, gap)
  \/ StartLists(h)
  \/ handler[h].pc = "listing" /\ ProceedLists(h) /\ UNCHANGED <<commandVars, shared>>
  \/ ListsReturn(h)
  \/ Consume(h)

Next ==
  \/ ListOwner /\ UNCHANGED <<commandVars, shared>>
  \/ \E h \in Handlers, c \in Commands : Deliver(h, c)
  \/ \E h \in Handlers : \/ Claim(h)
                         \/ \E gap \in BOOLEAN : StarFlowReturns(h, gap)
                         \/ StarFlowErrs(h)
                         \/ StartLists(h)
                         \/ RunLists(h)
                         \/ ListsReturn(h)
                         \/ Consume(h)
  \/ Crash

Spec == Init /\ [][Next]_vars

\* A handler that is running takes its next step.
FairSpec == Spec /\ \A h \in Handlers : WF_vars(Handle(h))

-----------------------------------------------------------------------------
(* Properties.                                                             *)

\* One command starts at most one star flow, across redelivery, concurrent
\* handlers and crashes, and only a well-formed command of a connected account
\* starts one or leaves an inbox row (commands.rs 113-118, 137-138).
OneDispatchPerCommand ==
  \A c \in Commands :
    /\ dispatches[c] <= 1
    /\ inbox[c] # "absent" => envelope[c] # "malformed" /\ account = "connected"

\* A claimed command is consumed unless its handler met an error or the process
\* died, after which no redelivery takes it up again (commands.rs 137-153).
ClaimedIsConsumed ==
  \A c \in Commands :
    inbox[c] = "claimed" ~> \/ inbox[c] = "consumed"
                            \/ stops > 0
                            \/ lists[c] = "error"

\* A promoted membership was filed, and a demoted one was not filed, at some
\* moment while the run cited as evidence was open, whatever the owner did
\* between the pages and however the run was interrupted, unless two calls
\* worked on the run at one time (promote_seen_pairs, demote_absent_pairs).
EvidencedUnlessShared ==
  [][\A p \in Pairs :
       LET e == members'[p].evidence IN
       members'[p] # members[p] /\ e \notin shared =>
         /\ members'[p].state = "member" => p \in wasFiled[e]
         /\ members'[p].state = "former" => p \in wasNot[e]]_vars
=============================================================================
