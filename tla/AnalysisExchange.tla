-------------------------- MODULE AnalysisExchange --------------------------
(***************************************************************************)
(* What the catalog promises of repository-analysis requests, whatever the *)
(* database, the relay and the bus do in between: a request is asked once, *)
(* it may reach Knowledge any time after that, and it is settled at most   *)
(* once, with an answer that Knowledge gave after the request reached it.  *)
(***************************************************************************)
CONSTANTS Requests, Unlinked

VARIABLES
  asked,      \* requests that a watch evaluation has queued
  delivered,  \* requests that the bus holds
  outcome,    \* how each request ended
  link        \* the request whose result the repository shows

vars == <<asked, delivered, outcome, link>>

Init ==
  /\ asked = {} /\ delivered = {}
  /\ outcome = [q \in Requests |-> "open"]
  /\ link = Unlinked

Ask(q) ==
  /\ q \notin asked
  /\ asked' = asked \union {q}
  /\ UNCHANGED <<delivered, outcome, link>>

Deliver(q) ==
  /\ q \in asked
  /\ delivered' = delivered \union {q}
  /\ UNCHANGED <<asked, outcome, link>>

Settle(q, o) ==
  /\ q \in delivered /\ outcome[q] = "open"
  /\ outcome' = [outcome EXCEPT ![q] = o]
  /\ link' = IF o = "completed" THEN q ELSE link
  /\ UNCHANGED <<asked, delivered>>

Next ==
  \E q \in Requests :
    \/ Ask(q) \/ Deliver(q)
    \/ \E o \in {"completed", "failed"} : Settle(q, o)

Spec == Init /\ [][Next]_vars
=============================================================================
