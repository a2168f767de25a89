------------------------- MODULE MCAnalysisRequests -------------------------
(* A small instance of AnalysisRequests: two requests, one of which may be *)
(* too large, and two facts.                                               *)
EXTENDS AnalysisRequests

CONSTANTS q1, q2, q3
=============================================================================
