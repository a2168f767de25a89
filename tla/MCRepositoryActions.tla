------------------------- MODULE MCRepositoryActions ------------------------
(* A small instance of RepositoryActions: two callers, a star action, a    *)
(* track action, and a metadata action that reuses the key of the star.    *)
EXTENDS RepositoryActions

CONSTANTS r1, l1, k1, k2

StarRequests == {[kind |-> "star", repo |-> r1, list |-> l1, mode |-> "auto", key |-> k1]}

Action(m, key) == [mode |-> m, repo |-> r1, key |-> key, owner |-> "user"]
AllModes == {Action("star", k1), Action("metadata", k1), Action("track", k2)}

NoLists == {{}}
=============================================================================
