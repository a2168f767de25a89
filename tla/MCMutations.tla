---------------------------- MODULE MCMutations -----------------------------
(* A small instance of Mutations: two lists and two repositories; two      *)
(* calls of every kind that may share a key, also across repositories.     *)
EXTENDS Mutations, TLC

CONSTANTS r1, r2, l1, l2, k1, k2, w1, w2

Req(kind, repo, list, m, key) ==
  [kind |-> kind, repo |-> repo, list |-> list, mode |-> m, key |-> key]

AllKinds ==
  {Req("star", r1, l1, "auto", k1), Req("unstar", r2, l1, "auto", k1),
   Req("list_member_add", r1, l1, "auto", k1), Req("list_member_remove", r1, l2, "auto", k2),
   Req("mode_set", r1, l1, "ignored", k2), Req("mode_set", r1, l1, "auto", k1)}

\* Callers are interchangeable.
CallerSymmetry == Permutations(Workers)

SecondListOnly == {{l2}}

\* The second repository, which is only unstarred, starts with its star.
MCInit == Init /\ mode[r2] = "auto"
MCSpec == MCInit /\ [][Next]_vars
=============================================================================
