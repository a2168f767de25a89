-------------------------- MODULE MCAccountErasure --------------------------
(* A small instance of AccountErasure: one owner with accounts, one who    *)
(* only tracks repositories, and repositories with the same README.        *)
EXTENDS AccountErasure, TLC

CONSTANTS o1, o2, r1, r2, d1, d2, readme

FirstOwns == [a \in Accounts |-> o1]
SameReadme == [r \in Repos |-> readme]
\* Repositories are alike, and so are deliveries.
Alike == Permutations(Repos) \union Permutations(Deliveries)
=============================================================================
