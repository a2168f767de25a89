----------------------------- MODULE MCStarSync -----------------------------
(* Small instances of StarSync: four repositories, pages of two entries.   *)
EXTENDS StarSync, TLC

CONSTANTS r1, r2, r3, r4

ThreeStars == <<r3, r2, r1>>

\* Nothing classified yet.
Unclassified == {[r \in Repos |-> "unclassified"]}

\* Nothing classified yet, or one repository of each explicit mode on both
\* sides of the initial listing.
MixedModes == Unclassified \union
  {[r \in Repos |-> CASE r \in {r1, r4} -> "tracked" [] r = r2 -> "ignored"
                      [] OTHER -> "unclassified"]}
=============================================================================
