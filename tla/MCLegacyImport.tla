--------------------------- MODULE MCLegacyImport ---------------------------
(* A small archive of one user: a starred and filed record, a plain one,   *)
(* and one that cannot be imported.                                        *)
EXTENDS LegacyImport, TLC

CONSTANTS u1, r1, r2, i1, i2

ArchiveUser == [rec \in Records |-> u1]
ArchiveRepo == ("starred" :> r1) @@ ("plain" :> r2) @@ ("conflicting" :> r1)

\* Runs are alike.
Alike == Permutations(Runs)
=============================================================================
