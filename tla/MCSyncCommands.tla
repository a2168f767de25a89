--------------------------- MODULE MCSyncCommands ---------------------------
(* A small instance of SyncCommands: two lists, one per page.              *)
EXTENDS SyncCommands, TLC

CONSTANTS a, b, c1, c2

\* Both lists in use.
TwoLists == {(1 :> {a} @@ 2 :> {b})}

BothModes == {(c1 :> "incremental" @@ c2 :> "full"), (c1 :> "malformed" @@ c2 :> "full")}
=============================================================================
