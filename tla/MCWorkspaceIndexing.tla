------------------------ MODULE MCWorkspaceIndexing ------------------------
(***************************************************************************)
(* Two files and a window that holds one of them, so that it overflows.    *)
(* The editor opens the first; the second is there from the beginning.     *)
(***************************************************************************)
EXTENDS WorkspaceIndexingProperties

CONSTANTS a, b

MCInit == Init /\ disk[b] = FirstNew /\ saved[b] = 0

MCSpec == MCInit /\ [][Next]_vars
MCFairSpec == MCSpec /\ Fairness
=============================================================================
