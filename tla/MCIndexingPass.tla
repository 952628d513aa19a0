--------------------------- MODULE MCIndexingPass ---------------------------
(***************************************************************************)
(* Three files in batches of two, and a pool of two workers, one of which  *)
(* may die.                                                                *)
(***************************************************************************)
EXTENDS IndexingPassProperties

CONSTANTS a, b, c

MCFiles == <<a, b, c>>
MCTasks == {a, b, c} \X {"structural", "enriched"}
=============================================================================
