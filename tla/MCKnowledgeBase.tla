-------------------------- MODULE MCKnowledgeBase --------------------------
(***************************************************************************)
(* Two documents that share the id "a", which each of them may define or   *)
(* need, and lose their snapshots to resyncDocuments(); batches nest twice. *)
(***************************************************************************)
EXTENDS KnowledgeBaseProperties, TLC

CONSTANTS u1, u2, a, b

MCUris == {u1, u2}
MCIds == {a, b}
MCContributions ==
  {[defines |-> {a},    analysed |-> TRUE,  needs |-> {b}],
   [defines |-> {a, b}, analysed |-> TRUE,  needs |-> {}],
   [defines |-> {},     analysed |-> TRUE,  needs |-> {a}]}

\* Restoring a checkpoint does what indexing its records one by one does.
RestoreIsTheLoop ==
  \A c, d \in MCContributions \cup {Nothing} :
    IndexIntoState(IndexIntoState(EmptyState, u1, c), u2, d)
      = StateOf(u1 :> c @@ u2 :> d, 0)

ASSUME RestoreAssumption == RestoreIsTheLoop
=============================================================================
