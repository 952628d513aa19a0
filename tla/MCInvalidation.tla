--------------------------- MODULE MCInvalidation ---------------------------
(***************************************************************************)
(* Three documents in which every shape of dependency arises: chains of    *)
(* three, cycles, two definitions of one id, definitions that come later   *)
(* than the documents that need them.                                      *)
(***************************************************************************)
EXTENDS SemanticInvalidation, TLC

CONSTANTS u1, u2, u3, a, b

MCUris == {u1, u2, u3}
MCIds == {a, b}
MCContributions ==
  {[defines |-> {a}, analysed |-> TRUE, needs |-> {b}],
   [defines |-> {b}, analysed |-> TRUE, needs |-> {a}],
   [defines |-> {},  analysed |-> TRUE, needs |-> {b}]}

Documents == Permutations(MCUris)

\* Bound: a batch touches one document.
SmallBatches ==
  batchDepth > 0 =>
    Cardinality({u \in Uris :
      staged.documentSymbols[u] # published.documentSymbols[u]
      \/ staged.documentDependencies[u] # published.documentDependencies[u]}) <= 1

\* `invalidated' is an output: no action reads it, so states that differ in it only
\* have the same successors, and its value is judged at the step that sets it.
WithoutOutput == <<vars, open, reading>>
=============================================================================
