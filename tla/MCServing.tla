----------------------------- MODULE MCServing -----------------------------
EXTENDS InteractiveServingProperties, TLC

CONSTANTS a, b, c0, c1

MCDocs == {a, b}
MCContents == {c0, c1}
MCComputed(d, c) == <<d, c>>

Symmetry == Permutations(MCDocs)

\* To keep the run small, the same content is published twice in a row only before the
\* store of the second session is open; after that the graph is asked only together with
\* the hot context, and the second session does not shut down and has no write that fails.
MCNext ==
  /\ Next
  /\ epoch' = epoch + 1 /\ (session = 1 \/ hasStore) => content' # content
  /\ session = 1 \/ ~hasStore \/ hot' # hot \/ graph' = graph
  /\ phase' = "stopping" \/ failed' => session = 1

MCSpec == Init /\ [][MCNext]_vars
=============================================================================
