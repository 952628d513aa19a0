-------------------------- MODULE KnowledgeProofs --------------------------
(***************************************************************************)
(* Theorems about src/server/knowledge: the incremental maintenance of the *)
(* index and its batches, the plans of what an edit invalidates, and the   *)
(* searches of the inheritance graph, for every set of documents, ids,     *)
(* contributions and declarations.                                         *)
(***************************************************************************)
EXTENDS KnowledgeBaseProperties, SemanticInvalidation, HierarchyProperties,
        QueueLemmas, FiniteSetTheorems, TLAPS

-----------------------------------------------------------------------------
(* The operators that maintain one state.                                  *)

\* Taking the dependencies of a document out leaves a consistent state.
LEMMA RemoveDependenciesLemma ==
  ASSUME NEW state \in State, Consistent(state), NEW u \in Uris
  PROVE  LET r == RemoveDependencies(state, u)
         IN /\ r \in State
            /\ Consistent(r)
            /\ r.documentDependencies = [state.documentDependencies EXCEPT ![u] = {}]
            /\ r.documentSymbols = state.documentSymbols
            /\ r.globalSymbols = state.globalSymbols
            /\ r.documentSnapshots = state.documentSnapshots
            /\ r.semanticEpoch = state.semanticEpoch
BY ZenonT(60) DEF RemoveDependencies, State, Consistent

\* So does taking the document out, which then neither defines nor needs
\* anything.
LEMMA RemoveFromStateLemma ==
  ASSUME NEW state \in State, Consistent(state), NEW u \in Uris
  PROVE  LET r == RemoveFromState(state, u)
         IN /\ r \in State
            /\ Consistent(r)
            /\ r.documentSymbols = [state.documentSymbols EXCEPT ![u] = {}]
            /\ r.documentDependencies = [state.documentDependencies EXCEPT ![u] = {}]
            /\ r.documentSnapshots = state.documentSnapshots \ {u}
<1> DEFINE d == RemoveDependencies(state, u)
           r == RemoveFromState(state, u)
<1>1. /\ d \in State
      /\ Consistent(d)
      /\ d.documentDependencies = [state.documentDependencies EXCEPT ![u] = {}]
      /\ d.documentSymbols = state.documentSymbols
      /\ d.globalSymbols = state.globalSymbols
      /\ d.documentSnapshots = state.documentSnapshots
  BY RemoveDependenciesLemma
<1> HIDE DEF d
<1>2. r = [d EXCEPT
             !.globalSymbols =
                [k \in Ids |-> IF k \in d.documentSymbols[u]
                               THEN d.globalSymbols[k] \ {u}
                               ELSE d.globalSymbols[k]],
             !.documentSymbols[u] = {},
             !.documentSnapshots = d.documentSnapshots \ {u}]
  BY <1>1 DEF RemoveFromState, d
<1> HIDE DEF r
<1>3. r \in State
  BY <1>1, <1>2, Zenon DEF State
<1>4. /\ r.documentSymbols = [state.documentSymbols EXCEPT ![u] = {}]
      /\ r.documentDependencies = [state.documentDependencies EXCEPT ![u] = {}]
      /\ r.documentSnapshots = state.documentSnapshots \ {u}
  BY <1>1, <1>2 DEF State
<1>5. Consistent(r)
  BY <1>1, <1>2 DEF State, Consistent
<1> QED  BY <1>3, <1>4, <1>5 DEF r

\* Filing the new facts of the document keeps the state consistent.
LEMMA FileFactsLemma ==
  ASSUME NEW state \in State, Consistent(state), NEW u \in Uris,
         NEW d \in Contribution
  PROVE  LET r == FileFacts(state, u, d)
         IN /\ r \in State
            /\ Consistent(r)
            /\ r.documentSymbols = [state.documentSymbols EXCEPT ![u] = d.defines]
            /\ r.documentDependencies = [state.documentDependencies EXCEPT ![u] = {}]
            /\ r.documentSnapshots = state.documentSnapshots \ {u}
<1> DEFINE m == RemoveFromState(state, u)
           r == FileFacts(state, u, d)
<1>1. /\ m \in State
      /\ Consistent(m)
      /\ m.documentSymbols = [state.documentSymbols EXCEPT ![u] = {}]
      /\ m.documentDependencies = [state.documentDependencies EXCEPT ![u] = {}]
      /\ m.documentSnapshots = state.documentSnapshots \ {u}
  BY RemoveFromStateLemma, SMTT(40)
<1> HIDE DEF m
<1>2. r = [m EXCEPT
             !.globalSymbols =
                [k \in Ids |-> IF k \in d.defines THEN m.globalSymbols[k] \cup {u}
                                                  ELSE m.globalSymbols[k]],
             !.documentSymbols[u] = d.defines]
  BY DEF FileFacts, m, r
<1> HIDE DEF r
<1>3. r \in State
  <2>1. d.defines \subseteq Ids
    BY DEF Contribution
  <2>2. [m.documentSymbols EXCEPT ![u] = d.defines] \in [Uris -> SUBSET Ids]
    BY <1>1, <2>1 DEF State
  <2>3. [k \in Ids |-> IF k \in d.defines THEN m.globalSymbols[k] \cup {u}
                                           ELSE m.globalSymbols[k]]
          \in [Ids -> SUBSET Uris]
    BY <1>1 DEF State
  <2> QED  BY <1>1, <1>2, <2>2, <2>3, Zenon DEF State
<1>4. /\ r.documentSymbols = [state.documentSymbols EXCEPT ![u] = d.defines]
      /\ r.documentDependencies = [state.documentDependencies EXCEPT ![u] = {}]
      /\ r.documentSnapshots = state.documentSnapshots \ {u}
  BY <1>1, <1>2 DEF State, Contribution
<1>5. Consistent(r)
  BY <1>1, <1>2 DEF State, Consistent, Contribution
<1> QED  BY <1>3, <1>4, <1>5 DEF r

\* Indexing a document replaces its contribution and keeps the state consistent.
LEMMA IndexIntoStateLemma ==
  ASSUME NEW state \in State, Consistent(state), NEW u \in Uris,
         NEW d \in Contribution, ~d.analysed => d.needs = {}
  PROVE  LET r == IndexIntoState(state, u, d)
         IN /\ r \in State
            /\ Consistent(r)
            /\ r.documentSymbols = [state.documentSymbols EXCEPT ![u] = d.defines]
            /\ r.documentDependencies = [state.documentDependencies EXCEPT ![u] = d.needs]
            /\ r.documentSnapshots = IF d.analysed THEN state.documentSnapshots \cup {u}
                                     ELSE state.documentSnapshots \ {u}
<1> DEFINE f == FileFacts(state, u, d)
           s == [f EXCEPT !.documentSnapshots = @ \cup {u}]
           m == RemoveDependencies(s, u)
           r == IndexIntoState(state, u, d)
<1>1. /\ f \in State
      /\ Consistent(f)
      /\ f.documentSymbols = [state.documentSymbols EXCEPT ![u] = d.defines]
      /\ f.documentDependencies = [state.documentDependencies EXCEPT ![u] = {}]
      /\ f.documentSnapshots = state.documentSnapshots \ {u}
  BY FileFactsLemma
<1> HIDE DEF f
<1>2. CASE ~d.analysed
  <2>1. r = RemoveDependencies(f, u)
    BY <1>2 DEF IndexIntoState, f
  <2>2. /\ RemoveDependencies(f, u) \in State
        /\ Consistent(RemoveDependencies(f, u))
        /\ RemoveDependencies(f, u).documentDependencies
              = [f.documentDependencies EXCEPT ![u] = {}]
        /\ RemoveDependencies(f, u).documentSymbols = f.documentSymbols
        /\ RemoveDependencies(f, u).documentSnapshots = f.documentSnapshots
    BY <1>1, RemoveDependenciesLemma
  <2>3. [f.documentDependencies EXCEPT ![u] = {}]
          = [state.documentDependencies EXCEPT ![u] = d.needs]
    BY <1>1, <1>2 DEF State
  <2> QED  BY <1>1, <1>2, <2>1, <2>2, <2>3
<1>3. CASE d.analysed
  <2>0. /\ s.documentSymbols = f.documentSymbols
        /\ s.globalSymbols = f.globalSymbols
        /\ s.documentDependencies = f.documentDependencies
        /\ s.reverseDependencies = f.reverseDependencies
        /\ s.documentSnapshots = f.documentSnapshots \cup {u}
    BY <1>1 DEF State
  <2>1. s \in State /\ Consistent(s)
    <3>1. s \in State
      BY <1>1, SMTT(40) DEF State
    <3> HIDE DEF s
    <3>2. Consistent(s)
      BY <1>1, <2>0 DEF Consistent
    <3> QED  BY <3>1, <3>2
  <2>2. /\ s.documentSymbols = f.documentSymbols
        /\ s.documentDependencies = f.documentDependencies
        /\ s.documentSnapshots = state.documentSnapshots \cup {u}
    BY <1>1, <2>0 DEF State
  <2> HIDE DEF s
  <2>3. /\ m \in State
        /\ Consistent(m)
        /\ m.documentDependencies = [s.documentDependencies EXCEPT ![u] = {}]
        /\ m.documentSymbols = s.documentSymbols
        /\ m.documentSnapshots = s.documentSnapshots
    BY <2>1, RemoveDependenciesLemma
  <2> HIDE DEF m
  <2>4. r = [m EXCEPT
               !.documentDependencies[u] = d.needs,
               !.reverseDependencies =
                  [k \in Ids |-> IF k \in d.needs
                                 THEN m.reverseDependencies[k] \cup {u}
                                 ELSE m.reverseDependencies[k]]]
    BY <1>3 DEF IndexIntoState, UpdateDependencies, f, s, m
  <2> HIDE DEF r
  <2>5. r \in State
    <3>1. d.needs \subseteq Ids
      BY DEF Contribution
    <3>2. [m.documentDependencies EXCEPT ![u] = d.needs] \in [Uris -> SUBSET Ids]
      BY <2>3, <3>1 DEF State
    <3>3. [k \in Ids |-> IF k \in d.needs THEN m.reverseDependencies[k] \cup {u}
                                           ELSE m.reverseDependencies[k]]
            \in [Ids -> SUBSET Uris]
      BY <2>3 DEF State
    <3> QED  BY <2>3, <2>4, <3>2, <3>3, Zenon DEF State
  <2>6. /\ r.documentSymbols = m.documentSymbols
        /\ r.documentSnapshots = m.documentSnapshots
        /\ r.globalSymbols = m.globalSymbols
        /\ r.documentDependencies = [m.documentDependencies EXCEPT ![u] = d.needs]
        /\ r.reverseDependencies =
              [k \in Ids |-> IF k \in d.needs THEN m.reverseDependencies[k] \cup {u}
                                             ELSE m.reverseDependencies[k]]
    BY <2>3, <2>4 DEF State
  <2>7. Consistent(r)
    <3>1. ASSUME NEW v \in Uris, NEW k \in Ids
          PROVE  /\ v \in r.globalSymbols[k] <=> k \in r.documentSymbols[v]
                 /\ v \in r.reverseDependencies[k] <=> k \in r.documentDependencies[v]
      BY <2>3, <2>6, <3>1 DEF State, Consistent
    <3>2. ASSUME NEW v \in Uris \ r.documentSnapshots
          PROVE  r.documentDependencies[v] = {}
      BY <2>2, <2>3, <2>6, <3>2 DEF State, Consistent
    <3> QED  BY <3>1, <3>2 DEF Consistent
  <2>8. r.documentDependencies = [state.documentDependencies EXCEPT ![u] = d.needs]
    <3>1. /\ state.documentDependencies \in [Uris -> SUBSET Ids]
          /\ m.documentDependencies \in [Uris -> SUBSET Ids]
      BY <2>3 DEF State
    <3>2. \A w \in Uris \ {u} : m.documentDependencies[w] = state.documentDependencies[w]
      BY <1>1, <2>2, <2>3, <3>1
    <3> QED  BY <2>6, <3>1, <3>2
  <2> QED  BY <1>1, <1>3, <2>2, <2>3, <2>5, <2>6, <2>7, <2>8 DEF r
<1> QED  BY <1>2, <1>3

-----------------------------------------------------------------------------
(* The invariant.                                                          *)

\* Every contribution that an edit or a checkpoint brings is well formed.
LEMMA ContributionLemma ==
  ASSUME NEW d \in Contributions \cup {Nothing}
  PROVE  d \in Contribution /\ (~d.analysed => d.needs = {})
<1>1. CASE d \in Contributions
  BY <1>1, ContributionsAssumption
<1>2. CASE d = Nothing
  <2>1. Nothing \in Contribution /\ Nothing.needs = {}
    BY DEF Nothing, Contribution
  <2> QED  BY <1>2, <2>1
<1> QED  BY <1>1, <1>2

\* The empty index is consistent,
LEMMA EmptyStateLemma == EmptyState \in State /\ Consistent(EmptyState)
BY DEF EmptyState, State, Consistent

\* and so is one restored from records.
LEMMA StateOfLemma ==
  ASSUME NEW records \in [Uris -> Contributions \cup {Nothing}], NEW epoch \in Nat
  PROVE  StateOf(records, epoch) \in State /\ Consistent(StateOf(records, epoch))
<1>1. \A u \in Uris : /\ records[u] \in Contribution
                      /\ ~records[u].analysed => records[u].needs = {}
  BY ContributionLemma
<1>2. \A u \in Uris : /\ records[u].defines \subseteq Ids
                      /\ records[u].needs \subseteq Ids
  BY <1>1 DEF Contribution
<1>3. StateOf(records, epoch) \in State
  BY <1>2 DEF StateOf, State
<1>4. Consistent(StateOf(records, epoch))
  BY <1>1, <1>2 DEF StateOf, Consistent
<1> QED  BY <1>3, <1>4

\* Only the epoch of a state changes when it is published.
LEMMA PublishLemma ==
  ASSUME Inv, NEW next \in State, Consistent(next), PublishState(next)
  PROVE  published' \in State /\ Consistent(published')
<1>1. published.semanticEpoch + 1 \in Nat
  BY DEF Inv, TypeOK, State
<1>2. /\ published' \in State
      /\ published'.documentSymbols = next.documentSymbols
      /\ published'.globalSymbols = next.globalSymbols
      /\ published'.documentSnapshots = next.documentSnapshots
      /\ published'.documentDependencies = next.documentDependencies
      /\ published'.reverseDependencies = next.reverseDependencies
  BY <1>1 DEF PublishState, State
<1>3. Consistent(published')
  BY <1>2 DEF Consistent
<1> QED  BY <1>2, <1>3

\* A mutation keeps the invariant if what it makes of the state it works on is
\* consistent.
LEMMA WriteStateLemma ==
  ASSUME Inv, NEW next \in State, Consistent(next), WriteState(next)
  PROVE  Inv'
<1>1. CASE batchDepth > 0
  BY <1>1 DEF Inv, TypeOK, IndexesConsistent, WriteState
<1>2. CASE ~(batchDepth > 0)
  <2>1. PublishState(next) /\ UNCHANGED <<staged, batchDepth>>
    BY <1>2 DEF WriteState
  <2>2. published' \in State /\ Consistent(published')
    BY <2>1, PublishLemma
  <2> QED  BY <1>2, <2>1, <2>2 DEF Inv, TypeOK, IndexesConsistent
<1> QED  BY <1>1, <1>2

\* The state that a mutation works on is consistent.
LEMMA TargetLemma ==
  ASSUME Inv
  PROVE  Target \in State /\ Consistent(Target)
BY DEF Inv, TypeOK, IndexesConsistent, Target

\* Giving the batch up keeps the invariant.
LEMMA RollbackLemma ==
  ASSUME Inv, RollbackBatchUpdate
  PROVE  Inv'
BY BoundsAssumption DEF Inv, TypeOK, IndexesConsistent, RollbackBatchUpdate

\* No method of the index breaks the invariant.
LEMMA NextKeepsInv == Inv /\ [Next]_vars => Inv'
<1> SUFFICES ASSUME Inv, [Next]_vars PROVE Inv'
  OBVIOUS
<1>1. CASE UNCHANGED vars
  BY <1>1 DEF vars, Inv, TypeOK, IndexesConsistent
<1>2. CASE BeginBatchUpdate
  BY <1>2, BoundsAssumption DEF BeginBatchUpdate, Inv, TypeOK, IndexesConsistent
<1>3. CASE CommitBatchUpdate
  <2>1. CASE batchDepth = 1
    <3>1. PublishState(staged) /\ staged' = NoState /\ batchDepth' = 0
      BY <1>3, <2>1 DEF CommitBatchUpdate
    <3>2. staged \in State /\ Consistent(staged)
      BY <2>1 DEF Inv, TypeOK, IndexesConsistent
    <3>3. published' \in State /\ Consistent(published')
      BY <3>1, <3>2, PublishLemma
    <3> QED  BY <3>1, <3>3, BoundsAssumption DEF Inv, TypeOK, IndexesConsistent
  <2>2. CASE batchDepth # 1
    BY <1>3, <2>2, BoundsAssumption
    DEF CommitBatchUpdate, Inv, TypeOK, IndexesConsistent
  <2> QED  BY <2>1, <2>2
<1>4. CASE RollbackBatchUpdate
  BY <1>4, RollbackLemma
<1>5. CASE Clear
  BY <1>5, EmptyStateLemma, WriteStateLemma DEF Clear
<1>6. ASSUME NEW u \in Uris, RemoveDocument(u) PROVE Inv'
  <2>1. /\ RemoveFromState(Target, u) \in State
        /\ Consistent(RemoveFromState(Target, u))
    BY TargetLemma, RemoveFromStateLemma
  <2> QED  BY <1>6, <2>1, WriteStateLemma DEF RemoveDocument
<1>7. ASSUME NEW u \in Uris, NEW d \in Contributions, UpsertDocument(u, d)
      PROVE  Inv'
  <2>1. d \in Contribution /\ (~d.analysed => d.needs = {})
    BY ContributionLemma
  <2>2. /\ IndexIntoState(Target, u, d) \in State
        /\ Consistent(IndexIntoState(Target, u, d))
    BY <2>1, TargetLemma, IndexIntoStateLemma
  <2> QED  BY <1>7, <2>2, WriteStateLemma DEF UpsertDocument
<1>8. ASSUME NEW u \in Uris, NEW v \in Uris,
             NEW d \in Contributions, NEW e \in Contributions,
             ResyncDocuments(u, d, v, e)
      PROVE  Inv'
  <2> DEFINE pd == [d EXCEPT !.analysed = FALSE, !.needs = {}]
             pe == [e EXCEPT !.analysed = FALSE, !.needs = {}]
             one == IndexIntoState(published, u, pd)
             two == IndexIntoState(one, v, pe)
  <2>1. CASE batchDepth = 0 /\ PublishState(two) /\ UNCHANGED <<staged, batchDepth>>
    <3>1. /\ pd \in Contribution /\ (~pd.analysed => pd.needs = {})
          /\ pe \in Contribution /\ (~pe.analysed => pe.needs = {})
      BY ContributionLemma, ZenonT(40) DEF Contribution
    <3>2. published \in State /\ Consistent(published)
      BY DEF Inv, TypeOK, IndexesConsistent
    <3> HIDE DEF pd, pe
    <3>3. one \in State /\ Consistent(one)
      BY <3>1, <3>2, IndexIntoStateLemma
    <3> HIDE DEF one
    <3>4. two \in State /\ Consistent(two)
      BY <3>1, <3>3, IndexIntoStateLemma
    <3> HIDE DEF two
    <3>5. published' \in State /\ Consistent(published')
      BY <2>1, <3>4, PublishLemma
    <3> QED  BY <2>1, <3>5 DEF Inv, TypeOK, IndexesConsistent
  <2>2. CASE RollbackBatchUpdate
    BY <2>2, RollbackLemma
  <2> QED  BY <1>8, <2>1, <2>2 DEF ResyncDocuments
<1>9. ASSUME NEW records \in [Uris -> Contributions \cup {Nothing}],
             NEW epoch \in 0..MaxEpoch, RestoreDocumentRecords(records, epoch)
      PROVE  Inv'
  <2>1. epoch \in Nat
    BY BoundsAssumption
  <2>2. StateOf(records, epoch) \in State /\ Consistent(StateOf(records, epoch))
    BY <2>1, StateOfLemma
  <2> QED  BY <1>9, <2>2, BoundsAssumption
           DEF RestoreDocumentRecords, Inv, TypeOK, IndexesConsistent
<1> QED  BY <1>1, <1>2, <1>3, <1>4, <1>5, <1>6, <1>7, <1>8, <1>9 DEF Next

\* The invariant holds of the empty index.
LEMMA InvInitially == Init => Inv
BY EmptyStateLemma, BoundsAssumption DEF Init, Inv, TypeOK, IndexesConsistent

\* The index is consistent in every reachable state, inside a batch and outside.
THEOREM KnowledgeBaseInvariant == Spec => []Inv
BY InvInitially, NextKeepsInv, PTL DEF Spec

\* Type correctness: a batch has a staged state exactly while it is open.
THEOREM KnowledgeBaseTypeOK == Spec => []TypeOK
BY KnowledgeBaseInvariant, PTL DEF Inv

\* Every index answers from the contributions of the documents.
THEOREM KnowledgeBaseIndexesConsistent == Spec => []IndexesConsistent
BY KnowledgeBaseInvariant, PTL DEF Inv

-----------------------------------------------------------------------------
(* What the edits show.                                                    *)

\* In a consistent state the buckets show what the document contributed.
LEMMA ShownLemma ==
  ASSUME NEW state \in State, Consistent(state), NEW u \in Uris
  PROVE  Shown(state, u) = [defines  |-> state.documentSymbols[u],
                            analysed |-> u \in state.documentSnapshots,
                            needs    |-> state.documentDependencies[u]]
<1>1. {k \in Ids : u \in state.globalSymbols[k]} = state.documentSymbols[u]
  BY DEF State, Consistent
<1>2. {k \in Ids : u \in state.reverseDependencies[k]} = state.documentDependencies[u]
  BY DEF State, Consistent
<1> QED  BY <1>1, <1>2 DEF Shown

\* A mutation shows what it made of the state it worked on.
LEMMA WriteShowsLemma ==
  ASSUME Inv, NEW next \in State, WriteState(next), NEW u \in Uris
  PROVE  Shown(Target', u) = Shown(next, u)
<1>1. CASE batchDepth > 0
  <2>1. staged' = next /\ batchDepth' > 0
    BY <1>1 DEF Inv, TypeOK, WriteState
  <2>2. Target' = next
    BY <2>1 DEF Target
  <2> QED  BY <2>2
<1>2. CASE ~(batchDepth > 0)
  <2>1. /\ Target' = published'
        /\ published' = [next EXCEPT !.semanticEpoch = published.semanticEpoch + 1]
    BY <1>2 DEF WriteState, PublishState, Target
  <2>2. /\ published'.globalSymbols = next.globalSymbols
        /\ published'.documentSnapshots = next.documentSnapshots
        /\ published'.reverseDependencies = next.reverseDependencies
    BY <2>1 DEF State
  <2> QED  BY <2>1, <2>2 DEF Shown
<1> QED  BY <1>1, <1>2

\* A mutation whose result differs from its target in the contribution d of one
\* document shows exactly that.
LEMMA WriteOneLemma ==
  ASSUME Inv, NEW u \in Uris, NEW d \in Contribution,
         NEW next \in State, Consistent(next), WriteState(next),
         next.documentSymbols = [Target.documentSymbols EXCEPT ![u] = d.defines],
         next.documentDependencies = [Target.documentDependencies EXCEPT ![u] = d.needs],
         next.documentSnapshots = IF d.analysed THEN Target.documentSnapshots \cup {u}
                                  ELSE Target.documentSnapshots \ {u}
  PROVE  ShownTarget' = [ShownTarget EXCEPT ![u] = d]
<1>1. Target \in State /\ Consistent(Target)
  BY TargetLemma
<1>2. ASSUME NEW v \in Uris, v # u PROVE Shown(next, v) = Shown(Target, v)
  <2>1. /\ next.documentSymbols[v] = Target.documentSymbols[v]
        /\ next.documentDependencies[v] = Target.documentDependencies[v]
        /\ v \in next.documentSnapshots <=> v \in Target.documentSnapshots
    BY <1>1, <1>2 DEF State
  <2>2. (v \in next.documentSnapshots) = (v \in Target.documentSnapshots)
    BY <2>1
  <2>3. Shown(next, v) = [defines  |-> next.documentSymbols[v],
                          analysed |-> v \in next.documentSnapshots,
                          needs    |-> next.documentDependencies[v]]
    BY ShownLemma
  <2>4. Shown(Target, v) = [defines  |-> Target.documentSymbols[v],
                            analysed |-> v \in Target.documentSnapshots,
                            needs    |-> Target.documentDependencies[v]]
    BY <1>1, ShownLemma
  <2> QED  BY <2>1, <2>2, <2>3, <2>4
<1>3. Shown(next, u) = d
  <2>1. /\ next.documentSymbols[u] = d.defines
        /\ next.documentDependencies[u] = d.needs
        /\ (u \in next.documentSnapshots) = d.analysed
    BY <1>1 DEF State, Contribution
  <2>2. d = [defines |-> d.defines, analysed |-> d.analysed, needs |-> d.needs]
    BY DEF Contribution
  <2> QED  BY <2>1, <2>2, ShownLemma, ZenonT(60)
<1>4. \A v \in Uris : ShownTarget'[v] = Shown(next, v)
  BY WriteShowsLemma DEF ShownTarget
<1> QED  BY <1>2, <1>3, <1>4, ZenonT(40) DEF ShownTarget

\* An edit replaces the contribution of its document and touches no other.
THEOREM KnowledgeBaseEdits == Spec => EditsReplaceOneDocument
<1>1. ASSUME Inv, NEW u \in Uris, NEW d \in Contributions, UpsertDocument(u, d)
      PROVE  ShownTarget' = [ShownTarget EXCEPT ![u] = d]
  <2> DEFINE next == IndexIntoState(Target, u, d)
  <2>1. d \in Contribution /\ (~d.analysed => d.needs = {})
    BY ContributionLemma
  <2>2. /\ next \in State
        /\ Consistent(next)
        /\ next.documentSymbols = [Target.documentSymbols EXCEPT ![u] = d.defines]
        /\ next.documentDependencies = [Target.documentDependencies EXCEPT ![u] = d.needs]
        /\ next.documentSnapshots = IF d.analysed THEN Target.documentSnapshots \cup {u}
                                    ELSE Target.documentSnapshots \ {u}
    BY <1>1, <2>1, TargetLemma, IndexIntoStateLemma
  <2>3. WriteState(next)
    BY <1>1 DEF UpsertDocument
  <2> HIDE DEF next
  <2> QED  BY <1>1, <2>1, <2>2, <2>3, WriteOneLemma
<1>2. ASSUME Inv, NEW u \in Uris, RemoveDocument(u)
      PROVE  ShownTarget' = [ShownTarget EXCEPT ![u] = Nothing]
  <2> DEFINE next == RemoveFromState(Target, u)
  <2>1. /\ Nothing \in Contribution
        /\ Nothing.defines = {} /\ ~Nothing.analysed /\ Nothing.needs = {}
    BY ContributionLemma DEF Nothing
  <2>2. /\ next \in State
        /\ Consistent(next)
        /\ next.documentSymbols = [Target.documentSymbols EXCEPT ![u] = {}]
        /\ next.documentDependencies = [Target.documentDependencies EXCEPT ![u] = {}]
        /\ next.documentSnapshots = Target.documentSnapshots \ {u}
    BY <1>2, TargetLemma, RemoveFromStateLemma
  <2>3. WriteState(next)
    BY <1>2 DEF RemoveDocument
  <2> HIDE DEF next
  <2> QED  BY <1>2, <2>1, <2>2, <2>3, WriteOneLemma, ZenonT(40)
<1>3. Inv /\ [Next]_vars =>
        [\A u \in Uris :
           /\ \A d \in Contributions :
                UpsertDocument(u, d) => ShownTarget' = [ShownTarget EXCEPT ![u] = d]
           /\ RemoveDocument(u) => ShownTarget' = [ShownTarget EXCEPT ![u] = Nothing]]_vars
  BY <1>1, <1>2
<1> QED  BY <1>3, KnowledgeBaseInvariant, PTL DEF Spec, EditsReplaceOneDocument

\* Inside a batch the readers see nothing of it; its outermost commit publishes
\* all of it.
THEOREM KnowledgeBaseBatches == Spec => BatchesAreAtomic
<1>1. ASSUME Inv, [Next]_vars, batchDepth > 0, batchDepth' > 0
      PROVE  published' = published
  BY <1>1 DEF Next, vars, Inv, TypeOK, BeginBatchUpdate, CommitBatchUpdate,
              RollbackBatchUpdate, Clear, RemoveDocument, UpsertDocument, WriteState,
              ResyncDocuments, RestoreDocumentRecords
<1>2. ASSUME Inv, batchDepth = 1, CommitBatchUpdate
      PROVE  /\ \A u \in Uris : Shown(published', u) = Shown(staged, u)
             /\ published'.semanticEpoch = published.semanticEpoch + 1
  <2>1. /\ staged \in State
        /\ published' = [staged EXCEPT !.semanticEpoch = published.semanticEpoch + 1]
    BY <1>2 DEF Inv, TypeOK, CommitBatchUpdate, PublishState
  <2> QED  BY <2>1 DEF Shown, State
<1>3. Inv /\ [Next]_vars =>
        [/\ batchDepth > 0 /\ batchDepth' > 0 => published' = published
         /\ batchDepth = 1 /\ CommitBatchUpdate =>
              /\ \A u \in Uris : Shown(published', u) = Shown(staged, u)
              /\ published'.semanticEpoch = published.semanticEpoch + 1]_vars
  BY <1>1, <1>2
<1> QED  BY <1>3, KnowledgeBaseInvariant, PTL DEF Spec, BatchesAreAtomic

-----------------------------------------------------------------------------
(* Invalidation.                                                           *)

\* What is true of every state of the index when each document in it was analysed: only
\* finitely many depend on anything, and what has no snapshot defines nothing.
Analysed(state) ==
  /\ IsFiniteSet({u \in Uris : state.documentDependencies[u] # {}})
  /\ \A u \in Uris \ state.documentSnapshots : state.documentSymbols[u] = {}

-----------------------------------------------------------------------------
(* The plan of a document.                                                 *)

\* The documents listed for u, read from the reverse map, are those that need it.
LEMMA DependentsFacts ==
  ASSUME NEW state \in State, Consistent(state), NEW u \in Uris
  PROVE  /\ DependentDocuments(state, u) \subseteq Uris
         /\ \A v \in Uris : v # u => (v \in DependentDocuments(state, u) <=> Needs(state, v, u))
<1>1. \A k \in Ids : state.reverseDependencies[k] \subseteq Uris
  BY DEF State
<1>2. state.documentSymbols[u] \subseteq Ids
  BY DEF State
<1>3. \A v \in Uris, k \in Ids :
        v \in state.reverseDependencies[k] <=> k \in state.documentDependencies[v]
  BY DEF Consistent
<1>4. DependentDocuments(state, u) =
        {v \in Uris : v # u /\ \E k \in state.documentSymbols[u] : v \in state.reverseDependencies[k]}
  <2> DEFINE rd == state.reverseDependencies
             ks == state.documentSymbols[u]
  <2>1. DependentDocuments(state, u) = (UNION {rd[k] : k \in ks}) \ {u}
    BY DEF DependentDocuments
  <2>2. \A k \in ks : rd[k] \subseteq Uris
    BY <1>1, <1>2
  <2> HIDE DEF rd, ks
  <2>3. \A v : v \in UNION {rd[k] : k \in ks} <=> \E k \in ks : v \in rd[k]
    OBVIOUS
  <2> DEFINE all == UNION {rd[k] : k \in ks}
  <2>4. DependentDocuments(state, u) = {v \in Uris : v # u /\ \E k \in ks : v \in rd[k]}
    <3>1. DependentDocuments(state, u) = all \ {u}
      BY <2>1
    <3>2. \A v : v \in all <=> \E k \in ks : v \in rd[k]
      BY <2>3
    <3> HIDE DEF all
    <3> QED  BY <2>2, <3>1, <3>2
  <2> QED  BY <2>4 DEF rd, ks
<1>5. \A v \in Uris : Needs(state, v, u) <=>
        \E k \in state.documentSymbols[u] : v \in state.reverseDependencies[k]
  BY <1>2, <1>3 DEF Needs
<1> QED  BY <1>4, <1>5

\* What rests on u is the least set with those that need u and those that need its elements.
LEMMA RestOnFacts ==
  ASSUME NEW state \in State, NEW u \in Uris
  PROVE  /\ RestOn(state, u) \subseteq {v \in Uris : state.documentDependencies[v] # {}}
         /\ \A v \in Uris : Needs(state, v, u) => v \in RestOn(state, u)
         /\ \A w \in RestOn(state, u), v \in Uris : Needs(state, v, w) => v \in RestOn(state, u)
         /\ \A S \in SUBSET Uris :
              (\A v \in Uris : (\E w \in S \cup {u} : Needs(state, v, w)) => v \in S)
              => RestOn(state, u) \subseteq S
<1> DEFINE D == {v \in Uris : state.documentDependencies[v] # {}}
           Closed(S) == \A v \in Uris : (\E w \in S \cup {u} : Needs(state, v, w)) => v \in S
<1>1. D \in SUBSET Uris /\ Closed(D)
  BY DEF Needs
<1>2. \A v : v \in RestOn(state, u) <=> v \in Uris /\ \A S \in SUBSET Uris : Closed(S) => v \in S
  BY DEF RestOn
<1>3. ASSUME NEW v \in Uris, NEW w \in RestOn(state, u) \cup {u}, Needs(state, v, w)
      PROVE  v \in RestOn(state, u)
  <2> SUFFICES ASSUME NEW S \in SUBSET Uris, Closed(S) PROVE v \in S
    BY <1>2
  <2>1. w \in S \cup {u}
    BY <1>2, <1>3
  <2> QED  BY <1>3, <2>1
<1> QED  BY <1>1, <1>2, <1>3

\* One layer of the loop visits the documents that need one of the layer before, and no other.
LEMMA LayerFacts ==
  ASSUME NEW state \in State, Consistent(state), NEW v \in Visits
  PROVE  /\ VisitLayer(state, v) \in Visits
         /\ \E next \in SUBSET Uris :
              /\ VisitLayer(state, v).visited = v.visited \cup next
              /\ VisitLayer(state, v).queue = next
              /\ next \cap v.visited = {}
              /\ v.queue \subseteq v.visited =>
                   \A x \in Uris \ v.visited : x \in next <=> \E w \in v.queue : Needs(state, x, w)
<1> DEFINE dep(w) == DependentDocuments(state, w)
           all == UNION {dep(w) : w \in v.queue}
           next == all \ v.visited
<1>1. v.visited \subseteq Uris /\ v.queue \subseteq Uris
  BY DEF Visits
<1>2. \A w \in v.queue : /\ dep(w) \subseteq Uris
                        /\ \A x \in Uris : x # w => (x \in dep(w) <=> Needs(state, x, w))
  BY <1>1, DependentsFacts
<1>3. VisitLayer(state, v) = [visited |-> v.visited \cup next, queue |-> next]
  BY DEF VisitLayer
<1> HIDE DEF dep
<1>4. \A x : x \in all <=> \E w \in v.queue : x \in dep(w)
  OBVIOUS
<1> HIDE DEF all
<1>5. next \subseteq Uris
  BY <1>2, <1>4
<1>6. v.queue \subseteq v.visited =>
        \A x \in Uris \ v.visited : x \in next <=> \E w \in v.queue : Needs(state, x, w)
  BY <1>2, <1>4
<1>7. next \cap v.visited = {}
  OBVIOUS
<1> HIDE DEF next
<1>8. [visited |-> v.visited \cup next, queue |-> next] \in Visits
  BY <1>1, <1>5 DEF Visits
<1> QED  BY <1>3, <1>5, <1>6, <1>7, <1>8

\* The loop of createSemanticInvalidationPlan() ends with the document and all that rest on it.
LEMMA PlanFacts ==
  ASSUME NEW state \in State, Consistent(state), NEW u \in Uris,
         IsFiniteSet({v \in Uris : state.documentDependencies[v] # {}})
  PROVE  SemanticInvalidationPlan(state, u) = {u} \cup RestOn(state, u)
<1> DEFINE R == RestOn(state, u)
           done == {v \in Visits : v.queue = {}}
           step == [v \in Visits |-> IF v \in done THEN v ELSE VisitLayer(state, v)]
           out == [v \in Visits |-> v.visited]
           Unfold(f, v) == IF v.queue = {} THEN v.visited ELSE f[VisitLayer(state, v)]
           start == [visited |-> {u}, queue |-> {u}]
           visit == CHOOSE visit : visit = [v \in Visits |->
                      IF v.queue = {} THEN v.visited ELSE visit[VisitLayer(state, v)]]
<1>1. step \in [Visits -> Visits]
  BY LayerFacts
<1>2. \A f : IsLoop(f, Visits, done, step, out) <=> f = [v \in Visits |-> Unfold(f, v)]
  <2> TAKE f
  <2>1. \A v \in Visits : (IF v \in done THEN out[v] ELSE f[step[v]]) = Unfold(f, v)
    <3> TAKE v \in Visits
    <3>1. CASE v.queue = {}
      <4>1. v \in done /\ out[v] = v.visited
        BY <3>1
      <4> QED  BY <3>1, <4>1
    <3>2. CASE v.queue # {}
      <4>1. v \notin done /\ step[v] = VisitLayer(state, v)
        BY <3>2
      <4> QED  BY <3>2, <4>1
    <3> QED  BY <3>1, <3>2
  <2> HIDE DEF done, step, out, Unfold
  <2> QED  BY <2>1 DEF IsLoop
<1>3. PICK f : IsLoop(f, Visits, done, step, out)
  <2> HIDE DEF done, step, out
  <2> QED  BY <1>1, LoopExists
<1>4. IsLoop(visit, Visits, done, step, out)
  <2>1. f = [v \in Visits |-> IF v.queue = {} THEN v.visited ELSE f[VisitLayer(state, v)]]
    BY <1>2, <1>3
  <2>2. visit = [v \in Visits |-> IF v.queue = {} THEN v.visited ELSE visit[VisitLayer(state, v)]]
    BY <2>1
  <2> HIDE DEF visit, done, step, out
  <2> QED  BY <1>2, <2>2
<1>5. SemanticInvalidationPlan(state, u) = visit[start]
  BY DEF SemanticInvalidationPlan
<1> DEFINE U == {u} \cup {v \in Uris : state.documentDependencies[v] # {}}
           I == {v \in Visits :
                   /\ v.queue \subseteq v.visited /\ u \in v.visited /\ v.visited \subseteq {u} \cup R
                   /\ \A w \in v.visited \ v.queue, x \in Uris :
                        Needs(state, x, w) => x \in v.visited}
           a == [v \in I |-> Cardinality(U \ v.visited)]
           b == [v \in I |-> IF v.queue = {} THEN 0 ELSE 1]
           Good == {{u} \cup R}
<1>6. /\ R \subseteq U /\ R \subseteq Uris
      /\ \A v \in Uris : Needs(state, v, u) => v \in R
      /\ \A w \in R, v \in Uris : Needs(state, v, w) => v \in R
      /\ \A S \in SUBSET Uris :
           (\A v \in Uris : (\E w \in S \cup {u} : Needs(state, v, w)) => v \in S) => R \subseteq S
  BY RestOnFacts
<1>7. IsFiniteSet(U)
  <2>1. IsFiniteSet({v \in Uris : state.documentDependencies[v] # {}} \cup {u})
    BY FS_AddElement
  <2> QED  BY <2>1
<1> HIDE DEF R, U, visit
<1>8. a \in [I -> Nat] /\ b \in [I -> Nat]
  <2>1. \A v \in I : Cardinality(U \ v.visited) \in Nat
    <3>1. \A v \in I : U \ v.visited \in SUBSET U
      OBVIOUS
    <3> HIDE DEF I
    <3> QED  BY <1>7, <3>1, FS_Subset, FS_CardinalityType
  <2> QED  BY <2>1
<1>9. ASSUME NEW v \in I \ done
      PROVE  /\ step[v] \in I
             /\ a[step[v]] <= a[v]
             /\ a[step[v]] = a[v] => b[step[v]] < b[v]
  <2> DEFINE r == VisitLayer(state, v)
  <2>1. /\ v \in Visits /\ v.queue # {} /\ step[v] = r
        /\ v.queue \subseteq v.visited /\ u \in v.visited /\ v.visited \subseteq {u} \cup R
        /\ \A w \in v.visited \ v.queue, x \in Uris : Needs(state, x, w) => x \in v.visited
    BY <1>9
  <2>2. PICK next \in SUBSET Uris :
          /\ r.visited = v.visited \cup next
          /\ r.queue = next
          /\ next \cap v.visited = {}
          /\ \A x \in Uris \ v.visited : x \in next <=> \E w \in v.queue : Needs(state, x, w)
    BY <2>1, LayerFacts
  <2>3. r \in Visits
    BY <2>1, LayerFacts
  <2> HIDE DEF r
  <2>4. next \subseteq R
    <3> SUFFICES ASSUME NEW x \in next PROVE x \in R
      OBVIOUS
    <3>1. PICK w \in v.queue : Needs(state, x, w)
      BY <2>2
    <3>2. w \in {u} \cup R
      BY <2>1
    <3> QED  BY <1>6, <3>1, <3>2
  <2>5. ASSUME NEW w \in v.visited, NEW x \in Uris, Needs(state, x, w)
        PROVE  x \in v.visited \cup next
    BY <2>1, <2>2, <2>5
  <2>6. r.visited = v.visited \cup next /\ r.queue = next /\ next \cap v.visited = {}
    BY <2>2
  <2>7. r \in I
    BY <2>1, <2>3, <2>4, <2>5, <2>6
  <2> HIDE DEF I
  <2>v. v \in I
    BY <1>9
  <2>8. CASE next = {}
    <3>0. r.visited = v.visited /\ r.queue = {}
      BY <2>6, <2>8
    <3>1. a[r] = a[v] /\ b[r] = 0 /\ b[v] = 1 /\ a[v] \in Nat
      BY <1>8, <2>1, <2>v, <2>7, <3>0
    <3> HIDE DEF a, b
    <3> QED  BY <2>1, <2>7, <3>1
  <2>9. CASE next # {}
    <3> DEFINE old == U \ v.visited
               new == U \ r.visited
    <3>1. IsFiniteSet(old) /\ new \in SUBSET old /\ new # old
      <4>1. old \in SUBSET U
        OBVIOUS
      <4>2. IsFiniteSet(old)
        BY <1>7, <4>1, FS_Subset
      <4>3. PICK x \in next : TRUE
        BY <2>9
      <4>4. x \in old /\ x \notin new
        BY <1>6, <2>4, <2>6, <4>3
      <4>5. new \in SUBSET old
        BY <2>6
      <4> QED  BY <4>2, <4>4, <4>5
    <3>2. a[v] = Cardinality(old) /\ a[r] = Cardinality(new) /\ a[v] \in Nat /\ a[r] \in Nat
      BY <1>8, <2>v, <2>7
    <3> HIDE DEF old, new, a, b
    <3>3. Cardinality(new) <= Cardinality(old) /\ Cardinality(new) # Cardinality(old)
      BY <3>1, FS_Subset
    <3> QED  BY <2>1, <2>7, <3>2, <3>3
  <2> QED  BY <2>8, <2>9
<1>10. Lowers(I, done, step, a, b)
  <2> HIDE DEF I, done, step, a, b
  <2> QED  BY <1>9 DEF Lowers
<1>11. ComesOut(I, done, out, Good)
  <2> SUFFICES ASSUME NEW v \in I \cap done PROVE v.visited = {u} \cup R
    BY DEF ComesOut
  <2> DEFINE S == v.visited
  <2>1. \A x \in Uris : (\E w \in S \cup {u} : Needs(state, x, w)) => x \in S
    OBVIOUS
  <2>2. S \in SUBSET Uris
    BY DEF Visits
  <2>3. R \subseteq S
    <3> HIDE DEF S
    <3> QED  BY <1>6, <2>1, <2>2
  <2> QED  BY <2>3
<1>12. start \in I /\ I \in SUBSET Visits
  BY DEF Visits
<1>13. \A v \in I : visit[v] \in Good
  <2> HIDE DEF I, a, b, done, step, out, Good
  <2> QED  BY <1>4, <1>8, <1>10, <1>11, <1>12, LoopKeeps
<1> QED  BY <1>5, <1>12, <1>13 DEF R

-----------------------------------------------------------------------------
(* The invariant.                                                          *)

\* While nothing was published since the watcher read, what it found before the await of
\* readFile() is what it would find now.
ReadingIsFresh ==
  reading # NoRead =>
    /\ reading.uri \in Uris
    /\ reading.epoch \in Nat /\ reading.epoch <= published.semanticEpoch
    /\ reading.epoch = published.semanticEpoch =>
         /\ reading.snapshot = PublishedSnapshot(reading.uri)
         /\ reading.plan = SemanticInvalidationPlan(published, reading.uri)

StatesAnalysed ==
  /\ Analysed(published)
  /\ batchDepth > 0 => Analysed(staged)

InvalidationInductive == Inv /\ StatesAnalysed /\ ReadingIsFresh

\* A contribution of a document that was analysed keeps the state one of analysed documents.
LEMMA AnalysedStaysSo ==
  ASSUME NEW state \in State, Analysed(state), NEW u \in Uris, NEW next \in State,
         NEW defines, NEW needs,
         next.documentSymbols = [state.documentSymbols EXCEPT ![u] = defines],
         next.documentDependencies = [state.documentDependencies EXCEPT ![u] = needs],
         \/ next.documentSnapshots = state.documentSnapshots \cup {u}
         \/ next.documentSnapshots = state.documentSnapshots \ {u} /\ defines = {}
  PROVE  Analysed(next)
<1> DEFINE old == {v \in Uris : state.documentDependencies[v] # {}}
           new == {v \in Uris : next.documentDependencies[v] # {}}
<1>1. \A v \in Uris : v # u => /\ next.documentDependencies[v] = state.documentDependencies[v]
                               /\ next.documentSymbols[v] = state.documentSymbols[v]
  BY DEF State
<1>2. new \in SUBSET (old \cup {u})
  BY <1>1
<1>3. IsFiniteSet(old)
  BY DEF Analysed
<1>4. \A v \in Uris \ next.documentSnapshots : next.documentSymbols[v] = {}
  <2> SUFFICES ASSUME NEW v \in Uris \ next.documentSnapshots
               PROVE  next.documentSymbols[v] = {}
    OBVIOUS
  <2>1. CASE v = u
    BY <2>1 DEF State
  <2>2. CASE v # u
    BY <1>1, <2>2 DEF Analysed
  <2> QED  BY <2>1, <2>2
<1> HIDE DEF old, new
<1>5. IsFiniteSet(new)
  BY <1>2, <1>3, FS_AddElement, FS_Subset
<1> QED  BY <1>4, <1>5 DEF Analysed, new

\* What an upsert and a removal make of the state they work on.
LEMMA EditsStayAnalysed ==
  ASSUME NEW state \in State, Consistent(state), Analysed(state), NEW u \in Uris
  PROVE  /\ \A d \in Analyses :
              LET next == IndexIntoState(state, u, d)
              IN /\ next \in State /\ Consistent(next) /\ Analysed(next)
                 /\ next.documentSymbols[u] = d.defines
                 /\ next.documentDependencies[u] = d.needs
         /\ LET next == RemoveFromState(state, u)
            IN /\ next \in State /\ Consistent(next) /\ Analysed(next)
               /\ next.documentSymbols[u] = {}
<1>1. ASSUME NEW d \in Analyses
      PROVE  LET next == IndexIntoState(state, u, d)
             IN /\ next \in State /\ Consistent(next) /\ Analysed(next)
                /\ next.documentSymbols[u] = d.defines
                /\ next.documentDependencies[u] = d.needs
  <2> DEFINE next == IndexIntoState(state, u, d)
  <2>1. d \in Contribution /\ (~d.analysed => d.needs = {}) /\ d.analysed
    BY ContributionLemma DEF Analyses
  <2>2. /\ next \in State /\ Consistent(next)
        /\ next.documentSymbols = [state.documentSymbols EXCEPT ![u] = d.defines]
        /\ next.documentDependencies = [state.documentDependencies EXCEPT ![u] = d.needs]
        /\ next.documentSnapshots = state.documentSnapshots \cup {u}
    BY <2>1, IndexIntoStateLemma
  <2> HIDE DEF next
  <2>3. Analysed(next)
    BY <2>2, AnalysedStaysSo
  <2>4. next.documentSymbols[u] = d.defines /\ next.documentDependencies[u] = d.needs
    BY <2>2 DEF State
  <2> QED  BY <2>2, <2>3, <2>4 DEF next
<1>2. LET next == RemoveFromState(state, u)
      IN /\ next \in State /\ Consistent(next) /\ Analysed(next)
         /\ next.documentSymbols[u] = {}
  <2> DEFINE next == RemoveFromState(state, u)
  <2>2. /\ next \in State /\ Consistent(next)
        /\ next.documentSymbols = [state.documentSymbols EXCEPT ![u] = {}]
        /\ next.documentDependencies = [state.documentDependencies EXCEPT ![u] = {}]
        /\ next.documentSnapshots = state.documentSnapshots \ {u}
    BY RemoveFromStateLemma
  <2> HIDE DEF next
  <2>3. Analysed(next)
    <3> DEFINE defines == {}
               needs == {}
    <3>1. /\ next.documentSymbols = [state.documentSymbols EXCEPT ![u] = defines]
          /\ next.documentDependencies = [state.documentDependencies EXCEPT ![u] = needs]
          /\ next.documentSnapshots = state.documentSnapshots \ {u} /\ defines = {}
      BY <2>2
    <3> HIDE DEF defines, needs
    <3> QED  BY <2>2, <3>1, AnalysedStaysSo, SMTT(60)
  <2>4. next.documentSymbols[u] = {}
    BY <2>2 DEF State
  <2> QED  BY <2>2, <2>3, <2>4 DEF next
<1> QED  BY <1>1, <1>2

\* What is published is the next state under the next epoch.
LEMMA PublishedEpoch ==
  ASSUME Inv, NEW next \in State, PublishState(next)
  PROVE  /\ published'.semanticEpoch > published.semanticEpoch
         /\ published'.documentSymbols = next.documentSymbols
         /\ published'.documentDependencies = next.documentDependencies
         /\ Analysed(next) => Analysed(published')
<1>1. /\ published'.semanticEpoch = published.semanticEpoch + 1
      /\ published'.documentSymbols = next.documentSymbols
      /\ published'.documentDependencies = next.documentDependencies
      /\ published'.documentSnapshots = next.documentSnapshots
      /\ published.semanticEpoch \in Nat
  BY DEF Inv, TypeOK, State, PublishState
<1> QED  BY <1>1 DEF Analysed

\* A mutation leaves what is published alone or publishes under a later epoch, and keeps the
\* states those of analysed documents.
LEMMA WriteStaysAnalysed ==
  ASSUME Inv, StatesAnalysed, NEW next \in State, Analysed(next), WriteState(next)
  PROVE  /\ StatesAnalysed'
         /\ \/ published' = published
            \/ published'.semanticEpoch > published.semanticEpoch
<1>1. CASE batchDepth > 0
  BY <1>1 DEF WriteState, StatesAnalysed, Inv, TypeOK
<1>2. CASE ~(batchDepth > 0)
  <2>1. PublishState(next) /\ UNCHANGED <<staged, batchDepth>>
    BY <1>2 DEF WriteState
  <2>2. Analysed(published') /\ published'.semanticEpoch > published.semanticEpoch
    BY <2>1, PublishedEpoch
  <2> QED  BY <1>2, <2>1, <2>2 DEF StatesAnalysed
<1> QED  BY <1>1, <1>2

\* The state that a mutation works on is one of analysed documents.
LEMMA TargetAnalysed ==
  ASSUME Inv, StatesAnalysed
  PROVE  Target \in State /\ Consistent(Target) /\ Analysed(Target)
BY TargetLemma DEF StatesAnalysed, Target

\* Every edit, batch step and event is one of the index or leaves it alone.
LEMMA InvalidationStepsAreIndexSteps ==
  ASSUME ReadingIsFresh, [InvalidationNext]_ivars
  PROVE  [Next]_vars
<1>1. Analyses \subseteq Contributions
  BY DEF Analyses
<1>2. ASSUME NEW u \in Uris, NEW d \in Analyses, UpsertDocument(u, d) PROVE Next
  BY <1>1, <1>2 DEF Next
<1>3. CASE IndexerStep
  BY <1>2, <1>3 DEF IndexerStep, Next
<1>4. CASE \E u \in Uris : DeleteDocument(u)
  BY <1>4 DEF DeleteDocument, Next
<1>5. CASE \E d \in Analyses : ApplyChangedFile(d)
  BY <1>2, <1>5 DEF ApplyChangedFile, ReadingIsFresh
<1>6. CASE \E d \in Analyses, u \in Uris : ChangeDocument(u, d) \/ OpenDocument(u, d)
  BY <1>2, <1>6 DEF ChangeDocument, OpenDocument
<1>7. CASE \/ UNCHANGED ivars \/ FailToReadFile
           \/ \E u \in Uris : CloseDocument(u) \/ ReadChangedFile(u)
  BY <1>7 DEF ivars, FailToReadFile, CloseDocument, ReadChangedFile
<1> QED  BY <1>3, <1>4, <1>5, <1>6, <1>7 DEF InvalidationNext

\* The index stays consistent.
LEMMA InvalidationTypes ==
  ASSUME InvalidationInductive, [InvalidationNext]_ivars
  PROVE  Inv'
BY InvalidationStepsAreIndexSteps, NextKeepsInv DEF InvalidationInductive

\* The steps of the index that an edit, the indexer or an event takes publish under a later
\* epoch or nothing.
LEMMA UpsertStaysAnalysed ==
  ASSUME Inv, StatesAnalysed, NEW u \in Uris, NEW d \in Analyses, UpsertDocument(u, d)
  PROVE  /\ StatesAnalysed'
         /\ \/ published' = published
            \/ published'.semanticEpoch > published.semanticEpoch
<1> DEFINE next == IndexIntoState(Target, u, d)
<1>1. next \in State /\ Analysed(next)
  BY TargetAnalysed, EditsStayAnalysed
<1>2. WriteState(next)
  BY DEF UpsertDocument
<1> HIDE DEF next
<1> QED  BY <1>1, <1>2, WriteStaysAnalysed

\* So does a removal,
LEMMA RemovalStaysAnalysed ==
  ASSUME Inv, StatesAnalysed, NEW u \in Uris, RemoveDocument(u)
  PROVE  /\ StatesAnalysed'
         /\ \/ published' = published
            \/ published'.semanticEpoch > published.semanticEpoch
<1> DEFINE next == RemoveFromState(Target, u)
<1>1. next \in State /\ Analysed(next)
  BY TargetAnalysed, EditsStayAnalysed
<1>2. WriteState(next)
  BY DEF RemoveDocument
<1> HIDE DEF next
<1> QED  BY <1>1, <1>2, WriteStaysAnalysed

\* and so do the batches of the indexer.
LEMMA BatchStaysAnalysed ==
  ASSUME Inv, StatesAnalysed, BeginBatchUpdate \/ CommitBatchUpdate \/ RollbackBatchUpdate
  PROVE  /\ StatesAnalysed'
         /\ \/ published' = published
            \/ published'.semanticEpoch > published.semanticEpoch
<1>1. CASE BeginBatchUpdate
  BY <1>1 DEF BeginBatchUpdate, StatesAnalysed, Inv, TypeOK
<1>2. CASE RollbackBatchUpdate
  BY <1>2 DEF RollbackBatchUpdate, StatesAnalysed
<1>3. CASE CommitBatchUpdate
  <2>1. CASE batchDepth = 1
    <3>1. PublishState(staged) /\ batchDepth' = 0 /\ staged \in State /\ Analysed(staged)
      BY <1>3, <2>1 DEF CommitBatchUpdate, StatesAnalysed, Inv, TypeOK
    <3>2. Analysed(published') /\ published'.semanticEpoch > published.semanticEpoch
      BY <3>1, PublishedEpoch
    <3> QED  BY <3>1, <3>2 DEF StatesAnalysed
  <2>2. CASE batchDepth # 1
    BY <1>3, <2>2 DEF CommitBatchUpdate, StatesAnalysed, Inv, TypeOK
  <2> QED  BY <2>1, <2>2
<1> QED  BY <1>1, <1>2, <1>3

\* What was read stays fresh, or is known to be stale by its epoch.
LEMMA FreshStaysSo ==
  ASSUME Inv, ReadingIsFresh, UNCHANGED reading, published'.semanticEpoch \in Nat,
         \/ published' = published
         \/ published'.semanticEpoch > published.semanticEpoch
  PROVE  ReadingIsFresh'
<1>0. published.semanticEpoch \in Nat
  BY DEF Inv, TypeOK, State
<1>1. CASE published' = published
  <2>1. PublishedSnapshot(reading.uri)' = PublishedSnapshot(reading.uri)
    BY <1>1 DEF PublishedSnapshot
  <2> QED  BY <1>1, <2>1 DEF ReadingIsFresh
<1>2. CASE published'.semanticEpoch > published.semanticEpoch
  BY <1>0, <1>2 DEF ReadingIsFresh
<1> QED  BY <1>1, <1>2

\* The inductive step.
LEMMA InvalidationStep ==
  ASSUME InvalidationInductive, [InvalidationNext]_ivars
  PROVE  InvalidationInductive'
<1> DEFINE Later == \/ published' = published
                    \/ published'.semanticEpoch > published.semanticEpoch
<1>1. Inv /\ StatesAnalysed /\ ReadingIsFresh /\ Inv'
  BY InvalidationTypes DEF InvalidationInductive
<1>2. published'.semanticEpoch \in Nat
  BY <1>1 DEF Inv, TypeOK, State
<1>3. ASSUME StatesAnalysed', Later, UNCHANGED reading \/ reading' = NoRead
      PROVE  InvalidationInductive'
  <2>1. CASE UNCHANGED reading
    BY <1>1, <1>2, <1>3, <2>1, FreshStaysSo DEF InvalidationInductive
  <2>2. CASE reading' = NoRead
    BY <1>1, <1>3, <2>2 DEF InvalidationInductive, ReadingIsFresh
  <2> QED  BY <1>3, <2>1, <2>2
<1>4. ASSUME UNCHANGED vars PROVE StatesAnalysed' /\ Later
  BY <1>1, <1>4 DEF vars, StatesAnalysed
<1> HIDE DEF Later
<1>5. CASE UNCHANGED ivars
  BY <1>3, <1>4, <1>5 DEF ivars
<1>6. CASE IndexerStep
  <2>1. CASE BeginBatchUpdate \/ CommitBatchUpdate \/ RollbackBatchUpdate
    BY <1>1, <1>3, <1>6, <2>1, BatchStaysAnalysed DEF IndexerStep, Later
  <2>2. CASE \E u \in Uris, d \in Analyses : batchDepth > 0 /\ UpsertDocument(u, d)
    BY <1>1, <1>3, <1>6, <2>2, UpsertStaysAnalysed DEF IndexerStep, Later
  <2> QED  BY <1>6, <2>1, <2>2 DEF IndexerStep
<1>7. ASSUME NEW u \in Uris, CloseDocument(u) PROVE InvalidationInductive'
  BY <1>3, <1>4, <1>7 DEF CloseDocument
<1>8. ASSUME NEW u \in Uris, DeleteDocument(u) PROVE InvalidationInductive'
  BY <1>1, <1>3, <1>8, RemovalStaysAnalysed DEF DeleteDocument, Later
<1>9. ASSUME NEW u \in Uris, ReadChangedFile(u) PROVE InvalidationInductive'
  <2>1. UNCHANGED vars /\ published' = published
    BY <1>9 DEF ReadChangedFile, vars
  <2>2. /\ reading'.uri = u
        /\ reading'.snapshot = PublishedSnapshot(u)
        /\ reading'.plan = SemanticInvalidationPlan(published, u)
        /\ reading'.epoch = published.semanticEpoch
    BY <1>9 DEF ReadChangedFile
  <2>3. PublishedSnapshot(u)' = PublishedSnapshot(u)
    BY <2>1 DEF PublishedSnapshot
  <2>4. published.semanticEpoch \in Nat
    BY <1>1 DEF Inv, TypeOK, State
  <2>5. ReadingIsFresh'
    BY <2>1, <2>2, <2>3, <2>4 DEF ReadingIsFresh
  <2> QED  BY <1>1, <1>4, <2>1, <2>5 DEF InvalidationInductive
<1>10. ASSUME NEW d \in Analyses, ApplyChangedFile(d) PROVE InvalidationInductive'
  <2>1. reading.uri \in Uris /\ UpsertDocument(reading.uri, d) /\ reading' = NoRead
    BY <1>1, <1>10 DEF ApplyChangedFile, ReadingIsFresh
  <2> QED  BY <1>1, <1>3, <2>1, UpsertStaysAnalysed DEF Later
<1>11. ASSUME NEW d \in Analyses, NEW u \in Uris, ChangeDocument(u, d) \/ OpenDocument(u, d)
       PROVE  InvalidationInductive'
  BY <1>1, <1>3, <1>11, UpsertStaysAnalysed DEF ChangeDocument, OpenDocument, Later
<1>12. CASE FailToReadFile
  BY <1>3, <1>4, <1>12 DEF FailToReadFile
<1> QED  BY <1>5, <1>6, <1>7, <1>8, <1>9, <1>10, <1>11, <1>12 DEF InvalidationNext

\* The invariant holds of the empty index.
LEMMA InvalidationInitially == InvalidationInit => InvalidationInductive
<1> SUFFICES ASSUME InvalidationInit PROVE InvalidationInductive
  OBVIOUS
<1>1. Inv
  BY InvInitially DEF InvalidationInit
<1>2. /\ batchDepth = 0 /\ reading = NoRead
      /\ published.documentSymbols = [u \in Uris |-> {}]
      /\ published.documentDependencies = [u \in Uris |-> {}]
  BY DEF InvalidationInit, Init, EmptyState
<1>3. {u \in Uris : published.documentDependencies[u] # {}} = {}
  BY <1>2
<1>4. Analysed(published)
  BY <1>2, <1>3, FS_EmptySet DEF Analysed
<1> QED  BY <1>1, <1>2, <1>4 DEF InvalidationInductive, StatesAnalysed, ReadingIsFresh

-----------------------------------------------------------------------------
(* What an edit invalidates.                                               *)

\* The plan of a document in the published state,
LEMMA PublishedPlans ==
  ASSUME InvalidationInductive, NEW u \in Uris
  PROVE  SemanticInvalidationPlan(published, u) = {u} \cup RestOn(published, u)
BY PlanFacts DEF InvalidationInductive, Inv, TypeOK, IndexesConsistent, StatesAnalysed, Analysed

\* and in the one that a step publishes.
LEMMA PublishedPlansAfter ==
  ASSUME InvalidationInductive', NEW u \in Uris
  PROVE  SemanticInvalidationPlan(published', u) = {u} \cup RestOn(published', u)
BY PlanFacts DEF InvalidationInductive, Inv, TypeOK, IndexesConsistent, StatesAnalysed, Analysed

\* What the published snapshot says of a document is what the document contributed.
LEMMA SnapshotSaysAll ==
  ASSUME InvalidationInductive, NEW u \in Uris
  PROVE  /\ PublishedSnapshot(u).defines = published.documentSymbols[u]
         /\ PublishedSnapshot(u).needs = published.documentDependencies[u]
BY DEF InvalidationInductive, Inv, IndexesConsistent, Consistent, StatesAnalysed, Analysed,
       PublishedSnapshot

\* An edit outside a batch, whose plan before is that of the published state, is exact.
LEMMA UpsertInvalidates ==
  ASSUME InvalidationInductive, InvalidationInductive', batchDepth = 0,
         NEW u \in Uris, NEW d \in Analyses, UpsertDocument(u, d),
         invalidated' = SnapshotAwarePlan(u, PublishedSnapshot(u), d,
                                          SemanticInvalidationPlan(published, u),
                                          SemanticInvalidationPlan(published', u))
  PROVE  IF Unchanged(u) THEN invalidated' = {u} ELSE PlanIsExact(u, published)
<1> DEFINE next == IndexIntoState(Target, u, d)
<1>1. Inv /\ StatesAnalysed
  BY DEF InvalidationInductive
<1>2. /\ next \in State
      /\ next.documentSymbols[u] = d.defines
      /\ next.documentDependencies[u] = d.needs
  BY <1>1, TargetAnalysed, EditsStayAnalysed
<1>3. PublishState(next)
  BY DEF UpsertDocument, WriteState
<1> HIDE DEF next
<1>4. /\ published'.documentSymbols[u] = d.defines
      /\ published'.documentDependencies[u] = d.needs
  BY <1>1, <1>2, <1>3, PublishedEpoch
<1>5. SnapshotChanged(PublishedSnapshot(u), d) <=> ~Unchanged(u)
  BY <1>4, SnapshotSaysAll DEF SnapshotChanged, Unchanged
<1>6. CASE Unchanged(u)
  BY <1>5, <1>6 DEF SnapshotAwarePlan
<1>7. CASE ~Unchanged(u)
  <2>1. invalidated' = SemanticInvalidationPlan(published, u)
                         \cup SemanticInvalidationPlan(published', u)
    BY <1>5, <1>7 DEF SnapshotAwarePlan
  <2>2. SemanticInvalidationPlan(published, u) = {u} \cup RestOn(published, u)
    BY PublishedPlans
  <2>3. SemanticInvalidationPlan(published', u) = {u} \cup RestOn(published', u)
    BY PublishedPlansAfter
  <2> QED  BY <1>7, <2>1, <2>2, <2>3 DEF PlanIsExact
<1> QED  BY <1>6, <1>7

\* Nothing rests on a document that was removed.
LEMMA RemovalInvalidates ==
  ASSUME InvalidationInductive, batchDepth = 0, NEW u \in Uris, DeleteDocument(u)
  PROVE  PlanIsExact(u, published)
<1> DEFINE next == RemoveFromState(Target, u)
<1>1. Inv /\ StatesAnalysed
  BY DEF InvalidationInductive
<1>2. next \in State /\ next.documentSymbols[u] = {}
  BY <1>1, TargetAnalysed, EditsStayAnalysed
<1>3. PublishState(next) /\ invalidated' = SemanticInvalidationPlan(published, u)
  BY DEF DeleteDocument, RemoveDocument, WriteState
<1> HIDE DEF next
<1>4. published'.documentSymbols[u] = {}
  BY <1>1, <1>2, <1>3, PublishedEpoch
<1>5. RestOn(published', u) = {}
  <2>1. \A v \in Uris : \A w \in {} \cup {u} : ~Needs(published', v, w)
    BY <1>4 DEF Needs
  <2>2. \A v \in Uris : (\E w \in {} \cup {u} : Needs(published', v, w)) => v \in {}
    BY <2>1
  <2>3. {} \in SUBSET Uris
    OBVIOUS
  <2>4. {} \in {S \in SUBSET Uris : \A v \in Uris :
                  (\E w \in S \cup {u} : Needs(published', v, w)) => v \in S}
    BY <2>2, <2>3
  <2> QED  BY <2>4 DEF RestOn
<1>6. SemanticInvalidationPlan(published, u) = {u} \cup RestOn(published, u)
  BY PublishedPlans
<1> QED  BY <1>3, <1>5, <1>6 DEF PlanIsExact

\* The invariant of the edits.
LEMMA InvalidationIsInvariant == InvalidationSpec => []InvalidationInductive
<1>1. InvalidationInductive /\ [InvalidationNext]_ivars => InvalidationInductive'
  BY InvalidationStep
<1> QED  BY <1>1, InvalidationInitially, PTL DEF InvalidationSpec

\* What editor, watcher and indexer do together implements the index: each of their steps is
\* a call of one of its methods or leaves it alone, so its theorems hold beside the awaits.
THEOREM WritersUseTheIndex == InvalidationSpec => Spec
<1>1. InvalidationInit => Init
  BY DEF InvalidationInit
<1>2. InvalidationInductive /\ [InvalidationNext]_ivars => [Next]_vars
  BY InvalidationStepsAreIndexSteps DEF InvalidationInductive
<1> QED  BY <1>1, <1>2, InvalidationIsInvariant, PTL DEF InvalidationSpec, Spec

\* An edit, a deletion or a watched change outside a batch invalidates the documents that
\* rested on the document or do so now, and no other; one that changes neither exports nor
\* dependencies invalidates its document alone.
THEOREM InvalidationIsExact == InvalidationSpec => ImpactedDocumentsAreInvalidated
<1> DEFINE A ==
      batchDepth = 0 =>
       /\ \A u \in Uris :
            /\ \E d \in Analyses : ChangeDocument(u, d)
            => IF Unchanged(u) THEN invalidated' = {u} ELSE PlanIsExact(u, published)
       /\ \A u \in Uris : DeleteDocument(u) => PlanIsExact(u, published)
       /\ /\ \E d \in Analyses : ApplyChangedFile(d)
          /\ reading.epoch = published.semanticEpoch
          => IF Unchanged(reading.uri) THEN invalidated' = {reading.uri}
             ELSE PlanIsExact(reading.uri, published)
<1>1. ASSUME InvalidationInductive, InvalidationInductive'
      PROVE  A
  <2> SUFFICES ASSUME batchDepth = 0 PROVE A
    OBVIOUS
  <2>1. ASSUME NEW u \in Uris, \E d \in Analyses : ChangeDocument(u, d)
        PROVE  IF Unchanged(u) THEN invalidated' = {u} ELSE PlanIsExact(u, published)
    <3>1. PICK d \in Analyses : ChangeDocument(u, d)
      BY <2>1
    <3>2. /\ UpsertDocument(u, d)
          /\ invalidated' = SnapshotAwarePlan(u, PublishedSnapshot(u), d,
                                              SemanticInvalidationPlan(published, u),
                                              SemanticInvalidationPlan(published', u))
      BY <3>1 DEF ChangeDocument
    <3> QED  BY <1>1, <3>2, UpsertInvalidates
  <2>2. ASSUME NEW u \in Uris, DeleteDocument(u) PROVE PlanIsExact(u, published)
    BY <1>1, <2>2, RemovalInvalidates
  <2>3. ASSUME \E d \in Analyses : ApplyChangedFile(d),
               reading.epoch = published.semanticEpoch
        PROVE  IF Unchanged(reading.uri) THEN invalidated' = {reading.uri}
               ELSE PlanIsExact(reading.uri, published)
    <3>1. PICK d \in Analyses : ApplyChangedFile(d)
      BY <2>3
    <3>2. /\ reading.uri \in Uris
          /\ reading.snapshot = PublishedSnapshot(reading.uri)
          /\ reading.plan = SemanticInvalidationPlan(published, reading.uri)
      BY <1>1, <2>3, <3>1 DEF ApplyChangedFile, InvalidationInductive, ReadingIsFresh
    <3>3. /\ UpsertDocument(reading.uri, d)
          /\ invalidated' = SnapshotAwarePlan(reading.uri, PublishedSnapshot(reading.uri), d,
                               SemanticInvalidationPlan(published, reading.uri),
                               SemanticInvalidationPlan(published', reading.uri))
      BY <3>1, <3>2 DEF ApplyChangedFile
    <3> QED  BY <1>1, <3>2, <3>3, UpsertInvalidates
  <2> QED  BY <2>1, <2>2, <2>3
<1>2. InvalidationInductive /\ InvalidationInductive' /\ [InvalidationNext]_ivars => [A]_ivars
  BY <1>1
<1> QED  BY <1>2, InvalidationIsInvariant, PTL DEF InvalidationSpec, ImpactedDocumentsAreInvalidated

-----------------------------------------------------------------------------
(* The inheritance graph.                                                  *)

\* The community modules have two names for the elements of a sequence.
LEMMA ToSetIsRange == ASSUME NEW q PROVE ToSet(q) = Range(q)
BY DEF ToSet, Range

\* Nothing is listed twice: the property and the lemmas about queues say the same.
LEMMA OnceIsInjective == ASSUME NEW q PROVE Once(q) <=> Injective(q)
BY DEF Once, Injective

-----------------------------------------------------------------------------
(* The chain of native types.                                              *)

\* collectNativeAncestorChain() ends: its definition by recursion has a solution.
LEMMA ClimbDef ==
  Climb = [c \in Climbs |->
             IF c.at \notin DOMAIN NativeParent THEN c.result
             ELSE Climb[[at |-> NativeParent[c.at],
                         result |-> Append(c.result, NativeParent[c.at])]]]
<1> DEFINE done == {c \in Climbs : c.at \notin DOMAIN NativeParent}
           up(c) == [at |-> NativeParent[c.at], result |-> Append(c.result, NativeParent[c.at])]
           step == [c \in Climbs |-> IF c \in done THEN c ELSE up(c)]
           out == [c \in Climbs |-> c.result]
<1>1. step \in [Climbs -> Climbs]
  BY HierarchyAssumption DEF Climbs, AllTypes
<1>2. PICK f : IsLoop(f, Climbs, done, step, out)
  <2> HIDE DEF done, step, out
  <2> QED  BY <1>1, LoopExists
<1>3. f = [c \in Climbs |-> IF c.at \notin DOMAIN NativeParent THEN c.result ELSE f[up(c)]]
  <2> SUFFICES ASSUME NEW c \in Climbs
               PROVE  (IF c \in done THEN out[c] ELSE f[step[c]])
                       = IF c.at \notin DOMAIN NativeParent THEN c.result ELSE f[up(c)]
    BY <1>2 DEF IsLoop
  <2>1. CASE c.at \notin DOMAIN NativeParent
    <3>1. c \in done /\ out[c] = c.result
      BY <2>1
    <3> QED  BY <2>1, <3>1
  <2>2. CASE c.at \in DOMAIN NativeParent
    <3>1. c \notin done /\ step[c] = up(c)
      BY <2>2
    <3> QED  BY <2>2, <3>1
  <2> QED  BY <2>1, <2>2
<1> QED  BY <1>3 DEF Climb

\* One step of the climb: it ends at a type without a parent, or goes on from the parent.
LEMMA ClimbStep ==
  ASSUME NEW t \in AllTypes, NEW r \in Seq(AllTypes)
  PROVE  /\ t \notin DOMAIN NativeParent => Climb[[at |-> t, result |-> r]] = r
         /\ t \in DOMAIN NativeParent =>
              /\ NativeParent[t] \in Natives
              /\ Climb[[at |-> t, result |-> r]]
                  = Climb[[at |-> NativeParent[t], result |-> Append(r, NativeParent[t])]]
<1> DEFINE c == [at |-> t, result |-> r]
<1>1. c \in Climbs
  BY DEF Climbs
<1>2. Climb[c] = IF c.at \notin DOMAIN NativeParent THEN c.result
                 ELSE Climb[[at |-> NativeParent[c.at],
                             result |-> Append(c.result, NativeParent[c.at])]]
  BY <1>1, ClimbDef
<1> QED  BY <1>2, HierarchyAssumption

\* What is true of a type when it is of its native parent is true of all.
LEMMA NativeInduction ==
  ASSUME NEW P \in SUBSET AllTypes,
         \A t \in AllTypes : (t \in DOMAIN NativeParent => NativeParent[t] \in P) => t \in P
  PROVE  P = AllTypes
<1> DEFINE T == Natives \ P
<1>1. ASSUME T # {} PROVE FALSE
  <2>1. PICK t \in T : t \in DOMAIN NativeParent => NativeParent[t] \notin T
    <3>1. T \in SUBSET Natives
      OBVIOUS
    <3> HIDE DEF T
    <3> QED  BY <1>1, <3>1, HierarchyAssumption
  <2>2. t \in DOMAIN NativeParent => NativeParent[t] \in P
    BY <2>1, HierarchyAssumption
  <2> QED  BY <2>1, <2>2 DEF AllTypes
<1>2. \A t \in TypeNames : t \notin DOMAIN NativeParent
  BY HierarchyAssumption
<1> QED  BY <1>1, <1>2 DEF AllTypes

\* What was collected before comes first.
LEMMA ClimbAppends ==
  \A t \in AllTypes : /\ NativeChain(t) \in Seq(Natives)
                      /\ \A r \in Seq(AllTypes) :
                           Climb[[at |-> t, result |-> r]] = r \o NativeChain(t)
<1> DEFINE P == {t \in AllTypes : /\ NativeChain(t) \in Seq(Natives)
                                  /\ \A r \in Seq(AllTypes) :
                                       Climb[[at |-> t, result |-> r]] = r \o NativeChain(t)}
<1>0. <<>> \in Seq(AllTypes)
  OBVIOUS
<1>1. ASSUME NEW t \in AllTypes, t \notin DOMAIN NativeParent PROVE t \in P
  <2>1. \A r \in Seq(AllTypes) : Climb[[at |-> t, result |-> r]] = r
    BY <1>1, ClimbStep
  <2>2. NativeChain(t) = <<>>
    BY <1>0, <2>1 DEF NativeChain
  <2>3. \A r \in Seq(AllTypes) : r \o <<>> = r
    OBVIOUS
  <2> QED  BY <2>1, <2>2, <2>3
<1>2. ASSUME NEW t \in AllTypes, t \in DOMAIN NativeParent, NativeParent[t] \in P PROVE t \in P
  <2> DEFINE p == NativeParent[t]
             q == NativeChain(p)
  <2>1. p \in Natives /\ p \in AllTypes
    BY <1>2, ClimbStep, HierarchyAssumption DEF AllTypes
  <2>2. /\ q \in Seq(Natives)
        /\ \A r \in Seq(AllTypes) : Climb[[at |-> p, result |-> r]] = r \o q
    BY <1>2
  <2> HIDE DEF q
  <2>3. ASSUME NEW r \in Seq(AllTypes)
        PROVE  Climb[[at |-> t, result |-> r]] = Append(r, p) \o q
    <3>1. Climb[[at |-> t, result |-> r]] = Climb[[at |-> p, result |-> Append(r, p)]]
      BY <1>2, ClimbStep
    <3>2. Append(r, p) \in Seq(AllTypes)
      BY <2>1
    <3> QED  BY <2>2, <3>1, <3>2
  <2>4. NativeChain(t) = <<p>> \o q
    <3>1. NativeChain(t) = Append(<<>>, p) \o q
      BY <1>0, <2>3 DEF NativeChain
    <3>2. Append(<<>>, p) = <<p>>
      OBVIOUS
    <3> QED  BY <3>1, <3>2
  <2>5. q \in Seq(AllTypes)
    BY <2>2 DEF AllTypes
  <2>6. ASSUME NEW r \in Seq(AllTypes) PROVE Append(r, p) \o q = r \o (<<p>> \o q)
    BY <2>1, <2>5
  <2>7. NativeChain(t) \in Seq(Natives)
    BY <2>1, <2>2, <2>4
  <2>8. ASSUME NEW r \in Seq(AllTypes)
        PROVE  Climb[[at |-> t, result |-> r]] = r \o NativeChain(t)
    BY <2>3, <2>4, <2>6
  <2> QED  BY <2>7, <2>8
<1>3. P = AllTypes
  <2> HIDE DEF P
  <2> QED  BY <1>1, <1>2, NativeInduction DEF P
<1> QED  BY <1>3

\* The chain of a type is its native parent with the chain of that.
LEMMA ChainStep ==
  ASSUME NEW t \in AllTypes
  PROVE  /\ NativeChain(t) \in Seq(Natives)
         /\ t \notin DOMAIN NativeParent => NativeChain(t) = <<>>
         /\ t \in DOMAIN NativeParent =>
              /\ NativeParent[t] \in AllTypes /\ NativeParent[t] \in Natives
              /\ NativeChain(t) = <<NativeParent[t]>> \o NativeChain(NativeParent[t])
<1>1. CASE t \notin DOMAIN NativeParent
  <2>1. <<>> \in Seq(AllTypes)
    OBVIOUS
  <2>2. Climb[[at |-> t, result |-> <<>>]] = <<>>
    BY <1>1, <2>1, ClimbStep
  <2> QED  BY <1>1, <2>2, ClimbAppends DEF NativeChain
<1>2. CASE t \in DOMAIN NativeParent
  <2> DEFINE p == NativeParent[t]
  <2>1. p \in Natives /\ p \in AllTypes
    BY <1>2, HierarchyAssumption DEF AllTypes
  <2>2. NativeChain(t) = Climb[[at |-> p, result |-> Append(<<>>, p)]]
    <3>1. <<>> \in Seq(AllTypes)
      OBVIOUS
    <3> QED  BY <1>2, <3>1, ClimbStep DEF NativeChain
  <2>3. Append(<<>>, p) = <<p>> /\ <<p>> \in Seq(AllTypes)
    BY <2>1
  <2>4. NativeChain(t) = <<p>> \o NativeChain(p)
    BY <2>1, <2>2, <2>3, ClimbAppends
  <2> QED  BY <1>2, <2>1, <2>4, ClimbAppends
<1> QED  BY <1>1, <1>2

\* The chain of a type in the chain is what follows it.
LEMMA ChainTail ==
  \A t \in AllTypes : \A k \in 1 .. Len(NativeChain(t)) :
    /\ Len(NativeChain(NativeChain(t)[k])) = Len(NativeChain(t)) - k
    /\ \A n \in 1 .. Len(NativeChain(t)) - k :
         NativeChain(NativeChain(t)[k])[n] = NativeChain(t)[k + n]
<1> DEFINE Good(t) == \A k \in 1 .. Len(NativeChain(t)) :
             /\ Len(NativeChain(NativeChain(t)[k])) = Len(NativeChain(t)) - k
             /\ \A n \in 1 .. Len(NativeChain(t)) - k :
                  NativeChain(NativeChain(t)[k])[n] = NativeChain(t)[k + n]
           P == {t \in AllTypes : Good(t)}
<1>1. ASSUME NEW t \in AllTypes, t \notin DOMAIN NativeParent PROVE Good(t)
  <2>1. NativeChain(t) = <<>>
    BY <1>1, ChainStep
  <2> QED  BY <2>1
<1>2. ASSUME NEW t \in AllTypes, t \in DOMAIN NativeParent, Good(NativeParent[t])
      PROVE  Good(t)
  <2> DEFINE p == NativeParent[t]
             c == NativeChain(t)
             d == NativeChain(p)
  <2>1. /\ p \in AllTypes /\ c \in Seq(Natives) /\ d \in Seq(Natives) /\ p \in Natives
        /\ c = <<p>> \o d
    BY <1>2, ChainStep
  <2>2. \A k \in 1 .. Len(d) : /\ Len(NativeChain(d[k])) = Len(d) - k
                               /\ \A n \in 1 .. Len(d) - k : NativeChain(d[k])[n] = d[k + n]
    BY <1>2
  <2> SUFFICES ASSUME NEW k \in 1 .. Len(c)
               PROVE  /\ Len(NativeChain(c[k])) = Len(c) - k
                      /\ \A n \in 1 .. Len(c) - k : NativeChain(c[k])[n] = c[k + n]
    OBVIOUS
  <2> HIDE DEF c
  <2>3. d = NativeChain(p)
    OBVIOUS
  <2> HIDE DEF d
  <2>4. /\ Len(c) = Len(d) + 1 /\ Len(d) \in Nat /\ c[1] = p
        /\ \A n \in 1 .. Len(d) : c[n + 1] = d[n]
    BY <2>1
  <2>5. CASE k = 1
    <3>1. c[k] = p /\ Len(c) - k = Len(d)
      BY <2>4, <2>5
    <3>2. \A n \in 1 .. Len(d) : d[n] = c[k + n]
      BY <2>4, <2>5
    <3> QED  BY <2>3, <3>1, <3>2
  <2>6. CASE k # 1
    <3> DEFINE j == k - 1
    <3>1. j \in 1 .. Len(d) /\ c[k] = d[j] /\ Len(c) - k = Len(d) - j
      BY <2>4, <2>6
    <3>2. ASSUME NEW n \in 1 .. Len(d) - j PROVE c[k + n] = d[j + n]
      <4>1. j + n \in 1 .. Len(d) /\ (j + n) + 1 = k + n
        BY <2>4, <3>1
      <4> QED  BY <2>4, <4>1
    <3> HIDE DEF j
    <3> QED  BY <2>2, <3>1, <3>2
  <2> QED  BY <2>5, <2>6
<1>3. P = AllTypes
  <2>1. \A t \in AllTypes : t \in P <=> Good(t)
    OBVIOUS
  <2>2. P \in SUBSET AllTypes
    OBVIOUS
  <2> HIDE DEF P, Good
  <2> QED  BY <1>1, <1>2, <2>1, <2>2, NativeInduction, ChainStep
<1> QED  BY <1>3

\* No type occurs twice in a chain, nor in its own.
LEMMA ChainOnce ==
  ASSUME NEW t \in AllTypes
  PROVE  Injective(NativeChain(t)) /\ t \notin Range(NativeChain(t))
<1> DEFINE c == NativeChain(t)
<1>1. c \in Seq(Natives) /\ Len(c) \in Nat /\ DOMAIN c = 1 .. Len(c)
  <2>1. c \in Seq(Natives)
    BY ChainStep, Zenon
  <2> HIDE DEF c
  <2> QED  BY <2>1
<1>2. \A k \in 1 .. Len(c) : Len(NativeChain(c[k])) = Len(c) - k
  BY ChainTail
<1>3. Len(NativeChain(t)) = Len(c)
  OBVIOUS
<1> HIDE DEF c
<1>4. ASSUME NEW i \in DOMAIN c, NEW j \in DOMAIN c, c[i] = c[j] PROVE i = j
  <2>1. Len(c) - i = Len(c) - j
    BY <1>1, <1>2, <1>4, Zenon
  <2> QED  BY <1>1, <2>1
<1>5. ASSUME NEW k \in DOMAIN c, c[k] = t PROVE FALSE
  <2>1. k \in 1 .. Len(c) /\ Len(c) = Len(c) - k
    BY <1>1, <1>2, <1>3, <1>5, Zenon
  <2> QED  BY <1>1, <2>1, SMTT(60)
<1> QED  BY <1>4, <1>5 DEF Injective, Range, c

-----------------------------------------------------------------------------
(* The parents of a type and what it inherits from.                        *)

\* The types that can be a parent of another.
Known == Natives \cup ({types[i].base : i \in DOMAIN types} \ {NoBase})

\* The types that a declaration gives as the base of t.
Declared(t) == {types[i].base : i \in {j \in DOMAIN types : types[j].name = t}} \ {NoBase}

\* What the list of declarations holds.
LEMMA TypesFacts ==
  ASSUME HierarchyTypeOK
  PROVE  /\ Len(types) \in Nat /\ DOMAIN types = 1 .. Len(types)
         /\ \A i \in DOMAIN types : /\ types[i] \in Declarations
                                  /\ types[i].name \in TypeNames
                                  /\ types[i].base \in AllTypes \cup {NoBase}
<1>1. types \in Seq(Declarations)
  BY DEF HierarchyTypeOK
<1>2. \A i \in DOMAIN types : types[i] \in Declarations
  BY <1>1
<1> QED  BY <1>1, <1>2 DEF Declarations

\* A range is finite when the sequence is.
LEMMA FiniteImage ==
  ASSUME NEW n \in Nat, NEW f, DOMAIN f = 1 .. n
  PROVE  IsFiniteSet({f[i] : i \in DOMAIN f})
<1> DEFINE R == {f[i] : i \in DOMAIN f}
           g == [i \in 1 .. n |-> f[i]]
<1>1. g \in Surjection(1 .. n, R)
  BY DEF Surjection
<1>2. IsFiniteSet(1 .. n)
  BY FS_Interval
<1> HIDE DEF g, R
<1>3. IsFiniteSet(R)
  BY <1>1, <1>2, FS_Surjection
<1> QED  BY <1>3 DEF R

\* Finitely many types can be a parent.
LEMMA KnownFacts ==
  ASSUME HierarchyTypeOK
  PROVE  IsFiniteSet(Known) /\ Known \subseteq AllTypes
<1> DEFINE f == [i \in DOMAIN types |-> types[i].base]
           B == {f[i] : i \in DOMAIN f}
<1>1. IsFiniteSet(B)
  <2>1. Len(types) \in Nat /\ DOMAIN f = 1 .. Len(types)
    BY TypesFacts
  <2> HIDE DEF f
  <2> QED  BY <2>1, FiniteImage
<1>2. B = {types[i].base : i \in DOMAIN types}
  OBVIOUS
<1> HIDE DEF B
<1>3. IsFiniteSet(B \ {NoBase})
  <2>1. B \ {NoBase} \in SUBSET B
    OBVIOUS
  <2> QED  BY <1>1, <2>1, FS_Subset
<1>4. IsFiniteSet(Known)
  BY <1>2, <1>3, HierarchyAssumption, FS_Union DEF Known
<1>5. Known \subseteq AllTypes
  BY TypesFacts DEF Known, AllTypes
<1> QED  BY <1>4, <1>5

\* The parents of a type are those it is declared with, or its native parent.
LEMMA ParentsOfFacts ==
  ASSUME HierarchyTypeOK, NEW t \in AllTypes
  PROVE  /\ ParentsOf(t) = IF Declared(t) = {} /\ t \in DOMAIN NativeParent
                           THEN {NativeParent[t]} ELSE Declared(t)
         /\ ParentsOf(t) \subseteq Known
         /\ t \in Natives => Declared(t) = {}
         /\ t \in TypeNames => t \notin DOMAIN NativeParent
<1>1. {d.base : d \in {x \in ToSet(types) : x.name = t}} \ {NoBase} = Declared(t)
  BY DEF ToSet, Declared
<1>2. ParentsOf(t) = IF Declared(t) = {} /\ t \in DOMAIN NativeParent
                     THEN {NativeParent[t]} ELSE Declared(t)
  BY <1>1 DEF ParentsOf
<1>3. Declared(t) \subseteq Known
  BY DEF Declared, Known
<1>4. t \in DOMAIN NativeParent => NativeParent[t] \in Known
  BY HierarchyAssumption DEF Known
<1>5. t \in Natives => Declared(t) = {}
  BY TypesFacts, HierarchyAssumption DEF Declared
<1>6. t \in TypeNames => t \notin DOMAIN NativeParent
  BY HierarchyAssumption
<1> QED  BY <1>2, <1>3, <1>4, <1>5, <1>6

\* Inherited(t) is the least set with the parents of t and of its elements.
LEMMA InheritedLeast ==
  ASSUME NEW t \in AllTypes, NEW S \in SUBSET AllTypes,
         \A u \in S \cup {t} : ParentsOf(u) \subseteq S
  PROVE  Inherited(t) \subseteq S
BY DEF Inherited

\* What a type inherits from is closed under parents, and under inheriting.
LEMMA InheritedFacts ==
  ASSUME HierarchyTypeOK, NEW t \in AllTypes
  PROVE  /\ Inherited(t) \subseteq Known /\ Inherited(t) \subseteq AllTypes
         /\ ParentsOf(t) \subseteq Inherited(t)
         /\ \A u \in Inherited(t) : ParentsOf(u) \subseteq Inherited(t)
         /\ \A u \in Inherited(t) : Inherited(u) \subseteq Inherited(t)
<1>1. \A u \in AllTypes : ParentsOf(u) \subseteq Known
  BY ParentsOfFacts
<1>2. Inherited(t) \subseteq Known /\ Known \subseteq AllTypes
  BY <1>1, KnownFacts, InheritedLeast
<1>3. ASSUME NEW u \in Inherited(t) \cup {t}
      PROVE  ParentsOf(u) \subseteq Inherited(t)
  <2> SUFFICES ASSUME NEW v \in ParentsOf(u), NEW S \in SUBSET AllTypes,
                      \A w \in S \cup {t} : ParentsOf(w) \subseteq S
               PROVE  v \in S
    BY <1>1, <1>2 DEF Inherited
  <2>1. u \in S \cup {t}
    BY <1>3 DEF Inherited
  <2> QED  BY <2>1
<1>4. ASSUME NEW u \in Inherited(t) PROVE Inherited(u) \subseteq Inherited(t)
  <2>1. Inherited(t) \in SUBSET AllTypes /\ u \in AllTypes
    BY <1>2
  <2>2. \A w \in Inherited(t) \cup {u} : ParentsOf(w) \subseteq Inherited(t)
    BY <1>3
  <2> QED  BY <2>1, <2>2, InheritedLeast
<1> QED  BY <1>2, <1>3, <1>4

\* The chain of a type without declared bases is what it inherits from.
LEMMA ChainInherited ==
  ASSUME HierarchyTypeOK
  PROVE  \A t \in AllTypes : Declared(t) = {} => Range(NativeChain(t)) = Inherited(t)
<1> DEFINE P == {t \in AllTypes : Declared(t) = {} => Range(NativeChain(t)) = Inherited(t)}
<1>1. ASSUME NEW t \in AllTypes, t \notin DOMAIN NativeParent, Declared(t) = {}
      PROVE  Range(NativeChain(t)) = Inherited(t)
  <2>1. ParentsOf(t) = {}
    BY <1>1, ParentsOfFacts
  <2>2. {} \in SUBSET AllTypes /\ \A u \in {} \cup {t} : ParentsOf(u) \subseteq {}
    BY <2>1
  <2>3. Inherited(t) = {}
    BY <2>2, InheritedLeast
  <2>4. NativeChain(t) = <<>> /\ Range(<<>>) = {}
    BY <1>1, ChainStep, EmptyQueue
  <2> QED  BY <2>3, <2>4
<1>2. ASSUME NEW t \in AllTypes, t \in DOMAIN NativeParent, NativeParent[t] \in P
      PROVE  Range(NativeChain(t)) = Inherited(t)
  <2> DEFINE p == NativeParent[t]
             c == NativeChain(p)
  <2>1. /\ p \in AllTypes /\ p \in Natives /\ c \in Seq(Natives)
        /\ NativeChain(t) = <<p>> \o c
    BY <1>2, ChainStep
  <2>2. Range(c) = Inherited(p)
    BY <1>2, <2>1, ParentsOfFacts
  <2>3. ParentsOf(t) = {p}
    BY <1>2, ParentsOfFacts, HierarchyAssumption
  <2>4. Range(NativeChain(t)) = {p} \cup Inherited(p)
    <3> DEFINE one == <<p>>
    <3>1. one \in Seq(Natives) /\ Range(one) = {p}
      BY <2>1 DEF Range
    <3>2. c \in Seq(Natives) /\ NativeChain(t) = one \o c
      BY <2>1
    <3> HIDE DEF c, p, one
    <3>3. Range(one \o c) = Range(one) \cup Range(c)
      BY <3>1, <3>2, ConcatFacts
    <3> QED  BY <2>2, <3>1, <3>2, <3>3
  <2>5. {p} \cup Inherited(p) \subseteq Inherited(t)
    BY <2>3, InheritedFacts
  <2>6. Inherited(t) \subseteq {p} \cup Inherited(p)
    <3>1. {p} \cup Inherited(p) \in SUBSET AllTypes
      BY <2>1, InheritedFacts
    <3>2. \A u \in ({p} \cup Inherited(p)) \cup {t} : ParentsOf(u) \subseteq {p} \cup Inherited(p)
      BY <2>1, <2>3, InheritedFacts
    <3> HIDE DEF p
    <3> QED  BY <3>1, <3>2, InheritedLeast
  <2> QED  BY <2>4, <2>5, <2>6
<1>3. P = AllTypes
  <2>1. \A t \in AllTypes : t \in P <=> (Declared(t) = {} => Range(NativeChain(t)) = Inherited(t))
    OBVIOUS
  <2>2. P \in SUBSET AllTypes
    OBVIOUS
  <2> HIDE DEF P
  <2> QED  BY <1>1, <1>2, <2>1, <2>2, NativeInduction
<1> QED  BY <1>3

\* What Bases() and Parents() list.
LEMMA BasesFacts ==
  ASSUME HierarchyTypeOK, NEW t \in AllTypes
  PROVE  /\ Bases(t) \in Seq(AllTypes)
         /\ Range(Bases(t)) = Declared(t)
         /\ Bases(t) = <<>> <=> Declared(t) = {}
<1> DEFINE I == {i \in DOMAIN types : types[i].name = t /\ types[i].base # NoBase}
           own == Subsequence(types, I)
<1>1. /\ own \in Seq(Declarations)
      /\ \A n \in DOMAIN own : \E i \in I : own[n] = types[i]
      /\ \A i \in I : \E n \in DOMAIN own : own[n] = types[i]
  <2>1. types \in Seq(Declarations) /\ I \in SUBSET DOMAIN types
    BY DEF HierarchyTypeOK
  <2> DEFINE S == Declarations
  <2>2. types \in Seq(S)
    BY <2>1
  <2> HIDE DEF I, S
  <2>3. /\ own \in Seq(S)
        /\ \A n \in DOMAIN own : \E i \in I : own[n] = types[i]
        /\ \A i \in I : \E n \in DOMAIN own : own[n] = types[i]
    BY <2>1, <2>2, SubsequenceFacts
  <2> QED  BY <2>3 DEF S
<1>2. Bases(t) = [n \in DOMAIN own |-> own[n].base]
  BY DEF Bases
<1> HIDE DEF own
<1>3. \A n \in DOMAIN own : own[n].base \in Declared(t)
  BY <1>1 DEF Declared
<1>4. Len(own) \in Nat /\ DOMAIN own = 1 .. Len(own)
  BY <1>1
<1>5. Declared(t) \subseteq AllTypes
  BY TypesFacts DEF Declared
<1>6. Bases(t) \in Seq(AllTypes) /\ DOMAIN Bases(t) = DOMAIN own
  <2>1. \A n \in 1 .. Len(own) : own[n].base \in AllTypes
    BY <1>3, <1>4, <1>5
  <2>2. Bases(t) = [n \in 1 .. Len(own) |-> own[n].base]
    BY <1>2, <1>4
  <2> QED  BY <1>4, <2>1, <2>2
<1>7. ASSUME NEW b \in Declared(t) PROVE b \in Range(Bases(t))
  <2>1. PICK i \in DOMAIN types : types[i].name = t /\ types[i].base = b /\ b # NoBase
    BY <1>7 DEF Declared
  <2>2. i \in I
    BY <2>1
  <2>3. PICK n \in DOMAIN own : own[n] = types[i]
    BY <1>1, <2>2
  <2>4. Bases(t)[n] = b
    BY <1>2, <2>1, <2>3
  <2> QED  BY <1>6, <2>4 DEF Range
<1>8. Range(Bases(t)) = Declared(t)
  BY <1>2, <1>3, <1>7 DEF Range
<1>9. Bases(t) = <<>> <=> Range(Bases(t)) = {}
  BY <1>6 DEF Range
<1> QED  BY <1>6, <1>8, <1>9

\* What getAncestors() queues for a type: nothing it does not inherit from, and all its parents
\* that were not found yet.
LEMMA ParentsFacts ==
  ASSUME HierarchyTypeOK, NEW t \in AllTypes, NEW found \in Seq(AllTypes)
  PROVE  /\ Parents(t, found) \in Seq(AllTypes)
         /\ Range(Parents(t, found)) \subseteq Inherited(t)
         /\ ParentsOf(t) \subseteq Range(Parents(t, found)) \cup Range(found)
<1>1. CASE Bases(t) # <<>>
  <2>1. Parents(t, found) = Bases(t) /\ Declared(t) # {}
    BY <1>1, BasesFacts DEF Parents
  <2>2. ParentsOf(t) = Declared(t)
    BY <2>1, ParentsOfFacts
  <2> QED  BY <2>1, <2>2, BasesFacts, InheritedFacts
<1>2. CASE Bases(t) = <<>>
  <2> DEFINE c == NativeChain(t)
             I == {i \in DOMAIN c : c[i] \notin ToSet(found)}
             p == Subsequence(c, I)
  <2>1. c \in Seq(Natives) /\ Range(c) = Inherited(t) /\ Declared(t) = {}
    BY <1>2, ChainStep, ChainInherited, BasesFacts
  <2>2. Parents(t, found) = p
    BY <1>2 DEF Parents
  <2>3. /\ p \in Seq(Natives)
        /\ \A n \in DOMAIN p : \E i \in I : p[n] = c[i]
        /\ \A i \in I : \E n \in DOMAIN p : p[n] = c[i]
    <3>1. I \in SUBSET DOMAIN c
      OBVIOUS
    <3> HIDE DEF c, I
    <3> QED  BY <2>1, <3>1, SubsequenceFacts, SMTT(40)
  <2> HIDE DEF c, p
  <2>4. Range(p) \subseteq Range(c) /\ Range(c) \subseteq Range(p) \cup Range(found)
    BY <2>3, ToSetIsRange DEF Range
  <2>5. p \in Seq(AllTypes)
    BY <2>3 DEF AllTypes
  <2>6. ParentsOf(t) \subseteq Inherited(t)
    BY InheritedFacts
  <2> QED  BY <2>1, <2>2, <2>4, <2>5, <2>6
<1> QED  BY <1>1, <1>2

-----------------------------------------------------------------------------
(* The searches.                                                           *)

\* A loop over searches that takes the first of the queue, skips it when it was found, and
\* otherwise adds it to what was found.
Takes(step) ==
  \A s \in Searches : s.queue # <<>> =>
    /\ step[s] \in Searches
    /\ Head(s.queue) \in Range(s.found) =>
         step[s] = [queue |-> Tail(s.queue), found |-> s.found]
    /\ Head(s.queue) \notin Range(s.found) => step[s].found = Append(s.found, Head(s.queue))

Ended == {s \in Searches : s.queue = <<>>}
FoundOf == [s \in Searches |-> s.found]

\* Such a loop ends when finitely many types can be found, as each round finds another or
\* shortens the queue; what holds before and after every round holds at the end.
LEMMA SearchKeeps ==
  ASSUME NEW f, NEW step, IsLoop(f, Searches, Ended, step, FoundOf), Takes(step),
         NEW U, IsFiniteSet(U),
         NEW I \in SUBSET Searches, \A s \in I : s.queue # <<>> => step[s] \in I,
         \A s \in I : Range(s.queue) \subseteq U,
         NEW Good, \A s \in I : s.queue = <<>> => s.found \in Good
  PROVE  \A s \in I : f[s] \in Good
<1> DEFINE a == [s \in I |-> Cardinality(U \ Range(s.found))]
           b == [s \in I |-> Len(s.queue)]
<1>1. \A s \in I : s.queue \in Seq(AllTypes) /\ s.found \in Seq(AllTypes)
  BY DEF Searches
<1>2. \A s \in I : IsFiniteSet(U \ Range(s.found)) /\ Cardinality(U \ Range(s.found)) \in Nat
  <2>1. \A s \in I : U \ Range(s.found) \in SUBSET U
    OBVIOUS
  <2> QED  BY <2>1, FS_Subset, FS_CardinalityType
<1>3. a \in [I -> Nat] /\ b \in [I -> Nat]
  <2>1. \A s \in I : Len(s.queue) \in Nat
    BY <1>1
  <2> QED  BY <1>2, <2>1
<1>4. ASSUME NEW s \in I \ Ended
      PROVE  /\ step[s] \in I
             /\ a[step[s]] <= a[s]
             /\ a[step[s]] = a[s] => b[step[s]] < b[s]
  <2> DEFINE r == step[s]
  <2>1. s \in I /\ s \in Searches /\ s.queue # <<>> /\ r \in I
    BY <1>4 DEF Ended
  <2>2. /\ Head(s.queue) \in Range(s.queue)
        /\ Len(Tail(s.queue)) < Len(s.queue)
    <3>1. s.queue \in Seq(AllTypes) /\ s.queue # <<>>
      BY <1>1, <2>1
    <3> QED  BY <3>1 DEF Range
  <2>3. CASE Head(s.queue) \in Range(s.found)
    <3>0. r = [queue |-> Tail(s.queue), found |-> s.found]
      BY <2>1, <2>3 DEF Takes
    <3>1. r.queue = Tail(s.queue) /\ r.found = s.found
      BY <3>0
    <3>2. a[r] = a[s] /\ b[r] < b[s]
      BY <2>1, <2>2, <3>1
    <3> QED  BY <1>3, <2>1, <3>2
  <2>4. CASE Head(s.queue) \notin Range(s.found)
    <3> DEFINE h == Head(s.queue)
               left == U \ Range(s.found)
    <3>1. r.found = Append(s.found, h)
      BY <2>1, <2>4 DEF Takes
    <3>2. Range(r.found) = Range(s.found) \cup {h}
      <4>1. s.found \in Seq(AllTypes) /\ h \in AllTypes
        BY <1>1, <2>1
      <4> HIDE DEF h
      <4> QED  BY <3>1, <4>1, AppendQueue
    <3>3. U \ Range(r.found) = left \ {h} /\ h \in left
      BY <2>1, <2>2, <2>4, <3>2
    <3>4. Cardinality(left \ {h}) = Cardinality(left) - 1 /\ Cardinality(left) \in Nat
      <4>1. IsFiniteSet(left) /\ Cardinality(left) \in Nat
        BY <1>2, <2>1
      <4> HIDE DEF left, h
      <4> QED  BY <3>3, <4>1, FS_RemoveElement
    <3>5. a[r] = Cardinality(left \ {h}) /\ a[s] = Cardinality(left)
      BY <2>1, <3>3
    <3> HIDE DEF a, left, h
    <3> QED  BY <2>1, <3>4, <3>5
  <2> QED  BY <2>3, <2>4
<1>5. ComesOut(I, Ended, FoundOf, Good)
  BY DEF Ended, FoundOf, ComesOut
<1> HIDE DEF a, b
<1>6. Lowers(I, Ended, step, a, b)
  BY <1>4 DEF Lowers
<1> QED  BY <1>3, <1>5, <1>6, LoopKeeps

\* getAncestors() loops over Round().
UpStep == [s \in Searches |-> IF s \in Ended THEN s ELSE Round(s)]

\* One round of getAncestors() takes the first of the queue.
LEMMA RoundFacts ==
  ASSUME HierarchyTypeOK, NEW s \in Searches, s.queue # <<>>
  PROVE  LET t == Head(s.queue)
             found == Append(s.found, t)
         IN  /\ Round(s) \in Searches
             /\ t \in AllTypes /\ found \in Seq(AllTypes)
             /\ s.queue \in Seq(AllTypes) /\ s.found \in Seq(AllTypes)
             /\ t \in Range(s.found) => Round(s) = [queue |-> Tail(s.queue), found |-> s.found]
             /\ t \notin Range(s.found) =>
                  Round(s) = [queue |-> Tail(s.queue) \o Parents(t, found), found |-> found]
<1> DEFINE t == Head(s.queue)
           found == Append(s.found, t)
           p == Parents(t, found)
<1>1. /\ s.queue \in Seq(AllTypes) /\ s.found \in Seq(AllTypes)
      /\ s = [queue |-> s.queue, found |-> s.found]
  BY DEF Searches
<1>2. t \in AllTypes /\ Tail(s.queue) \in Seq(AllTypes) /\ found \in Seq(AllTypes)
  BY <1>1
<1>3. p \in Seq(AllTypes)
  <2> HIDE DEF t, found
  <2> QED  BY <1>2, ParentsFacts
<1>4. t \in Range(s.found) => Round(s) = [queue |-> Tail(s.queue), found |-> s.found]
  BY <1>1, ToSetIsRange DEF Round
<1>5. t \notin Range(s.found) => Round(s) = [queue |-> Tail(s.queue) \o p, found |-> found]
  BY ToSetIsRange DEF Round
<1>6. Tail(s.queue) \o p \in Seq(AllTypes)
  BY <1>2, <1>3
<1>7. Round(s) \in Searches
  <2> HIDE DEF t, found, p
  <2>1. [queue |-> Tail(s.queue), found |-> s.found] \in Searches
    BY <1>1, <1>2 DEF Searches
  <2>2. [queue |-> Tail(s.queue) \o p, found |-> found] \in Searches
    BY <1>2, <1>6 DEF Searches
  <2> QED  BY <1>4, <1>5, <2>1, <2>2
<1> QED  BY <1>1, <1>2, <1>4, <1>5, <1>7

\* getAncestors() ends: its definition by recursion has a solution, whatever the declarations.
LEMMA SearchDef ==
  ASSUME HierarchyTypeOK
  PROVE  IsLoop(Search, Searches, Ended, UpStep, FoundOf) /\ Takes(UpStep)
<1>1. UpStep \in [Searches -> Searches]
  BY RoundFacts DEF UpStep, Ended
<1>2. PICK f : IsLoop(f, Searches, Ended, UpStep, FoundOf)
  BY <1>1, LoopExists
<1>3. \A s \in Searches : (IF s \in Ended THEN FoundOf[s] ELSE f[UpStep[s]])
                             = IF s.queue = <<>> THEN s.found ELSE f[Round(s)]
  <2> TAKE s \in Searches
  <2>1. CASE s.queue = <<>>
    <3>1. s \in Ended /\ FoundOf[s] = s.found
      BY <2>1 DEF Ended, FoundOf
    <3> QED  BY <2>1, <3>1
  <2>2. CASE s.queue # <<>>
    <3>1. s \notin Ended /\ UpStep[s] = Round(s)
      BY <2>2 DEF Ended, UpStep
    <3> QED  BY <2>2, <3>1
  <2> QED  BY <2>1, <2>2
<1>4. f = [s \in Searches |-> IF s.queue = <<>> THEN s.found ELSE f[Round(s)]]
  BY <1>2, <1>3 DEF IsLoop
<1>5. Search = [s \in Searches |-> IF s.queue = <<>> THEN s.found ELSE Search[Round(s)]]
  BY <1>4 DEF Search
<1>6. \A s \in Searches : (IF s \in Ended THEN FoundOf[s] ELSE Search[UpStep[s]])
                             = IF s.queue = <<>> THEN s.found ELSE Search[Round(s)]
  <2> TAKE s \in Searches
  <2>1. CASE s.queue = <<>>
    <3>1. s \in Ended /\ FoundOf[s] = s.found
      BY <2>1 DEF Ended, FoundOf
    <3> QED  BY <2>1, <3>1
  <2>2. CASE s.queue # <<>>
    <3>1. s \notin Ended /\ UpStep[s] = Round(s)
      BY <2>2 DEF Ended, UpStep
    <3> QED  BY <2>2, <3>1
  <2> QED  BY <2>1, <2>2
<1>7. IsLoop(Search, Searches, Ended, UpStep, FoundOf)
  BY <1>5, <1>6 DEF IsLoop
<1>8. Takes(UpStep)
  <2> SUFFICES ASSUME NEW s \in Searches, s.queue # <<>>
               PROVE  /\ Round(s) \in Searches
                      /\ Head(s.queue) \in Range(s.found) =>
                           Round(s) = [queue |-> Tail(s.queue), found |-> s.found]
                      /\ Head(s.queue) \notin Range(s.found) =>
                           Round(s).found = Append(s.found, Head(s.queue))
    BY DEF Takes, UpStep, Ended
  <2> DEFINE t == Head(s.queue)
             found == Append(s.found, t)
             p == Tail(s.queue) \o Parents(t, found)
  <2>1. /\ Round(s) \in Searches
        /\ t \in Range(s.found) => Round(s) = [queue |-> Tail(s.queue), found |-> s.found]
        /\ t \notin Range(s.found) => Round(s) = [queue |-> p, found |-> found]
    BY RoundFacts
  <2> HIDE DEF p
  <2> QED  BY <2>1
<1> QED  BY <1>7, <1>8

\* The search from the bases of a type has found part of what it inherits from, and has
\* queued the parents of all it has found.
Searching(t) ==
  {s \in Searches :
     /\ Range(s.queue) \cup Range(s.found) \subseteq Inherited(t)
     /\ Injective(s.found)
     /\ ParentsOf(t) \subseteq Range(s.queue) \cup Range(s.found)
     /\ \A u \in Range(s.found) : ParentsOf(u) \subseteq Range(s.queue) \cup Range(s.found)}

\* A round keeps what is known of the search.
LEMMA RoundSearches ==
  ASSUME HierarchyTypeOK, NEW t \in AllTypes, NEW s \in Searching(t), s.queue # <<>>
  PROVE  UpStep[s] \in Searching(t)
<1> DEFINE h == Head(s.queue)
           q == Tail(s.queue)
           found == Append(s.found, h)
           p == Parents(h, found)
<1>1. s \in Searches /\ s \notin Ended
  BY DEF Searching, Ended
<1>2. /\ Round(s) \in Searches
      /\ h \in AllTypes /\ found \in Seq(AllTypes)
      /\ s.queue \in Seq(AllTypes) /\ s.found \in Seq(AllTypes)
      /\ h \in Range(s.found) => Round(s) = [queue |-> q, found |-> s.found]
      /\ h \notin Range(s.found) => Round(s) = [queue |-> q \o p, found |-> found]
  BY <1>1, RoundFacts
<1>3. UpStep[s] = Round(s)
  BY <1>1 DEF UpStep
<1>4. /\ q \in Seq(AllTypes) /\ Range(s.queue) = Range(q) \cup {h}
  <2> DEFINE all == s.queue
  <2>1. all \in Seq(AllTypes) /\ all # <<>>
    BY <1>2
  <2> HIDE DEF all
  <2>2. Tail(all) \in Seq(AllTypes) /\ Range(all) = Range(Tail(all)) \cup {Head(all)}
    BY <2>1, ShiftQueue
  <2> QED  BY <2>2 DEF all
<1>5. /\ p \in Seq(AllTypes) /\ Range(p) \subseteq Inherited(h)
      /\ ParentsOf(h) \subseteq Range(p) \cup Range(found)
  BY <1>2, ParentsFacts
<1>6. /\ Range(found) = Range(s.found) \cup {h}
      /\ h \notin Range(s.found) => Injective(found)
  <2> DEFINE old == s.found
  <2>1. old \in Seq(AllTypes) /\ Injective(old)
    BY <1>2 DEF Searching
  <2> HIDE DEF old, h
  <2>2. /\ Range(Append(old, h)) = Range(old) \cup {h}
        /\ h \notin Range(old) => Injective(Append(old, h))
    BY <1>2, <2>1, AppendQueue
  <2> QED  BY <2>2 DEF old
<1>7. Range(q \o p) = Range(q) \cup Range(p)
  <2> HIDE DEF q, p
  <2> QED  BY <1>4, <1>5, ConcatFacts
<1>8. Inherited(h) \subseteq Inherited(t)
  <2>1. h \in Inherited(t)
    BY <1>4 DEF Searching
  <2> QED  BY <2>1, InheritedFacts
<1> HIDE DEF h, q, found, p
<1>9. CASE h \in Range(s.found)
  <2>1. Round(s).queue = q /\ Round(s).found = s.found
    BY <1>2, <1>9
  <2>2. Range(s.queue) \cup Range(s.found) = Range(q) \cup Range(s.found)
    BY <1>4, <1>9
  <2> QED  BY <1>2, <1>3, <2>1, <2>2 DEF Searching
<1>10. CASE h \notin Range(s.found)
  <2> DEFINE r == Round(s)
  <2>1. r.queue = q \o p /\ r.found = found /\ r \in Searches
    BY <1>2, <1>10
  <2>2. Range(r.queue) \cup Range(r.found)
         = (Range(s.queue) \cup Range(s.found)) \cup Range(p)
    BY <1>4, <1>6, <1>7, <2>1
  <2> HIDE DEF r
  <2>3. Range(r.queue) \cup Range(r.found) \subseteq Inherited(t)
    BY <1>5, <1>8, <2>2 DEF Searching
  <2>4. ParentsOf(t) \subseteq Range(r.queue) \cup Range(r.found)
    BY <2>2 DEF Searching
  <2>5. ASSUME NEW u \in Range(r.found)
        PROVE  ParentsOf(u) \subseteq Range(r.queue) \cup Range(r.found)
    <3>1. CASE u \in Range(s.found)
      BY <2>2, <3>1 DEF Searching
    <3>2. CASE u = h
      BY <1>5, <2>1, <2>2, <3>2
    <3> QED  BY <1>6, <2>1, <2>5, <3>1, <3>2
  <2>6. Injective(r.found)
    BY <1>6, <1>10, <2>1
  <2>7. r \in Searching(t)
    BY <2>1, <2>3, <2>4, <2>5, <2>6 DEF Searching
  <2> QED  BY <1>3, <2>7 DEF r
<1> QED  BY <1>9, <1>10

\* The search starts with the bases in the queue.
LEMMA SearchStarts ==
  ASSUME HierarchyTypeOK, NEW t \in AllTypes, Bases(t) # <<>>
  PROVE  [queue |-> Bases(t), found |-> <<>>] \in Searching(t)
<1> DEFINE s == [queue |-> Bases(t), found |-> <<>>]
<1>1. /\ Bases(t) \in Seq(AllTypes) /\ Range(Bases(t)) = Declared(t)
      /\ Declared(t) # {}
  BY BasesFacts
<1>2. ParentsOf(t) = Declared(t) /\ ParentsOf(t) \subseteq Inherited(t)
  BY <1>1, ParentsOfFacts, InheritedFacts
<1>3. <<>> \in Seq(AllTypes) /\ Range(<<>>) = {} /\ Injective(<<>>)
  BY EmptyQueue
<1>4. s \in Searches /\ s.queue = Bases(t) /\ s.found = <<>>
  BY <1>1, <1>3 DEF Searches
<1> HIDE DEF s
<1>5. s \in Searching(t)
  BY <1>1, <1>2, <1>3, <1>4 DEF Searching
<1> QED  BY <1>5 DEF s

\* What getAncestors() answers.
LEMMA AncestorsFacts ==
  ASSUME HierarchyTypeOK, NEW t \in AllTypes
  PROVE  /\ Ancestors(t) \in Seq(AllTypes)
         /\ Range(Ancestors(t)) = Inherited(t) /\ Injective(Ancestors(t))
<1>1. CASE Bases(t) = <<>>
  <2>1. NativeChain(t) \in Seq(AllTypes)
    <3> DEFINE c == NativeChain(t)
    <3>1. c \in Seq(Natives)
      BY ChainStep
    <3> HIDE DEF c
    <3>2. c \in Seq(AllTypes)
      BY <3>1 DEF AllTypes
    <3> QED  BY <3>2 DEF c
  <2> QED  BY <1>1, <2>1, BasesFacts, ChainInherited, ChainOnce DEF Ancestors
<1>2. CASE Bases(t) # <<>>
  <2> DEFINE I == Searching(t)
             U == Inherited(t)
             Good == {q \in Seq(AllTypes) : Range(q) = Inherited(t) /\ Injective(q)}
             s == [queue |-> Bases(t), found |-> <<>>]
  <2>1. IsFiniteSet(U)
    <3>1. Inherited(t) \in SUBSET Known
      BY InheritedFacts
    <3> QED  BY <3>1, KnownFacts, FS_Subset
  <2>2. I \in SUBSET Searches /\ \A r \in I : Range(r.queue) \subseteq U
    BY DEF Searching
  <2>3. \A r \in I : r.queue # <<>> => UpStep[r] \in I
    BY RoundSearches
  <2>4. ASSUME NEW r \in I, r.queue = <<>> PROVE r.found \in Good
    <3>1. Range(r.queue) = {}
      BY <2>4, EmptyQueue
    <3>2. Range(r.found) \in SUBSET AllTypes
      BY InheritedFacts DEF Searching
    <3>3. \A u \in Range(r.found) \cup {t} : ParentsOf(u) \subseteq Range(r.found)
      BY <3>1 DEF Searching
    <3>4. Inherited(t) \subseteq Range(r.found)
      <4> DEFINE S == Range(r.found)
      <4> HIDE DEF S
      <4>1. S \in SUBSET AllTypes /\ \A u \in S \cup {t} : ParentsOf(u) \subseteq S
        BY <3>2, <3>3 DEF S
      <4> QED  BY <4>1, InheritedLeast DEF S
    <3> QED  BY <3>4 DEF Searching, Searches
  <2>5. s \in I
    BY <1>2, SearchStarts
  <2>6. IsLoop(Search, Searches, Ended, UpStep, FoundOf) /\ Takes(UpStep)
    BY SearchDef
  <2>7. \A r \in I : r.queue = <<>> => r.found \in Good
    BY <2>4
  <2>8. \A r \in I : Search[r] \in Good
    <3> HIDE DEF I, U, Good
    <3> QED  BY <2>1, <2>2, <2>3, <2>6, <2>7, SearchKeeps, ZenonT(40)
  <2>9. Ancestors(t) = Search[s]
    BY <1>2 DEF Ancestors
  <2> QED  BY <2>5, <2>8, <2>9
<1> QED  BY <1>1, <1>2

\* The property AncestorsAreTheClosure, from the types alone.
LEMMA AncestorsProved ==
  ASSUME HierarchyTypeOK PROVE AncestorsAreTheClosure
BY AncestorsFacts, ToSetIsRange, OnceIsInjective DEF AncestorsAreTheClosure

-----------------------------------------------------------------------------
(* Down the hierarchy.                                                     *)

\* SetToSeq() lists each element of a finite set once.
LEMMA SetToSeqFacts ==
  ASSUME NEW S, NEW T \in SUBSET S, IsFiniteSet(T)
  PROVE  SetToSeq(T) \in Seq(S) /\ Range(SetToSeq(T)) = T /\ Injective(SetToSeq(T))
<1> DEFINE n == Cardinality(T)
           q == SetToSeq(T)
<1>1. n \in Nat /\ ExistsBijection(1 .. n, T)
  BY FS_CardinalityType
<1>2. \E f \in [1 .. n -> T] : IsInjective(f)
  BY <1>1 DEF ExistsBijection, Bijection, Injection
<1>3. q \in [1 .. n -> T] /\ IsInjective(q)
  BY <1>2 DEF SetToSeq
<1> HIDE DEF q, n
<1>4. q \in Injection(1 .. n, T)
  BY <1>3 DEF Injection
<1>5. q \in Surjection(1 .. n, T)
  <2>1. Cardinality(1 .. n) = n
    BY <1>1, FS_Interval
  <2> QED  BY <1>4, <2>1, FS_Injection DEF n
<1>6. Range(q) = T
  BY <1>3, <1>5 DEF Surjection, Range
<1>7. Injective(q)
  BY <1>3 DEF Injective, IsInjective
<1>8. q \in Seq(S)
  <2>1. \A i \in 1 .. n : q[i] \in S
    BY <1>3
  <2>2. q = [i \in 1 .. n |-> q[i]]
    BY <1>3
  <2> QED  BY <1>1, <2>1, <2>2
<1> QED  BY <1>6, <1>7, <1>8 DEF q

Names == {types[i].name : i \in DOMAIN types}

\* The types declared with the base t, and those that inherit from t.
Children(t) == {u \in TypeNames : t \in Declared(u)}
Heirs(t) == {u \in TypeNames : t \in Inherited(u)}

\* Finitely many types inherit from a type; with each of them, those that inherit from it.
LEMMA HeirsFacts ==
  ASSUME HierarchyTypeOK, NEW t \in AllTypes
  PROVE  /\ IsFiniteSet(Heirs(t)) /\ Heirs(t) \subseteq AllTypes
         /\ Children(t) \subseteq Heirs(t)
         /\ \A u \in Heirs(t) : Heirs(u) \subseteq Heirs(t)
<1>1. IsFiniteSet(Names)
  <2> DEFINE f == [i \in DOMAIN types |-> types[i].name]
  <2>1. Len(types) \in Nat /\ DOMAIN f = 1 .. Len(types)
    BY TypesFacts
  <2>2. {f[i] : i \in DOMAIN f} = Names
    BY DEF Names
  <2> HIDE DEF f
  <2>3. IsFiniteSet({f[i] : i \in DOMAIN f})
    BY <2>1, FiniteImage
  <2> QED  BY <2>2, <2>3
<1>2. ASSUME NEW u \in TypeNames, u \notin Names PROVE Inherited(u) = {}
  <2>1. u \in AllTypes /\ Declared(u) = {}
    BY <1>2 DEF Declared, Names, AllTypes
  <2>2. ParentsOf(u) = {}
    BY <2>1, ParentsOfFacts
  <2>3. {} \in SUBSET AllTypes /\ \A v \in {} \cup {u} : ParentsOf(v) \subseteq {}
    BY <2>2
  <2> QED  BY <2>1, <2>3, InheritedLeast
<1>3. Heirs(t) \in SUBSET Names
  BY <1>2 DEF Heirs
<1>4. ASSUME NEW u \in Children(t) PROVE t \in Inherited(u)
  <2>1. u \in AllTypes /\ t \in Declared(u)
    BY <1>4 DEF Children, AllTypes
  <2> QED  BY <2>1, ParentsOfFacts, InheritedFacts
<1>5. ASSUME NEW u \in Heirs(t), NEW v \in Heirs(u) PROVE v \in Heirs(t)
  <2>1. v \in AllTypes /\ v \in TypeNames /\ u \in Inherited(v) /\ t \in Inherited(u)
    BY <1>5 DEF Heirs, AllTypes
  <2> QED  BY <2>1, InheritedFacts DEF Heirs
<1> QED  BY <1>1, <1>3, <1>4, <1>5, FS_Subset DEF Heirs, Children, AllTypes

\* getDirectDescendants() lists the types declared with the base.
LEMMA DirectDescendantsFacts ==
  ASSUME HierarchyTypeOK, NEW t \in AllTypes
  PROVE  /\ DirectDescendants(t) \in Seq(AllTypes)
         /\ Range(DirectDescendants(t)) = Children(t)
<1> DEFINE T == {types[i].name : i \in {j \in DOMAIN types : types[j].base = t}}
<1>1. T = Children(t)
  BY TypesFacts, HierarchyAssumption DEF Children, Declared, AllTypes
<1>2. IsFiniteSet(Children(t)) /\ Children(t) \in SUBSET AllTypes
  BY HeirsFacts, FS_Subset DEF Children, AllTypes
<1>3. DirectDescendants(t) = SetToSeq(Children(t))
  BY <1>1 DEF DirectDescendants
<1> QED  BY <1>2, <1>3, SetToSeqFacts

\* getDescendants() loops over RoundDown().
DownStep == [s \in Searches |-> IF s \in Ended THEN s ELSE RoundDown(s)]

\* One round of getDescendants() takes the first of the queue.
LEMMA RoundDownFacts ==
  ASSUME HierarchyTypeOK, NEW s \in Searches, s.queue # <<>>
  PROVE  LET t == Head(s.queue)
             found == Append(s.found, t)
         IN  /\ RoundDown(s) \in Searches
             /\ t \in AllTypes /\ found \in Seq(AllTypes)
             /\ s.queue \in Seq(AllTypes) /\ s.found \in Seq(AllTypes)
             /\ t \in Range(s.found) => RoundDown(s) = [queue |-> Tail(s.queue), found |-> s.found]
             /\ t \notin Range(s.found) =>
                  RoundDown(s) = [queue |-> Tail(s.queue) \o DirectDescendants(t), found |-> found]
<1> DEFINE t == Head(s.queue)
           found == Append(s.found, t)
           p == DirectDescendants(t)
<1>1. /\ s.queue \in Seq(AllTypes) /\ s.found \in Seq(AllTypes)
      /\ s = [queue |-> s.queue, found |-> s.found]
  BY DEF Searches
<1>2. t \in AllTypes /\ Tail(s.queue) \in Seq(AllTypes) /\ found \in Seq(AllTypes)
  BY <1>1
<1>3. p \in Seq(AllTypes)
  <2> HIDE DEF t
  <2> QED  BY <1>2, DirectDescendantsFacts
<1>4. t \in Range(s.found) => RoundDown(s) = [queue |-> Tail(s.queue), found |-> s.found]
  BY <1>1, ToSetIsRange DEF RoundDown
<1>5. t \notin Range(s.found) => RoundDown(s) = [queue |-> Tail(s.queue) \o p, found |-> found]
  BY ToSetIsRange DEF RoundDown
<1>6. Tail(s.queue) \o p \in Seq(AllTypes)
  BY <1>2, <1>3
<1>7. RoundDown(s) \in Searches
  <2> HIDE DEF t, found, p
  <2>1. [queue |-> Tail(s.queue), found |-> s.found] \in Searches
    BY <1>1, <1>2 DEF Searches
  <2>2. [queue |-> Tail(s.queue) \o p, found |-> found] \in Searches
    BY <1>2, <1>6 DEF Searches
  <2> QED  BY <1>4, <1>5, <2>1, <2>2
<1> QED  BY <1>1, <1>2, <1>4, <1>5, <1>7

\* getDescendants() ends: its definition by recursion has a solution.
LEMMA CollectDef ==
  ASSUME HierarchyTypeOK
  PROVE  IsLoop(Collect, Searches, Ended, DownStep, FoundOf) /\ Takes(DownStep)
<1>1. DownStep \in [Searches -> Searches]
  BY RoundDownFacts DEF DownStep, Ended
<1>2. PICK f : IsLoop(f, Searches, Ended, DownStep, FoundOf)
  BY <1>1, LoopExists
<1>3. \A s \in Searches : (IF s \in Ended THEN FoundOf[s] ELSE f[DownStep[s]])
                             = IF s.queue = <<>> THEN s.found ELSE f[RoundDown(s)]
  <2> TAKE s \in Searches
  <2>1. CASE s.queue = <<>>
    <3>1. s \in Ended /\ FoundOf[s] = s.found
      BY <2>1 DEF Ended, FoundOf
    <3> QED  BY <2>1, <3>1
  <2>2. CASE s.queue # <<>>
    <3>1. s \notin Ended /\ DownStep[s] = RoundDown(s)
      BY <2>2 DEF Ended, DownStep
    <3> QED  BY <2>2, <3>1
  <2> QED  BY <2>1, <2>2
<1>4. f = [s \in Searches |-> IF s.queue = <<>> THEN s.found ELSE f[RoundDown(s)]]
  BY <1>2, <1>3 DEF IsLoop
<1>5. Collect = [s \in Searches |-> IF s.queue = <<>> THEN s.found ELSE Collect[RoundDown(s)]]
  BY <1>4 DEF Collect
<1>6. \A s \in Searches : (IF s \in Ended THEN FoundOf[s] ELSE Collect[DownStep[s]])
                             = IF s.queue = <<>> THEN s.found ELSE Collect[RoundDown(s)]
  <2> TAKE s \in Searches
  <2>1. CASE s.queue = <<>>
    <3>1. s \in Ended /\ FoundOf[s] = s.found
      BY <2>1 DEF Ended, FoundOf
    <3> QED  BY <2>1, <3>1
  <2>2. CASE s.queue # <<>>
    <3>1. s \notin Ended /\ DownStep[s] = RoundDown(s)
      BY <2>2 DEF Ended, DownStep
    <3> QED  BY <2>2, <3>1
  <2> QED  BY <2>1, <2>2
<1>7. IsLoop(Collect, Searches, Ended, DownStep, FoundOf)
  BY <1>5, <1>6 DEF IsLoop
<1>8. Takes(DownStep)
  <2> SUFFICES ASSUME NEW s \in Searches, s.queue # <<>>
               PROVE  /\ RoundDown(s) \in Searches
                      /\ Head(s.queue) \in Range(s.found) =>
                           RoundDown(s) = [queue |-> Tail(s.queue), found |-> s.found]
                      /\ Head(s.queue) \notin Range(s.found) =>
                           RoundDown(s).found = Append(s.found, Head(s.queue))
    BY DEF Takes, DownStep, Ended
  <2> DEFINE t == Head(s.queue)
             found == Append(s.found, t)
             p == Tail(s.queue) \o DirectDescendants(t)
  <2>1. /\ RoundDown(s) \in Searches
        /\ t \in Range(s.found) => RoundDown(s) = [queue |-> Tail(s.queue), found |-> s.found]
        /\ t \notin Range(s.found) => RoundDown(s) = [queue |-> p, found |-> found]
    BY RoundDownFacts
  <2> HIDE DEF p
  <2> QED  BY <2>1
<1> QED  BY <1>7, <1>8

\* The search from the children of a type has found heirs of it, and has queued the children
\* of all it has found.
Collecting(t) ==
  {s \in Searches :
     /\ Range(s.queue) \cup Range(s.found) \subseteq Heirs(t)
     /\ Injective(s.found)
     /\ Children(t) \subseteq Range(s.queue) \cup Range(s.found)
     /\ \A u \in Range(s.found) : Children(u) \subseteq Range(s.queue) \cup Range(s.found)}

\* A round keeps what is known of the search down.
LEMMA RoundCollects ==
  ASSUME HierarchyTypeOK, NEW t \in AllTypes, NEW s \in Collecting(t), s.queue # <<>>
  PROVE  DownStep[s] \in Collecting(t)
<1> DEFINE h == Head(s.queue)
           q == Tail(s.queue)
           found == Append(s.found, h)
           p == DirectDescendants(h)
<1>1. s \in Searches /\ s \notin Ended
  BY DEF Collecting, Ended
<1>2. /\ RoundDown(s) \in Searches
      /\ h \in AllTypes /\ found \in Seq(AllTypes)
      /\ s.queue \in Seq(AllTypes) /\ s.found \in Seq(AllTypes)
      /\ h \in Range(s.found) => RoundDown(s) = [queue |-> q, found |-> s.found]
      /\ h \notin Range(s.found) => RoundDown(s) = [queue |-> q \o p, found |-> found]
  BY <1>1, RoundDownFacts
<1>3. DownStep[s] = RoundDown(s)
  BY <1>1 DEF DownStep
<1>4. /\ q \in Seq(AllTypes) /\ Range(s.queue) = Range(q) \cup {h}
  <2> DEFINE all == s.queue
  <2>1. all \in Seq(AllTypes) /\ all # <<>>
    BY <1>2
  <2> HIDE DEF all
  <2>2. Tail(all) \in Seq(AllTypes) /\ Range(all) = Range(Tail(all)) \cup {Head(all)}
    BY <2>1, ShiftQueue
  <2> QED  BY <2>2 DEF all
<1>5. /\ p \in Seq(AllTypes) /\ Range(p) = Children(h) /\ Children(h) \subseteq Heirs(h)
  BY <1>2, DirectDescendantsFacts, HeirsFacts
<1>6. /\ Range(found) = Range(s.found) \cup {h}
      /\ h \notin Range(s.found) => Injective(found)
  <2> DEFINE old == s.found
  <2>1. old \in Seq(AllTypes) /\ Injective(old)
    BY <1>2 DEF Collecting
  <2> HIDE DEF old, h
  <2>2. /\ Range(Append(old, h)) = Range(old) \cup {h}
        /\ h \notin Range(old) => Injective(Append(old, h))
    BY <1>2, <2>1, AppendQueue
  <2> QED  BY <2>2 DEF old
<1>7. Range(q \o p) = Range(q) \cup Range(p)
  <2> HIDE DEF q, p
  <2> QED  BY <1>4, <1>5, ConcatFacts
<1>8. Heirs(h) \subseteq Heirs(t)
  <2>1. h \in Heirs(t)
    BY <1>4 DEF Collecting
  <2> QED  BY <2>1, HeirsFacts
<1> HIDE DEF h, q, found, p
<1>9. CASE h \in Range(s.found)
  <2>1. RoundDown(s).queue = q /\ RoundDown(s).found = s.found
    BY <1>2, <1>9
  <2>2. Range(s.queue) \cup Range(s.found) = Range(q) \cup Range(s.found)
    BY <1>4, <1>9
  <2> QED  BY <1>2, <1>3, <2>1, <2>2 DEF Collecting
<1>10. CASE h \notin Range(s.found)
  <2> DEFINE r == RoundDown(s)
  <2>1. r.queue = q \o p /\ r.found = found /\ r \in Searches
    BY <1>2, <1>10
  <2>2. Range(r.queue) \cup Range(r.found)
         = (Range(s.queue) \cup Range(s.found)) \cup Range(p)
    BY <1>4, <1>6, <1>7, <2>1
  <2> HIDE DEF r
  <2>3. Range(r.queue) \cup Range(r.found) \subseteq Heirs(t)
    BY <1>5, <1>8, <2>2 DEF Collecting
  <2>4. Children(t) \subseteq Range(r.queue) \cup Range(r.found)
    BY <2>2 DEF Collecting
  <2>5. ASSUME NEW u \in Range(r.found)
        PROVE  Children(u) \subseteq Range(r.queue) \cup Range(r.found)
    <3>1. CASE u \in Range(s.found)
      BY <2>2, <3>1 DEF Collecting
    <3>2. CASE u = h
      BY <1>5, <2>1, <2>2, <3>2
    <3> QED  BY <1>6, <2>1, <2>5, <3>1, <3>2
  <2>6. Injective(r.found)
    BY <1>6, <1>10, <2>1
  <2>7. r \in Collecting(t)
    BY <2>1, <2>3, <2>4, <2>5, <2>6 DEF Collecting
  <2> QED  BY <1>3, <2>7 DEF r
<1> QED  BY <1>9, <1>10

\* What getDescendants() answers.
LEMMA DescendantsFacts ==
  ASSUME HierarchyTypeOK, NEW t \in TypeNames
  PROVE  Range(Descendants(t)) = Heirs(t) /\ Injective(Descendants(t))
<1> DEFINE I == Collecting(t)
           U == Heirs(t)
           Good == {q \in Seq(AllTypes) : Range(q) = Heirs(t) /\ Injective(q)}
           s == [queue |-> DirectDescendants(t), found |-> <<>>]
<1>0. t \in AllTypes
  BY DEF AllTypes
<1>1. IsFiniteSet(U)
  BY <1>0, HeirsFacts
<1>2. I \in SUBSET Searches /\ \A r \in I : Range(r.queue) \subseteq U
  BY DEF Collecting
<1>3. \A r \in I : r.queue # <<>> => DownStep[r] \in I
  BY <1>0, RoundCollects
<1>4. ASSUME NEW r \in I, r.queue = <<>> PROVE r.found \in Good
  <2> DEFINE F == Range(r.found)
  <2>1. Range(r.queue) = {}
    BY <1>4, EmptyQueue
  <2>2. F \subseteq Heirs(t) /\ \A u \in F \cup {t} : Children(u) \subseteq F
    BY <2>1 DEF Collecting
  <2> HIDE DEF F
  <2>3. ASSUME NEW u \in Heirs(t), u \notin F PROVE FALSE
    <3> DEFINE S == {x \in AllTypes : x \notin F /\ x # t}
    <3>1. ASSUME NEW x \in S \cup {u}, NEW y \in ParentsOf(x) PROVE y \in S
      <4>1. x \in AllTypes /\ x \notin F /\ u \in AllTypes
        BY <2>3, <3>1 DEF Heirs, AllTypes
      <4>2. y \in AllTypes
        BY <3>1, <4>1, ParentsOfFacts, KnownFacts
      <4>3. CASE y \in Declared(x)
        <5>1. x \in TypeNames
          BY <4>1, <4>3, ParentsOfFacts DEF AllTypes
        <5>2. x \in Children(y)
          BY <4>3, <5>1 DEF Children
        <5> QED  BY <2>2, <4>1, <4>2, <5>2
      <4>4. CASE y \notin Declared(x)
        <5>1. x \in DOMAIN NativeParent /\ y = NativeParent[x]
          BY <3>1, <4>1, <4>4, ParentsOfFacts
        <5>2. y \in Natives
          BY <5>1, HierarchyAssumption
        <5>3. y \notin TypeNames
          BY <5>2, HierarchyAssumption
        <5> QED  BY <2>2, <4>2, <5>3 DEF Heirs
      <4> QED  BY <4>3, <4>4
    <3>2. Inherited(u) \subseteq S
      <4>1. S \in SUBSET AllTypes /\ u \in AllTypes
        BY <2>3 DEF Heirs, AllTypes
      <4>2. \A x \in S \cup {u} : ParentsOf(x) \subseteq S
        BY <3>1
      <4> HIDE DEF S
      <4> QED  BY <4>1, <4>2, InheritedLeast
    <3> QED  BY <2>3, <3>2 DEF Heirs
  <2> QED  BY <2>2, <2>3 DEF Collecting, Searches, F
<1>5. s \in I
  <2>1. /\ DirectDescendants(t) \in Seq(AllTypes)
        /\ Range(DirectDescendants(t)) = Children(t)
        /\ Children(t) \subseteq Heirs(t)
    BY <1>0, DirectDescendantsFacts, HeirsFacts
  <2>2. <<>> \in Seq(AllTypes) /\ Range(<<>>) = {} /\ Injective(<<>>)
    BY EmptyQueue
  <2>3. s \in Searches /\ s.queue = DirectDescendants(t) /\ s.found = <<>>
    BY <2>1, <2>2 DEF Searches
  <2> HIDE DEF s
  <2> QED  BY <2>1, <2>2, <2>3 DEF Collecting
<1>6. IsLoop(Collect, Searches, Ended, DownStep, FoundOf) /\ Takes(DownStep)
  BY CollectDef
<1>7. \A r \in I : r.queue = <<>> => r.found \in Good
  BY <1>4
<1>8. \A r \in I : Collect[r] \in Good
  <2> HIDE DEF I, U, Good
  <2> QED  BY <1>1, <1>2, <1>3, <1>6, <1>7, SearchKeeps, ZenonT(40)
<1> QED  BY <1>5, <1>8 DEF Descendants

\* The property DescendantsInvertAncestors, from the types alone.
LEMMA DescendantsProved ==
  ASSUME HierarchyTypeOK PROVE DescendantsInvertAncestors
<1> SUFFICES ASSUME NEW t \in TypeNames
             PROVE  /\ ToSet(Descendants(t)) = {u \in TypeNames : t \in ToSet(Ancestors(u))}
                    /\ Once(Descendants(t))
  BY DEF DescendantsInvertAncestors
<1>1. \A u \in TypeNames : ToSet(Ancestors(u)) = Inherited(u)
  BY AncestorsFacts, ToSetIsRange DEF AllTypes
<1>2. ToSet(Descendants(t)) = Heirs(t) /\ Once(Descendants(t))
  BY DescendantsFacts, ToSetIsRange, OnceIsInjective
<1> QED  BY <1>1, <1>2 DEF Heirs

-----------------------------------------------------------------------------
(* The order of the ancestors.                                             *)

\* Array.filter() that keeps everything changes nothing.
LEMMA AllPositions ==
  ASSUME NEW S, NEW q \in Seq(S) PROVE Subsequence(q, DOMAIN q) = q
<1>1. Len(q) \in Nat /\ DOMAIN q = 1 .. Len(q) /\ q = [n \in 1 .. Len(q) |-> q[n]]
  OBVIOUS
<1> DEFINE m == Len(q)
<1>2. m \in Nat /\ Cardinality(1 .. m) = m
  BY <1>1, FS_Interval, SMTT(40)
<1>3. ASSUME NEW i \in 1 .. m PROVE Rank(1 .. m, i) = i
  <2>1. {j \in 1 .. m : j <= i} = 1 .. i
    BY <1>2
  <2>2. Cardinality(1 .. i) = i
    BY FS_Interval
  <2> QED  BY <2>1, <2>2 DEF Rank
<1>4. ASSUME NEW n \in 1 .. m PROVE (CHOOSE i \in 1 .. m : Rank(1 .. m, i) = n) = n
  BY <1>3
<1>5. Subsequence(q, 1 .. m) = [n \in 1 .. m |-> q[CHOOSE i \in 1 .. m : Rank(1 .. m, i) = n]]
  BY <1>2 DEF Subsequence
<1>6. Subsequence(q, 1 .. m) = [n \in 1 .. m |-> q[n]]
  BY <1>4, <1>5
<1> QED  BY <1>1, <1>6

\* The first of a chain is the only parent; the rest is the chain of it.
LEMMA ChainNext ==
  ASSUME HierarchyTypeOK, NEW u \in AllTypes, Declared(u) = {}, NEW h \in ParentsOf(u)
  PROVE  LET c == NativeChain(u)
             d == NativeChain(h)
         IN  /\ ParentsOf(u) = {h} /\ h \in Natives
             /\ d \in Seq(Natives) /\ Len(d) \in Nat /\ c \in Seq(Natives)
             /\ Len(c) = Len(d) + 1 /\ c[1] = h
             /\ \A n \in 1 .. Len(d) : c[n + 1] = d[n]
<1> DEFINE c == NativeChain(u)
           d == NativeChain(h)
<1>1. u \in DOMAIN NativeParent /\ h = NativeParent[u] /\ ParentsOf(u) = {h}
  BY ParentsOfFacts
<1>2. /\ h \in Natives /\ h \in AllTypes /\ c \in Seq(Natives)
      /\ c = <<h>> \o d
  BY <1>1, ChainStep
<1>3. d \in Seq(Natives)
  BY <1>2, ChainStep
<1> HIDE DEF c, d
<1> QED  BY <1>1, <1>2, <1>3 DEF c, d

\* The parents of a type whose chain is not empty begin the chain.
LEMMA ChainFirst ==
  ASSUME HierarchyTypeOK, NEW u \in AllTypes, Declared(u) = {}, NativeChain(u) # <<>>
  PROVE  ParentsOf(u) = {NativeChain(u)[1]}
<1>1. u \in DOMAIN NativeParent /\ ParentsOf(u) = {NativeParent[u]}
  BY ChainStep, ParentsOfFacts
<1>2. NativeParent[u] \in ParentsOf(u)
  BY <1>1
<1> QED  BY <1>1, <1>2, ChainNext

\* When names are unambiguous no type has two parents.
LEMMA SingleParent ==
  ASSUME HierarchyTypeOK, Unambiguous, NEW u \in AllTypes,
         NEW x \in ParentsOf(u), NEW y \in ParentsOf(u)
  PROVE  x = y
<1>1. ASSUME NEW i \in DOMAIN types, NEW j \in DOMAIN types, types[i].name = types[j].name
      PROVE  i = j
  BY <1>1 DEF Unambiguous, Once
<1>2. CASE x \in Declared(u) /\ y \in Declared(u)
  <2>1. PICK i \in DOMAIN types : types[i].name = u /\ x = types[i].base
    BY <1>2 DEF Declared
  <2>2. PICK j \in DOMAIN types : types[j].name = u /\ y = types[j].base
    BY <1>2 DEF Declared
  <2>3. i = j
    BY <1>1, <2>1, <2>2
  <2> QED  BY <2>1, <2>2, <2>3
<1> QED  BY <1>2, ParentsOfFacts

\* The type that was found last, at first the type whose ancestors are searched.
Latest(t, q) == IF q = <<>> THEN t ELSE q[Len(q)]

\* Each type but the first is the only parent of the one before it.
Stepwise(t, q) == \A i \in DOMAIN q : ParentsOf(IF i = 1 THEN t ELSE q[i - 1]) = {q[i]}

Due(q, F, c, j) ==
  \/ q[j] \in F
  \/ \E m \in 2 .. Len(c) : q[j] = c[m] /\ \E i \in 1 .. (j - 1) : q[i] = c[m - 1]

\* What was found forms a path.  Whatever is queued was found, or is the parent of the type
\* that was found last, or follows in its chain a type that is queued before it.
Orderly(t) ==
  {s \in Searches :
     LET q == s.queue
         u == Latest(t, s.found)
         c == NativeChain(u)
     IN  /\ Stepwise(t, s.found)
         /\ u \in TypeNames => Range(s.found) \subseteq TypeNames
         /\ u \notin TypeNames => Range(c) \cap Range(s.found) = {}
         /\ \A j \in DOMAIN q : Due(q, Range(s.found) \cup ParentsOf(u), c, j)}

\* A path grows by the only parent of its end.
LEMMA StepwiseExtends ==
  ASSUME NEW t \in AllTypes, NEW q \in Seq(AllTypes), NEW h \in AllTypes,
         Stepwise(t, q), ParentsOf(Latest(t, q)) = {h}
  PROVE  Stepwise(t, Append(q, h)) /\ Latest(t, Append(q, h)) = h
<1> DEFINE r == Append(q, h)
<1>1. /\ Len(q) \in Nat /\ Len(r) = Len(q) + 1 /\ r # <<>> /\ r[Len(r)] = h
      /\ DOMAIN r = 1 .. Len(q) + 1 /\ DOMAIN q = 1 .. Len(q)
      /\ \A i \in 1 .. Len(q) : r[i] = q[i]
      /\ q = <<>> <=> Len(q) = 0
  OBVIOUS
<1> HIDE DEF r
<1>2. ASSUME NEW i \in DOMAIN r
      PROVE  ParentsOf(IF i = 1 THEN t ELSE r[i - 1]) = {r[i]}
  <2>1. CASE i = Len(q) + 1
    <3>1. (IF i = 1 THEN t ELSE r[i - 1]) = Latest(t, q)
      BY <1>1, <2>1 DEF Latest
    <3> QED  BY <1>1, <2>1, <3>1
  <2>2. CASE i # Len(q) + 1
    <3>1. i \in DOMAIN q /\ r[i] = q[i] /\ (i # 1 => r[i - 1] = q[i - 1])
      BY <1>1, <2>2
    <3> QED  BY <3>1 DEF Stepwise
  <2> QED  BY <2>1, <2>2
<1>3. Latest(t, r) = h
  BY <1>1 DEF Latest
<1> QED  BY <1>2, <1>3 DEF Stepwise, r

\* A type that has no native parent queues its parents, a native type its whole chain.
LEMMA ParentsOrder ==
  ASSUME HierarchyTypeOK, NEW h \in AllTypes, NEW found \in Seq(AllTypes)
  PROVE  /\ h \in TypeNames => Range(Parents(h, found)) \subseteq ParentsOf(h)
         /\ h \in Natives /\ Range(NativeChain(h)) \cap Range(found) = {} =>
              Parents(h, found) = NativeChain(h)
<1>1. ASSUME h \in TypeNames PROVE Range(Parents(h, found)) \subseteq ParentsOf(h)
  <2>1. CASE Bases(h) # <<>>
    BY <2>1, ParentsOfFacts, BasesFacts DEF Parents
  <2>2. CASE Bases(h) = <<>>
    <3>1. Declared(h) = {} /\ h \notin DOMAIN NativeParent
      BY <1>1, <2>2, BasesFacts, ParentsOfFacts
    <3>2. NativeChain(h) = <<>> /\ Range(NativeChain(h)) = Inherited(h)
      BY <3>1, ChainStep, ChainInherited
    <3> QED  BY <3>2, ParentsFacts, EmptyQueue
  <2> QED  BY <2>1, <2>2
<1>2. ASSUME h \in Natives, Range(NativeChain(h)) \cap Range(found) = {}
      PROVE  Parents(h, found) = NativeChain(h)
  <2> DEFINE c == NativeChain(h)
  <2>1. c \in Seq(Natives) /\ Bases(h) = <<>>
    BY <1>2, ChainStep, BasesFacts, ParentsOfFacts
  <2>2. {i \in DOMAIN c : c[i] \notin ToSet(found)} = DOMAIN c
    BY <1>2, ToSetIsRange DEF Range
  <2>3. Subsequence(c, DOMAIN c) = c
    <3> HIDE DEF c
    <3> QED  BY <2>1, AllPositions
  <2>4. Parents(h, found) = Subsequence(c, DOMAIN c)
    BY <2>1, <2>2 DEF Parents
  <2> QED  BY <2>3, <2>4
<1> QED  BY <1>1, <1>2

\* When names are unambiguous a round extends the path: the first of the queue that was not
\* found yet is the parent of the type found last.
LEMMA RoundOrderly ==
  ASSUME HierarchyTypeOK, Unambiguous, NEW t \in TypeNames, NEW s \in Orderly(t), s.queue # <<>>
  PROVE  UpStep[s] \in Orderly(t)
<1> DEFINE q == s.queue
           F == Range(s.found)
           u == Latest(t, s.found)
           c == NativeChain(u)
           h == Head(q)
           rest == Tail(q)
           found == Append(s.found, h)
           p == Parents(h, found)
           d == NativeChain(h)
<1>1. /\ s \in Searches /\ s \notin Ended
      /\ Stepwise(t, s.found)
      /\ u \in TypeNames => F \subseteq TypeNames
      /\ u \notin TypeNames => Range(c) \cap F = {}
      /\ \A j \in DOMAIN q : Due(q, F \cup ParentsOf(u), c, j)
  BY DEF Orderly, Ended
<1>2. /\ Round(s) \in Searches
      /\ h \in AllTypes /\ found \in Seq(AllTypes)
      /\ q \in Seq(AllTypes) /\ s.found \in Seq(AllTypes)
      /\ h \in F => Round(s) = [queue |-> rest, found |-> s.found]
      /\ h \notin F => Round(s) = [queue |-> rest \o p, found |-> found]
  BY <1>1, RoundFacts
<1>3. UpStep[s] = Round(s)
  BY <1>1 DEF UpStep
<1>4. /\ rest \in Seq(AllTypes) /\ Len(rest) \in Nat /\ Len(q) = Len(rest) + 1
      /\ DOMAIN q = 1 .. Len(q) /\ DOMAIN rest = 1 .. Len(rest) /\ q[1] = h
      /\ \A j \in 1 .. Len(rest) : rest[j] = q[j + 1]
  <2> HIDE DEF q
  <2> QED  BY <1>2 DEF q
<1>5. u \in AllTypes
  <2>1. CASE s.found = <<>>
    BY <2>1 DEF Latest, AllTypes
  <2>2. CASE s.found # <<>>
    <3>1. Len(s.found) \in DOMAIN s.found
      BY <1>2, <2>2
    <3> QED  BY <1>2, <2>2, <3>1 DEF Latest
  <2> QED  BY <2>1, <2>2
<1>6. /\ c \in Seq(Natives) /\ Len(c) \in Nat /\ DOMAIN c = 1 .. Len(c)
      /\ u \in TypeNames => c = <<>>
  <2>1. c \in Seq(Natives) /\ (u \in TypeNames => c = <<>>)
    BY <1>5, ChainStep, ParentsOfFacts
  <2> HIDE DEF c
  <2> QED  BY <2>1
<1> HIDE DEF q, F, u, c, h, rest, found, p
<1>7. CASE h \in F
  <2>1. ASSUME NEW j \in DOMAIN rest PROVE Due(rest, F \cup ParentsOf(u), c, j)
    <3>1. j + 1 \in DOMAIN q /\ rest[j] = q[j + 1] /\ j \in Nat
      BY <1>4
    <3>2. Due(q, F \cup ParentsOf(u), c, j + 1)
      BY <1>1, <3>1
    <3>3. ASSUME NEW m \in 2 .. Len(c), NEW i \in 1 .. j, q[i] = c[m - 1]
          PROVE  i - 1 \in 1 .. (j - 1) /\ rest[i - 1] = c[m - 1]
      <4>1. m - 1 \in DOMAIN c /\ c # <<>>
        BY <1>6, <3>3
      <4>2. c[m - 1] \notin F
        BY <1>1, <1>6, <4>1 DEF Range
      <4>3. i # 1
        BY <1>4, <1>7, <3>3, <4>2
      <4>4. i - 1 \in 1 .. (j - 1) /\ i - 1 \in 1 .. Len(rest) /\ (i - 1) + 1 = i
        BY <1>4, <3>1, <4>3
      <4> QED  BY <1>4, <3>3, <4>4
    <3>4. (j + 1) - 1 = j
      BY <3>1
    <3> QED  BY <3>1, <3>2, <3>3, <3>4 DEF Due
  <2>2. Round(s).queue = rest /\ Round(s).found = s.found
    BY <1>2, <1>7
  <2> QED  BY <1>1, <1>2, <1>3, <2>1, <2>2 DEF Orderly, F, u, c
<1>8. CASE h \notin F
  <2>1. h \in ParentsOf(u)
    <3>0. 1 \in DOMAIN q
      BY <1>4
    <3>1. Due(q, F \cup ParentsOf(u), c, 1)
      BY <1>1, <3>0
    <3>2. 1 .. (1 - 1) = {}
      OBVIOUS
    <3> QED  BY <1>4, <1>8, <3>1, <3>2 DEF Due
  <2>2. ParentsOf(u) = {h}
    BY <1>5, <2>1, SingleParent
  <2>3. Stepwise(t, found) /\ Latest(t, found) = h
    <3> DEFINE old == s.found
    <3>1. /\ old \in Seq(AllTypes) /\ Stepwise(t, old) /\ ParentsOf(Latest(t, old)) = {h}
          /\ t \in AllTypes
      BY <1>1, <1>2, <2>2 DEF u, AllTypes
    <3> HIDE DEF old
    <3>2. Stepwise(t, Append(old, h)) /\ Latest(t, Append(old, h)) = h
      BY <1>2, <3>1, StepwiseExtends
    <3> QED  BY <3>2 DEF old, found
  <2>4. Range(found) = F \cup {h}
    <3> DEFINE old == s.found
    <3>1. old \in Seq(AllTypes)
      BY <1>2
    <3> HIDE DEF old
    <3>2. Range(Append(old, h)) = Range(old) \cup {h}
      BY <1>2, <3>1, AppendQueue
    <3> QED  BY <3>2 DEF old, found, F
  <2>5. u \notin TypeNames =>
          /\ h \in Natives /\ Len(d) \in Nat /\ d \in Seq(Natives)
          /\ Len(c) = Len(d) + 1 /\ c[1] = h
          /\ \A n \in 1 .. Len(d) : c[n + 1] = d[n]
    <3> SUFFICES ASSUME u \notin TypeNames
                 PROVE  /\ h \in Natives /\ Len(d) \in Nat /\ d \in Seq(Natives)
                        /\ Len(c) = Len(d) + 1 /\ c[1] = h
                        /\ \A n \in 1 .. Len(d) : c[n + 1] = d[n]
      OBVIOUS
    <3>1. Declared(u) = {}
      BY <1>5, ParentsOfFacts DEF AllTypes
    <3> QED  BY <1>5, <2>1, <3>1, ChainNext DEF c
  <2>6. h \in TypeNames => Range(found) \subseteq TypeNames
    <3>1. h \in TypeNames => u \in TypeNames
      BY <2>5, HierarchyAssumption
    <3> QED  BY <1>1, <2>4, <3>1
  <2>7. d \in Seq(Natives) /\ Len(d) \in Nat /\ DOMAIN d = 1 .. Len(d) /\ h \notin Range(d)
        /\ Injective(d)
    <3>1. d \in Seq(Natives) /\ h \notin Range(d) /\ Injective(d)
      BY <1>2, ChainStep, ChainOnce
    <3> HIDE DEF d
    <3> QED  BY <3>1
  <2>8. h \notin TypeNames => Range(d) \cap Range(found) = {}
    <3>1. CASE u \in TypeNames
      <4>1. Range(d) \subseteq Natives
        BY <2>7 DEF Range
      <4> QED  BY <1>1, <2>4, <2>7, <3>1, <4>1, HierarchyAssumption
    <3>2. CASE u \notin TypeNames
      <4>1. Range(d) \subseteq Range(c)
        <5>1. \A n \in DOMAIN d : n + 1 \in DOMAIN c /\ d[n] = c[n + 1]
          BY <1>6, <2>5, <2>7, <3>2
        <5> QED  BY <5>1 DEF Range
      <4> QED  BY <1>1, <2>4, <2>7, <3>2, <4>1
    <3> QED  BY <3>1, <3>2
  <2>9. p \in Seq(AllTypes) /\ Len(p) \in Nat /\ DOMAIN p = 1 .. Len(p)
    <3>1. p \in Seq(AllTypes)
      BY <1>2, ParentsFacts DEF p
    <3> QED  BY <3>1
  <2>10. /\ h \in TypeNames => Range(p) \subseteq ParentsOf(h)
         /\ h \notin TypeNames => p = d
    BY <1>2, <2>8, ParentsOrder DEF p, AllTypes
  <2>11. h \notin TypeNames /\ d # <<>> => d[1] \in ParentsOf(h)
    BY <1>2, ParentsOfFacts, ChainFirst DEF AllTypes
  <2> HIDE DEF d
  <2> DEFINE new == rest \o p
             G == Range(found) \cup ParentsOf(h)
  <2>12. /\ DOMAIN new = 1 .. (Len(rest) + Len(p))
         /\ \A j \in 1 .. Len(rest) : new[j] = rest[j]
         /\ \A j \in 1 .. Len(p) : new[Len(rest) + j] = p[j]
    BY <1>4, <2>9
  <2> HIDE DEF new
  <2>13. ASSUME NEW j \in 1 .. Len(rest) PROVE Due(new, G, d, j)
    <3>1. j + 1 \in DOMAIN q /\ new[j] = q[j + 1] /\ j \in Nat /\ (j + 1) - 1 = j
      BY <1>4, <2>12
    <3>2. Due(q, F \cup ParentsOf(u), c, j + 1)
      BY <1>1, <3>1
    <3>3. CASE q[j + 1] \in F \cup ParentsOf(u)
      BY <2>2, <2>4, <3>1, <3>3 DEF Due
    <3>4. CASE \E m \in 2 .. Len(c) : q[j + 1] = c[m] /\ \E i \in 1 .. j : q[i] = c[m - 1]
      <4>1. PICK m \in 2 .. Len(c) : q[j + 1] = c[m] /\ \E i \in 1 .. j : q[i] = c[m - 1]
        BY <3>4
      <4>2. PICK i \in 1 .. j : q[i] = c[m - 1]
        BY <4>1, SMTT(60)
      <4>3. c # <<>>
        BY <1>6
      <4>4. u \notin TypeNames /\ Len(c) = Len(d) + 1 /\ c[1] = h /\ h \in Natives
            /\ \A n \in 1 .. Len(d) : c[n + 1] = d[n]
        BY <1>6, <2>5, <4>3, Zenon
      <4>5. h \notin TypeNames
        BY <4>4, HierarchyAssumption
      <4>6. m - 1 \in 1 .. Len(d) /\ new[j] = d[m - 1]
        <5>1. m - 1 \in 1 .. Len(d) /\ (m - 1) + 1 = m
          BY <2>7, <4>4
        <5> QED  BY <3>1, <4>1, <4>4, <5>1
      <4>7. CASE m = 2
        <5>1. d # <<>> /\ new[j] = d[1]
          BY <2>7, <4>6, <4>7
        <5> QED  BY <2>11, <4>5, <5>1 DEF Due
      <4>8. CASE m # 2
        <5>1. m - 2 \in 1 .. Len(d) /\ (m - 2) + 1 = m - 1 /\ m - 1 \in 2 .. Len(d)
              /\ (m - 1) - 1 = m - 2
          BY <4>6, <4>8, <2>7
        <5>2. c[m - 1] = d[m - 2]
          BY <4>4, <5>1
        <5>3. d[m - 2] # h
          BY <2>7, <5>1 DEF Range
        <5>4. i # 1
          BY <1>4, <4>2, <5>2, <5>3
        <5>5. i - 1 \in 1 .. (j - 1) /\ i - 1 \in 1 .. Len(rest) /\ (i - 1) + 1 = i
          BY <1>4, <5>4
        <5>6. new[i - 1] = d[(m - 1) - 1]
          BY <1>4, <2>12, <4>2, <5>1, <5>2, <5>5
        <5> QED  BY <4>6, <5>1, <5>5, <5>6 DEF Due
      <4> QED  BY <4>7, <4>8
    <3> QED  BY <3>1, <3>2, <3>3, <3>4 DEF Due
  <2>14. ASSUME NEW n \in 1 .. Len(p) PROVE Due(new, G, d, Len(rest) + n)
    <3>1. new[Len(rest) + n] = p[n]
      BY <2>12
    <3>2. CASE h \in TypeNames
      BY <2>9, <2>10, <3>1, <3>2 DEF Due, Range
    <3>3. CASE h \notin TypeNames /\ n = 1
      <4>1. d # <<>> /\ p[n] = d[1]
        BY <2>7, <2>10, <3>3
      <4> QED  BY <2>11, <3>1, <3>3, <4>1 DEF Due
    <3>4. CASE h \notin TypeNames /\ n # 1
      <4> DEFINE i == Len(rest) + n - 1
      <4>1. /\ n \in 2 .. Len(d) /\ i \in 1 .. (Len(rest) + n - 1)
            /\ n - 1 \in 1 .. Len(p) /\ i = Len(rest) + (n - 1)
        BY <1>4, <2>9, <2>10, <3>4
      <4>2. new[i] = d[n - 1] /\ new[Len(rest) + n] = d[n]
        BY <2>10, <2>12, <3>1, <3>4, <4>1
      <4> HIDE DEF i
      <4> QED  BY <4>1, <4>2 DEF Due
    <3> QED  BY <3>2, <3>3, <3>4
  <2>15. \A j \in DOMAIN new : Due(new, G, d, j)
    <3> TAKE j \in DOMAIN new
    <3>1. CASE j \in 1 .. Len(rest)
      BY <2>13, <3>1
    <3>2. CASE j \notin 1 .. Len(rest)
      <4>1. j - Len(rest) \in 1 .. Len(p) /\ Len(rest) + (j - Len(rest)) = j
        BY <1>4, <2>9, <2>12, <3>2
      <4>2. Due(new, G, d, Len(rest) + (j - Len(rest)))
        BY <2>14, <4>1
      <4> QED  BY <4>1, <4>2
    <3> QED  BY <3>1, <3>2
  <2> DEFINE r == Round(s)
  <2>16. r.queue = new /\ r.found = found /\ r \in Searches
    BY <1>2, <1>8 DEF new
  <2> HIDE DEF r
  <2>17. r \in Orderly(t)
    BY <2>3, <2>6, <2>8, <2>15, <2>16 DEF Orderly, d
  <2> QED  BY <1>3, <2>17 DEF r
<1> QED  BY <1>7, <1>8

\* The property DistanceCountsSteps, from the types alone.
LEMMA DistanceProved ==
  ASSUME HierarchyTypeOK PROVE DistanceCountsSteps
<1> SUFFICES ASSUME Unambiguous, NEW t \in AllTypes
             PROVE  Stepwise(t, Ancestors(t))
  <2>1. ASSUME NEW t \in AllTypes, Stepwise(t, Ancestors(t)), NEW i \in DOMAIN Ancestors(t)
        PROVE  ParentsOf(Hierarchy(t)[i]) = {Ancestors(t)[i]}
    <3> DEFINE a == Ancestors(t)
    <3>1. a \in Seq(AllTypes)
      BY AncestorsFacts
    <3>2. Hierarchy(t) = <<t>> \o a
      BY DEF Hierarchy
    <3>3. Hierarchy(t)[i] = IF i = 1 THEN t ELSE a[i - 1]
      <4> HIDE DEF a
      <4>1. i \in 1 .. Len(a) /\ Len(a) \in Nat
        BY <2>1, <3>1 DEF a
      <4> QED  BY <3>1, <3>2, <4>1
    <3> QED  BY <2>1, <3>3 DEF Stepwise
  <2> QED  BY <2>1 DEF DistanceCountsSteps
<1>1. CASE Bases(t) = <<>>
  <2> DEFINE c == NativeChain(t)
  <2>1. c \in Seq(Natives) /\ Declared(t) = {}
    BY <1>1, ChainStep, BasesFacts
  <2>2. ASSUME NEW i \in DOMAIN c
        PROVE  ParentsOf(IF i = 1 THEN t ELSE c[i - 1]) = {c[i]}
    <3>1. i \in 1 .. Len(c) /\ Len(c) \in Nat /\ c # <<>>
      <4> HIDE DEF c
      <4> QED  BY <2>1
    <3>2. CASE i = 1
      BY <2>1, <3>1, <3>2, ChainFirst
    <3>3. CASE i # 1
      <4> DEFINE k == i - 1
                 v == c[k]
      <4>1. k \in 1 .. Len(c) /\ 1 \in 1 .. Len(c) - k /\ k + 1 = i
        BY <3>1, <3>3
      <4>2. Len(NativeChain(v)) = Len(c) - k /\ NativeChain(v)[1] = c[i]
        <5>1. /\ Len(NativeChain(v)) = Len(c) - k
              /\ \A n \in 1 .. Len(c) - k : NativeChain(v)[n] = c[k + n]
          BY <4>1, ChainTail
        <5> HIDE DEF c, k, v
        <5> QED  BY <4>1, <5>1
      <4>3. v \in Natives
        <5> HIDE DEF c
        <5> QED  BY <2>1, <4>1
      <4>4. v \in AllTypes /\ Declared(v) = {} /\ NativeChain(v) \in Seq(Natives)
        BY <4>3, ParentsOfFacts, ChainStep DEF AllTypes
      <4> HIDE DEF c, k, v
      <4>5. NativeChain(v) # <<>>
        BY <4>1, <4>2, <4>4, <3>1
      <4>6. ParentsOf(v) = {NativeChain(v)[1]}
        BY <4>4, <4>5, ChainFirst
      <4> QED  BY <3>3, <4>2, <4>6 DEF v, k
    <3> QED  BY <3>2, <3>3
  <2> QED  BY <1>1, <2>2 DEF Stepwise, Ancestors
<1>2. CASE Bases(t) # <<>>
  <2> DEFINE I == Searching(t) \cap Orderly(t)
             U == Inherited(t)
             Good == {q \in Seq(AllTypes) : Stepwise(t, q)}
             s == [queue |-> Bases(t), found |-> <<>>]
  <2>1. IsFiniteSet(U)
    <3>1. Inherited(t) \in SUBSET Known
      BY InheritedFacts
    <3> QED  BY <3>1, KnownFacts, FS_Subset
  <2>2. I \in SUBSET Searches /\ \A r \in I : Range(r.queue) \subseteq U
    BY DEF Searching
  <2>3. t \in TypeNames
    BY <1>2, BasesFacts, ParentsOfFacts DEF AllTypes
  <2>4. \A r \in I : r.queue # <<>> => UpStep[r] \in I
    BY <2>3, RoundSearches, RoundOrderly
  <2>5. \A r \in I : r.queue = <<>> => r.found \in Good
    BY DEF Orderly, Searches
  <2>6. s \in I
    <3>1. s \in Searching(t)
      BY <1>2, SearchStarts
    <3>2. s \in Searches /\ s.queue = Bases(t) /\ s.found = <<>>
      BY <3>1 DEF Searching
    <3>3. Latest(t, s.found) = t /\ Stepwise(t, s.found) /\ Range(s.found) = {}
      BY <3>2, EmptyQueue DEF Latest, Stepwise
    <3>4. Range(Bases(t)) \subseteq ParentsOf(t)
      BY <1>2, BasesFacts, ParentsOfFacts
    <3> HIDE DEF s
    <3>5. s \in Orderly(t)
      BY <2>3, <3>2, <3>3, <3>4 DEF Orderly, Due, Range
    <3> QED  BY <3>1, <3>5
  <2>7. IsLoop(Search, Searches, Ended, UpStep, FoundOf) /\ Takes(UpStep)
    BY SearchDef
  <2>8. \A r \in I : Search[r] \in Good
    <3> HIDE DEF I, U, Good
    <3> QED  BY <2>1, <2>2, <2>4, <2>5, <2>7, SearchKeeps, ZenonT(40)
  <2>9. Ancestors(t) = Search[s]
    BY <1>2 DEF Ancestors
  <2> QED  BY <2>6, <2>8, <2>9
<1> QED  BY <1>1, <1>2

-----------------------------------------------------------------------------
(* The members.                                                            *)

\* A finite set can be listed by increasing key.
LEMMA SortedOrder ==
  ASSUME NEW C, IsFiniteSet(C), NEW key \in [C -> Nat]
  PROVE  \E q \in [1 .. Cardinality(C) -> C] :
           /\ IsInjective(q)
           /\ \A i, j \in DOMAIN q : i < j => key[q[i]] <= key[q[j]]
<1> DEFINE Lists(D) == {q \in [1 .. Cardinality(D) -> D] :
                          /\ IsInjective(q)
                          /\ \A i, j \in DOMAIN q : i < j => key[q[i]] <= key[q[j]]}
           Bad == {D \in SUBSET C : Lists(D) = {}}
           Sizes == {Cardinality(D) : D \in Bad}
<1>1. \A D \in SUBSET C : IsFiniteSet(D) /\ Cardinality(D) \in Nat
  BY FS_Subset, FS_CardinalityType
<1>2. ASSUME Lists(C) = {} PROVE FALSE
  <2>1. Sizes \in SUBSET Nat /\ Sizes # {}
    BY <1>1, <1>2
  <2>2. PICK m \in Sizes : \A n \in Sizes : m <= n
    <3> HIDE DEF Sizes
    <3> QED  BY <2>1, LeastNatural
  <2>3. PICK D \in Bad : Cardinality(D) = m
    OBVIOUS
  <2>a. \A X \in SUBSET C : X \in Bad <=> Lists(X) = {}
    OBVIOUS
  <2>b. \A X \in Bad : X \in SUBSET C /\ Cardinality(X) \in Sizes
    OBVIOUS
  <2>c. \A X : \A q : q \in Lists(X) <=> /\ q \in [1 .. Cardinality(X) -> X]
                                        /\ IsInjective(q)
                                        /\ \A i, j \in DOMAIN q : i < j => key[q[i]] <= key[q[j]]
    OBVIOUS
  <2>d. m \in Nat /\ \A n \in Sizes : n \in Nat
    BY <2>1
  <2> HIDE DEF Lists, Bad, Sizes
  <2>4. D \in SUBSET C /\ Lists(D) = {} /\ IsFiniteSet(D) /\ m \in Nat
    BY <1>1, <2>a, <2>b, <2>d, <2>3
  <2>5. D # {}
    <3> SUFFICES ASSUME D = {} PROVE FALSE
      OBVIOUS
    <3>1. Cardinality(D) = 0 /\ 1 .. 0 = {}
      BY FS_EmptySet
    <3> DEFINE q == [i \in {} |-> i]
    <3>2. q \in [1 .. Cardinality(D) -> D] /\ DOMAIN q = {}
      BY <3>1
    <3> HIDE DEF q
    <3>3. q \in Lists(D)
      BY <2>c, <3>2 DEF IsInjective
    <3> QED  BY <2>4, <3>3
  <2>6. PICK d \in D : \A x \in D : key[d] <= key[x]
    <3> DEFINE K == {key[x] : x \in D}
    <3>1. K \in SUBSET Nat /\ K # {}
      BY <2>4, <2>5
    <3>2. PICK k \in K : \A n \in K : k <= n
      <4> HIDE DEF K
      <4> QED  BY <3>1, LeastNatural
    <3> QED  BY <3>2
  <2> DEFINE E == D \ {d}
  <2>7. Cardinality(E) = m - 1 /\ Cardinality(E) \in Nat /\ E \in SUBSET C
    BY <1>1, <2>3, <2>4, <2>6, FS_RemoveElement
  <2>8. E \notin Bad
    <3>1. Cardinality(E) < m
      BY <2>4, <2>7
    <3>2. ~(m <= Cardinality(E))
      BY <2>4, <2>7, <3>1
    <3> QED  BY <2>2, <2>b, <3>2
  <2>9. PICK r \in Lists(E) : TRUE
    BY <2>a, <2>7, <2>8
  <2> DEFINE n == m - 1
             q == [i \in 1 .. m |-> IF i = 1 THEN d ELSE r[i - 1]]
  <2>10. /\ r \in [1 .. n -> E] /\ IsInjective(r)
         /\ \A i, j \in 1 .. n : i < j => key[r[i]] <= key[r[j]]
         /\ n \in Nat /\ m = n + 1 /\ m \in Nat
    BY <2>c, <2>4, <2>7, <2>9, SMTT(40)
  <2> HIDE DEF n
  <2>11. ASSUME NEW i \in 1 .. m, i # 1
         PROVE  i - 1 \in 1 .. n /\ q[i] = r[i - 1] /\ q[i] \in E
    <3>1. i - 1 \in 1 .. n /\ q[i] = r[i - 1]
      BY <2>10, <2>11
    <3>2. r[i - 1] \in E
      BY <2>10, <3>1
    <3> QED  BY <3>1, <3>2
  <2>12. m \in Nat /\ m >= 1 /\ q[1] = d /\ DOMAIN q = 1 .. m
    BY <2>10
  <2>13. q \in [1 .. m -> D]
    <3>1. \A i \in 1 .. m : q[i] \in D
      BY <2>6, <2>11, <2>12
    <3> QED  BY <3>1
  <2> HIDE DEF q
  <2>14. ASSUME NEW i \in 1 .. m, NEW j \in 1 .. m, q[i] = q[j] PROVE i = j
    <3>1. CASE i = 1 \/ j = 1
      BY <2>11, <2>12, <2>14, <3>1
    <3>2. CASE i # 1 /\ j # 1
      <4>1. i - 1 \in 1 .. n /\ j - 1 \in 1 .. n /\ r[i - 1] = r[j - 1]
        BY <2>11, <2>14, <3>2
      <4>2. i - 1 = j - 1
        BY <2>10, <4>1 DEF IsInjective
      <4> QED  BY <4>2
    <3> QED  BY <3>1, <3>2
  <2>15. ASSUME NEW i \in 1 .. m, NEW j \in 1 .. m, i < j PROVE key[q[i]] <= key[q[j]]
    <3>1. CASE i = 1
      BY <2>6, <2>12, <2>13, <3>1
    <3>2. CASE i # 1
      <4>1. i - 1 < j - 1 /\ j # 1
        BY <2>12, <2>15, <3>2
      <4>2. /\ i - 1 \in 1 .. n /\ j - 1 \in 1 .. n
            /\ q[i] = r[i - 1] /\ q[j] = r[j - 1]
        BY <2>11, <3>2, <4>1
      <4> QED  BY <2>10, <4>1, <4>2
    <3> QED  BY <3>1, <3>2
  <2>16. q \in Lists(D)
    BY <2>c, <2>3, <2>12, <2>13, <2>14, <2>15 DEF IsInjective
  <2> QED  BY <2>4, <2>16
<1> QED  BY <1>2

\* Min() of a set of natural numbers is its least element.
LEMMA MinFacts ==
  ASSUME NEW T \in SUBSET Nat, T # {}
  PROVE  Min(T) \in T /\ \A n \in T : Min(T) <= n
<1>1. \E m \in T : \A n \in T : m <= n
  BY LeastNatural
<1> QED  BY <1>1 DEF Min

\* The hierarchy of a type lists it and what it inherits from, each at a finite distance.
LEMMA HierarchyFacts ==
  ASSUME HierarchyTypeOK, NEW t \in AllTypes
  PROVE  /\ Hierarchy(t) \in Seq(AllTypes)
         /\ Range(Hierarchy(t)) = {t} \cup Inherited(t)
         /\ t \notin Inherited(t) => Injective(Hierarchy(t))
         /\ \A u \in Range(Hierarchy(t)) : Distance(t, u) \in Nat
<1> DEFINE one == <<t>>
           a == Ancestors(t)
           h == Hierarchy(t)
<1>1. /\ one \in Seq(AllTypes) /\ Range(one) = {t} /\ Injective(one)
      /\ h = one \o a
  BY DEF Range, Injective, Hierarchy
<1>2. a \in Seq(AllTypes) /\ Range(a) = Inherited(t) /\ Injective(a)
  BY AncestorsFacts
<1>3. h = Hierarchy(t)
  OBVIOUS
<1> HIDE DEF one, a, h
<1>4. /\ h \in Seq(AllTypes) /\ Range(h) = {t} \cup Inherited(t)
      /\ t \notin Inherited(t) => Injective(h)
  BY <1>1, <1>2, ConcatFacts
<1>5. ASSUME NEW u \in Range(h) PROVE Distance(t, u) \in Nat
  <2> DEFINE places == {i \in DOMAIN h : h[i] = u}
  <2>1. DOMAIN h = 1 .. Len(h) /\ Len(h) \in Nat
    BY <1>4
  <2>2. places \in SUBSET Nat /\ places # {} /\ \A i \in places : i >= 1
    BY <1>5, <2>1 DEF Range
  <2>3. Distance(t, u) = IF places = {} THEN Infinity ELSE Min(places) - 1
    BY <1>3 DEF Distance
  <2> HIDE DEF places
  <2>4. Min(places) \in places
    BY <2>2, MinFacts
  <2>5. Min(places) \in Nat /\ Min(places) >= 1
    BY <2>2, <2>4
  <2>6. Distance(t, u) = Min(places) - 1
    BY <2>2, <2>3
  <2> QED  BY <2>5, <2>6
<1> QED  BY <1>3, <1>4, <1>5

\* The members of the hierarchy of t, with their places in it.
Collected(t) ==
  {p \in (DOMAIN Hierarchy(t)) \X members : p[2].owner = Hierarchy(t)[p[1]]}

\* getMemberClosure() lists what it collected, sorted by distance.
LEMMA ClosureFacts ==
  ASSUME HierarchyTypeOK, IsFiniteSet(members), NEW t \in AllTypes
  PROVE  \E q \in [1 .. Cardinality(Collected(t)) -> Collected(t)] :
           /\ Injective(q) /\ Range(q) = Collected(t)
           /\ \A i, j \in DOMAIN q : i < j =>
                Distance(t, q[i][2].owner) <= Distance(t, q[j][2].owner)
           /\ MemberClosure(t) = [i \in DOMAIN q |-> MemberEntry(q[i][2], t)]
<1> DEFINE h == Hierarchy(t)
           C == Collected(t)
           n == Cardinality(C)
           key == [p \in C |-> Distance(t, p[2].owner)]
           entry(p) == MemberEntry(p[2], t)
           Sorts(q) == /\ IsInjective(q)
                       /\ \A i, j \in DOMAIN q : i < j => entry(q[i]).distance <= entry(q[j]).distance
           order == CHOOSE q \in [1 .. n -> C] : Sorts(q)
<1>1. h \in Seq(AllTypes) /\ \A u \in Range(h) : Distance(t, u) \in Nat
  BY HierarchyFacts
<1>2. IsFiniteSet(C) /\ n \in Nat
  <2>1. IsFiniteSet(DOMAIN h)
    <3>1. DOMAIN h = 1 .. Len(h) /\ Len(h) \in Nat
      <4> HIDE DEF h
      <4> QED  BY <1>1
    <3> QED  BY <3>1, FS_Interval
  <2>2. IsFiniteSet((DOMAIN h) \X members)
    BY <2>1, FS_Product
  <2>3. C \in SUBSET ((DOMAIN h) \X members)
    BY DEF Collected
  <2>4. IsFiniteSet(C)
    <3> HIDE DEF C
    <3> QED  BY <2>2, <2>3, FS_Subset
  <2> QED  BY <2>4, FS_CardinalityType
<1>3. key \in [C -> Nat]
  <2>1. \A p \in C : p[2].owner \in Range(h)
    BY DEF Collected, Range
  <2> QED  BY <1>1, <2>1
<1>4. \A p \in C : entry(p).distance = key[p]
  BY DEF MemberEntry
<1>5. MemberClosure(t) = [i \in DOMAIN order |-> entry(order[i])]
  BY DEF MemberClosure, Collected
<1> HIDE DEF C, n, key, entry
<1>6. \E q \in [1 .. n -> C] : Sorts(q)
  <2>1. PICK q \in [1 .. n -> C] :
              /\ IsInjective(q)
              /\ \A i, j \in DOMAIN q : i < j => key[q[i]] <= key[q[j]]
    BY <1>2, <1>3, SortedOrder DEF n
  <2>2. \A i \in DOMAIN q : q[i] \in C
    BY <2>1
  <2> QED  BY <1>4, <2>1, <2>2
<1>7. order \in [1 .. n -> C] /\ Sorts(order)
  BY <1>6
<1> HIDE DEF order
<1>8. \A i \in DOMAIN order : order[i] \in C
  BY <1>7
<1>9. Range(order) = C
  <2>1. order \in Injection(1 .. n, C)
    BY <1>7 DEF Injection
  <2>2. Cardinality(1 .. n) = n
    BY <1>2, FS_Interval
  <2>3. order \in Surjection(1 .. n, C)
    BY <1>2, <2>1, <2>2, FS_Injection DEF n
  <2> QED  BY <1>7, <2>3 DEF Surjection, Range
<1>10. Injective(order)
  BY <1>7 DEF IsInjective, Injective
<1>11. \A i, j \in DOMAIN order : i < j =>
         Distance(t, order[i][2].owner) <= Distance(t, order[j][2].owner)
  BY <1>4, <1>7, <1>8 DEF key
<1> QED  BY <1>5, <1>7, <1>9, <1>10, <1>11 DEF n, C, entry

\* The property ClosureIsConsistent, from the types and that members are finitely many.
LEMMA ClosureProved ==
  ASSUME HierarchyTypeOK, IsFiniteSet(members) PROVE ClosureIsConsistent
<1> SUFFICES ASSUME Acyclic, NEW t \in TypeNames
             PROVE
    LET closure == MemberClosure(t)
        entries == ToSet(closure)
    IN /\ Once([i \in DOMAIN closure |-> closure[i].member])
       /\ {x.member : x \in entries} = {m \in members : m.owner \in {t} \cup Inherited(t)}
       /\ \A i, j \in DOMAIN closure : i < j => closure[i].distance <= closure[j].distance
       /\ \A x \in entries :
            /\ x.relation = "override" <=>
                 \E y \in entries : y.overridden /\ x.member.owner = t
                                    /\ y.member.key = x.member.key
            /\ x.accessible <=> (x.member.access = "private" => x.relation # "inherited")
  BY DEF ClosureIsConsistent
<1> DEFINE closure == MemberClosure(t)
           entries == ToSet(closure)
           Mine == {m \in members : m.owner \in {t} \cup Inherited(t)}
           h == Hierarchy(t)
<1>1. t \in AllTypes /\ t \notin Inherited(t)
  BY DEF Acyclic, AllTypes
<1>2. Range(h) = {t} \cup Inherited(t) /\ Injective(h)
  BY <1>1, HierarchyFacts
<1>3. PICK q \in [1 .. Cardinality(Collected(t)) -> Collected(t)] :
        /\ Injective(q) /\ Range(q) = Collected(t)
        /\ \A i, j \in DOMAIN q : i < j =>
             Distance(t, q[i][2].owner) <= Distance(t, q[j][2].owner)
        /\ closure = [i \in DOMAIN q |-> MemberEntry(q[i][2], t)]
  BY <1>1, ClosureFacts
<1>4. DOMAIN closure = DOMAIN q /\ \A i \in DOMAIN q : closure[i] = MemberEntry(q[i][2], t)
  BY <1>3
<1>5. \A m : LET x == MemberEntry(m, t)
              IN  /\ x.member = m /\ x.distance = Distance(t, m.owner)
                  /\ x.relation = Relation(m, t) /\ (x.accessible <=> Accessible(m, t))
                  /\ x.overridden <=> m.owner # t /\ m.key \in Keys({t})
  BY DEF MemberEntry
<1>6. \A i \in DOMAIN q :
        /\ q[i] \in Collected(t) /\ q[i] = <<q[i][1], q[i][2]>> /\ q[i][1] \in DOMAIN h
        /\ q[i][2] \in members /\ q[i][2].owner = h[q[i][1]]
  BY <1>3 DEF Collected
<1> HIDE DEF closure, h
<1>7. Once([i \in DOMAIN closure |-> closure[i].member])
  <2>1. ASSUME NEW i \in DOMAIN q, NEW j \in DOMAIN q, q[i][2] = q[j][2] PROVE i = j
    <3>1. q[i][1] = q[j][1]
      BY <1>2, <1>6, <2>1 DEF Injective
    <3>2. q[i] = q[j]
      BY <1>6, <2>1, <3>1
    <3> QED  BY <1>3, <3>2 DEF Injective
  <2>2. \A i \in DOMAIN q : closure[i].member = q[i][2]
    BY <1>4, <1>5
  <2> QED  BY <1>4, <2>1, <2>2 DEF Once
<1>8. entries = {MemberEntry(m, t) : m \in Mine}
  <2>1. ASSUME NEW i \in DOMAIN q PROVE q[i][2] \in Mine
    BY <1>2, <1>6 DEF Range
  <2>2. ASSUME NEW m \in Mine PROVE \E i \in DOMAIN q : q[i][2] = m
    <3>1. PICK k \in DOMAIN h : h[k] = m.owner
      BY <1>2 DEF Range
    <3>2. <<k, m>> \in Collected(t)
      BY <3>1 DEF Collected, h
    <3>3. PICK i \in DOMAIN q : q[i] = <<k, m>>
      BY <1>3, <3>2 DEF Range
    <3> QED  BY <3>3
  <2>3. entries = {MemberEntry(q[i][2], t) : i \in DOMAIN q}
    BY <1>4 DEF ToSet
  <2> HIDE DEF Mine, entries
  <2> QED  BY <2>1, <2>2, <2>3
<1>9. {x.member : x \in entries} = Mine
  <2> HIDE DEF Mine, entries
  <2> QED  BY <1>5, <1>8
<1>10. \A i, j \in DOMAIN closure : i < j => closure[i].distance <= closure[j].distance
  BY <1>3, <1>4, <1>5
<1>11. ASSUME NEW m \in Mine
       PROVE  /\ Relation(m, t) = "override" <=>
                   \E o \in Mine : (o.owner # t /\ o.key \in Keys({t})) /\ m.owner = t
                                     /\ o.key = m.key
              /\ Accessible(m, t) <=> (m.access = "private" => Relation(m, t) # "inherited")
  <2>1. ToSet(Hierarchy(t)) \ {t} = Inherited(t)
    BY <1>1, <1>2, ToSetIsRange DEF h
  <2>2. \A U : Keys(U) = {o.key : o \in {x \in members : x.owner \in U}}
    BY DEF Keys, DeclaredBy
  <2>3. Relation(m, t) = "override" <=> m.owner = t /\ m.key \in Keys(Inherited(t))
    BY <2>1 DEF Relation
  <2>4. Relation(m, t) = "inherited" <=> m.owner # t
    BY DEF Relation
  <2>5. m.owner # t => IsDescendantOf(t, m.owner)
    <3>1. ToSet(Ancestors(t)) = Inherited(t)
      BY <1>1, AncestorsFacts, ToSetIsRange
    <3> QED  BY <3>1 DEF IsDescendantOf
  <2>6. m.access \in {"public", "protected", "private"}
    BY HierarchyAssumption DEF HierarchyTypeOK
  <2>7. Accessible(m, t) <=> (m.access = "private" => Relation(m, t) # "inherited")
    BY <2>4, <2>5, <2>6 DEF Accessible
  <2>8. m.owner = t /\ m.key \in Keys(Inherited(t)) <=>
          \E o \in Mine : (o.owner # t /\ o.key \in Keys({t})) /\ m.owner = t /\ o.key = m.key
    BY <1>1, <2>2
  <2> QED  BY <2>3, <2>7, <2>8
<1>12. \A x \in entries :
         /\ x.relation = "override" <=>
              \E y \in entries : y.overridden /\ x.member.owner = t
                                 /\ y.member.key = x.member.key
         /\ x.accessible <=> (x.member.access = "private" => x.relation # "inherited")
  <2> HIDE DEF Mine, entries
  <2> SUFFICES ASSUME NEW x \in entries
               PROVE  /\ x.relation = "override" <=>
                           \E y \in entries : y.overridden /\ x.member.owner = t
                                              /\ y.member.key = x.member.key
                      /\ x.accessible <=> (x.member.access = "private" => x.relation # "inherited")
    OBVIOUS
  <2>0. PICK m \in Mine : x = MemberEntry(m, t)
    BY <1>8
  <2>1. (\E y \in entries : y.overridden /\ m.owner = t /\ y.member.key = m.key)
         <=> \E o \in Mine : MemberEntry(o, t).overridden /\ m.owner = t
                            /\ MemberEntry(o, t).member.key = m.key
    BY <1>8
  <2>2. ASSUME NEW o PROVE /\ MemberEntry(o, t).member = o
                           /\ MemberEntry(o, t).overridden <=> o.owner # t /\ o.key \in Keys({t})
    BY <1>5
  <2>3. (\E y \in entries : y.overridden /\ m.owner = t /\ y.member.key = m.key)
         <=> \E o \in Mine : (o.owner # t /\ o.key \in Keys({t})) /\ m.owner = t /\ o.key = m.key
    BY <2>1, <2>2, ZenonT(40)
  <2>4. /\ MemberEntry(m, t).member = m
        /\ MemberEntry(m, t).relation = Relation(m, t)
        /\ MemberEntry(m, t).accessible <=> Accessible(m, t)
    BY <1>5
  <2>5. x.member = m /\ x.relation = Relation(m, t) /\ (x.accessible <=> Accessible(m, t))
    BY <2>0, <2>4
  <2>6. x.relation = "override" <=>
          \E y \in entries : y.overridden /\ x.member.owner = t /\ y.member.key = x.member.key
    <3>1. Relation(m, t) = "override" <=>
            \E y \in entries : y.overridden /\ m.owner = t /\ y.member.key = m.key
      BY <1>11, <2>3
    <3> QED  BY <2>5, <3>1
  <2>7. x.accessible <=> (x.member.access = "private" => x.relation # "inherited")
    BY <1>11, <2>5
  <2> QED  BY <2>6, <2>7
<1> QED  BY <1>7, <1>9, <1>10, <1>12 DEF closure

-----------------------------------------------------------------------------
(* The specification.                                                      *)

\* The inductive invariant: the type invariant, and that finitely many members are declared.
HierarchyInductive == HierarchyTypeOK /\ IsFiniteSet(members)

\* The invariant holds before anything is declared.
LEMMA HierarchyInitially == HierarchyInit => HierarchyInductive
<1> SUFFICES ASSUME HierarchyInit PROVE HierarchyInductive
  OBVIOUS
<1>1. types \in Seq(Declarations) /\ Len(types) = 0
  BY DEF HierarchyInit
<1>2. members = {} /\ IsFiniteSet({}) /\ Cardinality({}) = 0
  BY FS_EmptySet DEF HierarchyInit
<1> QED  BY <1>1, <1>2, HierarchyAssumption DEF HierarchyInductive, HierarchyTypeOK

\* Files that come, change and go keep it.
LEMMA HierarchyStep == HierarchyInductive /\ [HierarchyNext]_hierarchyVars => HierarchyInductive'
<1> SUFFICES ASSUME HierarchyInductive, [HierarchyNext]_hierarchyVars PROVE HierarchyInductive'
  OBVIOUS
<1>1. /\ types \in Seq(Declarations) /\ Len(types) \in Nat /\ Len(types) <= MaxTypes
      /\ members \subseteq Members /\ IsFiniteSet(members) /\ Cardinality(members) <= MaxMembers
      /\ Cardinality(members) \in Nat /\ MaxTypes \in Nat /\ MaxMembers \in Nat
  BY HierarchyAssumption, FS_CardinalityType DEF HierarchyInductive, HierarchyTypeOK
<1>2. ASSUME NEW d \in Declarations, Declare(d) PROVE HierarchyInductive'
  <2> DEFINE S == Declarations
  <2>1. types \in Seq(S) /\ d \in S
    BY <1>1, <1>2
  <2> HIDE DEF S
  <2>2. Append(types, d) \in Seq(S) /\ Len(Append(types, d)) = Len(types) + 1
    BY <2>1
  <2>3. /\ types' \in Seq(Declarations) /\ Len(types') <= MaxTypes
        /\ members' = members
    BY <1>1, <1>2, <2>2 DEF Declare, S
  <2> QED  BY <1>1, <2>3 DEF HierarchyInductive, HierarchyTypeOK
<1>3. ASSUME NEW i \in DOMAIN types, Withdraw(i) PROVE HierarchyInductive'
  <2> DEFINE S == Declarations
  <2>0. types \in Seq(S)
    BY <1>1
  <2> HIDE DEF S
  <2>1. types \in Seq(S) /\ i \in 1 .. Len(types) /\ Len(types) \in Nat
    BY <1>1, <2>0
  <2>2. RemoveAt(types, i) \in Seq(S)
    BY <2>1, RemoveAtFacts
  <2>3. Len(RemoveAt(types, i)) = Len(types) - 1
    <3> DEFINE a == SubSeq(types, 1, i - 1)
               b == SubSeq(types, i + 1, Len(types))
    <3>1. a \in Seq(S) /\ Len(a) = i - 1 /\ b \in Seq(S) /\ Len(b) = Len(types) - i
      BY <2>1
    <3>2. RemoveAt(types, i) = a \o b
      BY DEF RemoveAt
    <3> HIDE DEF a, b
    <3>3. Len(a \o b) = Len(a) + Len(b)
      BY <3>1
    <3> QED  BY <2>1, <3>1, <3>2, <3>3
  <2>4. /\ types' \in Seq(Declarations) /\ Len(types') <= MaxTypes
        /\ members' = members
    BY <1>1, <1>3, <2>2, <2>3 DEF Withdraw, S
  <2> QED  BY <1>1, <2>4 DEF HierarchyInductive, HierarchyTypeOK
<1>4. ASSUME NEW m \in Members, AddMember(m) PROVE HierarchyInductive'
  <2>1. /\ IsFiniteSet(members \cup {m})
        /\ Cardinality(members \cup {m}) = Cardinality(members) + 1
    BY <1>1, <1>4, FS_AddElement DEF AddMember
  <2>2. /\ types' = types /\ members' = members \cup {m} /\ Cardinality(members) < MaxMembers
    BY <1>4 DEF AddMember
  <2> QED  BY <1>1, <2>1, <2>2 DEF HierarchyInductive, HierarchyTypeOK
<1>5. ASSUME NEW m \in Members, RemoveMember(m) PROVE HierarchyInductive'
  <2>1. /\ IsFiniteSet(members \ {m})
        /\ Cardinality(members \ {m}) = Cardinality(members) - 1
    BY <1>1, <1>5, FS_RemoveElement DEF RemoveMember
  <2>2. types' = types /\ members' = members \ {m}
    BY <1>5 DEF RemoveMember
  <2> QED  BY <1>1, <2>1, <2>2 DEF HierarchyInductive, HierarchyTypeOK
<1>6. CASE UNCHANGED hierarchyVars
  BY <1>1, <1>6 DEF hierarchyVars, HierarchyInductive, HierarchyTypeOK
<1> QED  BY <1>2, <1>3, <1>4, <1>5, <1>6 DEF HierarchyNext

\* The invariant of the hierarchy.
LEMMA HierarchyAlways == HierarchySpec => []HierarchyInductive
BY HierarchyInitially, HierarchyStep, PTL DEF HierarchySpec

\* Every variable has its type, and the bounds on declarations and members are kept.
THEOREM HierarchyTypes == HierarchySpec => []HierarchyTypeOK
<1>1. HierarchyInductive => HierarchyTypeOK
  BY DEF HierarchyInductive
<1> QED  BY <1>1, HierarchyAlways, PTL

\* getAncestors() answers the closure of the relation to parents, each type once: whatever
\* the sources declare, in cycles and repeatedly, the search ends and misses nothing.
THEOREM AncestorsAreInherited == HierarchySpec => []AncestorsAreTheClosure
<1>1. HierarchyInductive => AncestorsAreTheClosure
  BY AncestorsProved DEF HierarchyInductive
<1> QED  BY <1>1, HierarchyAlways, PTL

\* When names are unambiguous, the search lists each ancestor right after its only child
\* in the list, so that its place is its distance.
THEOREM DistancesAreSteps == HierarchySpec => []DistanceCountsSteps
<1>1. HierarchyInductive => DistanceCountsSteps
  BY DistanceProved DEF HierarchyInductive
<1> QED  BY <1>1, HierarchyAlways, PTL

\* The search down, over the index of base types, answers the inverse of the search up.
THEOREM DescendantsAreTheInverse == HierarchySpec => []DescendantsInvertAncestors
<1>1. HierarchyInductive => DescendantsInvertAncestors
  BY DescendantsProved DEF HierarchyInductive
<1> QED  BY <1>1, HierarchyAlways, PTL

\* The member closure of a type that does not inherit from itself is complete, sorted and
\* consistent about overriding and access.
THEOREM ClosuresAreConsistent == HierarchySpec => []ClosureIsConsistent
<1>1. HierarchyInductive => ClosureIsConsistent
  BY ClosureProved DEF HierarchyInductive
<1> QED  BY <1>1, HierarchyAlways, PTL
=============================================================================
