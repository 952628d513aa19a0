------------------------ MODULE HierarchyProperties ------------------------
(***************************************************************************)
(* What the hierarchy of types promises, against definitions that know     *)
(* nothing of searches: the parents of a type and the paths they form.     *)
(***************************************************************************)
EXTENDS InheritanceGraph

\* Every variable has its type; a type is listed once per declaration.
HierarchyTypeOK ==
  /\ types \in Seq(Declarations) /\ Len(types) <= MaxTypes
  /\ members \subseteq Members /\ Cardinality(members) <= MaxMembers

-----------------------------------------------------------------------------

\* The types declared a base of t, or else the native parent of t.
ParentsOf(t) ==
  LET declared == {d.base : d \in {x \in ToSet(types) : x.name = t}} \ {NoBase}
  IN IF declared = {} /\ t \in DOMAIN NativeParent THEN {NativeParent[t]} ELSE declared

\* What t inherits from: the least set with the parents of t and those of its elements.
Inherited(t) ==
  LET closed == {S \in SUBSET AllTypes : \A u \in S \cup {t} : ParentsOf(u) \subseteq S}
  IN {u \in AllTypes : \A S \in closed : u \in S}

Once(q) == \A i, j \in DOMAIN q : q[i] = q[j] => i = j

\* No name is declared by two files, and no type inherits from itself.
Unambiguous == Once([i \in DOMAIN types |-> types[i].name])
Acyclic == \A t \in TypeNames : t \notin Inherited(t)

\* getAncestors() finds the types a type inherits from, each of them once, whatever cycles
\* the sources contain and however often a name is declared.
AncestorsAreTheClosure ==
  \A t \in AllTypes :
    /\ ToSet(Ancestors(t)) = Inherited(t)
    /\ Once(Ancestors(t))

\* When the names are unambiguous, each ancestor is followed by its parent, so that
\* getTypeDistance() counts the steps of inheritance.
DistanceCountsSteps ==
  Unambiguous => \A t \in AllTypes : \A i \in DOMAIN Ancestors(t) :
                   ParentsOf(Hierarchy(t)[i]) = {Ancestors(t)[i]}

\* getDescendants() and getAncestors(), which search different indexes, agree: the
\* declared types that inherit from a declared type are its descendants.
DescendantsInvertAncestors ==
  \A t \in TypeNames :
    /\ ToSet(Descendants(t)) = {u \in TypeNames : t \in ToSet(Ancestors(u))}
    /\ Once(Descendants(t))

\* getDescendants() returns the descendants without the type itself.
\* (InheritanceGraph.ts, comment of getDescendants)
DescendantsExcludeTheType ==
  \A t \in TypeNames : t \notin ToSet(Descendants(t))

\* Without cycles, getMemberClosure() lists each member of the hierarchy once, nearest
\* declaration first; a member the type declares itself overrides if and only if an
\* ancestor's entry says it is overridden, and only private members of ancestors are
\* out of reach.
ClosureIsConsistent ==
  Acyclic => \A t \in TypeNames :
    LET closure == MemberClosure(t)
        entries == ToSet(closure)
    IN /\ Once([i \in DOMAIN closure |-> closure[i].member])
       /\ {x.member : x \in entries} = {m \in members : m.owner \in {t} \cup Inherited(t)}
       /\ \A i, j \in DOMAIN closure : i < j => closure[i].distance <= closure[j].distance
       /\ \A x \in entries :
            /\ x.relation = "override" <=>
                 \E y \in entries : y.overridden /\ x.member.owner = t
                                    /\ y.member.key = x.member.key
            /\ x.accessible <=> (x.member.access = "private" => x.relation # "inherited")
=============================================================================
