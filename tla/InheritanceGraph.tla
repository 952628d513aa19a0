-------------------------- MODULE InheritanceGraph --------------------------
(***************************************************************************)
(* The algorithms of                                                       *)
(* src/server/knowledge/resolution/InheritanceGraph.ts, over the types and *)
(* members that the index publishes.  What its caches do is in             *)
(* InteractiveServing.                                                     *)
(*                                                                         *)
(* A type is declared by an entity [name, base]; base is NoBase when it    *)
(* has none, and a name may be declared by several files.  `types' lists   *)
(* the declarations in the order the index returns them.  A member is an   *)
(* entity [owner, key, access], whose key is what overriding goes by.      *)
(* Case and blanks in names, and the order of the members of one type, are *)
(* left out.                                                               *)
(***************************************************************************)
EXTENDS Naturals, FiniteSets, SequencesExt, Subsequences

CONSTANTS
  TypeNames,      \* the names the files declare
  Natives,        \* the types of the runtime
  NativeParent,   \* EXPLICIT_NATIVE_PARENT_TYPES: from a native type to its parent
  Members,        \* the members the files may declare
  NoBase,
  Infinity,       \* Number.POSITIVE_INFINITY
  MaxTypes,       \* bound on the number of declarations
  MaxMembers      \* bound on the number of members

AllTypes == TypeNames \cup Natives

Declarations == [name : TypeNames, base : AllTypes \cup {NoBase}]

\* The table of parents is finite and has no cycle: of any native types, one has no parent
\* among them.
ASSUME HierarchyAssumption ==
  /\ TypeNames \cap Natives = {} /\ NoBase \notin AllTypes
  /\ IsFiniteSet(Natives) /\ DOMAIN NativeParent \subseteq Natives
  /\ \A t \in DOMAIN NativeParent : NativeParent[t] \in Natives
  /\ \A T \in SUBSET Natives : T # {} =>
       \E t \in T : t \in DOMAIN NativeParent => NativeParent[t] \notin T
  /\ Members \subseteq [owner : TypeNames, key : STRING,
                        access : {"public", "protected", "private"}]
  /\ MaxTypes \in Nat /\ MaxMembers \in Nat

VARIABLES types, members

hierarchyVars == <<types, members>>

-----------------------------------------------------------------------------
(* Up the hierarchy.                                                       *)

Climbs == [at : AllTypes, result : Seq(AllTypes)]

\* Mutant: the ancestors of the parent come before the parent.
ChainFromTheTop(t) ==
  LET climb[c \in Climbs] ==
        IF c.at \notin DOMAIN NativeParent THEN c.result
        ELSE climb[[at |-> NativeParent[c.at], result |-> <<NativeParent[c.at]>> \o c.result]]
  IN climb[[at |-> t, result |-> <<>>]]

\* collectNativeAncestorChain()
Climb[c \in Climbs] ==
  IF c.at \notin DOMAIN NativeParent THEN c.result
  ELSE Climb[[at |-> NativeParent[c.at], result |-> Append(c.result, NativeParent[c.at])]]

\* getNativeAncestorChain()
NativeChain(t) == Climb[[at |-> t, result |-> <<>>]]

\* The base types of the declarations of t.
Bases(t) ==
  LET own == Subsequence(types, {i \in DOMAIN types : types[i].name = t
                                                     /\ types[i].base # NoBase})
  IN [i \in DOMAIN own |-> own[i].base]

\* Mutant: the native ancestors of a type that is found are not followed.
BasesOnly(t, found) == Bases(t)

\* What is queued when the search has found t: its bases, or its native ancestors.
Parents(t, found) ==
  IF Bases(t) # <<>> THEN Bases(t)
  ELSE Subsequence(NativeChain(t), {i \in DOMAIN NativeChain(t) :
                                      NativeChain(t)[i] \notin ToSet(found)})

Searches == [queue : Seq(AllTypes), found : Seq(AllTypes)]

\* One round of the loop of getAncestors().
Round(s) ==
  LET t == Head(s.queue)
      found == Append(s.found, t)
  IN IF t \in ToSet(s.found) THEN [s EXCEPT !.queue = Tail(s.queue)]
     ELSE [queue |-> Tail(s.queue) \o Parents(t, found), found |-> found]

Search[s \in Searches] == IF s.queue = <<>> THEN s.found ELSE Search[Round(s)]

\* getAncestors()
Ancestors(t) ==
  IF Bases(t) = <<>> THEN NativeChain(t)
  ELSE Search[[queue |-> Bases(t), found |-> <<>>]]

Hierarchy(t) == <<t>> \o Ancestors(t)

Distance(t, u) ==
  LET places == {i \in DOMAIN Hierarchy(t) : Hierarchy(t)[i] = u}
  IN IF places = {} THEN Infinity ELSE Min(places) - 1

IsDescendantOf(t, u) == t # u /\ u \in ToSet(Ancestors(t))

-----------------------------------------------------------------------------
(* Down the hierarchy.                                                     *)

\* getTypeEntitiesByBaseType() and getDirectDescendants()
DirectDescendants(t) ==
  SetToSeq({types[i].name : i \in {j \in DOMAIN types : types[j].base = t}})

\* One round of the loop of getDescendants().
RoundDown(s) ==
  LET t == Head(s.queue)
  IN IF t \in ToSet(s.found) THEN [s EXCEPT !.queue = Tail(s.queue)]
     ELSE [queue |-> Tail(s.queue) \o DirectDescendants(t), found |-> Append(s.found, t)]

Collect[s \in Searches] == IF s.queue = <<>> THEN s.found ELSE Collect[RoundDown(s)]

\* Mutant: the children of a type are not followed.
ChildrenOnly(t) == DirectDescendants(t)

\* getDescendants()
Descendants(t) == Collect[[queue |-> DirectDescendants(t), found |-> <<>>]]

-----------------------------------------------------------------------------
(* Members.                                                                *)

\* isAccessibleFrom() of src/server/knowledge/visibility.ts
Accessible(m, t) ==
  \/ m.access = "public" \/ m.owner = t
  \/ m.access = "protected" /\ IsDescendantOf(t, m.owner)

DeclaredBy(u) == {m \in members : m.owner = u}
Keys(U) == {m.key : m \in UNION {DeclaredBy(u) : u \in U}}

\* Mutant: a member that any other type declares too is an override.
RelationAmongAll(m, t) ==
  IF m.owner # t THEN "inherited"
  ELSE IF \E o \in members : o.owner # t /\ o.key = m.key THEN "override" ELSE "own"

Relation(m, t) ==
  IF m.owner # t THEN "inherited"
  ELSE IF m.key \in Keys(ToSet(Hierarchy(t)) \ {t}) THEN "override" ELSE "own"

MemberEntry(m, t) ==
  [member |-> m, distance |-> Distance(t, m.owner), relation |-> Relation(m, t),
   accessible |-> Accessible(m, t),
   overridden |-> m.owner # t /\ m.key \in Keys({t})]

\* getMemberClosure(): the members of every place in the hierarchy, sorted by distance.
MemberClosure(t) ==
  LET h == Hierarchy(t)
      collected == {p \in (DOMAIN h) \X members : p[2].owner = h[p[1]]}
      entry(p) == MemberEntry(p[2], t)
      order == CHOOSE q \in [1 .. Cardinality(collected) -> collected] :
                 /\ IsInjective(q)
                 /\ \A i, j \in DOMAIN q : i < j => entry(q[i]).distance <= entry(q[j]).distance
  IN [i \in DOMAIN order |-> entry(order[i])]

-----------------------------------------------------------------------------
(* Files come, change and go.                                              *)

HierarchyInit == types = <<>> /\ members = {}

Declare(d) ==
  /\ Len(types) < MaxTypes
  /\ types' = Append(types, d) /\ UNCHANGED members

\* Mutant: the entity goes, its place in the list stays.
LeaveHole(i) == types' = [types EXCEPT ![i] = NoBase] /\ UNCHANGED members

Withdraw(i) == types' = RemoveAt(types, i) /\ UNCHANGED members

AddMember(m) ==
  /\ m \notin members /\ Cardinality(members) < MaxMembers
  /\ members' = members \cup {m} /\ UNCHANGED types

RemoveMember(m) ==
  /\ m \in members
  /\ members' = members \ {m} /\ UNCHANGED types

HierarchyNext ==
  \/ \E d \in Declarations : Declare(d)
  \/ \E i \in DOMAIN types : Withdraw(i)
  \/ \E m \in Members : AddMember(m) \/ RemoveMember(m)

HierarchySpec == HierarchyInit /\ [][HierarchyNext]_hierarchyVars
=============================================================================
