---------------------------- MODULE MCHierarchy ----------------------------
(***************************************************************************)
(* Every sequence of up to three declarations of three names, which may    *)
(* inherit from each other and from the end of a chain of native types,    *)
(* with up to two members that override each other.                        *)
(***************************************************************************)
EXTENDS HierarchyProperties, TLC

CONSTANTS a, b, c, powerobject, window, mdiframe

MCTypeNames == {a, b, c}
MCNatives == {powerobject, window, mdiframe}
MCNativeParent == mdiframe :> window @@ window :> powerobject
MCMembers == [owner : MCTypeNames, key : {"of_init"}, access : {"protected", "private"}]

Symmetry == Permutations(MCTypeNames)
=============================================================================
