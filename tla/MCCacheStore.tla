---------------------------- MODULE MCCacheStore ----------------------------
(***************************************************************************)
(* A workspace with one document outside of any project and one in the     *)
(* only project.                                                           *)
(***************************************************************************)
EXTENDS SemanticCacheStoreProperties, TLC

CONSTANTS orphan, window, app

MCDocs == {orphan, window}
MCProjects == {app}
MCProjectOf == orphan :> Workspace @@ window :> app
=============================================================================
