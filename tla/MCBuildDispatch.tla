-------------------------- MODULE MCBuildDispatch ---------------------------
(***************************************************************************)
(* BuildDispatch for model checking: every tag of every repo has a recipe. *)
(* Those of Unannotated have no service annotation, those of Unlisted no   *)
(* labels either.                                                          *)
(***************************************************************************)
EXTENDS BuildDispatch, TLC

CONSTANTS Unannotated, Unlisted

MCRecipes == Repos \X Tags
MCListed == (Repos \ Unlisted) \X Tags
MCService == [r \in Repos \X Tags |->
                IF r[1] \in Unannotated \cup Unlisted THEN NoService ELSE r[1]]

CallerJobSymmetry == Permutations(Callers) \cup Permutations(JobNames)
=============================================================================
