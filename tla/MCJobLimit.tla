----------------------------- MODULE MCJobLimit -----------------------------
(* Two recipes with settings of their own (a "pattern/*:tools.build:jobs"  *)
(* line of a profile).  No symmetry: they differ in ConfiguredJobs.        *)
EXTENDS JobLimit

CONSTANTS libtorch, colmap

MCRecipes == {libtorch, colmap}

(* Settings per package, one below and one above the other. *)
PerPackageJobs == [r \in MCRecipes |-> IF r = libtorch THEN 2 ELSE 4]
=============================================================================
