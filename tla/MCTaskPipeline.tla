--------------------------- MODULE MCTaskPipeline ---------------------------
(* Model values and symmetry for checking TaskPipeline. *)
EXTENDS TaskPipeline, TLC

Symmetric == Permutations(Schedulers) \union Permutations(Workers) \union Permutations(Tasks)
=============================================================================
