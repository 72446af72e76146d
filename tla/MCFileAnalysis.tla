-------------------------- MODULE MCFileAnalysis --------------------------
(***************************************************************************)
(* Two repositories of one file each, one permit and pools of two workers; *)
(* a third worker exists when a failed pool has left one behind.           *)
(***************************************************************************)
EXTENDS FileAnalysis

CONSTANTS r1, r2, f1, f2

RepoOfOne == f1 :> r1
\* A file with chunks and symbols, another, one without symbols and an empty one.
NoVectors == [lines |-> {4}, symbols |-> {3, 4}]
MCRepoOf == f1 :> r1 @@ f2 :> r2
============================================================================
