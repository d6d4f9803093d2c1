--------------------------- MODULE MCFilesStatements ---------------------------
(* FilesStatements on small sets, for TLC. *)
EXTENDS FilesStatements, TLC

Symmetry == Permutations(Bags) \cup Permutations(Users)
================================================================================
