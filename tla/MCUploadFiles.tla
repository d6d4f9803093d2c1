---------------------------- MODULE MCUploadFiles ----------------------------
(* UploadFiles on a few file names, for TLC. *)
EXTENDS UploadFiles, TLC

CONSTANTS a, b, c, d

\* Two plain files, one with a backslash in its name, and a file in each of two
\* folders that have the names of the plain ones.
MCNames == {<<a>>, <<b>>, <<c>>, <<a, b>>, <<b, d>>}
MCBackslashed == {<<c>>}

Symmetry == Permutations(Dirs) \cup Permutations(Contents)
================================================================================
