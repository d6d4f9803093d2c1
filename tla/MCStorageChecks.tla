----------------------------- MODULE MCStorageChecks -----------------------------
(* StorageChecks on small sets, for TLC. *)
EXTENDS StorageChecks

\* The rows of one target may contradict each other.
Reports == {{"ok"}, {"bad"}, {"ok", "bad"}}
================================================================================
