------------------------------ MODULE MCNotifyQueue ------------------------------
(* NotifyQueue on small sets, for TLC. *)
EXTENDS NotifyQueue, TLC

\* Every file has one unit.
UnitFiles == [b \in Bags |-> 1]

\* Half of a file may be downloaded.
TwoUnitFiles == [b \in Bags |-> 2]

Symmetry == Permutations(Providers) \cup Permutations(Bags) \cup Permutations(Users)
================================================================================
