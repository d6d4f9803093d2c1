---------------------------- MODULE MCBagAndQueue ----------------------------
(* BagAndQueue on small sets, for TLC. *)
EXTENDS BagAndQueue

\* Every file has one unit.
UnitFiles == [b \in Bags |-> 1]
================================================================================
