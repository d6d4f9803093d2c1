----------------------------- MODULE MCBagLifecycle -----------------------------
(* BagLifecycle on small sets, for TLC. *)
EXTENDS BagLifecycle, TLC

\* Uploads, bags and users are interchangeable, and no property is about liveness.
Symmetry == Permutations(Uploads) \cup Permutations(Bags) \cup Permutations(Users)
================================================================================
