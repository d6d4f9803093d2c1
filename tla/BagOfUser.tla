-------------------------------- MODULE BagOfUser --------------------------------
(***************************************************************************)
(* What a request sees of one bag of one user while it waits for agents,   *)
(* the database or the storage daemon: the row of files.bag_users, and     *)
(* whether the daemon has the bag.  The two change independently: a bag is *)
(* made before its row is written, and its files go after its rows, or     *)
(* before them.  BagLifecycle says when, and is shown to do no more than   *)
(* this for any bag and user.                                              *)
(***************************************************************************)
VARIABLES
    relation,  \* of the user with the bag; "expired" if unpaid for too long
    stored     \* whether the daemon has the bag

bagVars == <<relation, stored>>

BagTypeOK ==
    /\ relation \in {"none", "fresh", "expired", "paid"}
    /\ stored \in BOOLEAN

BagInit ==
    /\ relation = "none"
    /\ stored = FALSE

RelationBecomes(from, to) ==
    /\ relation \in from
    /\ relation' = to
    /\ UNCHANGED stored

\* AddBag keeps a relation that exists, with its contract and its created_at.
BagIsSaved == RelationBecomes({"none"}, "fresh")

BagExpires == RelationBecomes({"fresh"}, "expired")

BagIsPaid == RelationBecomes({"fresh", "expired"}, "paid")

\* DeleteBag or MarkToRemoveUnpaidFiles.
RelationEnds == RelationBecomes({"fresh", "expired", "paid"}, "none")

\* saveToTONStorage, for this user or another one.
BagIsCreated ==
    /\ stored' = TRUE
    /\ UNCHANGED relation

\* RemoveUnpaidFiles or RemoveNotifiedFiles.
BagLeavesDisk ==
    /\ stored' = FALSE
    /\ UNCHANGED relation

BagNext ==
    \/ BagIsSaved
    \/ BagExpires
    \/ BagIsPaid
    \/ RelationEnds
    \/ BagIsCreated
    \/ BagLeavesDisk

BagSpec == BagInit /\ [][BagNext]_bagVars
================================================================================
