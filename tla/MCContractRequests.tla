--------------------------- MODULE MCContractRequests ---------------------------
(* ContractRequests on small sets, for TLC. *)
EXTENDS ContractRequests

CONSTANTS p1, p2

KeyLists == {<<>>, <<p1, p2>>, <<p1, p1>>, <<p2, p1, p2>>,
             <<p1, p2, p1, p2>>}

Rate(available, space, price) ==
    [ok |-> TRUE, available |-> available, space |-> space, price |-> price]

\* A row that is not OK, a provider that is not available, a small and a large one.
Rates == {[Rate(FALSE, 0, 0) EXCEPT !.ok = FALSE],
          Rate(FALSE, 2, 1), Rate(TRUE, 1, 2), Rate(TRUE, 2, 3)}

\* One megabyte, one byte more, and a size for which the sum wraps.
ByteSizes == {0, 4, 5, 13}
================================================================================
