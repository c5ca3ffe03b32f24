---------------------------- MODULE MCReconcile ----------------------------
(***************************************************************************)
(* Small documents for Reconcile: every way to fill the rows of A and B    *)
(* with the cell combinations below, under every file order.               *)
(***************************************************************************)
EXTENDS Reconcile, TLC

CONSTANT None

Cell(key, parts, amount, date, words) ==
    [key |-> key, parts |-> parts, amount |-> amount, date |-> date, words |-> words]

\* With Tol = 2 and Days = 1: 4 and 5 share a bucket, 5 and 7 are within the
\* tolerance of each other but in different ones, and 4 + 5 sums to 9.
MCCells ==
    { Cell("k", <<"K", 1>>, 4, 1, {}),
      Cell("k", <<"K", 1>>, 9, 1, {"roofing"}),
      Cell(None, None, 4, 1, {}),
      Cell(None, None, 5, 2, {"roofing"}),
      Cell("j", <<"J", 30>>, 5, None, {}),
      Cell("i", <<"J", 50>>, 4, 9, {}),
      Cell(None, None, 7, 3, {}),
      Cell(None, None, 9, 9, {"roofing"}) }

\* row_id = source and position.
MCId == [r \in Row |-> r]

\* Line items of XML invoices that number none of their lines: the row_id of
\* each is the source and an empty string, and there is no reference.
BareCells == {Cell(None, None, 4, 1, {}), Cell(None, None, 9, 1, {"roofing"})}
BareId == [r \in Row |-> IF r \in A THEN "sap_odoo_" ELSE "second_doc_"]

Symmetry == Permutations(A) \cup Permutations(B)
=============================================================================
