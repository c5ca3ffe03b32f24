-------------------------- MODULE MCPeriodReturn --------------------------
(***************************************************************************)
(* Two uploads for PeriodReturn.  Books has two registers with a doubtful  *)
(* purchase each, if both are mapped to purchases; in the first one row    *)
(* states no rate.  Till states none, so that the page asks for it, and    *)
(* has nothing to review.                                                  *)
(***************************************************************************)
EXTENDS PeriodReturn, TLC

CONSTANTS s1, s2

SymmetrySlot == Permutations(Slot)

Entry(vat, amount, rate, words) ==
    [vat |-> vat, amount |-> amount, rate |-> rate, total |-> "no",
     stated |-> None, words |-> words]
Total(vat) == [Entry(vat, None, None, {}) EXCEPT !.total = "plain"]

Books == << [guess |-> "purchases", vat_col |-> TRUE,
             rows |-> << Entry(15, 100, 15, {"ambiguous"}), Entry(30, 200, None, {}),
                         Total(45) >>],
            [guess |-> "sales", vat_col |-> TRUE,
             rows |-> << Entry(60, 400, 15, {"ambiguous"}) >>] >>
Till == << [guess |-> "unknown", vat_col |-> TRUE,
            rows |-> << Entry(75, 500, None, {}) >>] >>

MCUploads == {Books, Till}
=============================================================================
