---------------------------- MODULE ReviewItems ----------------------------
(***************************************************************************)
(* The shapes the comparator passes between its matching engine, its HTTP  *)
(* handlers and the browser (features/comparator/models.py): clean matches *)
(* and review items over the rows of two uploaded documents.               *)
(*                                                                         *)
(* A row is an element of A (our accounting export, "sap_odoo") or of B    *)
(* (the second document): rows without a readable amount never get here,   *)
(* normalize.py drops them.  Labels, wording and the original cells of a   *)
(* row are left out.                                                       *)
(***************************************************************************)
EXTENDS FiniteSets

CONSTANTS
    A,      \* rows of the accounting export
    B,      \* rows of the second document
    NoRow   \* "no row on this side" (None in the code)

ASSUME RowAssumption ==
    /\ A \cap B = {}
    /\ NoRow \notin A \cup B
    /\ IsFiniteSet(A)
    /\ IsFiniteSet(B)

Row == A \cup B

MatchedPair == [a : A, b : B, type : {"reference", "amount_unique"}]

ReviewKind == {"amount_mismatch", "fuzzy_match", "ambiguous", "unmatched",
               "group_match", "sum_match"}

ReviewItem == [kind  : ReviewKind,
               a     : A \cup {NoRow},
               b     : B \cup {NoRow},
               cands : SUBSET B,
               group : SUBSET Row]

\* A review item of each shape the engine builds.
PairItem(kind, a, b) ==
    [kind |-> kind, a |-> a, b |-> b, cands |-> {}, group |-> {}]
AmbiguousItem(a, cands) ==
    [kind |-> "ambiguous", a |-> a, b |-> NoRow, cands |-> cands, group |-> {}]
GroupItem(kind, a, b, group) ==
    [kind |-> kind, a |-> a, b |-> b, cands |-> {}, group |-> group]

\* The rows a claim names.  A candidate of an ambiguous item is only named:
\* nothing is claimed until a person picks one.
PairRows(m) == {m.a, m.b}
FixedRows(i) == ({i.a, i.b} \ {NoRow}) \cup i.group
ItemRows(i) == FixedRows(i) \cup i.cands

\* Every row is shown to somebody: in a clean match or in a review item.
Surfaced(matched, review, r) ==
    \/ \E m \in matched : r \in PairRows(m)
    \/ \E i \in review : r \in ItemRows(i)

\* No row is claimed twice.  Only the candidates of ambiguous items overlap.
ClaimedOnce(matched, review) ==
    /\ \A m, n \in matched : m # n => PairRows(m) \cap PairRows(n) = {}
    /\ \A m \in matched, i \in review : PairRows(m) \cap ItemRows(i) = {}
    /\ \A i, j \in review : i # j => FixedRows(i) \cap ItemRows(j) = {}
=============================================================================
