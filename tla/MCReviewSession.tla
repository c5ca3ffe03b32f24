-------------------------- MODULE MCReviewSession --------------------------
(***************************************************************************)
(* Two uploads for ReviewSession, each with one of four outcomes that      *)
(* /reconcile can have for rows with these amounts and dates (with a       *)
(* tolerance of 3, and with a date window of 1 for the first, 100 for the  *)
(* others).  In every one of them a second round can find something: b1 is *)
(* the sum of a1 and a2, and a2 that of b2 and b3.                         *)
(***************************************************************************)
EXTENDS ReviewSession, TLC

CONSTANTS a1, a2, b1, b2, b3

\* Two of our rows contest b1.
Contested ==
    [pairs |-> {},
     items |-> << AmbiguousItem(a1, {b1}),
                  AmbiguousItem(a2, {b1}),
                  PairItem("unmatched", NoRow, b2),
                  PairItem("unmatched", NoRow, b3) >>]

\* A clean match, and a row with two candidates.
Settling ==
    [pairs |-> {[a |-> a1, b |-> b1, type |-> "reference"]},
     items |-> << AmbiguousItem(a2, {b2, b3}) >>]

\* Two of our rows with the same two candidates.
Rivals ==
    [pairs |-> {},
     items |-> << AmbiguousItem(a1, {b1, b2}),
                  AmbiguousItem(a2, {b1, b2}),
                  PairItem("unmatched", NoRow, b3) >>]

\* A plain pair and a group.
Grouped ==
    [pairs |-> {},
     items |-> << PairItem("amount_mismatch", a1, b1),
                  GroupItem("group_match", a2, NoRow, {b2, b3}) >>]

MCPreviews == {Contested, Settling, Rivals, Grouped}

\* b3 is too late for a1.
MCAmount == a1 :> 3 @@ a2 :> 2 @@ b1 :> 5 @@ b2 :> 1 @@ b3 :> 1
MCDate == a1 :> 1 @@ a2 :> 3 @@ b1 :> 2 @@ b2 :> 30 @@ b3 :> 93
=============================================================================
