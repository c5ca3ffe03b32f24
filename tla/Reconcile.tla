----------------------------- MODULE Reconcile -----------------------------
(***************************************************************************)
(* The comparator's matching engine: reconcile() of                        *)
(* features/comparator/matching.py, passes 1 to 4, one action per pass and *)
(* one per target of pass 4.                                               *)
(*                                                                         *)
(* The two documents are an input: `data` gives every row one of the cell  *)
(* combinations of the constant Cells.  The order of the rows in a file    *)
(* matters only to pass 4, which goes through its targets in that order;   *)
(* here the next target is any that is left, which is every file order.    *)
(*                                                                         *)
(* The engine tells rows apart by row_id, not by identity.  `id` gives     *)
(* each row its row_id, so that documents whose row_ids collide (line      *)
(* items of an XML invoice without line numbers) can be looked at too.     *)
(***************************************************************************)
EXTENDS ReviewItems, Integers, FiniteSetsExt

CONSTANTS
    id,           \* row -> row_id
    Cells,        \* what a row can hold: the records CellShape describes
    Tol,          \* amount_tolerance, in the unit of the amounts
    Days,         \* date_proximity_days
    Absent        \* a cell that is empty or cannot be read

CellShape(c) ==
    /\ c.amount \in Int
    /\ c.date \in Int \cup {Absent}
    /\ c.parts = Absent \/ c.parts[2] \in Int
    /\ {"key", "words"} \subseteq DOMAIN c

ASSUME ReconcileAssumption ==
    /\ DOMAIN id = Row
    /\ Tol \in Nat
    /\ Days \in Nat
    /\ \A c \in Cells : CellShape(c)

\* Row ids are unique within each document, as normalize_tables makes them.
UniqueIds ==
    /\ \A r, s \in A : id[r] = id[s] => r = s
    /\ \A r, s \in B : id[r] = id[s] => r = s

VARIABLES
    data,         \* the uploaded rows: row -> cells
    pc,           \* the pass about to run
    leftA, leftB, \* leftover_a, leftover_b
    matched,      \* clean matches
    review,       \* needs_review
    todo,         \* targets pass 4 has not looked at
    groups,       \* group_items
    usedA, usedB  \* consumed_a_ids, consumed_b_ids

vars == <<data, pc, leftA, leftB, matched, review, todo, groups, usedA, usedB>>

IdsOf(S) == {id[r] : r \in S}
WithoutIds(S, ids) == {r \in S : id[r] \notin ids}

GROUP_MATCH_MIN_SIZE == 2
GROUP_MATCH_MAX_SIZE == 4
MAX_REFERENCE_GAP == 20

Distance(x, y) == IF x < y THEN y - x ELSE x - y

-----------------------------------------------------------------------------
(* Comparing rows *)

\* Operators marked (mistaken) are slips a change of the code could bring in;
\* nothing uses them but the runs that show the properties notice.

\* (mistaken) a shared reference is proof enough
AnyAmounts(r, s) == TRUE

AmountsAgree(r, s) == Distance(data[r].amount, data[s].amount) <= Tol

\* The bucket of an amount: the nearest multiple of the tolerance, halves
\* going to the even one (Decimal.to_integral_value).
Quantize(x) ==
    IF Tol = 0 THEN x
    ELSE LET q == x \div Tol
             r == x % Tol
         IN  IF 2 * r < Tol \/ (2 * r = Tol /\ q % 2 = 0)
             THEN q * Tol
             ELSE (q + 1) * Tol

\* (mistaken) uniqueness looked at on our side only
OneSidedReference(a, b) ==
    /\ data[a].key # Absent
    /\ data[a].key = data[b].key
    /\ \A s \in leftA : data[s].key = data[a].key => s = a

\* A reference is compared by its letters and digits alone, in lower case: key.
ReferenceUnique(a, b) ==
    /\ data[a].key # Absent
    /\ data[a].key = data[b].key
    /\ \A s \in leftA : data[s].key = data[a].key => s = a
    /\ \A s \in leftB : data[s].key = data[b].key => s = b

AmountUnique(a, b) ==
    LET bucket(r) == Quantize(data[r].amount)
    IN  /\ bucket(a) = bucket(b)
        /\ \A s \in leftA : bucket(s) = bucket(a) => s = a
        /\ \A s \in leftB : bucket(s) = bucket(b) => s = b

DatesClose(r, s) ==
    /\ data[r].date # Absent
    /\ data[s].date # Absent
    /\ Distance(data[r].date, data[s].date) <= Days

Near(a, b) == AmountsAgree(a, b) /\ DatesClose(a, b)

\* The signals of pass 4: a close date or a shared meaningful word, and
\* numbered references (parts: prefix and number) that follow each other.
Connected(r, target) ==
    \/ DatesClose(r, target)
    \/ data[r].words \cap data[target].words # {}

Sequential(r, s) ==
    /\ data[r].parts # Absent
    /\ data[s].parts # Absent
    /\ data[r].parts[1] = data[s].parts[1]
    /\ Distance(data[r].parts[2], data[s].parts[2]) <= MAX_REFERENCE_GAP

GroupCandidates(target, pool) ==
    LET direct == {r \in pool : Connected(r, target)}
    IN  direct \cup {r \in WithoutIds(pool, IdsOf(direct)) :
                        \E s \in WithoutIds(pool, {id[r]}) : Sequential(r, s)}

AmountOf(r) == data[r].amount
Total(S) == MapThenSumSet(AmountOf, S)

GroupMatches(target, pool) ==
    {g \in SUBSET GroupCandidates(target, pool) :
        /\ Cardinality(g) \in GROUP_MATCH_MIN_SIZE .. GROUP_MATCH_MAX_SIZE
        /\ Distance(Total(g), data[target].amount) <= Tol}

-----------------------------------------------------------------------------
(* The passes *)

Init ==
    /\ data \in [Row -> Cells]
    /\ pc = "reference"
    /\ leftA = A
    /\ leftB = B
    /\ matched = {}
    /\ review = {}
    /\ todo = {}
    /\ groups = {}
    /\ usedA = {}
    /\ usedB = {}

\* Pass 1: rows whose reference is unique on both sides.  They are settled as
\* a clean match or, when the amounts disagree, as an amount_mismatch item;
\* either way they are gone from the later passes.
MatchByReference ==
    LET pairs == {p \in leftA \X leftB : ReferenceUnique(p[1], p[2])}
        agree == {p \in pairs : AmountsAgree(p[1], p[2])}
    IN  /\ pc = "reference"
        /\ pc' = "amount"
        /\ matched' = {[a |-> p[1], b |-> p[2], type |-> "reference"] : p \in agree}
        /\ review' = {PairItem("amount_mismatch", p[1], p[2]) : p \in pairs \ agree}
        /\ leftA' = WithoutIds(leftA, {id[p[1]] : p \in pairs})
        /\ leftB' = WithoutIds(leftB, {id[p[2]] : p \in pairs})
        /\ UNCHANGED <<data, todo, groups, usedA, usedB>>

\* Pass 2: rows that are alone in their amount bucket on both sides.
MatchByAmount ==
    LET pairs == {p \in leftA \X leftB : AmountUnique(p[1], p[2])}
    IN  /\ pc = "amount"
        /\ pc' = "fuzzy"
        /\ matched' = matched \cup
              {[a |-> p[1], b |-> p[2], type |-> "amount_unique"] : p \in pairs}
        /\ leftA' = WithoutIds(leftA, {id[p[1]] : p \in pairs})
        /\ leftB' = WithoutIds(leftB, {id[p[2]] : p \in pairs})
        /\ UNCHANGED <<data, review, todo, groups, usedA, usedB>>

\* Pass 3.  candidates_by_a is keyed by row_id: of rows that share one, the
\* last one's candidates stand for all (last).
Candidates(last, a) == {b \in leftB : Near(last[id[a]], b)}

Referenced(last) == UNION {IdsOf(Candidates(last, a)) : a \in leftA}

\* a_count_by_b: how often the row_id of b is listed as a candidate.
InterestIn(last, b) ==
    Cardinality({p \in IdsOf(leftA) \X leftB :
                    Near(last[p[1]], p[2]) /\ id[p[2]] = id[b]})

\* (mistaken) our row without a candidate filed as one of theirs
WrongSideItem(last, a) ==
    LET cands == Candidates(last, a)
    IN  IF cands = {} THEN PairItem("unmatched", NoRow, a)
        ELSE AmbiguousItem(a, cands)

\* (mistaken) a single candidate is taken at once, whoever else wants it
FirstComeItem(last, a) ==
    LET cands == Candidates(last, a)
    IN  IF cands = {} THEN PairItem("unmatched", a, NoRow)
        ELSE IF Cardinality(cands) = 1
        THEN PairItem("fuzzy_match", a, CHOOSE b \in cands : TRUE)
        ELSE AmbiguousItem(a, cands)

\* A single candidate that nobody else wants is a fuzzy match; anything less
\* certain is ambiguous, for everyone who wants it.
FuzzyItem(last, a) ==
    LET cands == Candidates(last, a)
    IN  IF cands = {} THEN PairItem("unmatched", a, NoRow)
        ELSE IF \E b \in cands : cands = {b} /\ InterestIn(last, b) = 1
        THEN PairItem("fuzzy_match", a, CHOOSE b \in cands : TRUE)
        ELSE AmbiguousItem(a, cands)

MatchByAmountAndDate ==
    /\ pc = "fuzzy"
    /\ \E last \in [IdsOf(leftA) -> leftA] :
          /\ \A k \in IdsOf(leftA) : id[last[k]] = k
          /\ LET loose == WithoutIds(leftB, Referenced(last))
                 items == {FuzzyItem(last, a) : a \in leftA}
                            \cup {PairItem("unmatched", NoRow, b) : b \in loose}
             IN  /\ review' = review \cup items
                 /\ todo' = loose
    /\ pc' = "group_theirs"
    /\ UNCHANGED <<data, leftA, leftB, matched, groups, usedA, usedB>>

Unmatched == {i \in review : i.kind = "unmatched"}

\* Pass 4 works on the rows pass 3 left unmatched.
PoolA == {i.a : i \in Unmatched} \ {NoRow}
PoolB == {i.b : i \in Unmatched} \ {NoRow}

\* (mistaken) rows that a group has are offered again
EverybodyA == PoolA

FreeA == WithoutIds(PoolA, usedA)
FreeB == WithoutIds(PoolB, usedB)

\* Several of ours for one of theirs.  Only a single possible grouping counts.
GroupForTheirs(b) ==
    LET found == GroupMatches(b, FreeA)
    IN  /\ pc = "group_theirs"
        /\ b \in todo
        /\ todo' = todo \ {b}
        /\ \/ \E g \in found :
                /\ found = {g}
                /\ groups' = groups \cup {GroupItem("group_match", NoRow, b, g)}
                /\ usedA' = usedA \cup IdsOf(g)
                /\ usedB' = usedB \cup {id[b]}
           \/ /\ \A g \in found : found # {g}
              /\ UNCHANGED <<groups, usedA, usedB>>
        /\ UNCHANGED <<data, pc, leftA, leftB, matched, review>>

TurnToOurs ==
    /\ pc = "group_theirs"
    /\ todo = {}
    /\ pc' = "group_ours"
    /\ todo' = PoolA
    /\ UNCHANGED <<data, leftA, leftB, matched, review, groups, usedA, usedB>>

\* One of ours, unless a group has it by now, for several of theirs.
GroupForOurs(a) ==
    LET found == IF id[a] \in usedA THEN {} ELSE GroupMatches(a, FreeB)
    IN  /\ pc = "group_ours"
        /\ a \in todo
        /\ todo' = todo \ {a}
        /\ \/ \E g \in found :
                /\ found = {g}
                /\ groups' = groups \cup {GroupItem("group_match", a, NoRow, g)}
                /\ usedA' = usedA \cup {id[a]}
                /\ usedB' = usedB \cup IdsOf(g)
           \/ /\ \A g \in found : found # {g}
              /\ UNCHANGED <<groups, usedA, usedB>>
        /\ UNCHANGED <<data, pc, leftA, leftB, matched, review>>

\* (mistaken) every unmatched item goes once there are groups
AnyGrouped(i) == i.kind = "unmatched" /\ (usedA # {} \/ usedB # {})

\* An unmatched item is superseded once a group has its row.
Grouped(i) ==
    /\ i.kind = "unmatched"
    /\ \/ i.a # NoRow /\ id[i.a] \in usedA
       \/ i.b # NoRow /\ id[i.b] \in usedB

Return ==
    /\ pc = "group_ours"
    /\ todo = {}
    /\ pc' = "done"
    /\ review' = {i \in review : ~Grouped(i)} \cup groups
    /\ UNCHANGED <<data, leftA, leftB, matched, todo, groups, usedA, usedB>>

Next ==
    \/ MatchByReference
    \/ MatchByAmount
    \/ MatchByAmountAndDate
    \/ \E b \in B : GroupForTheirs(b)
    \/ TurnToOurs
    \/ \E a \in A : GroupForOurs(a)
    \/ Return

Spec == Init /\ [][Next]_vars

-----------------------------------------------------------------------------
(* Properties *)

\* The variables hold what their names say.
TypeOK ==
    /\ data \in [Row -> Cells]
    /\ pc \in {"reference", "amount", "fuzzy", "group_theirs", "group_ours", "done"}
    /\ leftA \subseteq A
    /\ leftB \subseteq B
    /\ matched \subseteq MatchedPair
    /\ review \subseteq ReviewItem
    /\ groups \subseteq ReviewItem
    /\ todo \subseteq Row
    /\ usedA \subseteq IdsOf(A)
    /\ usedB \subseteq IdsOf(B)

\* No uploaded row disappears: when reconcile() returns, each is part of a
\* clean match or on some card of the review.
EveryRowSurfaces ==
    pc = "done" => \A r \in Row : Surfaced(matched, review, r)

\* The passes never hand one row to two claims, whatever the order of the
\* rows in the files: the later passes do not take from the earlier ones,
\* and two groups of pass 4 do not share a row.
EachRowClaimedOnce ==
    pc = "done" => ClaimedOnce(matched, review)

\* A clean match, which nobody reviews, is never between amounts further
\* apart than the tolerance: not when the reference matched, and not when
\* only the amounts' buckets did.
CleanMatchesAgree ==
    \A m \in matched : Distance(data[m.a].amount, data[m.b].amount) <= Tol

\* No reviewer is shown a proposal without its rivals: every pair of open
\* rows that is close enough is on the card of our row, and a pair is
\* offered as a plain fuzzy match only if neither row has another partner
\* (an earlier version let the first row of the file win).
PlausiblePairsShown ==
    pc \notin {"reference", "amount", "fuzzy"} =>
        \A a \in leftA, b \in leftB : Near(a, b) =>
            \E i \in review :
                /\ i.a = a
                /\ \/ b \in i.cands
                   \/ /\ i.b = b
                      /\ \A s \in leftA : Near(s, b) => s = a
                      /\ \A s \in leftB : Near(a, s) => s = b

\* Two rows are paired by their reference exactly when no other row of
\* either document carries it, and such a pair is never pulled apart by an
\* amount, date or group match.
ReferenceDecides ==
    pc = "done" =>
        \A a \in A, b \in B :
            LET shared == /\ data[a].key # Absent
                          /\ {r \in Row : data[r].key = data[a].key} = {a, b}
                paired == \/ [a |-> a, b |-> b, type |-> "reference"] \in matched
                          \/ PairItem("amount_mismatch", a, b) \in review
            IN  shared <=> paired
=============================================================================
