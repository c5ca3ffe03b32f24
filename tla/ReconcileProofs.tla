-------------------------- MODULE ReconcileProofs --------------------------
(***************************************************************************)
(* What reconcile() guarantees for documents of every size and content:    *)
(* what is settled without a person is certain and, when row ids are       *)
(* unique, no row is lost, none is claimed twice and rivals are shown.     *)
(***************************************************************************)
EXTENDS Reconcile, FiniteSetTheorems, TLAPS

-----------------------------------------------------------------------------
(* Types *)

\* Pass 3 builds well-formed items, one for each of our open rows.
LEMMA FuzzyItemType ==
    ASSUME leftA \subseteq A, leftB \subseteq B,
           NEW last, NEW a \in leftA
    PROVE  /\ FuzzyItem(last, a) \in ReviewItem
           /\ FuzzyItem(last, a).a = a
           /\ FuzzyItem(last, a).group = {}
           /\ ItemRows(FuzzyItem(last, a)) = {a} \cup Candidates(last, a)
           /\ FuzzyItem(last, a).kind = "unmatched" =>
                FuzzyItem(last, a) = PairItem("unmatched", a, NoRow)
<1> DEFINE cands == Candidates(last, a)
<1>1. cands \subseteq B /\ a \in A /\ a # NoRow /\ NoRow \notin B
  BY RowAssumption DEF Candidates
<1>2. CASE cands = {}
  <2>1. FuzzyItem(last, a) = PairItem("unmatched", a, NoRow)
    BY <1>2 DEF FuzzyItem
  <2>. QED
    BY <1>1, <1>2, <2>1 DEF PairItem, ReviewItem, ReviewKind, ItemRows, FixedRows, Row
<1>3. CASE \E b \in cands : cands = {b} /\ InterestIn(last, b) = 1
  <2>1. PICK b \in cands : cands = {b}
    BY <1>3
  <2>2. (CHOOSE c \in cands : TRUE) = b
    BY <2>1
  <2>3. FuzzyItem(last, a) = PairItem("fuzzy_match", a, b)
    BY <1>3, <2>1, <2>2 DEF FuzzyItem
  <2>. QED
    BY <1>1, <2>1, <2>3 DEF PairItem, ReviewItem, ReviewKind, ItemRows, FixedRows, Row
<1>4. CASE /\ cands # {}
           /\ ~ \E b \in cands : cands = {b} /\ InterestIn(last, b) = 1
  <2>1. FuzzyItem(last, a) = AmbiguousItem(a, cands)
    BY <1>4 DEF FuzzyItem
  <2>. QED
    BY <1>1, <2>1 DEF AmbiguousItem, ReviewItem, ReviewKind, ItemRows, FixedRows, Row
<1>. QED
  BY <1>2, <1>3, <1>4

\* A group holds rows of the pool it was searched in.
LEMMA GroupFromPool ==
    ASSUME NEW target, NEW pool, NEW g \in GroupMatches(target, pool)
    PROVE  g \subseteq pool
BY DEF GroupMatches, GroupCandidates, WithoutIds

\* Every variable of reconcile() keeps its type, for every pair of documents.
THEOREM TypeCorrect == Spec => []TypeOK
<1> USE DEF IdsOf, WithoutIds
<1>1. Init => TypeOK
  BY DEF Init, TypeOK
<1>2. TypeOK /\ [Next]_vars => TypeOK'
  <2> SUFFICES ASSUME TypeOK, [Next]_vars
               PROVE  TypeOK'
    OBVIOUS
  <2>1. CASE MatchByReference
    BY <2>1 DEF MatchByReference, TypeOK, MatchedPair, PairItem, ReviewItem,
                ReviewKind, Row
  <2>2. CASE MatchByAmount
    BY <2>2 DEF MatchByAmount, TypeOK, MatchedPair
  <2>3. CASE MatchByAmountAndDate
    <3>1. PICK last \in [IdsOf(leftA) -> leftA] :
            /\ review' = review \cup {FuzzyItem(last, a) : a \in leftA}
                           \cup {PairItem("unmatched", NoRow, b) :
                                   b \in WithoutIds(leftB, Referenced(last))}
            /\ todo' = WithoutIds(leftB, Referenced(last))
      BY <2>3 DEF MatchByAmountAndDate
    <3>2. \A a \in leftA : FuzzyItem(last, a) \in ReviewItem
      BY FuzzyItemType DEF TypeOK
    <3>3. \A b \in leftB : PairItem("unmatched", NoRow, b) \in ReviewItem
      BY DEF TypeOK, PairItem, ReviewItem, ReviewKind
    <3>4. review' \subseteq ReviewItem /\ todo' \subseteq Row
      BY <3>1, <3>2, <3>3 DEF TypeOK, Row
    <3>. QED
      BY <2>3, <3>4 DEF MatchByAmountAndDate, TypeOK
  <2>4. ASSUME NEW b \in B, GroupForTheirs(b)
        PROVE  TypeOK'
    <3>1. PoolA \subseteq A
      BY DEF PoolA, Unmatched, TypeOK, ReviewItem
    <3>2. \A g \in GroupMatches(b, FreeA) : g \subseteq A
      BY <3>1, GroupFromPool DEF FreeA
    <3>3. \A g \in GroupMatches(b, FreeA) :
             GroupItem("group_match", NoRow, b, g) \in ReviewItem
      BY <3>2 DEF GroupItem, ReviewItem, ReviewKind, Row
    <3>. QED
      BY <2>4, <3>2, <3>3 DEF GroupForTheirs, TypeOK
  <2>5. CASE TurnToOurs
    BY <2>5 DEF TurnToOurs, TypeOK, PoolA, Unmatched, ReviewItem, Row
  <2>6. ASSUME NEW a \in A, GroupForOurs(a)
        PROVE  TypeOK'
    <3> DEFINE found == IF id[a] \in usedA THEN {} ELSE GroupMatches(a, FreeB)
    <3>1. PoolB \subseteq B
      BY DEF PoolB, Unmatched, TypeOK, ReviewItem
    <3>2. \A g \in found : g \subseteq B
      BY <3>1, GroupFromPool DEF FreeB
    <3>3. \A g \in found : GroupItem("group_match", a, NoRow, g) \in ReviewItem
      BY <3>2 DEF GroupItem, ReviewItem, ReviewKind, Row
    <3>. QED
      BY <2>6, <3>2, <3>3 DEF GroupForOurs, TypeOK
  <2>7. CASE Return
    BY <2>7 DEF Return, TypeOK
  <2>8. CASE UNCHANGED vars
    BY <2>8 DEF vars, TypeOK
  <2>. QED
    BY <2>1, <2>2, <2>3, <2>4, <2>5, <2>6, <2>7, <2>8 DEF Next
<1>. QED
  BY <1>1, <1>2, PTL DEF Spec

-----------------------------------------------------------------------------
(* The inductive invariant *)

Left == leftA \cup leftB
Early == pc \in {"reference", "amount", "fuzzy"}
Late == pc \in {"group_theirs", "group_ours"}

\* Before pass 1 every row is open; until pass 3 has run a row is open or
\* on show, not both, and nothing is marked unmatched.
EarlyInv ==
    /\ pc = "reference" => leftA = A /\ leftB = B /\ matched = {} /\ review = {}
    /\ Early =>
        /\ \A r \in Row : r \in Left \/ Surfaced(matched, review, r)
        /\ \A m \in matched : PairRows(m) \cap Left = {}
        /\ \A i \in review : ItemRows(i) \cap Left = {} /\ i.kind # "unmatched"
        /\ groups = {} /\ usedA = {} /\ usedB = {}

\* From pass 3 on every row is on show.
ShownInv == ~Early => \A r \in Row : Surfaced(matched, review, r)

\* An unmatched item is about one row and names no other.
UnmatchedInv ==
    Late => \A i \in Unmatched : \E r \in Row : ItemRows(i) = {r}

\* The groups of pass 4 are made of unmatched rows, do not overlap, and the
\* consumed ids are exactly theirs; a target still to be tried is in none.
GroupInv ==
    Late =>
        /\ \A g \in groups : ItemRows(g) \subseteq PoolA \cup PoolB
        /\ \A g, h \in groups : g # h => ItemRows(g) \cap ItemRows(h) = {}
        /\ \A g \in groups : \A r \in ItemRows(g) :
              (r \in A /\ id[r] \in usedA) \/ (r \in B /\ id[r] \in usedB)
        /\ \A r \in A : id[r] \in usedA => \E g \in groups : r \in ItemRows(g)
        /\ \A r \in B : id[r] \in usedB => \E g \in groups : r \in ItemRows(g)
        /\ pc = "group_theirs" => todo \subseteq PoolB /\ \A b \in todo : id[b] \notin usedB
        /\ pc = "group_ours" => todo \subseteq PoolA

IInv ==
    /\ TypeOK
    /\ EarlyInv
    /\ ShownInv
    /\ ClaimedOnce(matched, review)
    /\ UnmatchedInv
    /\ GroupInv

-----------------------------------------------------------------------------
(* Row ids that are unique identify the rows *)

\* Filtering by row_id removes exactly the rows whose ids are listed.
LEMMA IdsIdentify ==
    ASSUME UniqueIds
    PROVE  /\ \A S, T \in SUBSET A : WithoutIds(S, IdsOf(T)) = S \ T
           /\ \A S, T \in SUBSET B : WithoutIds(S, IdsOf(T)) = S \ T
BY DEF UniqueIds, WithoutIds, IdsOf

\* The candidates listed under a row's id are that row's own.
LEMMA OwnCandidates ==
    ASSUME UniqueIds, leftA \subseteq A, leftB \subseteq B,
           NEW last \in [IdsOf(leftA) -> leftA],
           \A k \in IdsOf(leftA) : id[last[k]] = k
    PROVE  /\ \A a \in leftA : last[id[a]] = a
           /\ \A a \in leftA : Candidates(last, a) = {b \in leftB : Near(a, b)}
           /\ WithoutIds(leftB, Referenced(last))
                = {b \in leftB : \A a \in leftA : b \notin Candidates(last, a)}
<1>1. \A a \in leftA : last[id[a]] = a
  BY DEF UniqueIds, IdsOf
<1>2. \A a \in leftA : Candidates(last, a) \subseteq leftB
  BY DEF Candidates
<1>3. \A b \in leftB : id[b] \in Referenced(last)
                         <=> \E a \in leftA : b \in Candidates(last, a)
  BY <1>2 DEF Referenced, IdsOf, UniqueIds
<1>. QED
  BY <1>1, <1>3 DEF Candidates, WithoutIds

\* A row of the second document listed once is a candidate of one row only.
LEMMA SoleInterest ==
    ASSUME UniqueIds, leftA \subseteq A, leftB \subseteq B,
           NEW last \in [IdsOf(leftA) -> leftA],
           \A k \in IdsOf(leftA) : id[last[k]] = k,
           NEW a \in leftA, NEW c \in leftA, NEW b,
           b \in Candidates(last, a), b \in Candidates(last, c),
           InterestIn(last, b) = 1
    PROVE  a = c
<1> DEFINE S == {p \in IdsOf(leftA) \X leftB :
                    Near(last[p[1]], p[2]) /\ id[p[2]] = id[b]}
<1>1. IsFiniteSet(leftA) /\ IsFiniteSet(leftB)
  BY FS_Subset, RowAssumption
<1>2. IsFiniteSet(IdsOf(leftA))
  <2> DEFINE f == [r \in leftA |-> id[r]]
  <2>1. f \in Surjection(leftA, IdsOf(leftA))
    BY DEF Surjection, IdsOf
  <2>. QED
    BY <1>1, <2>1, FS_Surjection
<1>3. IsFiniteSet(S)
  <2>1. IsFiniteSet(IdsOf(leftA) \X leftB)
    BY <1>1, <1>2, FS_Product
  <2>2. S \in SUBSET (IdsOf(leftA) \X leftB)
    OBVIOUS
  <2>. QED
    BY ONLY <2>1, <2>2, FS_Subset
<1>4. <<id[a], b>> \in S /\ <<id[c], b>> \in S
  BY DEF Candidates, IdsOf
<1>5. PICK x : S = {x}
  BY <1>3, FS_Singleton DEF InterestIn
<1>6. id[a] = id[c]
  BY <1>4, <1>5
<1>. QED
  BY <1>6 DEF UniqueIds

-----------------------------------------------------------------------------
(* Each pass keeps the invariant *)

\* What passes 1 and 2 make of the pairs they find.
CleanPairs(type, pairs) == {[a |-> p[1], b |-> p[2], type |-> type] : p \in pairs}
Mismatches(pairs) == {PairItem("amount_mismatch", p[1], p[2]) : p \in pairs}
IdsA(pairs) == {id[p[1]] : p \in pairs}
IdsB(pairs) == {id[p[2]] : p \in pairs}

\* Passes 1 and 2: pairs that share no row are taken from the open rows and
\* put on show.
LEMMA Settle ==
    ASSUME UniqueIds, TypeOK, EarlyInv, Early, ClaimedOnce(matched, review),
           NEW pairs \in SUBSET (leftA \X leftB), NEW clean \in SUBSET pairs, NEW type,
           \A p, q \in pairs : p[1] = q[1] \/ p[2] = q[2] => p = q,
           pc' \in {"amount", "fuzzy"},
           matched' = matched \cup CleanPairs(type, clean),
           review' = review \cup Mismatches(pairs \ clean),
           leftA' = WithoutIds(leftA, IdsA(pairs)),
           leftB' = WithoutIds(leftB, IdsB(pairs)),
           UNCHANGED <<groups, usedA, usedB>>
    PROVE  EarlyInv' /\ ClaimedOnce(matched, review)'
<1> DEFINE rows(p) == {p[1], p[2]}
           match(p) == [a |-> p[1], b |-> p[2], type |-> type]
           mismatch(p) == PairItem("amount_mismatch", p[1], p[2])
<1> USE DEF CleanPairs, Mismatches
<1>1. \A p \in pairs : /\ p[1] \in leftA /\ p[2] \in leftB /\ rows(p) \subseteq Left
                       /\ p[1] \in A /\ p[2] \in B
                       /\ p[1] # NoRow /\ p[2] # NoRow
  BY RowAssumption DEF TypeOK, Left
<1>2. \A p, q \in pairs : p # q => rows(p) \cap rows(q) = {}
  BY <1>1, RowAssumption
<1>3. \A p \in pairs : PairRows(match(p)) = rows(p)
  BY DEF PairRows
<1>4. \A p \in pairs : /\ ItemRows(mismatch(p)) = rows(p)
                       /\ FixedRows(mismatch(p)) = rows(p)
                       /\ mismatch(p).kind = "amount_mismatch"
  BY <1>1 DEF PairItem, ItemRows, FixedRows
<1>5. leftA' = leftA \ {p[1] : p \in pairs} /\ leftB' = leftB \ {p[2] : p \in pairs}
  <2>1. \A r \in leftA : id[r] \in {id[p[1]] : p \in pairs} <=> r \in {p[1] : p \in pairs}
    BY <1>1 DEF UniqueIds, TypeOK
  <2>2. \A r \in leftB : id[r] \in {id[p[2]] : p \in pairs} <=> r \in {p[2] : p \in pairs}
    BY <1>1 DEF UniqueIds, TypeOK
  <2>. QED
    BY <2>1, <2>2 DEF WithoutIds, IdsA, IdsB
<1>6. Left' = Left \ UNION {rows(p) : p \in pairs}
  BY <1>1, <1>5, RowAssumption DEF Left, TypeOK
<1>7. \A m \in matched' : m \in matched \/ \E p \in clean : m = match(p)
  OBVIOUS
<1>8. \A i \in review' : i \in review \/ \E p \in pairs \ clean : i = mismatch(p)
  OBVIOUS
<1>9. /\ \A m \in matched : PairRows(m) \cap Left = {}
      /\ \A i \in review : ItemRows(i) \cap Left = {} /\ i.kind # "unmatched"
      /\ \A r \in Row : r \in Left \/ Surfaced(matched, review, r)
      /\ groups = {} /\ usedA = {} /\ usedB = {}
  BY DEF EarlyInv
<1>10. \A i \in review : FixedRows(i) \subseteq ItemRows(i)
  BY DEF ItemRows
<1>11. EarlyInv'
  <2>1. \A r \in Row : (r \in Left \/ Surfaced(matched, review, r))'
    <3> SUFFICES ASSUME NEW r \in Row, r \notin Left'
                 PROVE  Surfaced(matched', review', r)
      OBVIOUS
    <3>1. CASE r \in Left
      <4>1. PICK p \in pairs : r \in rows(p)
        BY <1>6, <3>1
      <4>2. CASE p \in clean
        <5>1. match(p) \in matched'
          BY <4>2
        <5>. QED
          BY <4>1, <5>1, <1>3 DEF Surfaced
      <4>3. CASE p \notin clean
        <5>1. mismatch(p) \in review'
          BY <4>3
        <5>. QED
          BY <4>1, <5>1, <1>4 DEF Surfaced
      <4>. QED
        BY <4>2, <4>3
    <3>2. CASE r \notin Left
      BY <3>2, <1>9 DEF Surfaced
    <3>. QED
      BY <3>1, <3>2
  <2>2. \A m \in matched' : PairRows(m) \cap Left' = {}
    BY <1>3, <1>6, <1>7, <1>9
  <2>3. \A i \in review' : ItemRows(i) \cap Left' = {} /\ i.kind # "unmatched"
    BY <1>4, <1>6, <1>8, <1>9
  <2>. QED
    BY <2>1, <2>2, <2>3, <1>9 DEF EarlyInv, Early
<1>12. ClaimedOnce(matched', review')
  <2>1. \A m, n \in matched' : m # n => PairRows(m) \cap PairRows(n) = {}
    <3> SUFFICES ASSUME NEW m \in matched', NEW n \in matched', m # n
                 PROVE  PairRows(m) \cap PairRows(n) = {}
      OBVIOUS
    <3>1. CASE m \in matched /\ n \in matched
      BY <3>1 DEF ClaimedOnce
    <3>2. CASE m \in matched /\ n \notin matched
      BY <3>2, <1>1, <1>3, <1>7, <1>9
    <3>3. CASE m \notin matched /\ n \in matched
      BY <3>3, <1>1, <1>3, <1>7, <1>9
    <3>4. CASE m \notin matched /\ n \notin matched
      <4>1. PICK p \in clean : m = match(p)
        BY <3>4, <1>7
      <4>2. PICK q \in clean : n = match(q)
        BY <3>4, <1>7
      <4>3. rows(p) \cap rows(q) = {}
        BY <1>2, <4>1, <4>2
      <4>. QED
        BY <1>3, <4>1, <4>2, <4>3
    <3>. QED
      BY <3>1, <3>2, <3>3, <3>4
  <2>2. \A m \in matched', i \in review' : PairRows(m) \cap ItemRows(i) = {}
    <3> SUFFICES ASSUME NEW m \in matched', NEW i \in review'
                 PROVE  PairRows(m) \cap ItemRows(i) = {}
      OBVIOUS
    <3>1. CASE m \in matched /\ i \in review
      BY <3>1 DEF ClaimedOnce
    <3>2. CASE m \in matched /\ i \notin review
      BY <3>2, <1>1, <1>4, <1>8, <1>9
    <3>3. CASE m \notin matched /\ i \in review
      BY <3>3, <1>1, <1>3, <1>7, <1>9
    <3>4. CASE m \notin matched /\ i \notin review
      <4>1. PICK p \in clean : m = match(p)
        BY <3>4, <1>7
      <4>2. PICK q \in pairs \ clean : i = mismatch(q)
        BY <3>4, <1>8
      <4>3. rows(p) \cap rows(q) = {}
        BY <1>2, <4>1, <4>2
      <4>. QED
        BY <1>3, <1>4, <4>1, <4>2, <4>3
    <3>. QED
      BY <3>1, <3>2, <3>3, <3>4
  <2>3. \A i, j \in review' : i # j => FixedRows(i) \cap ItemRows(j) = {}
    <3> SUFFICES ASSUME NEW i \in review', NEW j \in review', i # j
                 PROVE  FixedRows(i) \cap ItemRows(j) = {}
      OBVIOUS
    <3>1. CASE i \in review /\ j \in review
      BY <3>1 DEF ClaimedOnce
    <3>2. CASE i \in review /\ j \notin review
      BY <3>2, <1>1, <1>4, <1>8, <1>9, <1>10
    <3>3. CASE i \notin review /\ j \in review
      BY <3>3, <1>1, <1>4, <1>8, <1>9
    <3>4. CASE i \notin review /\ j \notin review
      <4>1. PICK p \in pairs \ clean : i = mismatch(p)
        BY <3>4, <1>8
      <4>2. PICK q \in pairs \ clean : j = mismatch(q)
        BY <3>4, <1>8
      <4>3. rows(p) \cap rows(q) = {}
        BY <1>2, <4>1, <4>2
      <4>. QED
        BY <1>4, <4>1, <4>2, <4>3
    <3>. QED
      BY <3>1, <3>2, <3>3, <3>4
  <2>. QED
    BY <2>1, <2>2, <2>3 DEF ClaimedOnce
<1>. QED
  BY <1>11, <1>12 DEF ClaimedOnce

\* Pass 3: every open row gets a card, and the cards share no claim.
LEMMA PassThree ==
    ASSUME UniqueIds, IInv, MatchByAmountAndDate
    PROVE  /\ ShownInv'
           /\ ClaimedOnce(matched, review)'
           /\ UnmatchedInv'
           /\ GroupInv'
<1>1. PICK last \in [IdsOf(leftA) -> leftA] :
        /\ \A k \in IdsOf(leftA) : id[last[k]] = k
        /\ review' = review \cup {FuzzyItem(last, a) : a \in leftA}
                       \cup {PairItem("unmatched", NoRow, b) :
                               b \in WithoutIds(leftB, Referenced(last))}
        /\ todo' = WithoutIds(leftB, Referenced(last))
  BY DEF MatchByAmountAndDate
<1> DEFINE card(a) == FuzzyItem(last, a)
           loose == {b \in leftB : \A a \in leftA : b \notin Candidates(last, a)}
           solo(b) == PairItem("unmatched", NoRow, b)
<1>2. leftA \subseteq A /\ leftB \subseteq B /\ A \cap B = {} /\ NoRow \notin Row
  BY RowAssumption DEF IInv, TypeOK, Row
<1>3. WithoutIds(leftB, Referenced(last)) = loose
  BY <1>1, <1>2, OwnCandidates
<1>4. /\ review' = review \cup {card(a) : a \in leftA} \cup {solo(b) : b \in loose}
      /\ todo' = loose
  BY <1>1, <1>3
<1>5. \A a \in leftA : /\ card(a).a = a
                       /\ ItemRows(card(a)) = {a} \cup Candidates(last, a)
                       /\ card(a).kind = "unmatched" => card(a) = PairItem("unmatched", a, NoRow)
  BY <1>2, FuzzyItemType
<1>6. \A a \in leftA : Candidates(last, a) \subseteq leftB
  BY DEF Candidates
<1>7. \A b \in loose : /\ FixedRows(solo(b)) = {b}
                       /\ ItemRows(solo(b)) = {b}
                       /\ solo(b).a = NoRow
                       /\ solo(b).b = b
                       /\ solo(b).kind = "unmatched"
  BY <1>2 DEF PairItem, ItemRows, FixedRows, Row
<1>8. /\ \A r \in Row : r \in Left \/ Surfaced(matched, review, r)
      /\ \A m \in matched : PairRows(m) \cap Left = {}
      /\ \A i \in review : ItemRows(i) \cap Left = {} /\ i.kind # "unmatched"
      /\ groups = {} /\ usedA = {} /\ usedB = {}
  BY DEF IInv, EarlyInv, Early, MatchByAmountAndDate
<1>9. /\ pc' = "group_theirs"
      /\ matched' = matched /\ groups' = groups /\ usedA' = usedA /\ usedB' = usedB
  BY DEF MatchByAmountAndDate
<1>10. ShownInv'
  <2>1. \A a \in leftA : Surfaced(matched', review', a)
    BY <1>4, <1>5 DEF Surfaced
  <2>2. \A b \in leftB : Surfaced(matched', review', b)
    <3> SUFFICES ASSUME NEW b \in leftB
                 PROVE  \E i \in review' : b \in ItemRows(i)
      BY DEF Surfaced
    <3>1. CASE b \in loose
      BY <3>1, <1>4, <1>7
    <3>2. CASE \E a \in leftA : b \in Candidates(last, a)
      BY <3>2, <1>4, <1>5
    <3>. QED
      BY <3>1, <3>2
  <2>3. \A r \in Row : Surfaced(matched, review, r) => Surfaced(matched', review', r)
    BY <1>4, <1>9 DEF Surfaced
  <2>. QED
    BY <2>1, <2>2, <2>3, <1>8 DEF ShownInv, Left
<1>11. \A a \in leftA : \A b \in FixedRows(card(a)) :
          b = a \/ (b \in Candidates(last, a) /\ InterestIn(last, b) = 1)
  <2> SUFFICES ASSUME NEW a \in leftA
               PROVE  \A b \in FixedRows(card(a)) :
                 b = a \/ (b \in Candidates(last, a) /\ InterestIn(last, b) = 1)
    OBVIOUS
  <2> DEFINE cands == Candidates(last, a)
  <2>1. CASE cands = {}
    BY <2>1 DEF FuzzyItem, PairItem, FixedRows
  <2>2. CASE \E b \in cands : cands = {b} /\ InterestIn(last, b) = 1
    <3>1. PICK b \in cands : cands = {b} /\ InterestIn(last, b) = 1
      BY <2>2
    <3>2. (CHOOSE c \in cands : TRUE) = b
      BY <3>1
    <3>3. card(a) = PairItem("fuzzy_match", a, b)
      BY <2>2, <3>1, <3>2 DEF FuzzyItem
    <3>. QED
      BY <3>1, <3>3 DEF PairItem, FixedRows
  <2>3. CASE cands # {} /\ ~ \E b \in cands : cands = {b} /\ InterestIn(last, b) = 1
    <3>1. card(a) = AmbiguousItem(a, cands)
      BY <2>3 DEF FuzzyItem
    <3>. QED
      BY <3>1 DEF AmbiguousItem, FixedRows
  <2>. QED
    BY <2>1, <2>2, <2>3
<1>12. \A a, c \in leftA : a # c => FixedRows(card(a)) \cap ItemRows(card(c)) = {}
  <2> SUFFICES ASSUME NEW a \in leftA, NEW c \in leftA,
                      NEW b \in FixedRows(card(a)), b \in ItemRows(card(c))
               PROVE  a = c
    OBVIOUS
  <2>1. b \in {c} \cup Candidates(last, c)
    BY <1>5
  <2>2. CASE b = a
    BY <2>1, <2>2, <1>2, <1>6
  <2>3. CASE b \in Candidates(last, a) /\ InterestIn(last, b) = 1
    <3>1. b \in Candidates(last, c)
      BY <2>1, <2>3, <1>2, <1>6
    <3>. QED
      BY <2>3, <3>1, <1>1, <1>2, SoleInterest
  <2>. QED
    BY <2>2, <2>3, <1>11
<1>13. ClaimedOnce(matched', review')
  <2>1. \A i \in review' : \/ i \in review
                           \/ \E a \in leftA : i = card(a)
                           \/ \E b \in loose : i = solo(b)
    BY <1>4
  <2>2. \A a \in leftA : FixedRows(card(a)) \subseteq Left /\ ItemRows(card(a)) \subseteq Left
    BY <1>5, <1>6, <1>11 DEF Left
  <2>3. \A b \in loose : FixedRows(solo(b)) \subseteq Left /\ ItemRows(solo(b)) \subseteq Left
    BY <1>7 DEF Left
  <2>4. \A i \in review : FixedRows(i) \cap Left = {}
    BY <1>8 DEF ItemRows
  <2>5. \A m, n \in matched' : m # n => PairRows(m) \cap PairRows(n) = {}
    BY <1>9 DEF IInv, ClaimedOnce
  <2>6. \A m \in matched', i \in review' : PairRows(m) \cap ItemRows(i) = {}
    <3>1. \A m \in matched, i \in review : PairRows(m) \cap ItemRows(i) = {}
      BY DEF IInv, ClaimedOnce
    <3>. QED
      BY <2>1, <2>2, <2>3, <3>1, <1>8, <1>9
  <2>7. \A i, j \in review' : i # j => FixedRows(i) \cap ItemRows(j) = {}
    <3>1. \A i, j \in review : i # j => FixedRows(i) \cap ItemRows(j) = {}
      BY DEF IInv, ClaimedOnce
    <3>2. \A a \in leftA, b \in loose : /\ FixedRows(card(a)) \cap ItemRows(solo(b)) = {}
                                        /\ FixedRows(solo(b)) \cap ItemRows(card(a)) = {}
      BY <1>2, <1>5, <1>7, <1>11
    <3>3. \A b, c \in loose : b # c => FixedRows(solo(b)) \cap ItemRows(solo(c)) = {}
      BY <1>7
    <3> SUFFICES ASSUME NEW i \in review', NEW j \in review', i # j
                 PROVE  FixedRows(i) \cap ItemRows(j) = {}
      OBVIOUS
    <3>4. CASE i \in review
      BY <3>1, <3>4, <2>1, <2>2, <2>3, <2>4
    <3>5. CASE \E a \in leftA : i = card(a)
      BY <3>2, <3>5, <2>1, <2>2, <1>8, <1>12
    <3>6. CASE \E b \in loose : i = solo(b)
      BY <3>2, <3>3, <3>6, <2>1, <2>3, <1>8
    <3>. QED
      BY <3>4, <3>5, <3>6, <2>1
  <2>. QED
    BY <2>5, <2>6, <2>7 DEF ClaimedOnce
<1>14. \A i \in Unmatched' : \/ \E a \in leftA : i = PairItem("unmatched", a, NoRow)
                             \/ \E b \in loose : i = solo(b)
  BY <1>4, <1>5, <1>8 DEF Unmatched
<1>15. UnmatchedInv'
  <2>1. \A a \in leftA : ItemRows(PairItem("unmatched", a, NoRow)) = {a}
    BY <1>2 DEF PairItem, ItemRows, FixedRows, Row
  <2>. QED
    BY <2>1, <1>2, <1>7, <1>14 DEF UnmatchedInv, Row
<1>16. GroupInv'
  <2>1. \A b \in loose : solo(b) \in Unmatched'
    BY <1>4, <1>7 DEF Unmatched
  <2>2. loose \subseteq PoolB'
    BY <2>1, <1>2, <1>7 DEF PoolB, Row
  <2>. QED
    BY <2>2, <1>4, <1>8, <1>9 DEF GroupInv, Late
<1>. QED
  BY <1>10, <1>13, <1>15, <1>16 DEF ClaimedOnce

\* What GroupInv says of the groups and the consumed ids alone.
GroupsInv ==
    /\ \A g \in groups : ItemRows(g) \subseteq PoolA \cup PoolB
    /\ \A g, h \in groups : g # h => ItemRows(g) \cap ItemRows(h) = {}
    /\ \A g \in groups : \A r \in ItemRows(g) :
          (r \in A /\ id[r] \in usedA) \/ (r \in B /\ id[r] \in usedB)
    /\ \A r \in A : id[r] \in usedA => \E g \in groups : r \in ItemRows(g)
    /\ \A r \in B : id[r] \in usedB => \E g \in groups : r \in ItemRows(g)

\* The pools hold rows of their own side.
LEMMA Pools ==
    ASSUME TypeOK
    PROVE  PoolA \subseteq A /\ PoolB \subseteq B
BY DEF TypeOK, PoolA, PoolB, Unmatched, ReviewItem

\* Pass 4, either direction: a group of rows no group has yet joins the rest.
LEMMA NewGroup ==
    ASSUME UniqueIds, TypeOK, GroupsInv,
           NEW item, ItemRows(item) \subseteq PoolA \cup PoolB,
           \A r \in ItemRows(item) \cap A : id[r] \notin usedA,
           \A r \in ItemRows(item) \cap B : id[r] \notin usedB,
           groups' = groups \cup {item},
           usedA' = usedA \cup IdsOf(ItemRows(item) \cap A),
           usedB' = usedB \cup IdsOf(ItemRows(item) \cap B),
           UNCHANGED review
    PROVE  GroupsInv'
<1>1. PoolA' = PoolA /\ PoolB' = PoolB /\ PoolA \subseteq A /\ PoolB \subseteq B
  BY Pools DEF PoolA, PoolB, Unmatched
<1>2. \A g \in groups : ItemRows(g) \cap ItemRows(item) = {}
  BY <1>1 DEF GroupsInv
<1>3. \A r \in A : id[r] \in usedA' => \E g \in groups' : r \in ItemRows(g)
  BY DEF GroupsInv, IdsOf, UniqueIds
<1>4. \A r \in B : id[r] \in usedB' => \E g \in groups' : r \in ItemRows(g)
  BY DEF GroupsInv, IdsOf, UniqueIds
<1>5. \A g \in groups' : ItemRows(g) \subseteq PoolA \cup PoolB
  BY DEF GroupsInv
<1>6. \A g, h \in groups' : g # h => ItemRows(g) \cap ItemRows(h) = {}
  BY <1>2 DEF GroupsInv
<1>7. \A g \in groups' : \A r \in ItemRows(g) :
        (r \in A /\ id[r] \in usedA') \/ (r \in B /\ id[r] \in usedB')
  BY <1>1 DEF GroupsInv, IdsOf
<1>. QED
  BY <1>1, <1>3, <1>4, <1>5, <1>6, <1>7 DEF GroupsInv

\* One target of theirs.
LEMMA TheirTarget ==
    ASSUME UniqueIds, IInv, NEW b \in B, GroupForTheirs(b)
    PROVE  GroupInv'
<1>1. /\ pc = "group_theirs" /\ pc' = pc /\ b \in todo /\ todo' = todo \ {b}
      /\ UNCHANGED review
  BY DEF GroupForTheirs
<1>2. /\ GroupsInv /\ PoolA \subseteq A /\ PoolB \subseteq B
      /\ todo \subseteq PoolB /\ \A c \in todo : id[c] \notin usedB
      /\ PoolB' = PoolB
  BY <1>1, Pools DEF IInv, GroupInv, GroupsInv, Late, PoolB, Unmatched
<1>3. CASE UNCHANGED <<groups, usedA, usedB>>
  BY <1>1, <1>2, <1>3 DEF GroupInv, GroupsInv, Late, PoolA, PoolB, Unmatched
<1>4. CASE \E g \in GroupMatches(b, FreeA) :
             /\ groups' = groups \cup {GroupItem("group_match", NoRow, b, g)}
             /\ usedA' = usedA \cup IdsOf(g)
             /\ usedB' = usedB \cup {id[b]}
  <2>1. PICK g \in GroupMatches(b, FreeA) :
             /\ groups' = groups \cup {GroupItem("group_match", NoRow, b, g)}
             /\ usedA' = usedA \cup IdsOf(g)
             /\ usedB' = usedB \cup {id[b]}
    BY <1>4
  <2> DEFINE item == GroupItem("group_match", NoRow, b, g)
  <2>2. g \subseteq PoolA /\ \A r \in g : id[r] \notin usedA
    BY GroupFromPool DEF FreeA, WithoutIds
  <2>3. ItemRows(item) = {b} \cup g
    BY RowAssumption DEF GroupItem, ItemRows, FixedRows
  <2>4. ItemRows(item) \cap A = g /\ ItemRows(item) \cap B = {b}
    BY <1>2, <2>2, <2>3, RowAssumption
  <2>5. IdsOf({b}) = {id[b]}
    BY DEF IdsOf
  <2>6. ItemRows(item) \subseteq PoolA \cup PoolB
    BY <1>1, <1>2, <2>2, <2>3
  <2>7. id[b] \notin usedB
    BY <1>1, <1>2
  <2> HIDE DEF item
  <2>8. GroupsInv'
    BY <1>1, <1>2, <2>1, <2>2, <2>4, <2>5, <2>6, <2>7, NewGroup DEF IInv, item
  <2>9. \A c \in todo' : id[c] \notin usedB'
    BY <1>1, <1>2, <2>1 DEF UniqueIds
  <2>. QED
    BY <1>1, <1>2, <2>8, <2>9 DEF GroupInv, GroupsInv, Late
<1>. QED
  BY <1>3, <1>4 DEF GroupForTheirs

\* One target of ours.
LEMMA OurTarget ==
    ASSUME UniqueIds, IInv, NEW a \in A, GroupForOurs(a)
    PROVE  GroupInv'
<1>1. /\ pc = "group_ours" /\ pc' = pc /\ a \in todo /\ todo' = todo \ {a}
      /\ UNCHANGED review
  BY DEF GroupForOurs
<1>2. /\ GroupsInv /\ PoolA \subseteq A /\ PoolB \subseteq B
      /\ todo \subseteq PoolA /\ PoolA' = PoolA
  BY <1>1, Pools DEF IInv, GroupInv, GroupsInv, Late, PoolA, Unmatched
<1>3. CASE UNCHANGED <<groups, usedA, usedB>>
  BY <1>1, <1>2, <1>3 DEF GroupInv, GroupsInv, Late, PoolA, PoolB, Unmatched
<1>4. CASE /\ id[a] \notin usedA
           /\ \E g \in GroupMatches(a, FreeB) :
                /\ groups' = groups \cup {GroupItem("group_match", a, NoRow, g)}
                /\ usedA' = usedA \cup {id[a]}
                /\ usedB' = usedB \cup IdsOf(g)
  <2>1. PICK g \in GroupMatches(a, FreeB) :
             /\ groups' = groups \cup {GroupItem("group_match", a, NoRow, g)}
             /\ usedA' = usedA \cup {id[a]}
             /\ usedB' = usedB \cup IdsOf(g)
    BY <1>4
  <2> DEFINE item == GroupItem("group_match", a, NoRow, g)
  <2>2. g \subseteq PoolB /\ \A r \in g : id[r] \notin usedB
    BY GroupFromPool DEF FreeB, WithoutIds
  <2>3. ItemRows(item) = {a} \cup g
    BY RowAssumption DEF GroupItem, ItemRows, FixedRows
  <2>4. ItemRows(item) \cap B = g /\ ItemRows(item) \cap A = {a}
    BY <1>2, <2>2, <2>3, RowAssumption
  <2>5. IdsOf({a}) = {id[a]}
    BY DEF IdsOf
  <2>6. ItemRows(item) \subseteq PoolA \cup PoolB
    BY <1>1, <1>2, <2>2, <2>3
  <2> HIDE DEF item
  <2>7. GroupsInv'
    BY <1>1, <1>2, <1>4, <2>1, <2>2, <2>4, <2>5, <2>6, NewGroup DEF IInv, item
  <2>. QED
    BY <1>1, <1>2, <2>7 DEF GroupInv, GroupsInv, Late
<1>. QED
  BY <1>3, <1>4 DEF GroupForOurs

\* The return drops an unmatched item exactly when a group shows its row.
LEMMA Returned ==
    ASSUME UniqueIds, IInv, Return
    PROVE  ShownInv' /\ ClaimedOnce(matched, review)'
<1> DEFINE kept == {i \in review : ~Grouped(i)}
<1>1. review' = kept \cup groups /\ matched' = matched /\ pc = "group_ours"
  BY DEF Return
<1>2. GroupsInv
  BY <1>1 DEF IInv, GroupInv, GroupsInv, Late
<1>3. \A i \in review : Grouped(i) => \A r \in ItemRows(i) :
         \E g \in groups : r \in ItemRows(g)
  <2> SUFFICES ASSUME NEW i \in review, Grouped(i), NEW r \in ItemRows(i)
               PROVE  \E g \in groups : r \in ItemRows(g)
    OBVIOUS
  <2>1. PICK s \in Row : ItemRows(i) = {s}
    BY <1>1 DEF IInv, UnmatchedInv, Late, Unmatched, Grouped
  <2>2. (i.a # NoRow => i.a = s) /\ (i.b # NoRow => i.b = s)
    BY <2>1 DEF ItemRows, FixedRows
  <2>3. i.a \in A \cup {NoRow} /\ i.b \in B \cup {NoRow}
    BY DEF IInv, TypeOK, ReviewItem
  <2>4. (s \in A /\ id[s] \in usedA) \/ (s \in B /\ id[s] \in usedB)
    BY <2>2, <2>3 DEF Grouped
  <2>. QED
    BY <2>1, <2>4, <1>2 DEF GroupsInv
<1>4. ShownInv'
  <2> SUFFICES ASSUME NEW r \in Row
               PROVE  Surfaced(matched', review', r)
    BY DEF ShownInv
  <2>1. Surfaced(matched, review, r)
    BY <1>1 DEF IInv, ShownInv, Early
  <2>. QED
    BY <2>1, <1>1, <1>3 DEF Surfaced
<1>5. \A g \in groups : \A r \in ItemRows(g) :
         \E i \in review : r \in FixedRows(i) /\ Grouped(i)
  <2> SUFFICES ASSUME NEW g \in groups, NEW r \in ItemRows(g)
               PROVE  \E i \in review : r \in FixedRows(i) /\ Grouped(i)
    OBVIOUS
  <2>1. r \in PoolA \cup PoolB /\ PoolA \subseteq A /\ PoolB \subseteq B
    BY <1>2, Pools DEF GroupsInv, IInv
  <2>2. (r \in A /\ id[r] \in usedA) \/ (r \in B /\ id[r] \in usedB)
    BY <1>2 DEF GroupsInv
  <2>3. CASE r \in PoolA
    <3>1. PICK i \in Unmatched : i.a = r /\ r # NoRow
      BY <2>3 DEF PoolA
    <3>. QED
      BY <2>1, <2>2, <2>3, <3>1, RowAssumption DEF Unmatched, FixedRows, Grouped
  <2>4. CASE r \in PoolB
    <3>1. PICK i \in Unmatched : i.b = r /\ r # NoRow
      BY <2>4 DEF PoolB
    <3>. QED
      BY <2>1, <2>2, <2>4, <3>1, RowAssumption DEF Unmatched, FixedRows, Grouped
  <2>. QED
    BY <2>1, <2>3, <2>4
<1>6. \A i \in review' : FixedRows(i) \subseteq ItemRows(i)
  BY DEF ItemRows
<1>7. ClaimedOnce(matched, review)
  BY DEF IInv
<1>8. \A g \in groups, i \in kept : ItemRows(g) \cap ItemRows(i) = {}
  <2> SUFFICES ASSUME NEW g \in groups, NEW i \in kept,
                      NEW r \in ItemRows(g), r \in ItemRows(i)
               PROVE  FALSE
    OBVIOUS
  <2>1. PICK j \in review : r \in FixedRows(j) /\ Grouped(j)
    BY <1>5
  <2>. QED
    BY <2>1, <1>7 DEF ClaimedOnce
<1>9. \A g \in groups, m \in matched : ItemRows(g) \cap PairRows(m) = {}
  <2>1. \A i \in review, m \in matched : PairRows(m) \cap FixedRows(i) = {}
    BY <1>7 DEF ClaimedOnce, ItemRows
  <2>. QED
    BY <2>1, <1>5
<1>10. ClaimedOnce(matched', review')
  <2>1. \A i, j \in review' : i # j => FixedRows(i) \cap ItemRows(j) = {}
    <3> SUFFICES ASSUME NEW i \in review', NEW j \in review', i # j
                 PROVE  FixedRows(i) \cap ItemRows(j) = {}
      OBVIOUS
    <3>1. CASE i \in kept /\ j \in kept
      BY <3>1, <1>7 DEF ClaimedOnce
    <3>2. CASE i \in groups /\ j \in groups
      BY <3>2, <1>2, <1>6 DEF GroupsInv
    <3>3. CASE i \in groups /\ j \in kept
      BY <3>3, <1>6, <1>8
    <3>4. CASE i \in kept /\ j \in groups
      BY <3>4, <1>6, <1>8
    <3>. QED
      BY <3>1, <3>2, <3>3, <3>4, <1>1
  <2>2. \A m \in matched', i \in review' : PairRows(m) \cap ItemRows(i) = {}
    BY <1>1, <1>7, <1>9 DEF ClaimedOnce
  <2>. QED
    BY <2>1, <2>2, <1>1, <1>7 DEF ClaimedOnce
<1>. QED
  BY <1>4, <1>10 DEF ClaimedOnce

-----------------------------------------------------------------------------
(* The theorems *)

\* The invariant holds throughout, for documents whose row ids are unique.
THEOREM Inductive == ASSUME UniqueIds PROVE Spec => []IInv
<1>1. Init => IInv
  <2> SUFFICES ASSUME Init PROVE IInv
    OBVIOUS
  <2>1. TypeOK
    BY DEF Init, TypeOK
  <2>. QED
    BY <2>1 DEF Init, IInv, EarlyInv, Early, Left, Row, ShownInv, ClaimedOnce,
                UnmatchedInv, GroupInv, Late
<1>2. IInv /\ TypeOK' /\ [Next]_vars => IInv'
  <2> SUFFICES ASSUME IInv, TypeOK', [Next]_vars
               PROVE  IInv'
    OBVIOUS
  <2>1. CASE MatchByReference
    <3> DEFINE pairs == {p \in leftA \X leftB : ReferenceUnique(p[1], p[2])}
               agree == {p \in pairs : AmountsAgree(p[1], p[2])}
    <3>1. /\ Early /\ EarlyInv /\ ClaimedOnce(matched, review) /\ TypeOK
          /\ matched = {} /\ review = {} /\ pc' \in {"amount", "fuzzy"} /\ pc' = "amount"
      BY <2>1 DEF MatchByReference, IInv, EarlyInv, Early
    <3>2. /\ \A p, q \in pairs : p[1] = q[1] \/ p[2] = q[2] => p = q
          /\ agree \in SUBSET pairs /\ pairs \in SUBSET (leftA \X leftB)
      BY DEF ReferenceUnique
    <3>3. /\ matched' = matched \cup CleanPairs("reference", agree)
          /\ review' = review \cup Mismatches(pairs \ agree)
          /\ leftA' = WithoutIds(leftA, IdsA(pairs))
          /\ leftB' = WithoutIds(leftB, IdsB(pairs))
          /\ UNCHANGED <<groups, usedA, usedB>>
      BY <2>1, <3>1 DEF MatchByReference, CleanPairs, Mismatches, IdsA, IdsB
    <3> HIDE DEF pairs, agree
    <3>4. EarlyInv' /\ ClaimedOnce(matched, review)'
      BY <3>1, <3>2, <3>3, Settle
    <3>. QED
      BY <3>1, <3>4 DEF IInv, ShownInv, UnmatchedInv, GroupInv, Early, Late
  <2>2. CASE MatchByAmount
    <3> DEFINE pairs == {p \in leftA \X leftB : AmountUnique(p[1], p[2])}
    <3>1. /\ Early /\ EarlyInv /\ ClaimedOnce(matched, review) /\ TypeOK
          /\ pc' \in {"amount", "fuzzy"} /\ pc' = "fuzzy"
      BY <2>2 DEF MatchByAmount, IInv, Early
    <3>2. /\ \A p, q \in pairs : p[1] = q[1] \/ p[2] = q[2] => p = q
          /\ pairs \in SUBSET pairs /\ pairs \in SUBSET (leftA \X leftB)
      BY DEF AmountUnique
    <3>3. /\ matched' = matched \cup CleanPairs("amount_unique", pairs)
          /\ review' = review \cup Mismatches(pairs \ pairs)
          /\ leftA' = WithoutIds(leftA, IdsA(pairs))
          /\ leftB' = WithoutIds(leftB, IdsB(pairs))
          /\ UNCHANGED <<groups, usedA, usedB>>
      BY <2>2 DEF MatchByAmount, CleanPairs, Mismatches, IdsA, IdsB
    <3> HIDE DEF pairs
    <3>4. EarlyInv' /\ ClaimedOnce(matched, review)'
      BY <3>1, <3>2, <3>3, Settle
    <3>. QED
      BY <3>1, <3>4 DEF IInv, ShownInv, UnmatchedInv, GroupInv, Early, Late
  <2>3. CASE MatchByAmountAndDate
    <3>1. EarlyInv'
      BY <2>3 DEF MatchByAmountAndDate, EarlyInv, Early
    <3>. QED
      BY <2>3, <3>1, PassThree DEF IInv
  <2>4. ASSUME NEW b \in B, GroupForTheirs(b)
        PROVE  IInv'
    <3>1. GroupInv'
      BY <2>4, TheirTarget
    <3>. QED
      BY <2>4, <3>1 DEF GroupForTheirs, IInv, EarlyInv, Early, ShownInv, Surfaced,
                        ClaimedOnce, UnmatchedInv, Unmatched, Late
  <2>5. CASE TurnToOurs
    BY <2>5 DEF TurnToOurs, IInv, EarlyInv, Early, ShownInv, Surfaced, ClaimedOnce,
                UnmatchedInv, Unmatched, GroupInv, PoolA, PoolB, Late
  <2>6. ASSUME NEW a \in A, GroupForOurs(a)
        PROVE  IInv'
    <3>1. GroupInv'
      BY <2>6, OurTarget
    <3>. QED
      BY <2>6, <3>1 DEF GroupForOurs, IInv, EarlyInv, Early, ShownInv, Surfaced,
                        ClaimedOnce, UnmatchedInv, Unmatched, Late
  <2>7. CASE Return
    <3>1. ShownInv' /\ ClaimedOnce(matched, review)'
      BY <2>7, Returned
    <3>. QED
      BY <2>7, <3>1 DEF Return, IInv, EarlyInv, Early, UnmatchedInv, GroupInv, Late
  <2>8. CASE UNCHANGED vars
    BY <2>8 DEF vars, IInv, EarlyInv, Early, Left, ShownInv, Surfaced, ClaimedOnce,
                UnmatchedInv, Unmatched, GroupInv, PoolA, PoolB, Late
  <2>. QED
    BY <2>1, <2>2, <2>3, <2>4, <2>5, <2>6, <2>7, <2>8 DEF Next
<1>. QED
  BY <1>1, <1>2, TypeCorrect, PTL DEF Spec

\* No uploaded row disappears.
THEOREM RowsSurface == ASSUME UniqueIds PROVE Spec => []EveryRowSurfaces
<1>1. IInv => EveryRowSurfaces
  BY DEF IInv, ShownInv, Early, EveryRowSurfaces
<1>. QED
  BY <1>1, Inductive, PTL

\* No row is claimed twice, in any order of the rows in the files.
THEOREM RowsClaimedOnce == ASSUME UniqueIds PROVE Spec => []EachRowClaimedOnce
<1>1. IInv => EachRowClaimedOnce
  BY DEF IInv, EachRowClaimedOnce
<1>. QED
  BY <1>1, Inductive, PTL

-----------------------------------------------------------------------------
(* Clean matches *)

\* The bucket of an amount is never further away than half the tolerance.
LEMMA BucketIsNear ==
    ASSUME NEW x \in Int
    PROVE  /\ Quantize(x) \in Int
           /\ 2 * Quantize(x) <= 2 * x + Tol
           /\ 2 * x <= 2 * Quantize(x) + Tol
<1>1. Tol \in Nat
  BY ReconcileAssumption
<1>2. CASE Tol = 0
  BY <1>2 DEF Quantize
<1>3. CASE Tol # 0
  <2> DEFINE q == x \div Tol
             r == x % Tol
  <2>1. q \in Int /\ r \in 0 .. Tol - 1 /\ x = Tol * q + r
    BY <1>1, <1>3
  <2>2. q * Tol = Tol * q /\ (q + 1) * Tol = Tol * q + Tol /\ Tol * q \in Int
    BY <2>1, <1>1
  <2>3. Quantize(x) = IF 2 * r < Tol \/ (2 * r = Tol /\ q % 2 = 0)
                      THEN q * Tol ELSE (q + 1) * Tol
    BY <1>3 DEF Quantize
  <2> HIDE DEF q, r
  <2>. QED
    BY <2>1, <2>2, <2>3, <1>1
<1>. QED
  BY <1>2, <1>3

\* A match nobody reviews is between amounts within the tolerance.
THEOREM MatchesAgree == Spec => []CleanMatchesAgree
<1>1. Init => CleanMatchesAgree
  BY DEF Init, CleanMatchesAgree
<1>2. TypeOK /\ CleanMatchesAgree /\ [Next]_vars => CleanMatchesAgree'
  <2> SUFFICES ASSUME TypeOK, CleanMatchesAgree, [Next]_vars
               PROVE  CleanMatchesAgree'
    OBVIOUS
  <2>1. data' = data
    BY DEF Next, vars, MatchByReference, MatchByAmount, MatchByAmountAndDate,
           GroupForTheirs, TurnToOurs, GroupForOurs, Return
  <2>2. CASE MatchByReference
    BY <2>1, <2>2 DEF MatchByReference, AmountsAgree, CleanMatchesAgree
  <2>3. CASE MatchByAmount
    <3>1. ASSUME NEW a \in leftA, NEW b \in leftB, AmountUnique(a, b)
          PROVE  Distance(data[a].amount, data[b].amount) <= Tol
      <4>1. /\ data[a].amount \in Int /\ data[b].amount \in Int
            /\ Tol \in Nat
        BY ReconcileAssumption DEF TypeOK, CellShape, Row
      <4>2. Quantize(data[a].amount) = Quantize(data[b].amount)
        BY <3>1 DEF AmountUnique
      <4>. QED
        BY <4>1, <4>2, BucketIsNear DEF Distance
    <3>2. \A m \in matched' : m \in matched \/
             \E p \in leftA \X leftB :
                AmountUnique(p[1], p[2]) /\ m.a = p[1] /\ m.b = p[2]
      BY <2>3 DEF MatchByAmount
    <3>. QED
      BY <2>1, <3>1, <3>2 DEF CleanMatchesAgree
  <2>4. CASE UNCHANGED matched
    BY <2>1, <2>4 DEF CleanMatchesAgree
  <2>. QED
    BY <2>2, <2>3, <2>4 DEF Next, vars, MatchByAmountAndDate, GroupForTheirs,
                            TurnToOurs, GroupForOurs, Return
<1>. QED
  BY <1>1, <1>2, TypeCorrect, PTL DEF Spec

-----------------------------------------------------------------------------
(* Shared references *)

SharedReference(a, b) ==
    /\ data[a].key # Absent
    /\ {r \in Row : data[r].key = data[a].key} = {a, b}

PairedByReference(a, b) ==
    \/ [a |-> a, b |-> b, type |-> "reference"] \in matched
    \/ PairItem("amount_mismatch", a, b) \in review

\* Pass 1 pairs exactly the rows whose shared reference nobody else carries,
\* and nothing later pairs by reference or undoes such a pair.
THEOREM ReferencesDecide == Spec => []ReferenceDecides
<1> DEFINE Inv == /\ pc = "reference" => /\ leftA = A /\ leftB = B
                                         /\ matched = {} /\ review = {}
                  /\ pc # "reference" => \A a \in A, b \in B :
                                            SharedReference(a, b) <=> PairedByReference(a, b)
                  /\ groups \cap {i \in ReviewItem : i.kind = "amount_mismatch"} = {}
<1>1. Init => Inv
  BY DEF Init
<1>2. TypeOK /\ Inv /\ [Next]_vars => Inv'
  <2> SUFFICES ASSUME TypeOK, Inv, [Next]_vars
               PROVE  Inv'
    OBVIOUS
  <2>1. data' = data /\ (pc # "reference" => pc' # "reference")
    BY DEF Next, vars, MatchByReference, MatchByAmount, MatchByAmountAndDate,
           GroupForTheirs, TurnToOurs, GroupForOurs, Return
  <2> DEFINE mismatch(a, b) == PairItem("amount_mismatch", a, b)
             match(a, b) == [a |-> a, b |-> b, type |-> "reference"]
  <2>2. \A a \in A, b \in B : mismatch(a, b) \in ReviewItem
                              /\ mismatch(a, b).kind = "amount_mismatch"
    BY DEF PairItem, ReviewItem, ReviewKind
  <2>3. CASE MatchByReference
    <3>1. \A a \in A, b \in B : ReferenceUnique(a, b) <=> SharedReference(a, b)
      <4>1. leftA = A /\ leftB = B /\ A \cap B = {}
        BY <2>3, RowAssumption DEF MatchByReference
      <4>. QED
        BY <4>1 DEF ReferenceUnique, SharedReference, Row
    <3>2. \A a \in A, b \in B : ReferenceUnique(a, b) <=> PairedByReference(a, b)'
      <4> DEFINE pairs == {p \in leftA \X leftB : ReferenceUnique(p[1], p[2])}
                 agree == {p \in pairs : AmountsAgree(p[1], p[2])}
      <4>1. /\ leftA = A /\ leftB = B
            /\ matched' = {match(p[1], p[2]) : p \in agree}
            /\ review' = {mismatch(p[1], p[2]) : p \in pairs \ agree}
        BY <2>3 DEF MatchByReference
      <4>2. \A a, c \in A, b, d \in B :
               /\ mismatch(a, b) = mismatch(c, d) => a = c /\ b = d
               /\ match(a, b) = match(c, d) => a = c /\ b = d
        BY DEF PairItem
      <4> SUFFICES ASSUME NEW a \in A, NEW b \in B
                   PROVE  ReferenceUnique(a, b) <=> PairedByReference(a, b)'
        OBVIOUS
      <4>3. match(a, b) \in matched' <=> <<a, b>> \in agree
        <5>1. \A p \in agree : p = <<p[1], p[2]>> /\ p[1] \in A /\ p[2] \in B
          BY <4>1
        <5>. QED
          BY <4>1, <4>2, <5>1
      <4>4. mismatch(a, b) \in review' <=> <<a, b>> \in pairs \ agree
        <5>1. \A p \in pairs : p = <<p[1], p[2]>> /\ p[1] \in A /\ p[2] \in B
          BY <4>1
        <5>2. ASSUME mismatch(a, b) \in review'
              PROVE  <<a, b>> \in pairs \ agree
          <6>1. PICK p \in pairs \ agree : mismatch(a, b) = mismatch(p[1], p[2])
            BY <4>1, <5>2
          <6>2. a = p[1] /\ b = p[2]
            BY <6>1 DEF PairItem
          <6>. QED
            BY <5>1, <6>2
        <5>3. ASSUME <<a, b>> \in pairs \ agree
              PROVE  mismatch(a, b) \in review'
          BY <4>1, <5>3
        <5>. QED
          BY <5>2, <5>3
      <4>5. ReferenceUnique(a, b) <=> <<a, b>> \in pairs
        BY <4>1
      <4>. QED
        BY <4>3, <4>4, <4>5 DEF PairedByReference
    <3>3. pc' # "reference" /\ groups' = groups
      BY <2>3 DEF MatchByReference
    <3>. QED
      BY <3>1, <3>2, <3>3, <2>1 DEF SharedReference
  <2>4. ASSUME pc # "reference",
               \A a \in A, b \in B : match(a, b) \in matched' <=> match(a, b) \in matched,
               \A a \in A, b \in B : mismatch(a, b) \in review' <=> mismatch(a, b) \in review,
               \A i \in groups' : i \in groups \/ i.kind # "amount_mismatch"
        PROVE  Inv'
    BY <2>1, <2>4 DEF SharedReference, PairedByReference
  <2>5. CASE MatchByAmount
    BY <2>4, <2>5 DEF MatchByAmount
  <2>6. CASE MatchByAmountAndDate
    <3>1. PICK last \in [IdsOf(leftA) -> leftA] :
            review' = review \cup {FuzzyItem(last, a) : a \in leftA}
                         \cup {PairItem("unmatched", NoRow, b) :
                                 b \in WithoutIds(leftB, Referenced(last))}
      BY <2>6 DEF MatchByAmountAndDate
    <3>2. \A a : FuzzyItem(last, a).kind # "amount_mismatch"
      BY DEF FuzzyItem, PairItem, AmbiguousItem
    <3>3. \A b : PairItem("unmatched", NoRow, b).kind # "amount_mismatch"
      BY DEF PairItem
    <3>4. \A i \in review' : i.kind = "amount_mismatch" => i \in review
      BY <3>1, <3>2, <3>3
    <3>. QED
      BY <2>2, <2>4, <2>6, <3>1, <3>4 DEF MatchByAmountAndDate
  <2>7. CASE Return
    BY <2>2, <2>4, <2>7 DEF Return, Grouped
  <2>8. CASE \E b \in B : GroupForTheirs(b)
    BY <2>4, <2>8 DEF GroupForTheirs, GroupItem
  <2>9. CASE TurnToOurs
    BY <2>4, <2>9 DEF TurnToOurs
  <2>10. CASE \E a \in A : GroupForOurs(a)
    BY <2>4, <2>10 DEF GroupForOurs, GroupItem
  <2>11. CASE UNCHANGED vars
    BY <2>1, <2>11 DEF vars, SharedReference, PairedByReference
  <2>. QED
    BY <2>3, <2>5, <2>6, <2>7, <2>8, <2>9, <2>10, <2>11 DEF Next
<1>3. Inv => ReferenceDecides
  BY DEF ReferenceDecides, SharedReference, PairedByReference
<1>. QED
  BY <1>1, <1>2, <1>3, TypeCorrect, PTL DEF Spec

-----------------------------------------------------------------------------
(* Rivals are shown *)

\* Row b is on the card of row a, alone only if neither has another partner.
ShownTogether(a, b) ==
    \E i \in review :
        /\ i.kind # "unmatched"
        /\ i.a = a
        /\ \/ b \in i.cands
           \/ /\ i.b = b
              /\ \A s \in leftA : Near(s, b) => s = a
              /\ \A s \in leftB : Near(a, s) => s = b

\* Every close pair of open rows is shown, with its rivals.
THEOREM RivalsShown == ASSUME UniqueIds PROVE Spec => []PlausiblePairsShown
<1> DEFINE Inv == pc \notin {"reference", "amount", "fuzzy"} =>
                    \A a \in leftA, b \in leftB : Near(a, b) => ShownTogether(a, b)
<1>1. Init => Inv
  BY DEF Init
<1>2. TypeOK /\ Inv /\ [Next]_vars => Inv'
  <2> SUFFICES ASSUME TypeOK, Inv, [Next]_vars
               PROVE  Inv'
    OBVIOUS
  <2>1. CASE MatchByReference \/ MatchByAmount
    BY <2>1 DEF MatchByReference, MatchByAmount
  <2>2. CASE MatchByAmountAndDate
    <3> SUFFICES ASSUME NEW a \in leftA, NEW b \in leftB, Near(a, b)
                 PROVE  ShownTogether(a, b)'
      BY <2>2 DEF MatchByAmountAndDate, Near, AmountsAgree, DatesClose
    <3>1. PICK last \in [IdsOf(leftA) -> leftA] :
            /\ \A k \in IdsOf(leftA) : id[last[k]] = k
            /\ review' = review \cup {FuzzyItem(last, c) : c \in leftA}
                         \cup {PairItem("unmatched", NoRow, c) :
                                 c \in WithoutIds(leftB, Referenced(last))}
      BY <2>2 DEF MatchByAmountAndDate
    <3>2. leftA \subseteq A /\ leftB \subseteq B /\ UNCHANGED <<data, leftA, leftB>>
      BY <2>2 DEF MatchByAmountAndDate, TypeOK
    <3>3. \A c \in leftA : Candidates(last, c) = {d \in leftB : Near(c, d)}
      BY <3>1, <3>2, OwnCandidates
    <3> DEFINE cands == Candidates(last, a)
               card == FuzzyItem(last, a)
    <3>4. b \in cands /\ card \in review' /\ card.a = a
      BY <3>1, <3>2, <3>3, FuzzyItemType
    <3>5. CASE \E d \in cands : cands = {d} /\ InterestIn(last, d) = 1
      <4>1. cands = {b} /\ InterestIn(last, b) = 1
        BY <3>4, <3>5
      <4>2. (CHOOSE d \in cands : TRUE) = b
        BY <4>1
      <4>3. card = PairItem("fuzzy_match", a, b)
        BY <3>5, <3>4, <4>2 DEF FuzzyItem
      <4>4. \A s \in leftA : Near(s, b) => s = a
        <5> SUFFICES ASSUME NEW s \in leftA, Near(s, b) PROVE s = a
          OBVIOUS
        <5>1. b \in Candidates(last, s)
          BY <3>3
        <5>. QED
          BY <3>1, <3>2, <3>4, <4>1, <5>1, SoleInterest
      <4>5. \A s \in leftB : Near(a, s) => s = b
        BY <3>3, <4>1
      <4>6. card.kind # "unmatched" /\ card.b = b
        BY <4>3 DEF PairItem
      <4>. QED
        BY <3>2, <3>4, <4>4, <4>5, <4>6
        DEF ShownTogether, Near, AmountsAgree, DatesClose
    <3>6. CASE ~ \E d \in cands : cands = {d} /\ InterestIn(last, d) = 1
      <4>1. card = AmbiguousItem(a, cands)
        BY <3>4, <3>6 DEF FuzzyItem
      <4>2. card.kind # "unmatched" /\ b \in card.cands
        BY <3>4, <4>1 DEF AmbiguousItem
      <4>. QED
        BY <3>4, <4>2 DEF ShownTogether
    <3>. QED
      BY <3>5, <3>6
  <2>3. ASSUME UNCHANGED <<data, leftA, leftB>>,
               pc \notin {"reference", "amount", "fuzzy"},
               \A i \in review : i.kind # "unmatched" => i \in review'
        PROVE  Inv'
    BY <2>3 DEF ShownTogether, Near, AmountsAgree, DatesClose
  <2>4. CASE \E b \in B : GroupForTheirs(b)
    BY <2>3, <2>4 DEF GroupForTheirs
  <2>5. CASE TurnToOurs
    BY <2>3, <2>5 DEF TurnToOurs
  <2>6. CASE \E a \in A : GroupForOurs(a)
    BY <2>3, <2>6 DEF GroupForOurs
  <2>7. CASE Return
    BY <2>3, <2>7 DEF Return, Grouped
  <2>8. CASE UNCHANGED vars
    BY <2>3, <2>8 DEF vars
  <2>. QED
    BY <2>1, <2>2, <2>4, <2>5, <2>6, <2>7, <2>8 DEF Next
<1>3. Inv => PlausiblePairsShown
  BY DEF PlausiblePairsShown, ShownTogether
<1>. QED
  BY <1>1, <1>2, <1>3, TypeCorrect, PTL DEF Spec

\* The shape of a finished result: what is unmatched is one row, and the
\* groupings of the second round are not in it.
ShapeOfItem(i) ==
    /\ i.kind # "sum_match"
    /\ i.kind = "unmatched" => \E r \in Row : ItemRows(i) = {r}
Shape == pc = "done" => \A i \in review : ShapeOfItem(i)

\* What /reconcile returns is all the review of the result builds on, next to
\* RowsSurface and RowsClaimedOnce.
THEOREM ResultShape == ASSUME UniqueIds PROVE Spec => []Shape
<1> DEFINE Kinds == /\ \A i \in review : i.kind # "sum_match"
                    /\ \A g \in groups : g.kind = "group_match"
<1>1. Init => Kinds /\ Shape
  BY DEF Init, Shape
<1>2. IInv /\ Kinds /\ [Next]_vars => Kinds'
  <2> SUFFICES ASSUME IInv, Kinds, [Next]_vars
               PROVE  Kinds'
    OBVIOUS
  <2>1. CASE MatchByReference
    <3>1. groups' = groups
          /\ \A i \in review' : \E a, b : i = PairItem("amount_mismatch", a, b)
      BY <2>1 DEF MatchByReference
    <3>. QED
      BY <3>1 DEF PairItem
  <2>2. CASE MatchByAmount
    BY <2>2 DEF MatchByAmount
  <2>3. CASE MatchByAmountAndDate
    <3>1. PICK last \in [IdsOf(leftA) -> leftA] :
            review' = review \cup {FuzzyItem(last, c) : c \in leftA}
                      \cup {PairItem("unmatched", NoRow, c) :
                              c \in WithoutIds(leftB, Referenced(last))}
      BY <2>3 DEF MatchByAmountAndDate
    <3>2. \A a \in leftA : FuzzyItem(last, a).kind # "sum_match"
      BY DEF FuzzyItem, PairItem, AmbiguousItem
    <3>3. \A b \in leftB : PairItem("unmatched", NoRow, b).kind # "sum_match"
      BY DEF PairItem
    <3>4. WithoutIds(leftB, Referenced(last)) \subseteq leftB
      BY DEF WithoutIds
    <3>. QED
      BY <2>3, <3>1, <3>2, <3>3, <3>4 DEF MatchByAmountAndDate
  <2>4. ASSUME NEW b \in B, GroupForTheirs(b)
        PROVE  Kinds'
    BY <2>4 DEF GroupForTheirs, GroupItem
  <2>5. ASSUME NEW a \in A, GroupForOurs(a)
        PROVE  Kinds'
    BY <2>5 DEF GroupForOurs, GroupItem
  <2>6. CASE Return
    BY <2>6 DEF Return
  <2>7. CASE TurnToOurs \/ UNCHANGED vars
    BY <2>7 DEF TurnToOurs, vars
  <2>. QED
    BY <2>1, <2>2, <2>3, <2>4, <2>5, <2>6, <2>7 DEF Next
<1>3. IInv /\ Kinds /\ Shape /\ [Next]_vars => Shape'
  <2> SUFFICES ASSUME IInv, Kinds, Shape, [Next]_vars
               PROVE  Shape'
    OBVIOUS
  <2>1. CASE Return
    <3>1. /\ \A i \in review : i.kind = "unmatched" => \E r \in Row : ItemRows(i) = {r}
          /\ \A i \in review' : i \in review \/ i \in groups
      BY <2>1 DEF Return, IInv, UnmatchedInv, Unmatched, Late
    <3>. QED
      BY <3>1 DEF Shape, ShapeOfItem
  <2>2. CASE UNCHANGED vars
    BY <2>2 DEF vars, Shape
  <2>. QED
    BY <2>1, <2>2 DEF Next, MatchByReference, MatchByAmount, MatchByAmountAndDate,
                      GroupForTheirs, TurnToOurs, GroupForOurs, Shape
<1>. QED
  BY <1>1, <1>2, <1>3, Inductive, PTL DEF Spec
=============================================================================
