------------------------ MODULE ReviewSessionProofs ------------------------
(***************************************************************************)
(* What the review guarantees for documents of every size and for every    *)
(* answer of /reconcile that has the properties proved in ReconcileProofs. *)
(* Types, cards and the absence of contradictions hold for every user, the *)
(* other properties for one who waits for answers (Patient).               *)
(***************************************************************************)
EXTENDS ReviewSession, FiniteSetTheorems, SequenceTheorems, TLAPS

-----------------------------------------------------------------------------
(* Lists of entries *)

\* A function on 1 .. n is a sequence of length n.
LEMMA FunctionIsSeq ==
    ASSUME NEW S, NEW n \in Nat, NEW f \in [1 .. n -> S]
    PROVE  f \in Seq(S) /\ Len(f) = n
BY IsASeq, LenProperties

\* The indexes of a list are a finite set of positive numbers.
LEMMA Indexes ==
    ASSUME NEW S, NEW s \in Seq(S)
    PROVE  /\ DOMAIN s = 1 .. Len(s)
           /\ Len(s) \in Nat
           /\ IsFiniteSet(DOMAIN s)
<1>1. DOMAIN s = 1 .. Len(s) /\ Len(s) \in Nat
  BY LenProperties
<1>. QED
  BY <1>1, FS_Interval

\* Position numbers the elements of a finite set of numbers from 1 without
\* gaps: every number up to its cardinality belongs to exactly one of them.
LEMMA Numbered ==
    ASSUME NEW K \in SUBSET Nat, IsFiniteSet(K)
    PROVE  /\ Cardinality(K) \in Nat
           /\ \A k \in K : Position(K, k) \in 1 .. Cardinality(K)
           /\ \A j, k \in K : Position(K, j) = Position(K, k) => j = k
           /\ \A i \in 1 .. Cardinality(K) : \E k \in K : Position(K, k) = i
<1> DEFINE upTo(k) == {j \in K : j <= k}
           n == Cardinality(K)
<1>1. n \in Nat
  BY FS_CardinalityType
<1>2. \A k \in K : /\ IsFiniteSet(upTo(k))
                   /\ Cardinality(upTo(k)) \in Nat
                   /\ Cardinality(upTo(k)) <= n
                   /\ Cardinality(upTo(k)) # 0
  <2>1. TAKE k \in K
  <2>2. upTo(k) \subseteq K /\ k \in upTo(k)
    OBVIOUS
  <2>. QED
    BY <2>2, FS_Subset, FS_CardinalityType, FS_EmptySet
<1>3. \A j, k \in K : j < k => Cardinality(upTo(j)) < Cardinality(upTo(k))
  <2>1. SUFFICES ASSUME NEW j \in K, NEW k \in K, j < k
                 PROVE  Cardinality(upTo(j)) < Cardinality(upTo(k))
    OBVIOUS
  <2>3. upTo(j) \subseteq upTo(k) /\ k \in upTo(k) /\ k \notin upTo(j)
    <3>1. j \in Int /\ k \in Int /\ \A l \in K : l \in Int
      OBVIOUS
    <3>2. \A l \in K : l <= j => l <= k
      BY <2>1, <3>1
    <3>3. k <= k /\ ~(k <= j)
      BY <2>1, <3>1
    <3>. QED
      BY <3>2, <3>3
  <2>4. Cardinality(upTo(j)) <= Cardinality(upTo(k))
        /\ (Cardinality(upTo(j)) = Cardinality(upTo(k)) => upTo(j) = upTo(k))
    BY <2>3, <1>2, FS_Subset
  <2>. QED
    BY <2>3, <2>4, <1>2
<1>4. \A j, k \in K : Position(K, j) = Position(K, k) => j = k
  BY <1>2, <1>3 DEF Position
<1>5. \A k \in K : Position(K, k) \in 1 .. n
  BY <1>1, <1>2 DEF Position
<1>6. \A i \in 1 .. n : \E k \in K : Position(K, k) = i
  <2>1. SUFFICES ASSUME NEW i \in 1 .. n, \A k \in K : Position(K, k) # i
                 PROVE  FALSE
    OBVIOUS
  <2> DEFINE T == (1 .. n) \ {i}
             f == [k \in K |-> Position(K, k)]
  <2>2. IsFiniteSet(1 .. n) /\ Cardinality(1 .. n) = n
    BY <1>1, FS_Interval
  <2>3. IsFiniteSet(T) /\ Cardinality(T) < n
    <3>1. IsFiniteSet(T) /\ Cardinality(T) = Cardinality(1 .. n) - 1
      BY <2>2, FS_RemoveElement
    <3>. QED
      BY <1>1, <2>2, <3>1
  <2>4. f \in [K -> T] /\ \A k \in K : f[k] = Position(K, k)
    BY <1>5, <2>1
  <2> HIDE DEF T, f
  <2>5. Cardinality(T) < Cardinality(K) /\ IsFiniteSet(T)
    BY <2>3
  <2>6. \E x, y \in K : x # y /\ f[x] = f[y]
    <3> HIDE DEF n
    <3>1. f \in [K -> T]
      BY <2>4
    <3>. QED
      BY <2>5, <3>1, FS_PigeonHole, Zenon
  <2>. QED
    BY <1>4, <2>4, <2>6
<1>. QED
  BY <1>1, <1>4, <1>5, <1>6

\* What is kept of a list: entries of it that are not stale, each index of
\* the new list standing for an index of the old one.
StandsFor(pairs, es, at) ==
    /\ DOMAIN at = DOMAIN Cleaned(pairs, es)
    /\ \A i \in DOMAIN at : /\ at[i] \in Survivors(pairs, es)
                            /\ Cleaned(pairs, es)[i] = es[at[i]]
    /\ \A i, j \in DOMAIN at : at[i] = at[j] => i = j
    /\ \A k \in Survivors(pairs, es) : \E i \in DOMAIN at : at[i] = k

LEMMA Kept ==
    ASSUME NEW pairs, NEW es \in Seq(Entry)
    PROVE  /\ Cleaned(pairs, es) \in Seq(Entry)
           /\ \E at : StandsFor(pairs, es, at)
<1> DEFINE K == Survivors(pairs, es)
           n == Cardinality(K)
           from(i) == CHOOSE k \in K : Position(K, k) = i
           at == [i \in 1 .. n |-> from(i)]
<1>1. K \subseteq DOMAIN es
  BY DEF Survivors
<1>2. IsFiniteSet(K) /\ K \in SUBSET Nat
  BY <1>1, Indexes, FS_Subset
<1>3. /\ n \in Nat
      /\ \A k \in K : Position(K, k) \in 1 .. n
      /\ \A j, k \in K : Position(K, j) = Position(K, k) => j = k
      /\ \A i \in 1 .. n : \E k \in K : Position(K, k) = i
  BY <1>2, Numbered
<1>4. Cleaned(pairs, es) = [i \in 1 .. n |-> es[from(i)]]
  BY DEF Cleaned
<1>5. \A i \in 1 .. n : from(i) \in K /\ Position(K, from(i)) = i
  BY <1>3
<1>6. \A k \in K : es[k] \in Entry
  BY <1>1, ElementOfSeq, Indexes
<1>7. Cleaned(pairs, es) \in [1 .. n -> Entry]
  BY <1>4, <1>5, <1>6
<1>8. Cleaned(pairs, es) \in Seq(Entry)
  BY <1>3, <1>7, FunctionIsSeq
<1>9. at \in [DOMAIN Cleaned(pairs, es) -> K]
  BY <1>4, <1>5
<1>10. \A k \in K : \E i \in DOMAIN at : at[i] = k
  BY <1>3, <1>5
<1>11. /\ \A i \in DOMAIN at : Cleaned(pairs, es)[i] = es[at[i]]
       /\ \A i, j \in DOMAIN at : at[i] = at[j] => i = j
  BY <1>4, <1>5
<1>12. StandsFor(pairs, es, at)
  BY <1>9, <1>10, <1>11 DEF StandsFor
<1>. QED
  BY <1>8, <1>12

-----------------------------------------------------------------------------
(* Types *)

\* Items of the kinds that can be contested have candidates.
LEMMA SomeCandidate ==
    ASSUME NEW item \in ReviewItem, OneCandidate(item)
    PROVE  (CHOOSE b \in item.cands : TRUE) \in item.cands \cap B
<1>1. item.cands \subseteq B
  BY DEF ReviewItem
<1>2. item.cands # {}
  BY FS_EmptySet DEF OneCandidate
<1>. QED
  BY <1>1, <1>2

\* Only contested items share a card, and a card shows what it was made from.
LEMMA CardItems ==
    ASSUME NEW es, NEW at \in SUBSET DOMAIN es, NEW c \in CardsAt(es, at)
    PROVE  /\ \A k \in DOMAIN c : k \in at /\ c[k] = es[k].item
           /\ Cardinality(DOMAIN c) > 1 => \A k \in DOMAIN c : OneCandidate(c[k])
<1>1. PICK k \in at : c = CardAt(es, at, k)
  BY DEF CardsAt
<1>2. CASE OneCandidate(es[k].item)
  BY <1>1, <1>2 DEF CardAt
<1>3. CASE ~OneCandidate(es[k].item)
  <2>1. c = [j \in {k} |-> es[j].item]
    BY <1>1, <1>3 DEF CardAt
  <2>2. DOMAIN c = {k}
    BY <2>1
  <2>3. ~(Cardinality(DOMAIN c) > 1)
    BY <2>2, FS_Singleton
  <2>. QED
    BY <2>1, <2>2, <2>3
<1>. QED
  BY <1>2, <1>3

\* Rendering changes nothing but what is picked.
LEMMA RenderedEntries ==
    ASSUME NEW es \in Seq(Entry), NEW at
    PROVE  /\ Rendered(es, at) \in Seq(Entry)
           /\ Len(Rendered(es, at)) = Len(es)
           /\ DOMAIN Rendered(es, at) = DOMAIN es
           /\ \A k \in DOMAIN es :
                 /\ Rendered(es, at)[k].item = es[k].item
                 /\ Rendered(es, at)[k].decision = es[k].decision
                 /\ k \notin at => Rendered(es, at)[k] = es[k]
<1>1. DOMAIN es = 1 .. Len(es) /\ Len(es) \in Nat /\ \A k \in DOMAIN es : es[k] \in Entry
  BY Indexes, ElementOfSeq
<1>2. \A k \in DOMAIN es : OneCandidate(es[k].item) =>
          (CHOOSE b \in es[k].item.cands : TRUE) \in B
  BY <1>1, SomeCandidate DEF Entry
<1>3. \A k \in DOMAIN es :
        /\ Rendered(es, at)[k] \in Entry
        /\ Rendered(es, at)[k].item = es[k].item
        /\ Rendered(es, at)[k].decision = es[k].decision
        /\ k \notin at => Rendered(es, at)[k] = es[k]
  BY <1>1, <1>2 DEF Rendered, Entry
<1>4. Rendered(es, at) \in [1 .. Len(es) -> Entry]
  BY <1>1, <1>3 DEF Rendered
<1>. QED
  BY <1>1, <1>3, <1>4, FunctionIsSeq

\* A decision or a pick changes an entry and not what it is about.
WithDecision(e, d) == [e EXCEPT !.decision = d]
WithPick(e, b) == [e EXCEPT !.picked = b]
Resolved(e, d, b) == [e EXCEPT !.decision = d, !.picked = b]
SameItem(e, f) == f \in Entry /\ f.item = e.item /\ f.upload = e.upload

LEMMA EntryChange ==
    ASSUME NEW e \in Entry, NEW d \in Decision, NEW b \in B \cup {NoRow}
    PROVE  /\ SameItem(e, WithDecision(e, d))
           /\ SameItem(e, WithPick(e, b))
           /\ SameItem(e, Resolved(e, d, b))
BY DEF Entry, WithDecision, WithPick, Resolved, SameItem

\* New entries for a list of items.
LEMMA NewEntries ==
    ASSUME NEW items \in Seq(ReviewItem), NEW u \in 0 .. MaxUploads
    PROVE  [k \in DOMAIN items |-> NewEntry(items[k], u)] \in Seq(Entry)
<1>1. DOMAIN items = 1 .. Len(items) /\ Len(items) \in Nat
      /\ \A k \in DOMAIN items : items[k] \in ReviewItem
  BY Indexes, ElementOfSeq
<1>2. \A k \in DOMAIN items : NewEntry(items[k], u) \in Entry
  BY <1>1 DEF NewEntry, Entry, Decision
<1>. QED
  BY <1>1, <1>2, FunctionIsSeq

\* The cards of the dialog, open or not, are well formed.
CardsWellFormed ==
    \A c \in cards :
        /\ Cardinality(DOMAIN c) > 1 => \A k \in DOMAIN c : OneCandidate(c[k])
        /\ \A k \in DOMAIN c : c[k] \in ReviewItem

Types == TypeOK /\ CardsWellFormed

\* What is posted and what is under way have their types.
LEMMA Posted ==
    ASSUME Types
    PROVE  /\ review \in Seq(Entry)
           /\ upload \in 0 .. MaxUploads
           /\ matched \subseteq MatchedPair
           /\ asked.reconcile # None => asked.reconcile \in Previews
           /\ asked.confirm # None => asked.confirm \in Page
           /\ asked.leftovers # None => asked.leftovers \in SearchState
BY DEF Types, TypeOK, Body, Page, Calls

\* Rows an item names are rows.
LEMMA RowsOfItem ==
    ASSUME NEW item \in ReviewItem
    PROVE  ItemRows(item) \subseteq Row
BY DEF ReviewItem, ItemRows, FixedRows, Row

\* Pass 5 builds well-formed items.
LEMMA SumItemType ==
    ASSUME NEW r \in Row, NEW g \in SUBSET Row
    PROVE  SumItem(r, g) \in ReviewItem
BY DEF SumItem, GroupItem, ReviewItem, ReviewKind, Row

\* A click on a card leaves a list of entries, with the same items.
LEMMA Clicked ==
    ASSUME Types, NEW c \in cards,
           \/ \E d \in Decision : Decide(c, d)
           \/ \E b \in B \cup {NoRow} : Pick(c, b)
           \/ \E k \in DOMAIN c \cup {0} : DecideContested(c, k)
           \/ LeaveContested(c)
    PROVE  /\ Change(review')
           /\ review' \in Seq(Entry)
           /\ DOMAIN review' = DOMAIN review
           /\ \A k \in DOMAIN review :
                 /\ review'[k].item = review[k].item
                 /\ review'[k].upload = review[k].upload
                 /\ k \notin DOMAIN c => review'[k] = review[k]
<1> DEFINE Same(k) == /\ review'[k] \in Entry
                      /\ review'[k].item = review[k].item
                      /\ review'[k].upload = review[k].upload
                      /\ k \notin DOMAIN c => review'[k] = review[k]
           Goal == /\ Change(review')
                   /\ review' \in [DOMAIN review -> Entry]
                   /\ \A k \in DOMAIN review : Same(k)
<1>1. /\ DOMAIN review = 1 .. Len(review) /\ Len(review) \in Nat
      /\ review \in [DOMAIN review -> Entry]
  BY Posted, Indexes, ElementOfSeq
<1>2. \A k \in DOMAIN c : OneCandidate(c[k]) =>
          (CHOOSE b \in c[k].cands : TRUE) \in B
  BY SomeCandidate DEF Types, CardsWellFormed
<1>3. \A k \in DOMAIN c : Cardinality(DOMAIN c) > 1 => OneCandidate(c[k])
  BY DEF Types, CardsWellFormed
<1>4. Goal
  <2>1. ASSUME NEW d \in Decision, Decide(c, d)
        PROVE  Goal
    <3>1. PICK k \in DOMAIN review :
            DOMAIN c = {k} /\ Change([review EXCEPT ![k].decision = d])
      BY <2>1 DEF Decide
    <3>2. review' = [review EXCEPT ![k] = WithDecision(review[k], d)]
      BY <3>1 DEF Change, WithDecision
    <3>3. NoRow \in B \cup {NoRow}
      OBVIOUS
    <3>4. SameItem(review[k], WithDecision(review[k], d))
      BY <1>1, <3>3, EntryChange
    <3>. QED
      BY <1>1, <3>1, <3>2, <3>4 DEF Change, SameItem
  <2>2. ASSUME NEW b \in B \cup {NoRow}, Pick(c, b)
        PROVE  Goal
    <3>1. PICK k \in DOMAIN review :
            DOMAIN c = {k} /\ Change([review EXCEPT ![k].picked = b])
      BY <2>2 DEF Pick
    <3>2. review' = [review EXCEPT ![k] = WithPick(review[k], b)]
      BY <3>1 DEF Change, WithPick
    <3>3. None \in Decision
      BY DEF Decision
    <3>4. SameItem(review[k], WithPick(review[k], b))
      BY <1>1, <3>3, EntryChange
    <3>. QED
      BY <1>1, <3>1, <3>2, <3>4 DEF Change, SameItem
  <2>3. ASSUME NEW k \in DOMAIN c \cup {0}, DecideContested(c, k)
        PROVE  Goal
    <3> DEFINE pick(j) == CHOOSE b \in c[j].cands : TRUE
               won(j) == Resolved(review[j], "confirmed", pick(j))
               lost(j) == Resolved(review[j], "dismissed", NoRow)
    <3>1. \A j \in DOMAIN c : j \in DOMAIN review /\ pick(j) \in B
      BY <1>2, <1>3, <2>3 DEF DecideContested
    <3>2. "confirmed" \in Decision /\ "dismissed" \in Decision
      BY DEF Decision
    <3>3. /\ Change(review')
          /\ review' = [j \in DOMAIN review |->
                          IF j \notin DOMAIN c THEN review[j]
                          ELSE IF j = k THEN won(j) ELSE lost(j)]
      BY <2>3 DEF DecideContested, Change, Resolved
    <3> HIDE DEF pick
    <3>4. \A j \in DOMAIN c : SameItem(review[j], won(j)) /\ SameItem(review[j], lost(j))
      BY <1>1, <3>1, <3>2, EntryChange
    <3> HIDE DEF won, lost
    <3>. QED
      BY <1>1, <3>1, <3>3, <3>4 DEF SameItem
  <2>4. CASE LeaveContested(c)
    <3> DEFINE undecided(j) == Resolved(review[j], None, NoRow)
    <3>1. \A j \in DOMAIN c : j \in DOMAIN review
      BY <2>4 DEF LeaveContested
    <3>2. None \in Decision
      BY DEF Decision
    <3>3. /\ Change(review')
          /\ review' = [j \in DOMAIN review |->
                          IF j \notin DOMAIN c THEN review[j] ELSE undecided(j)]
      BY <2>4 DEF LeaveContested, Change, Resolved
    <3>4. \A j \in DOMAIN c : SameItem(review[j], undecided(j))
      BY <1>1, <3>1, <3>2, EntryChange
    <3> HIDE DEF undecided
    <3>. QED
      BY <1>1, <3>1, <3>3, <3>4 DEF SameItem
  <2>. QED
    BY <2>1, <2>2, <2>3, <2>4
<1>5. review' \in Seq(Entry)
  BY <1>1, <1>4, FunctionIsSeq
<1>. QED
  BY <1>4, <1>5

\* The elements of a list of entries.
LEMMA EntriesOf ==
    ASSUME NEW es \in Seq(Entry)
    PROVE  \A k \in DOMAIN es : es[k] \in Entry /\ es[k].item \in ReviewItem
<1>1. \A k \in DOMAIN es : es[k] \in Entry
  BY Indexes, ElementOfSeq
<1>. QED
  BY <1>1 DEF Entry

\* The items of an answer of /reconcile become a list of entries.
LEMMA FirstRound ==
    ASSUME Types, asked.reconcile # None,
           NEW es, es = [k \in DOMAIN asked.reconcile.items |->
                            NewEntry(asked.reconcile.items[k], uploads)]
    PROVE  /\ es \in Seq(Entry)
           /\ asked.reconcile.pairs \subseteq MatchedPair
           /\ DOMAIN es = DOMAIN asked.reconcile.items
           /\ \A k \in DOMAIN es : /\ es[k].item = asked.reconcile.items[k]
                                   /\ es[k].decision = None
<1> DEFINE p == asked.reconcile
<1>1. p \in Previews
  BY Posted
<1>2. p.pairs \subseteq MatchedPair /\ p.items \in Seq({i \in ReviewItem : i.kind # "sum_match"})
  BY <1>1, PreviewAssumption
<1>3. p.items \in Seq(ReviewItem)
  BY <1>2, SeqMonotonic
<1>4. uploads \in 0 .. MaxUploads
  BY DEF Types, TypeOK
<1>5. es \in Seq(Entry)
  BY <1>3, <1>4, NewEntries
<1>. QED
  BY <1>2, <1>5 DEF NewEntry

\* The groupings found are appended to the list of entries.
LEMMA SecondRound ==
    ASSUME Types, asked.leftovers # None,
           NEW es, es = review \o [k \in DOMAIN asked.leftovers.found |->
                           NewEntry(asked.leftovers.found[k], asked.leftovers.upload)]
    PROVE  /\ es \in Seq(Entry)
           /\ Len(es) = Len(review) + Len(asked.leftovers.found)
           /\ DOMAIN review \subseteq DOMAIN es
           /\ \A k \in DOMAIN review : es[k] = review[k]
           /\ \A k \in NewIndexes(es, Len(review)) :
                 /\ k - Len(review) \in DOMAIN asked.leftovers.found
                 /\ es[k].item = asked.leftovers.found[k - Len(review)]
                 /\ es[k].decision = None
<1> DEFINE s == asked.leftovers
           new == [k \in DOMAIN s.found |-> NewEntry(s.found[k], s.upload)]
<1>1. s \in SearchState
  BY Posted
<1>2. s.found \in Seq(ReviewItem) /\ s.upload \in 0 .. MaxUploads
  BY <1>1 DEF SearchState
<1>3. new \in Seq(Entry) /\ DOMAIN new = DOMAIN s.found
  BY <1>2, NewEntries
<1>4. DOMAIN new = 1 .. Len(new) /\ DOMAIN s.found = 1 .. Len(s.found)
      /\ Len(new) \in Nat /\ Len(s.found) \in Nat
  BY <1>2, <1>3, Indexes
<1>5. Len(new) = Len(s.found)
  BY <1>3, <1>4
<1>6. review \in Seq(Entry) /\ DOMAIN review = 1 .. Len(review) /\ Len(review) \in Nat
  BY Posted, Indexes
<1>7. /\ es \in Seq(Entry)
      /\ Len(es) = Len(review) + Len(new)
      /\ \A k \in 1 .. (Len(review) + Len(new)) :
            es[k] = IF k <= Len(review) THEN review[k] ELSE new[k - Len(review)]
  <2>1. es = review \o new
    OBVIOUS
  <2> HIDE DEF new
  <2>2. /\ review \o new \in Seq(Entry)
        /\ Len(review \o new) = Len(review) + Len(new)
        /\ \A k \in 1 .. (Len(review) + Len(new)) :
              (review \o new)[k] = IF k <= Len(review) THEN review[k] ELSE new[k - Len(review)]
    BY <1>3, <1>6, ConcatProperties
  <2>. QED
    BY <2>1, <2>2
<1>8. DOMAIN es = 1 .. (Len(review) + Len(new))
  BY <1>7, Indexes
<1>9. \A k \in NewIndexes(es, Len(review)) :
         k - Len(review) \in DOMAIN s.found /\ es[k] = new[k - Len(review)]
  BY <1>4, <1>5, <1>6, <1>7, <1>8 DEF NewIndexes
<1>10. \A k \in DOMAIN review : k \in DOMAIN es /\ es[k] = review[k]
  BY <1>4, <1>6, <1>7, <1>8
<1>11. \A j \in DOMAIN s.found : new[j].item = s.found[j] /\ new[j].decision = None
  BY DEF NewEntry
<1> HIDE DEF new
<1>. QED
  BY <1>5, <1>7, <1>9, <1>10, <1>11

\* Every variable of the review keeps its type.
LEMMA TypeStep == Types /\ [Next]_vars => Types'
<1> SUFFICES ASSUME Types, [Next]_vars
             PROVE  Types'
  OBVIOUS
<1> USE DEF Types
<1>1. ASSUME NEW p \in Previews, Reconcile(p)
      PROVE  Types'
  <2>1. uploads' \in 0 .. MaxUploads
    BY <1>1, SessionAssumption DEF Reconcile, TypeOK
  <2>2. asked' \in Calls
    BY <1>1 DEF Reconcile, TypeOK, Calls
  <2>. QED
    BY <1>1, <2>1, <2>2 DEF Reconcile, TypeOK, Body, Page, CardsWellFormed
<1>2. CASE ReconcileAnswer
  <2> DEFINE es == [k \in DOMAIN asked.reconcile.items |->
                       NewEntry(asked.reconcile.items[k], uploads)]
  <2>1. es \in Seq(Entry) /\ asked.reconcile.pairs \subseteq MatchedPair
    BY <1>2, FirstRound DEF ReconcileAnswer
  <2>2. /\ upload' = uploads
        /\ matched' = asked.reconcile.pairs
        /\ review' = Rendered(es, DOMAIN es)
        /\ cards' = CardsAt(es, DOMAIN es)
        /\ open' = TRUE
        /\ asked' = [asked EXCEPT !.reconcile = None]
        /\ UNCHANGED <<uploads, narration, reportShown>>
    BY <1>2 DEF ReconcileAnswer
  <2> HIDE DEF es
  <2>3. review' \in Seq(Entry)
    BY <2>1, <2>2, RenderedEntries
  <2>4. CardsWellFormed'
    <3>1. \A k \in DOMAIN es : es[k].item \in ReviewItem
      BY <2>1, EntriesOf
    <3>2. \A c \in CardsAt(es, DOMAIN es) :
            /\ \A k \in DOMAIN c : k \in DOMAIN es /\ c[k] = es[k].item
            /\ Cardinality(DOMAIN c) > 1 => \A k \in DOMAIN c : OneCandidate(c[k])
      BY CardItems
    <3>. QED
      BY <2>2, <3>1, <3>2 DEF CardsWellFormed
  <2>5. TypeOK'
    BY <2>1, <2>2, <2>3, <2>4 DEF TypeOK, Body, Page, Calls, CardsWellFormed
  <2>. QED
    BY <2>4, <2>5
<1>3. CASE Reset
  <2>1. review' \in Seq(Entry)
    BY <1>3, EmptySeq DEF Reset
  <2>2. upload' \in 0 .. MaxUploads /\ matched' \subseteq MatchedPair
    BY <1>3, SessionAssumption DEF Reset
  <2>3. Body' \in Page
    BY <2>1, <2>2 DEF Body, Page
  <2>. QED
    BY <1>3, <2>3 DEF Reset, TypeOK, CardsWellFormed
<1>4. CASE CloseDialog
  BY <1>4 DEF CloseDialog, TypeOK, Body, Page, Calls, CardsWellFormed
<1>5. ASSUME NEW c \in cards,
             \/ \E d \in Decision : Decide(c, d)
             \/ \E b \in B \cup {NoRow} : Pick(c, b)
             \/ \E k \in DOMAIN c \cup {0} : DecideContested(c, k)
             \/ LeaveContested(c)
      PROVE  Types'
  <2>1. Change(review') /\ review' \in Seq(Entry)
    BY <1>5, Clicked
  <2>. QED
    BY <2>1 DEF Change, TypeOK, Body, Page, Calls, CardsWellFormed
<1>6. CASE Confirm
  BY <1>6 DEF Confirm, TypeOK, Body, Page, Calls, CardsWellFormed
<1>7. CASE ConfirmAnswer
  <2> DEFINE body == asked.confirm
             kept == Cleaned(body.matched, body.review)
  <2>1. body \in Page
    BY <1>7, Posted DEF ConfirmAnswer
  <2>2. kept \in Seq(Entry)
    BY <2>1, Kept DEF Page
  <2>3. /\ upload' = body.upload
        /\ matched' = body.matched
        /\ review' = kept
        /\ narration' \in {None, body.upload}
        /\ open' = FALSE
        /\ reportShown' = TRUE
        /\ asked' = [asked EXCEPT !.confirm = None]
        /\ UNCHANGED <<uploads, cards>>
    BY <1>7 DEF ConfirmAnswer, AfterConfirm
  <2> HIDE DEF kept
  <2>. QED
    BY <2>1, <2>2, <2>3 DEF TypeOK, Body, Page, Calls, CardsWellFormed
<1>8. CASE CheckLeftovers
  <2>1. Search(Body) \in SearchState
    <3>1. \A k \in DOMAIN review : ItemRows(review[k].item) \subseteq Row
      BY Posted, EntriesOf, RowsOfItem
    <3>2. Leftovers(matched, review) \subseteq Row
      BY <3>1 DEF Leftovers
    <3>3. << >> \in Seq(ReviewItem)
      BY EmptySeq
    <3>. QED
      BY <3>2, <3>3, Posted DEF Search, SearchState, Body
  <2>. QED
    BY <1>8, <2>1 DEF CheckLeftovers, TypeOK, Body, Page, Calls, CardsWellFormed
<1>9. ASSUME NEW r \in Row, SearchTarget(r)
      PROVE  Types'
  <2> DEFINE s == asked.leftovers
             others == {t \in s.pool \ s.used : (t \in A) # (r \in A)}
             combos == IF r \in s.used THEN {} ELSE SumCombos(r, others)
             rest == [s EXCEPT !.todo = s.todo \ {r}]
             g == CHOOSE x \in combos : TRUE
             found == [rest EXCEPT !.used = s.used \cup g \cup {r},
                                   !.found = Append(s.found, SumItem(r, g))]
  <2>1. s \in SearchState
    BY <1>9, Posted DEF SearchTarget
  <2>2. rest \in SearchState
    BY <2>1 DEF SearchState
  <2>3. combos # {} => g \in SUBSET Row
    BY <2>1 DEF SumCombos, SearchState
  <2>4. combos # {} => SumItem(r, g) \in ReviewItem
    BY <2>3, SumItemType
  <2>5. combos # {} => Append(s.found, SumItem(r, g)) \in Seq(ReviewItem)
    BY <2>1, <2>4, AppendProperties DEF SearchState
  <2>6. combos # {} => found \in SearchState
    BY <2>1, <2>3, <2>5 DEF SearchState
  <2>7. asked' \in {[asked EXCEPT !.leftovers = rest], [asked EXCEPT !.leftovers = found]}
        /\ (combos = {} => asked' = [asked EXCEPT !.leftovers = rest])
    BY <1>9 DEF SearchTarget
  <2>8. asked' \in Calls
    <3> HIDE DEF rest, found, combos
    <3>. QED
      BY <2>2, <2>6, <2>7 DEF TypeOK, Calls
  <2>. QED
    BY <1>9, <2>8 DEF SearchTarget, TypeOK, Body, Page, CardsWellFormed
<1>10. CASE LeftoversAnswer
  <2> DEFINE s == asked.leftovers
             es == review \o [k \in DOMAIN s.found |-> NewEntry(s.found[k], s.upload)]
             at == NewIndexes(es, Len(review))
  <2>1. es \in Seq(Entry)
    BY <1>10, SecondRound DEF LeftoversAnswer
  <2>2. /\ asked' = [asked EXCEPT !.leftovers = None]
        /\ \/ review' = Rendered(es, at) /\ cards' = CardsAt(es, at) /\ open' = TRUE
           \/ UNCHANGED <<review, cards, open>>
        /\ UNCHANGED <<uploads, upload, matched, narration, reportShown>>
    BY <1>10 DEF LeftoversAnswer
  <2>3. at \in SUBSET DOMAIN es
    BY DEF NewIndexes
  <2> HIDE DEF es, at
  <2>4. review' \in Seq(Entry)
    BY <2>1, <2>2, RenderedEntries, Posted
  <2>5. CardsWellFormed'
    <3>1. \A k \in DOMAIN es : es[k].item \in ReviewItem
      BY <2>1, EntriesOf
    <3>2. \A c \in CardsAt(es, at) :
            /\ \A k \in DOMAIN c : k \in at /\ c[k] = es[k].item
            /\ Cardinality(DOMAIN c) > 1 => \A k \in DOMAIN c : OneCandidate(c[k])
      BY <2>3, CardItems
    <3>. QED
      BY <2>2, <2>3, <3>1, <3>2 DEF CardsWellFormed
  <2>6. TypeOK'
    BY <2>2, <2>4, <2>5 DEF TypeOK, Body, Page, Calls, CardsWellFormed
  <2>. QED
    BY <2>5, <2>6
<1>11. ASSUME NEW call \in {"reconcile", "confirm", "leftovers"}, CallFails(call)
       PROVE  Types'
  BY <1>11 DEF CallFails, TypeOK, Body, Page, Calls, CardsWellFormed
<1>12. CASE UNCHANGED vars
  BY <1>12 DEF vars, TypeOK, Body, Page, Calls, CardsWellFormed
<1>. QED
  BY <1>1, <1>2, <1>3, <1>4, <1>5, <1>6, <1>7, <1>8, <1>9, <1>10, <1>11, <1>12 DEF Next

\* The first state of the page.
LEMMA TypeInit == Init => Types
<1> SUFFICES ASSUME Init
             PROVE  Types
  OBVIOUS
<1>1. review \in Seq(Entry)
  BY EmptySeq DEF Init
<1>2. upload \in 0 .. MaxUploads /\ uploads \in 0 .. MaxUploads /\ matched \subseteq MatchedPair
  BY SessionAssumption DEF Init
<1>3. Body \in Page
  BY <1>1, <1>2 DEF Body, Page
<1>4. asked \in Calls
  BY DEF Init, Calls
<1>. QED
  BY <1>2, <1>3, <1>4 DEF Init, Types, TypeOK, CardsWellFormed

\* Every variable of the review keeps its type, whatever the user clicks,
\* in whatever order answers come, and whichever calls fail.
THEOREM TypeCorrect == Spec => []TypeOK
<1>1. Types => TypeOK
  BY DEF Types
<1>. QED
  BY <1>1, TypeInit, TypeStep, PTL DEF Spec

-----------------------------------------------------------------------------
(* For every user *)

\* The controls of an open dialog work on the items their cards show, also
\* for a user who does not wait for answers: whatever replaces the list
\* closes the dialog or renders it again.
LEMMA CardsStep ==
    Types /\ CardsShowTheirItems /\ [Next]_vars => CardsShowTheirItems'
<1> SUFFICES ASSUME Types, CardsShowTheirItems, [Next]_vars
             PROVE  CardsShowTheirItems'
  OBVIOUS
<1>1. CASE UNCHANGED <<review, open, cards>> \/ open' = FALSE
  BY <1>1 DEF CardsShowTheirItems
<1>2. CASE ReconcileAnswer
  <2> DEFINE es == [k \in DOMAIN asked.reconcile.items |->
                       NewEntry(asked.reconcile.items[k], uploads)]
  <2>1. es \in Seq(Entry)
    BY <1>2, FirstRound DEF ReconcileAnswer
  <2>2. review' = Rendered(es, DOMAIN es) /\ cards' = CardsAt(es, DOMAIN es)
    BY <1>2 DEF ReconcileAnswer
  <2> HIDE DEF es
  <2>3. \A c \in CardsAt(es, DOMAIN es) : \A k \in DOMAIN c :
           k \in DOMAIN es /\ c[k] = es[k].item
    BY CardItems
  <2>. QED
    BY <2>1, <2>2, <2>3, RenderedEntries DEF CardsShowTheirItems
<1>3. ASSUME NEW c \in cards,
             \/ \E d \in Decision : Decide(c, d)
             \/ \E b \in B \cup {NoRow} : Pick(c, b)
             \/ \E k \in DOMAIN c \cup {0} : DecideContested(c, k)
             \/ LeaveContested(c)
      PROVE  CardsShowTheirItems'
  <2>1. /\ Change(review')
        /\ DOMAIN review' = DOMAIN review
        /\ \A k \in DOMAIN review : review'[k].item = review[k].item
    BY <1>3, Clicked
  <2>. QED
    BY <2>1 DEF Change, CardsShowTheirItems
<1>4. CASE LeftoversAnswer
  <2> DEFINE s == asked.leftovers
             es == review \o [k \in DOMAIN s.found |-> NewEntry(s.found[k], s.upload)]
             at == NewIndexes(es, Len(review))
  <2>1. es \in Seq(Entry)
    BY <1>4, SecondRound DEF LeftoversAnswer
  <2>2. \/ review' = Rendered(es, at) /\ cards' = CardsAt(es, at)
        \/ UNCHANGED <<review, cards, open>>
    BY <1>4 DEF LeftoversAnswer
  <2>3. at \in SUBSET DOMAIN es
    BY DEF NewIndexes
  <2> HIDE DEF es, at
  <2>4. \A c \in CardsAt(es, at) : \A k \in DOMAIN c : k \in at /\ c[k] = es[k].item
    BY <2>3, CardItems
  <2>5. CASE review' = Rendered(es, at) /\ cards' = CardsAt(es, at)
    BY <2>1, <2>3, <2>4, <2>5, RenderedEntries DEF CardsShowTheirItems
  <2>. QED
    BY <1>1, <2>2, <2>5
<1>5. ASSUME NEW p \in Previews, Reconcile(p)
      PROVE  CardsShowTheirItems'
  BY <1>1, <1>5 DEF Reconcile
<1>6. CASE Reset
  BY <1>6 DEF Reset, CardsShowTheirItems
<1>7. CASE CloseDialog \/ ConfirmAnswer
  BY <1>1, <1>7 DEF CloseDialog, ConfirmAnswer, AfterConfirm
<1>8. CASE Confirm \/ CheckLeftovers
  BY <1>1, <1>8 DEF Confirm, CheckLeftovers
<1>9. ASSUME NEW r \in Row, SearchTarget(r)
      PROVE  CardsShowTheirItems'
  BY <1>1, <1>9 DEF SearchTarget
<1>10. ASSUME NEW call \in {"reconcile", "confirm", "leftovers"}, CallFails(call)
       PROVE  CardsShowTheirItems'
  BY <1>1, <1>10 DEF CallFails
<1>11. CASE UNCHANGED vars
  BY <1>1, <1>11 DEF vars
<1>. QED
  BY <1>2, <1>3, <1>4, <1>5, <1>6, <1>7, <1>8, <1>9, <1>10, <1>11 DEF Next

\* An open dialog works on the items it shows.
THEOREM CardsCurrent == Spec => []CardsShowTheirItems
<1>1. Init => CardsShowTheirItems
  BY DEF Init, CardsShowTheirItems
<1>. QED
  BY <1>1, TypeInit, TypeStep, CardsStep, PTL DEF Spec

\* Dropping entries settles nothing that was not settled.
LEMMA SettledShrinks ==
    ASSUME NEW pairs, NEW es \in Seq(Entry)
    PROVE  Settled(pairs, Cleaned(pairs, es)) \subseteq Settled(pairs, es)
<1>1. PICK at : StandsFor(pairs, es, at)
  BY Kept
<1>2. \A i \in DOMAIN Cleaned(pairs, es) :
         at[i] \in DOMAIN es /\ Cleaned(pairs, es)[i] = es[at[i]]
  BY <1>1 DEF StandsFor, Survivors
<1>. QED
  BY <1>2 DEF Settled

\* No confirmed result calls a row unmatched that has a home.
THEOREM NoContradiction == Spec => []NoRowBothWays
<1>1. Init => NoRowBothWays
  BY DEF Init, NoRowBothWays
<1>2. Types /\ NoRowBothWays /\ [Next]_vars => NoRowBothWays'
  <2> SUFFICES ASSUME Types, NoRowBothWays, [Next]_vars
               PROVE  NoRowBothWays'
    OBVIOUS
  <2>1. CASE UNCHANGED final \/ final' = None
    BY <2>1 DEF NoRowBothWays
  <2>2. CASE ConfirmAnswer
    <3> DEFINE body == asked.confirm
               kept == Cleaned(body.matched, body.review)
    <3>1. body.review \in Seq(Entry)
      BY <2>2, Posted DEF ConfirmAnswer, Page
    <3>2. final'.review = kept /\ final'.matched = body.matched
      BY <2>2 DEF ConfirmAnswer
    <3>3. \A i \in DOMAIN kept : ~Stale(body.matched, body.review, kept[i])
      <4>1. PICK at : StandsFor(body.matched, body.review, at)
        BY <3>1, Kept
      <4>. QED
        BY <4>1 DEF StandsFor, Survivors
    <3>4. Settled(body.matched, kept) \subseteq Settled(body.matched, body.review)
      BY <3>1, SettledShrinks
    <3>. QED
      BY <3>2, <3>3, <3>4 DEF NoRowBothWays, Stale
  <2>. QED
    BY <2>1, <2>2
       DEF Next, Reconcile, ReconcileAnswer, Reset, CloseDialog, Decide, Pick,
           DecideContested, LeaveContested, Change, Confirm, CheckLeftovers,
           SearchTarget, LeftoversAnswer, CallFails, vars
<1>. QED
  BY <1>1, <1>2, TypeInit, TypeStep, PTL DEF Spec

-----------------------------------------------------------------------------
(* For a user who waits for answers *)

IsSum(item) == item.kind = "sum_match"

\* Items of the first round claim rows that no clean match and no other item
\* of the round claims, candidates included.
FirstRoundApart(pairs, es) ==
    \A k \in DOMAIN es : ~IsSum(es[k].item) =>
        /\ ItemRows(es[k].item) \cap PairedRows(pairs) = {}
        /\ \A j \in DOMAIN es \ {k} : ~IsSum(es[j].item) =>
              FixedRows(es[j].item) \cap ItemRows(es[k].item) = {}

\* Nothing settles a row of this entry but the entry itself.
Alone(pairs, es, k) ==
    /\ FixedRows(es[k].item) \cap PairedRows(pairs) = {}
    /\ \A j \in DOMAIN es \ {k} : FixedRows(es[k].item) \cap HomeOf(es[j]) = {}

GroupingsApart(pairs, es) ==
    \A k \in DOMAIN es : IsSum(es[k].item) /\ Confirmed(es[k]) => Alone(pairs, es, k)

\* The entries of a second round, whatever is decided about them.
Offered(pairs, es, at) ==
    \A k \in at : /\ k \in DOMAIN es
                  /\ IsSum(es[k].item)
                  /\ Alone(pairs, es, k)
                  /\ \A j \in at \ {k} :
                        FixedRows(es[k].item) \cap FixedRows(es[j].item) = {}

Shown == UNION {DOMAIN c : c \in cards}

DialogInv ==
    open => \/ \A k \in DOMAIN review : ~IsSum(review[k].item)
            \/ Offered(matched, review, Shown)

\* What the search has found so far is made of rows that nothing settles,
\* each used once.
SearchInv(s) ==
    /\ s.pool \subseteq Leftovers(matched, review)
    /\ s.todo \subseteq s.pool
    /\ \A k \in DOMAIN s.found :
          /\ IsSum(s.found[k])
          /\ ItemRows(s.found[k]) = FixedRows(s.found[k])
          /\ FixedRows(s.found[k]) \subseteq s.pool \cap s.used
          /\ \A j \in DOMAIN s.found \ {k} :
                FixedRows(s.found[j]) \cap FixedRows(s.found[k]) = {}

\* One call is out at a time, and the page is as it was when it went out.
CallsInv ==
    /\ \A call, other \in {"reconcile", "confirm", "leftovers"} :
          asked[call] # None /\ asked[other] # None => call = other
    /\ asked.confirm # None => asked.confirm = Body
    /\ asked.leftovers # None => ~open /\ SearchInv(asked.leftovers)

Apart ==
    /\ FirstRoundApart(matched, review)
    /\ GroupingsApart(matched, review)
    /\ DialogInv

IInv == Types /\ CardsShowTheirItems /\ Apart /\ CallsInv

\* The last confirmed result is the beginning of the list on the page, and
\* the dialog does not touch it.
FinalInv ==
    final # None =>
        /\ final.upload = upload
        /\ final.matched = matched
        /\ DOMAIN final.review \subseteq DOMAIN review
        /\ \A k \in DOMAIN final.review : review[k] = final.review[k]
        /\ open => Shown \cap DOMAIN final.review = {}

\* Unmatched items name one row.  A page without an upload shows none.
OneRow(item) == item.kind = "unmatched" => \E r \in Row : ItemRows(item) = {r}
RowsInv ==
    /\ \A k \in DOMAIN review : OneRow(review[k].item)
    /\ upload = 0 => \A r \in Row : ~OnShow(r)
    /\ upload <= uploads
    /\ asked.reconcile # None => upload < uploads

\* Which rows an entry can settle.
LEMMA Homes ==
    ASSUME NEW e \in Entry
    PROVE  /\ ~Confirmed(e) => HomeOf(e) = {}
           /\ IsSum(e.item) => HomeOf(e) \subseteq FixedRows(e.item)
           /\ Ambiguous(e) /\ e.picked \in e.item.cands => HomeOf(e) \subseteq ItemRows(e.item)
           /\ ~Ambiguous(e) => HomeOf(e) \subseteq FixedRows(e.item)
           /\ FixedRows(e.item) \subseteq ItemRows(e.item)
BY DEF HomeOf, IsSum, Ambiguous, ItemRows

\* Dropping entries puts nothing in the way of the others.
LEMMA ApartKept ==
    ASSUME NEW pairs, NEW es \in Seq(Entry),
           FirstRoundApart(pairs, es), GroupingsApart(pairs, es)
    PROVE  /\ FirstRoundApart(pairs, Cleaned(pairs, es))
           /\ GroupingsApart(pairs, Cleaned(pairs, es))
<1> DEFINE kept == Cleaned(pairs, es)
<1>1. PICK at : StandsFor(pairs, es, at)
  BY Kept
<1>2. \A i \in DOMAIN kept : at[i] \in DOMAIN es /\ kept[i] = es[at[i]]
  BY <1>1 DEF StandsFor, Survivors
<1>3. \A i \in DOMAIN kept : \A j \in DOMAIN kept \ {i} : at[j] \in DOMAIN es \ {at[i]}
  BY <1>1, <1>2 DEF StandsFor
<1> HIDE DEF kept
<1>4. FirstRoundApart(pairs, kept)
  <2>1. SUFFICES ASSUME NEW k \in DOMAIN kept, ~IsSum(kept[k].item)
                 PROVE  /\ ItemRows(kept[k].item) \cap PairedRows(pairs) = {}
                        /\ \A j \in DOMAIN kept \ {k} : ~IsSum(kept[j].item) =>
                              FixedRows(kept[j].item) \cap ItemRows(kept[k].item) = {}
    BY DEF FirstRoundApart
  <2>2. /\ ItemRows(es[at[k]].item) \cap PairedRows(pairs) = {}
        /\ \A j \in DOMAIN es \ {at[k]} : ~IsSum(es[j].item) =>
              FixedRows(es[j].item) \cap ItemRows(es[at[k]].item) = {}
    BY <1>2, <2>1 DEF FirstRoundApart
  <2>3. ItemRows(kept[k].item) \cap PairedRows(pairs) = {}
    BY <1>2, <2>2
  <2>4. ASSUME NEW j \in DOMAIN kept \ {k}, ~IsSum(kept[j].item)
        PROVE  FixedRows(kept[j].item) \cap ItemRows(kept[k].item) = {}
    <3>1. at[j] \in DOMAIN es \ {at[k]} /\ ~IsSum(es[at[j]].item)
      BY <1>2, <1>3, <2>4
    <3>2. FixedRows(es[at[j]].item) \cap ItemRows(es[at[k]].item) = {}
      BY <2>2, <3>1
    <3>3. kept[j] = es[at[j]] /\ kept[k] = es[at[k]]
      BY <1>2
    <3>. QED
      BY <3>2, <3>3
  <2>. QED
    BY <2>3, <2>4
<1>5. GroupingsApart(pairs, kept)
  <2>1. SUFFICES ASSUME NEW k \in DOMAIN kept, IsSum(kept[k].item), Confirmed(kept[k])
                 PROVE  Alone(pairs, kept, k)
    BY DEF GroupingsApart
  <2>2. Alone(pairs, es, at[k])
    BY <1>2, <2>1 DEF GroupingsApart
  <2>. QED
    BY <1>2, <1>3, <2>2 DEF Alone
<1>. QED
  BY <1>4, <1>5 DEF kept

\* Whatever is decided about the entries of a second round, they and the
\* groupings confirmed before stay apart.
LEMMA DecideOffered ==
    ASSUME NEW pairs, NEW es \in Seq(Entry), NEW fs \in Seq(Entry), NEW at,
           Offered(pairs, es, at), GroupingsApart(pairs, es),
           DOMAIN fs = DOMAIN es,
           \A k \in DOMAIN es : /\ fs[k].item = es[k].item
                                /\ k \notin at => fs[k] = es[k]
    PROVE  Offered(pairs, fs, at) /\ GroupingsApart(pairs, fs)
<1>1. \A k \in at : /\ k \in DOMAIN es /\ IsSum(es[k].item) /\ Alone(pairs, es, k)
                    /\ \A j \in at \ {k} :
                          FixedRows(es[k].item) \cap FixedRows(es[j].item) = {}
  BY DEF Offered
<1>2. \A k \in at : HomeOf(fs[k]) \subseteq FixedRows(es[k].item)
  <2>1. SUFFICES ASSUME NEW k \in at
                 PROVE  HomeOf(fs[k]) \subseteq FixedRows(es[k].item)
    OBVIOUS
  <2>2. fs[k] \in Entry /\ fs[k].item = es[k].item /\ IsSum(fs[k].item)
    BY <1>1, EntriesOf
  <2>. QED
    BY <2>2, Homes
<1>3. ASSUME NEW k \in at
      PROVE  Alone(pairs, fs, k)
  <2>1. FixedRows(es[k].item) \cap PairedRows(pairs) = {}
    BY <1>1 DEF Alone
  <2>2. ASSUME NEW j \in DOMAIN es \ {k}
        PROVE  FixedRows(es[k].item) \cap HomeOf(fs[j]) = {}
    <3>1. CASE j \in at
      BY <1>1, <1>2, <3>1
    <3>2. CASE j \notin at
      BY <1>1, <3>2 DEF Alone
    <3>. QED
      BY <3>1, <3>2
  <2>. QED
    BY <1>1, <2>1, <2>2 DEF Alone
<1>4. ASSUME NEW k \in DOMAIN es, k \notin at, IsSum(fs[k].item), Confirmed(fs[k])
      PROVE  Alone(pairs, fs, k)
  <2>1. fs[k] = es[k] /\ Alone(pairs, es, k)
    BY <1>4 DEF GroupingsApart
  <2>2. HomeOf(es[k]) \subseteq FixedRows(es[k].item) /\ FixedRows(es[k].item) \subseteq HomeOf(es[k])
    BY <1>4, <2>1, EntriesOf, Homes DEF HomeOf
  <2>3. ASSUME NEW j \in DOMAIN es \ {k}
        PROVE  FixedRows(es[k].item) \cap HomeOf(fs[j]) = {}
    <3>1. CASE j \in at
      <4>1. FixedRows(es[j].item) \cap HomeOf(es[k]) = {}
        BY <1>1, <1>4, <3>1 DEF Alone
      <4>. QED
        BY <1>2, <2>2, <3>1, <4>1
    <3>2. CASE j \notin at
      BY <2>1, <3>2 DEF Alone
    <3>. QED
      BY <3>1, <3>2
  <2>. QED
    BY <2>1, <2>3 DEF Alone
<1>5. Offered(pairs, fs, at)
  BY <1>1, <1>3 DEF Offered
<1>6. GroupingsApart(pairs, fs)
  BY <1>3, <1>4 DEF GroupingsApart
<1>. QED
  BY <1>5, <1>6

\* What the items of the first round claim does not depend on decisions.
LEMMA SameFirstRound ==
    ASSUME NEW pairs, NEW es, NEW fs, FirstRoundApart(pairs, es), DOMAIN fs = DOMAIN es,
           \A k \in DOMAIN es : fs[k].item = es[k].item
    PROVE  FirstRoundApart(pairs, fs)
BY DEF FirstRoundApart

\* The list fs is es and, at the indexes `at`, undecided groupings of rows
\* that nothing in es settles.
Extends(pairs, es, fs, at) ==
    /\ DOMAIN es \subseteq DOMAIN fs
    /\ \A k \in DOMAIN es : fs[k] = es[k]
    /\ at = DOMAIN fs \ DOMAIN es
    /\ \A k \in at : /\ IsSum(fs[k].item) /\ fs[k].decision = None
                     /\ FixedRows(fs[k].item) \cap Settled(pairs, es) = {}
                     /\ \A j \in at \ {k} :
                           FixedRows(fs[k].item) \cap FixedRows(fs[j].item) = {}

\* Appending such groupings.
LEMMA AppendOffered ==
    ASSUME NEW pairs, NEW es \in Seq(Entry), NEW fs \in Seq(Entry), NEW at,
           FirstRoundApart(pairs, es), GroupingsApart(pairs, es), Extends(pairs, es, fs, at)
    PROVE  /\ FirstRoundApart(pairs, fs)
           /\ GroupingsApart(pairs, fs)
           /\ Offered(pairs, fs, at)
<1> USE DEF Extends
<1>1. \A k \in at : HomeOf(fs[k]) = {} /\ ~Confirmed(fs[k])
  <2>1. None # "confirmed"
    BY SessionAssumption
  <2>. QED
    BY <2>1 DEF HomeOf, Confirmed
<1>2. \A k \in DOMAIN es : HomeOf(es[k]) \subseteq Settled(pairs, es)
  BY DEF Settled
<1>3. PairedRows(pairs) \subseteq Settled(pairs, es)
  BY DEF Settled
<1>4. \A k \in at : Alone(pairs, fs, k)
  <2>1. SUFFICES ASSUME NEW k \in at
                 PROVE  Alone(pairs, fs, k)
    OBVIOUS
  <2>2. \A j \in DOMAIN fs \ {k} : FixedRows(fs[k].item) \cap HomeOf(fs[j]) = {}
    <3>1. SUFFICES ASSUME NEW j \in DOMAIN fs \ {k}
                   PROVE  FixedRows(fs[k].item) \cap HomeOf(fs[j]) = {}
      OBVIOUS
    <3>2. CASE j \in DOMAIN es
      BY <1>2, <3>2
    <3>3. CASE j \in at
      BY <1>1, <3>3
    <3>. QED
      BY <3>2, <3>3
  <2>. QED
    BY <1>3, <2>2 DEF Alone
<1>5. Offered(pairs, fs, at)
  BY <1>4 DEF Offered
<1>6. FirstRoundApart(pairs, fs)
  <2>1. \A k \in DOMAIN fs : ~IsSum(fs[k].item) => k \in DOMAIN es
    OBVIOUS
  <2>. QED
    BY <2>1 DEF FirstRoundApart
<1>7. GroupingsApart(pairs, fs)
  <2>1. SUFFICES ASSUME NEW k \in DOMAIN fs, IsSum(fs[k].item), Confirmed(fs[k])
                 PROVE  Alone(pairs, fs, k)
    BY DEF GroupingsApart
  <2>2. k \in DOMAIN es /\ Alone(pairs, es, k)
    BY <1>1, <2>1 DEF GroupingsApart
  <2>3. \A j \in DOMAIN fs \ {k} : FixedRows(fs[k].item) \cap HomeOf(fs[j]) = {}
    BY <1>1, <2>2 DEF Alone
  <2>. QED
    BY <2>2, <2>3 DEF Alone
<1>. QED
  BY <1>5, <1>6, <1>7

\* The answer of /reconcile: its claims are apart, by what it guarantees.
LEMMA FirstRoundStep ==
    ASSUME IInv, ReconcileAnswer
    PROVE  Apart' /\ CallsInv'
<1> DEFINE p  == asked.reconcile
           es == [k \in DOMAIN p.items |-> NewEntry(p.items[k], uploads)]
<1>1. /\ Types
      /\ p # None
      /\ matched' = p.pairs
      /\ review' = Rendered(es, DOMAIN es)
      /\ asked' = [asked EXCEPT !.reconcile = None]
  BY DEF IInv, ReconcileAnswer
<1>2. p \in Previews
  BY <1>1, Posted
<1>3. /\ es \in Seq(Entry)
      /\ DOMAIN es = DOMAIN p.items
      /\ \A k \in DOMAIN es : es[k].item = p.items[k]
  BY <1>1, FirstRound
<1> HIDE DEF es
<1>4. DOMAIN review' = DOMAIN p.items /\ \A k \in DOMAIN p.items : review'[k].item = p.items[k]
  BY <1>1, <1>3, RenderedEntries
<1>5. \A k \in DOMAIN p.items : ~IsSum(p.items[k])
  <2>1. p.items \in Seq({i \in ReviewItem : i.kind # "sum_match"})
    BY <1>2, PreviewAssumption
  <2>2. \A k \in DOMAIN p.items : p.items[k] \in {i \in ReviewItem : i.kind # "sum_match"}
    BY <2>1, Indexes, ElementOfSeq
  <2>. QED
    BY <2>2 DEF IsSum
<1>6. FirstRoundApart(matched', review')
  <2>1. ClaimedOnce(p.pairs, ItemsOf(p))
        /\ \A j, k \in DOMAIN p.items : p.items[j] = p.items[k] => j = k
    BY <1>2, PreviewAssumption
  <2>2. \A k \in DOMAIN p.items : p.items[k] \in ItemsOf(p)
    BY DEF ItemsOf
  <2>3. \A k \in DOMAIN p.items : ItemRows(p.items[k]) \cap PairedRows(p.pairs) = {}
    BY <2>1, <2>2 DEF ClaimedOnce, PairedRows
  <2>4. \A k \in DOMAIN p.items : \A j \in DOMAIN p.items \ {k} :
           FixedRows(p.items[j]) \cap ItemRows(p.items[k]) = {}
    <3>1. SUFFICES ASSUME NEW k \in DOMAIN p.items, NEW j \in DOMAIN p.items \ {k}
                   PROVE  FixedRows(p.items[j]) \cap ItemRows(p.items[k]) = {}
      OBVIOUS
    <3>2. p.items[j] # p.items[k]
      BY <2>1
    <3>. QED
      BY <2>1, <2>2, <3>2 DEF ClaimedOnce
  <2>. QED
    BY <1>1, <1>4, <2>3, <2>4 DEF FirstRoundApart
<1>7. GroupingsApart(matched', review') /\ DialogInv'
  BY <1>4, <1>5 DEF GroupingsApart, DialogInv
<1>8. CallsInv'
  <2>1. asked.confirm = None /\ asked.leftovers = None
    BY <1>1 DEF IInv, CallsInv
  <2>2. asked' = [reconcile |-> None, confirm |-> None, leftovers |-> None]
    BY <1>1, <2>1 DEF Types, TypeOK, Calls
  <2>. QED
    BY <2>2 DEF CallsInv
<1>. QED
  BY <1>6, <1>7, <1>8 DEF Apart

\* A click on a card of either round.
LEMMA ClickStep ==
    ASSUME IInv, Patient, NEW c \in cards,
           \/ \E d \in Decision : Decide(c, d)
           \/ \E b \in B \cup {NoRow} : Pick(c, b)
           \/ \E k \in DOMAIN c \cup {0} : DecideContested(c, k)
           \/ LeaveContested(c)
    PROVE  Apart' /\ CallsInv'
<1>1. /\ Change(review')
      /\ review \in Seq(Entry) /\ review' \in Seq(Entry)
      /\ DOMAIN review' = DOMAIN review
      /\ \A k \in DOMAIN review : /\ review'[k].item = review[k].item
                                  /\ k \notin DOMAIN c => review'[k] = review[k]
  BY Clicked, Posted DEF IInv
<1>2. open /\ Quiet /\ UNCHANGED <<matched, cards, open, asked>>
  BY <1>1 DEF Change, MayClick
<1>3. FirstRoundApart(matched', review')
  BY <1>1, <1>2, SameFirstRound DEF IInv, Apart
<1>4. GroupingsApart(matched', review') /\ DialogInv'
  <2>1. CASE \A k \in DOMAIN review : ~IsSum(review[k].item)
    BY <1>1, <2>1 DEF GroupingsApart, DialogInv
  <2>2. CASE Offered(matched, review, Shown)
    <3>1. DOMAIN c \subseteq Shown
      BY DEF Shown
    <3>2. Offered(matched, review', Shown) /\ GroupingsApart(matched, review')
      BY <1>1, <2>2, <3>1, DecideOffered DEF IInv, Apart
    <3>. QED
      BY <1>2, <3>2 DEF DialogInv, Shown
  <2>. QED
    BY <1>2, <2>1, <2>2 DEF IInv, Apart, DialogInv
<1>5. CallsInv'
  BY <1>2 DEF Quiet, CallsInv
<1>. QED
  BY <1>3, <1>4, <1>5 DEF Apart

\* The answer of /confirm drops entries and closes the dialog.
LEMMA ConfirmStep ==
    ASSUME IInv, ConfirmAnswer
    PROVE  Apart' /\ CallsInv'
<1>1. /\ asked.confirm = Body
      /\ asked.reconcile = None /\ asked.leftovers = None
      /\ Body.matched = matched /\ Body.review = review
      /\ review \in Seq(Entry)
  BY Posted DEF IInv, CallsInv, ConfirmAnswer, Body
<1>2. /\ matched' = matched
      /\ review' = Cleaned(matched, review)
      /\ open' = FALSE
      /\ asked' = [asked EXCEPT !.confirm = None]
  BY <1>1 DEF ConfirmAnswer, AfterConfirm
<1>3. FirstRoundApart(matched', review') /\ GroupingsApart(matched', review')
  BY <1>1, <1>2, ApartKept DEF IInv, Apart
<1>4. asked' = [reconcile |-> None, confirm |-> None, leftovers |-> None]
  BY <1>1, <1>2 DEF IInv, Types, TypeOK, Calls
<1>. QED
  BY <1>2, <1>3, <1>4 DEF Apart, DialogInv, CallsInv

\* One target of the second search: what it adds is made of open rows that
\* no earlier grouping uses.
LEMMA SearchStep ==
    ASSUME IInv, NEW r \in Row, SearchTarget(r)
    PROVE  Apart' /\ CallsInv'
<1> DEFINE s == asked.leftovers
           others == {t \in s.pool \ s.used : (t \in A) # (r \in A)}
           combos == IF r \in s.used THEN {} ELSE SumCombos(r, others)
           rest == [s EXCEPT !.todo = s.todo \ {r}]
           g == CHOOSE x \in combos : TRUE
           more == [rest EXCEPT !.used = s.used \cup g \cup {r},
                                !.found = Append(s.found, SumItem(r, g))]
<1>1. /\ s # None /\ r \in s.todo
      /\ UNCHANGED <<upload, matched, review, open, cards>>
      /\ asked' \in {[asked EXCEPT !.leftovers = rest], [asked EXCEPT !.leftovers = more]}
      /\ combos = {} => asked' = [asked EXCEPT !.leftovers = rest]
  BY DEF SearchTarget
<1>2. Types /\ s \in SearchState /\ SearchInv(s) /\ ~open
      /\ asked.confirm = None /\ asked.reconcile = None
  BY <1>1, Posted DEF IInv, CallsInv
<1>3. SearchInv(rest) /\ rest.pool = s.pool
  BY <1>2 DEF SearchState, SearchInv
<1>4. ASSUME combos # {}
      PROVE  SearchInv(more)
  <2>1. r \notin s.used /\ g \subseteq s.pool \ s.used /\ r \in s.pool /\ g \subseteq Row
    BY <1>1, <1>2, <1>4 DEF SumCombos, SearchInv, SearchState
  <2> DEFINE item == SumItem(r, g)
             n == Len(s.found)
  <2>2. /\ IsSum(item)
        /\ ItemRows(item) = FixedRows(item)
        /\ FixedRows(item) = g \cup {r}
    BY RowAssumption DEF SumItem, GroupItem, IsSum, ItemRows, FixedRows, Row
  <2>3. more.pool = s.pool /\ more.todo \subseteq s.todo
        /\ more.used = s.used \cup g \cup {r} /\ more.found = Append(s.found, item)
    BY <1>2 DEF SearchState
  <2> HIDE DEF item, g, more
  <2>4. /\ DOMAIN s.found = 1 .. n /\ n \in Nat
        /\ DOMAIN Append(s.found, item) = 1 .. (n + 1)
        /\ \A k \in 1 .. n : Append(s.found, item)[k] = s.found[k]
        /\ Append(s.found, item)[n + 1] = item
    <3>1. s.found \in Seq(ReviewItem)
      BY <1>2 DEF SearchState
    <3>2. item \in ReviewItem
      BY <2>1, SumItemType DEF item
    <3>. QED
      BY <3>1, <3>2, Indexes, AppendProperties
  <2>5. /\ s.pool \subseteq Leftovers(matched, review)
        /\ s.todo \subseteq s.pool
        /\ \A k \in 1 .. n :
             /\ IsSum(s.found[k])
             /\ ItemRows(s.found[k]) = FixedRows(s.found[k])
             /\ FixedRows(s.found[k]) \subseteq s.pool \cap s.used
             /\ \A j \in (1 .. n) \ {k} :
                   FixedRows(s.found[j]) \cap FixedRows(s.found[k]) = {}
    BY <1>2, <2>4 DEF SearchInv
  <2>6. FixedRows(item) \subseteq s.pool \cap more.used /\ FixedRows(item) \cap s.used = {}
    BY <2>1, <2>2, <2>3
  <2>7. \A k \in 1 .. (n + 1) : k \in 1 .. n \/ k = n + 1
    BY <2>4
  <2>8. \A k \in DOMAIN more.found :
          /\ IsSum(more.found[k])
          /\ ItemRows(more.found[k]) = FixedRows(more.found[k])
          /\ FixedRows(more.found[k]) \subseteq more.pool \cap more.used
    BY <2>2, <2>3, <2>4, <2>5, <2>6, <2>7
  <2>9. ASSUME NEW k \in DOMAIN more.found, NEW j \in DOMAIN more.found \ {k}
        PROVE  FixedRows(more.found[j]) \cap FixedRows(more.found[k]) = {}
    <3>1. CASE k \in 1 .. n /\ j \in 1 .. n
      BY <2>3, <2>4, <2>5, <2>9, <3>1
    <3>2. CASE k \in 1 .. n /\ j = n + 1
      BY <2>3, <2>4, <2>5, <2>6, <3>2
    <3>3. CASE k = n + 1 /\ j \in 1 .. n
      BY <2>3, <2>4, <2>5, <2>6, <3>3
    <3>. QED
      BY <2>3, <2>4, <2>7, <2>9, <3>1, <3>2, <3>3
  <2>. QED
    BY <2>3, <2>5, <2>8, <2>9 DEF SearchInv
<1>5. /\ asked'.confirm = None /\ asked'.reconcile = None
      /\ asked'.leftovers \in {rest, more}
      /\ SearchInv(asked'.leftovers)
  <2>1. asked \in Calls
    BY <1>2 DEF Types, TypeOK
  <2> HIDE DEF rest, more, combos
  <2>. QED
    BY <1>1, <1>2, <1>3, <1>4, <2>1 DEF Calls
<1>6. CallsInv'
  BY <1>1, <1>2, <1>5 DEF CallsInv, SearchInv
<1>7. Apart'
  BY <1>1 DEF IInv, Apart, DialogInv, Shown
<1>. QED
  BY <1>6, <1>7

\* The groupings found are appended and shown.
LEMMA SecondRoundStep ==
    ASSUME IInv, LeftoversAnswer
    PROVE  Apart' /\ CallsInv'
<1> DEFINE s == asked.leftovers
           es == review \o [k \in DOMAIN s.found |-> NewEntry(s.found[k], s.upload)]
           at == NewIndexes(es, Len(review))
<1>1. /\ Types /\ s # None
      /\ asked' = [asked EXCEPT !.leftovers = None]
      /\ matched' = matched
      /\ \/ review' = Rendered(es, at) /\ cards' = CardsAt(es, at)
         \/ UNCHANGED <<review, cards, open>>
  BY DEF IInv, LeftoversAnswer
<1>2. asked.confirm = None /\ asked.reconcile = None /\ SearchInv(s)
  BY <1>1 DEF IInv, CallsInv
<1>3. CallsInv'
  <2>1. asked' = [reconcile |-> None, confirm |-> None, leftovers |-> None]
    BY <1>1, <1>2 DEF Types, TypeOK, Calls
  <2>. QED
    BY <2>1 DEF CallsInv
<1>4. CASE UNCHANGED <<review, cards, open>>
  BY <1>1, <1>3, <1>4 DEF IInv, Apart, DialogInv, Shown
<1>5. CASE review' = Rendered(es, at) /\ cards' = CardsAt(es, at)
  <2>1. /\ es \in Seq(Entry)
        /\ Len(es) = Len(review) + Len(s.found)
        /\ DOMAIN review \subseteq DOMAIN es
        /\ \A k \in DOMAIN review : es[k] = review[k]
        /\ \A k \in at : /\ k - Len(review) \in DOMAIN s.found
                         /\ es[k].item = s.found[k - Len(review)]
                         /\ es[k].decision = None
    BY <1>1, SecondRound
  <2>2. review \in Seq(Entry) /\ DOMAIN review = 1 .. Len(review) /\ Len(review) \in Nat
        /\ DOMAIN es = 1 .. Len(es) /\ Len(es) \in Nat
    BY <1>1, <2>1, Posted, Indexes
  <2>3. at = DOMAIN es \ DOMAIN review /\ at \subseteq Nat
    BY <2>2 DEF NewIndexes
  <2> HIDE DEF es, at
  <2>4. /\ review' \in Seq(Entry)
        /\ DOMAIN review' = DOMAIN es
        /\ \A k \in DOMAIN es : /\ review'[k].item = es[k].item
                                /\ review'[k].decision = es[k].decision
                                /\ k \notin at => review'[k] = es[k]
    BY <1>5, <2>1, RenderedEntries
  <2>5. \A k \in DOMAIN review : review'[k] = review[k]
    BY <2>1, <2>3, <2>4
  <2>6. \A k \in at : /\ IsSum(review'[k].item) /\ review'[k].decision = None
                      /\ FixedRows(review'[k].item) \cap Settled(matched, review) = {}
                      /\ \A j \in at \ {k} :
                            FixedRows(review'[k].item) \cap FixedRows(review'[j].item) = {}
    <3>1. SUFFICES ASSUME NEW k \in at
                   PROVE  /\ IsSum(review'[k].item) /\ review'[k].decision = None
                          /\ FixedRows(review'[k].item) \cap Settled(matched, review) = {}
                          /\ \A j \in at \ {k} :
                                FixedRows(review'[k].item) \cap FixedRows(review'[j].item) = {}
      OBVIOUS
    <3> DEFINE i == k - Len(review)
    <3>2. /\ i \in DOMAIN s.found /\ review'[k].item = s.found[i]
          /\ review'[k].decision = None
      BY <2>1, <2>3, <2>4
    <3>3. /\ IsSum(s.found[i])
          /\ FixedRows(s.found[i]) \subseteq s.pool
          /\ \A j \in DOMAIN s.found \ {i} :
                FixedRows(s.found[j]) \cap FixedRows(s.found[i]) = {}
      BY <1>2, <3>2 DEF SearchInv
    <3>4. s.pool \cap Settled(matched, review) = {}
      <4> DEFINE named == UNION {ItemRows(review[n].item) : n \in DOMAIN review}
      <4>1. Leftovers(matched, review) = named \ Settled(matched, review)
        BY DEF Leftovers
      <4> HIDE DEF named
      <4>. QED
        BY <1>2, <4>1 DEF SearchInv
    <3>5. ASSUME NEW j \in at \ {k}
          PROVE  FixedRows(review'[k].item) \cap FixedRows(review'[j].item) = {}
      <4>1. /\ j - Len(review) \in DOMAIN s.found
            /\ review'[j].item = s.found[j - Len(review)]
        BY <2>1, <2>3, <2>4
      <4>2. j - Len(review) # k - Len(review)
        BY <2>2, <2>3
      <4>. QED
        BY <3>2, <3>3, <4>1, <4>2
    <3>. QED
      BY <3>2, <3>3, <3>4, <3>5
  <2>7. /\ FirstRoundApart(matched, review')
        /\ GroupingsApart(matched, review')
        /\ Offered(matched, review', at)
    <3>1. FirstRoundApart(matched, review) /\ GroupingsApart(matched, review)
      BY DEF IInv, Apart
    <3>2. at = DOMAIN review' \ DOMAIN review /\ DOMAIN review \subseteq DOMAIN review'
      BY <2>1, <2>3, <2>4
    <3>3. Extends(matched, review, review', at)
      BY <2>5, <2>6, <3>2 DEF Extends
    <3>. QED
      BY <2>2, <2>4, <3>1, <3>3, AppendOffered
  <2>8. \A c \in cards' : DOMAIN c \subseteq at
    <3>1. at \in SUBSET DOMAIN es
      BY <2>3
    <3>. QED
      BY <1>5, <3>1, CardItems
  <2>9. Shown' \subseteq at
    BY <2>8 DEF Shown
  <2>10. Offered(matched', review', Shown')
    BY <1>1, <2>7, <2>9 DEF Offered
  <2>. QED
    BY <1>1, <1>3, <2>7, <2>10 DEF Apart, DialogInv
<1>. QED
  BY <1>1, <1>4, <1>5

\* The clicks that start a call: nothing else is out, so the answer finds the
\* page as it is now.
LEMMA CallStep ==
    ASSUME IInv, Patient,
           (\E p \in Previews : Reconcile(p)) \/ Confirm \/ CheckLeftovers
    PROVE  Apart' /\ CallsInv'
<1>1. Quiet /\ asked \in Calls /\ UNCHANGED <<upload, matched, review, open, cards>>
  BY DEF Reconcile, Confirm, CheckLeftovers, MayClick, IInv, Types, TypeOK
<1>2. Apart'
  BY <1>1 DEF IInv, Apart, DialogInv, Shown
<1>3. ASSUME NEW p \in Previews, Reconcile(p)
      PROVE  CallsInv'
  <2>1. asked' = [reconcile |-> p, confirm |-> None, leftovers |-> None]
    BY <1>1, <1>3 DEF Reconcile, Quiet
  <2>. QED
    BY <2>1 DEF CallsInv
<1>4. CASE Confirm
  <2>1. asked' = [reconcile |-> None, confirm |-> Body, leftovers |-> None]
    BY <1>1, <1>4 DEF Confirm, Quiet
  <2>2. Body' = Body
    BY <1>1 DEF Body
  <2>3. asked'.confirm = Body' /\ asked'.leftovers = None
    BY <2>1, <2>2
  <2>4. \A call, other \in {"reconcile", "confirm", "leftovers"} :
           asked'[call] # None /\ asked'[other] # None => call = other
    BY <2>1
  <2>. QED
    BY <1>2, <2>3, <2>4 DEF CallsInv
<1>5. CASE CheckLeftovers
  <2>1. asked' = [reconcile |-> None, confirm |-> None, leftovers |-> Search(Body)]
    BY <1>1, <1>5 DEF CheckLeftovers, Quiet
  <2>2. /\ Search(Body).pool = Leftovers(matched, review)
        /\ Search(Body).todo = Search(Body).pool
        /\ Search(Body).found = << >>
    BY DEF Search, Body
  <2>3. asked'.leftovers = Search(Body) /\ asked'.confirm = None
    BY <2>1
  <2>4. SearchInv(asked.leftovers)'
    BY <1>1, <2>2, <2>3 DEF SearchInv
  <2>5. ~open'
    BY <1>1, <1>5 DEF CheckLeftovers
  <2>6. \A call, other \in {"reconcile", "confirm", "leftovers"} :
           asked'[call] # None /\ asked'[other] # None => call = other
    BY <2>1
  <2>. QED
    BY <1>2, <2>3, <2>4, <2>5, <2>6 DEF CallsInv
<1>. QED
  BY <1>2, <1>3, <1>4, <1>5

\* The inductive invariant behind the theorems about a patient user.
THEOREM PatientInductive == ASSUME Patient PROVE Spec => []IInv
<1>1. Init => IInv
  <2> SUFFICES ASSUME Init PROVE IInv
    OBVIOUS
  <2>1. Types /\ CardsShowTheirItems
    BY TypeInit DEF Init, CardsShowTheirItems
  <2>2. Apart
    BY DEF Init, Apart, FirstRoundApart, GroupingsApart, DialogInv
  <2>3. CallsInv
    BY DEF Init, CallsInv
  <2>. QED
    BY <2>1, <2>2, <2>3 DEF IInv
<1>2. IInv /\ [Next]_vars => IInv'
  <2> SUFFICES ASSUME IInv, [Next]_vars
               PROVE  IInv'
    OBVIOUS
  <2>1. Types' /\ CardsShowTheirItems'
    BY TypeStep, CardsStep DEF IInv
  <2>2. Apart' /\ CallsInv'
    <3>1. CASE (\E p \in Previews : Reconcile(p)) \/ Confirm \/ CheckLeftovers
      BY <3>1, CallStep
    <3>2. CASE ReconcileAnswer
      BY <3>2, FirstRoundStep
    <3>3. CASE Reset
      <4>1. Quiet /\ ~open /\ UNCHANGED <<open, asked>> /\ review' = << >>
        BY <3>3 DEF Reset, MayClick
      <4>. QED
        BY <4>1 DEF Apart, FirstRoundApart, GroupingsApart, DialogInv, CallsInv, Quiet
    <3>4. CASE CloseDialog
      <4>1. Quiet /\ ~open' /\ UNCHANGED <<matched, review, asked>>
        BY <3>4 DEF CloseDialog, MayClick
      <4>. QED
        BY <4>1 DEF IInv, Apart, DialogInv, CallsInv, Quiet
    <3>5. ASSUME NEW c \in cards,
                 \/ \E d \in Decision : Decide(c, d)
                 \/ \E b \in B \cup {NoRow} : Pick(c, b)
                 \/ \E k \in DOMAIN c \cup {0} : DecideContested(c, k)
                 \/ LeaveContested(c)
          PROVE  Apart' /\ CallsInv'
      BY <3>5, ClickStep
    <3>6. CASE ConfirmAnswer
      BY <3>6, ConfirmStep
    <3>7. ASSUME NEW r \in Row, SearchTarget(r)
          PROVE  Apart' /\ CallsInv'
      BY <3>7, SearchStep
    <3>8. CASE LeftoversAnswer
      BY <3>8, SecondRoundStep
    <3>9. ASSUME NEW call \in {"reconcile", "confirm", "leftovers"}, CallFails(call)
          PROVE  Apart' /\ CallsInv'
      <4>1. /\ UNCHANGED <<upload, matched, review, open, cards>>
            /\ asked' = [asked EXCEPT ![call] = None]
        BY <3>9 DEF CallFails
      <4>2. \A other \in {"reconcile", "confirm", "leftovers"} :
               asked'[other] \in {None, asked[other]}
        BY <4>1 DEF IInv, Types, TypeOK, Calls
      <4>3. Body' = Body
        BY <4>1 DEF Body
      <4>4. CallsInv'
        BY <4>1, <4>2, <4>3 DEF IInv, CallsInv, SearchInv
      <4>. QED
        BY <4>1, <4>4 DEF IInv, Apart, DialogInv, Shown
    <3>10. CASE UNCHANGED vars
      <4>1. Body' = Body
        BY <3>10 DEF vars, Body
      <4>. QED
        BY <3>10, <4>1 DEF vars, IInv, Apart, DialogInv, Shown, CallsInv, SearchInv
    <3>. QED
      BY <3>1, <3>2, <3>3, <3>4, <3>5, <3>6, <3>7, <3>8, <3>9, <3>10 DEF Next
  <2>. QED
    BY <2>1, <2>2 DEF IInv
<1>. QED
  BY <1>1, <1>2, PTL DEF Spec

\* What a second round shows is open, for a user who waits for answers.
THEOREM OnlyOpenRowsOffered == ASSUME Patient PROVE Spec => []SettledNotOffered
<1>1. IInv => SettledNotOffered
  <2> SUFFICES ASSUME IInv, open, NEW c \in cards, NEW k \in DOMAIN c,
                      c[k].kind = "sum_match"
               PROVE  /\ FixedRows(c[k]) \cap PairedRows(matched) = {}
                      /\ \A j \in DOMAIN review \ {k} :
                            FixedRows(c[k]) \cap HomeOf(review[j]) = {}
    BY DEF SettledNotOffered
  <2>1. k \in DOMAIN review /\ review[k].item = c[k] /\ k \in Shown
    BY DEF IInv, CardsShowTheirItems, Shown
  <2>2. Offered(matched, review, Shown)
    BY <2>1 DEF IInv, Apart, DialogInv, IsSum
  <2>. QED
    BY <2>1, <2>2 DEF Offered, Alone
<1>. QED
  BY <1>1, PatientInductive, PTL

\* What /confirm accepts gives no row two homes.
LEMMA AcceptedIsApart ==
    ASSUME NEW pairs, NEW es \in Seq(Entry), Acceptable(es),
           FirstRoundApart(pairs, es), GroupingsApart(pairs, es)
    PROVE  \A k \in DOMAIN es :
              /\ HomeOf(es[k]) \cap PairedRows(pairs) = {}
              /\ \A j \in DOMAIN es \ {k} : HomeOf(es[j]) \cap HomeOf(es[k]) = {}
<1>1. \A k \in DOMAIN es : HomeOf(es[k]) \subseteq ItemRows(es[k].item)
  <2>1. SUFFICES ASSUME NEW k \in DOMAIN es
                 PROVE  HomeOf(es[k]) \subseteq ItemRows(es[k].item)
    OBVIOUS
  <2>2. Ambiguous(es[k]) /\ Confirmed(es[k]) => es[k].picked \in es[k].item.cands
    BY DEF Acceptable
  <2>. QED
    BY <2>2, EntriesOf, Homes
<1>2. \A k \in DOMAIN es : HomeOf(es[k]) # {} => Confirmed(es[k])
  BY DEF HomeOf
<1>3. ASSUME NEW k \in DOMAIN es, IsSum(es[k].item), HomeOf(es[k]) # {}
      PROVE  /\ HomeOf(es[k]) \cap PairedRows(pairs) = {}
             /\ \A j \in DOMAIN es \ {k} : HomeOf(es[j]) \cap HomeOf(es[k]) = {}
  <2>1. Alone(pairs, es, k)
    BY <1>2, <1>3 DEF GroupingsApart
  <2>2. HomeOf(es[k]) \subseteq FixedRows(es[k].item)
    BY <1>3, EntriesOf, Homes
  <2>. QED
    BY <2>1, <2>2 DEF Alone
<1>4. ASSUME NEW k \in DOMAIN es, ~IsSum(es[k].item)
      PROVE  /\ HomeOf(es[k]) \cap PairedRows(pairs) = {}
             /\ \A j \in DOMAIN es \ {k} : ~IsSum(es[j].item) =>
                   HomeOf(es[j]) \cap HomeOf(es[k]) = {}
  <2>1. HomeOf(es[k]) \cap PairedRows(pairs) = {}
    BY <1>1, <1>4 DEF FirstRoundApart
  <2>2. ASSUME NEW j \in DOMAIN es \ {k}, ~IsSum(es[j].item),
               NEW r \in HomeOf(es[j]) \cap HomeOf(es[k])
        PROVE  FALSE
    <3>1. /\ FixedRows(es[j].item) \cap ItemRows(es[k].item) = {}
          /\ FixedRows(es[k].item) \cap ItemRows(es[j].item) = {}
      BY <1>4, <2>2 DEF FirstRoundApart
    <3>2. r \notin FixedRows(es[j].item) /\ r \notin FixedRows(es[k].item)
      BY <1>1, <2>2, <3>1
    <3>3. /\ Ambiguous(es[j]) /\ Confirmed(es[j]) /\ es[j].picked = r
          /\ Ambiguous(es[k]) /\ Confirmed(es[k]) /\ es[k].picked = r
      BY <2>2, <3>2 DEF HomeOf
    <3>. QED
      BY <2>2, <3>3 DEF Acceptable
  <2>. QED
    BY <2>1, <2>2
<1>5. ASSUME NEW k \in DOMAIN es, NEW j \in DOMAIN es \ {k}
      PROVE  HomeOf(es[j]) \cap HomeOf(es[k]) = {}
  <2>1. CASE IsSum(es[k].item)
    BY <1>3, <2>1
  <2>2. CASE IsSum(es[j].item)
    BY <1>3, <2>2
  <2>3. CASE ~IsSum(es[j].item) /\ ~IsSum(es[k].item)
    BY <1>4, <2>3
  <2>. QED
    BY <2>1, <2>2, <2>3
<1>6. ASSUME NEW k \in DOMAIN es
      PROVE  HomeOf(es[k]) \cap PairedRows(pairs) = {}
  BY <1>3, <1>4
<1>. QED
  BY <1>5, <1>6

\* A user who waits for answers is never told that a row has two homes.
THEOREM NoRowTwice == ASSUME Patient PROVE Spec => []BookedOnce
<1>1. Init => BookedOnce
  BY DEF Init, BookedOnce
<1>2. IInv /\ BookedOnce /\ [Next]_vars => BookedOnce'
  <2> SUFFICES ASSUME IInv, BookedOnce, [Next]_vars
               PROVE  BookedOnce'
    OBVIOUS
  <2>1. CASE final' \in {None, final}
    BY <2>1 DEF BookedOnce
  <2>2. CASE ConfirmAnswer
    <3>1. /\ asked.confirm = Body
          /\ Body.matched = matched /\ Body.review = review
          /\ review \in Seq(Entry)
      BY <2>2, Posted DEF IInv, CallsInv, ConfirmAnswer, Body
    <3>2. /\ Acceptable(review)
          /\ final'.matched = matched
          /\ final'.review = Cleaned(matched, review)
      BY <2>2, <3>1 DEF ConfirmAnswer
    <3>3. \A k \in DOMAIN review :
              /\ HomeOf(review[k]) \cap PairedRows(matched) = {}
              /\ \A j \in DOMAIN review \ {k} : HomeOf(review[j]) \cap HomeOf(review[k]) = {}
      BY <3>1, <3>2, AcceptedIsApart DEF IInv, Apart
    <3>4. PICK at : StandsFor(matched, review, at)
      BY <3>1, Kept
    <3>5. \A i \in DOMAIN final'.review :
             /\ at[i] \in DOMAIN review
             /\ final'.review[i] = review[at[i]]
             /\ \A j \in DOMAIN final'.review \ {i} : at[j] # at[i]
      BY <3>2, <3>4 DEF StandsFor, Survivors
    <3>. QED
      BY <3>2, <3>3, <3>5 DEF BookedOnce
  <2>. QED
    BY <2>1, <2>2 DEF Next, Reconcile, ReconcileAnswer, Reset, CloseDialog, Decide, Pick,
       DecideContested, LeaveContested, Change, Confirm, CheckLeftovers, SearchTarget,
       LeftoversAnswer, CallFails, vars
<1>. QED
  BY <1>1, <1>2, PatientInductive, PTL DEF Spec

-----------------------------------------------------------------------------
(* From one confirmed result to the next *)

\* Every step leaves the last confirmed result as the beginning of the list.
LEMMA FinalStep == ASSUME IInv, FinalInv, Patient, [Next]_vars PROVE FinalInv'
<1>1. CASE UNCHANGED <<upload, matched, review, open, cards, final>>
  BY <1>1 DEF FinalInv, Shown
<1>2. CASE final' = None
  BY <1>2 DEF FinalInv
<1>3. CASE CloseDialog
  BY <1>3 DEF CloseDialog, FinalInv
<1>4. ASSUME NEW c \in cards,
             \/ \E d \in Decision : Decide(c, d)
             \/ \E b \in B \cup {NoRow} : Pick(c, b)
             \/ \E k \in DOMAIN c \cup {0} : DecideContested(c, k)
             \/ LeaveContested(c)
      PROVE  FinalInv'
  <2>1. /\ Change(review')
        /\ DOMAIN review' = DOMAIN review
        /\ \A k \in DOMAIN review : k \notin DOMAIN c => review'[k] = review[k]
    BY <1>4, Clicked DEF IInv
  <2>2. open /\ UNCHANGED <<upload, matched, open, cards, final>>
    BY <2>1 DEF Change
  <2>3. DOMAIN c \subseteq Shown /\ Shown' = Shown
    BY <2>2 DEF Shown
  <2>. QED
    BY <2>1, <2>2, <2>3 DEF FinalInv
<1>5. CASE ConfirmAnswer
  BY <1>5, SessionAssumption DEF ConfirmAnswer, AfterConfirm, FinalInv
<1>6. CASE LeftoversAnswer
  <2> DEFINE s == asked.leftovers
             es == review \o [k \in DOMAIN s.found |-> NewEntry(s.found[k], s.upload)]
             at == NewIndexes(es, Len(review))
  <2>1. /\ UNCHANGED <<upload, matched, final>>
        /\ \/ review' = Rendered(es, at) /\ cards' = CardsAt(es, at)
           \/ UNCHANGED <<review, cards, open>>
    BY <1>6 DEF LeftoversAnswer
  <2>2. CASE UNCHANGED <<review, cards, open>>
    BY <1>1, <2>1, <2>2
  <2>3. CASE review' = Rendered(es, at) /\ cards' = CardsAt(es, at)
    <3>1. /\ es \in Seq(Entry)
          /\ DOMAIN review \subseteq DOMAIN es
          /\ \A k \in DOMAIN review : es[k] = review[k]
      BY <1>6, SecondRound DEF IInv, LeftoversAnswer
    <3>2. at \in SUBSET DOMAIN es /\ at \cap DOMAIN review = {}
      <4>1. DOMAIN review = 1 .. Len(review)
        BY Posted, Indexes DEF IInv
      <4>. QED
        BY <4>1 DEF NewIndexes
    <3> HIDE DEF es, at
    <3>3. /\ DOMAIN review' = DOMAIN es
          /\ \A k \in DOMAIN es : k \notin at => review'[k] = es[k]
      BY <2>3, <3>1, RenderedEntries
    <3>4. \A c \in cards' : DOMAIN c \subseteq at
      BY <2>3, <3>2, CardItems
    <3>5. Shown' \subseteq at
      BY <3>4 DEF Shown
    <3>6. \A k \in DOMAIN review : k \in DOMAIN review' /\ review'[k] = review[k]
      BY <3>1, <3>2, <3>3
    <3>. QED
      BY <2>1, <3>2, <3>5, <3>6 DEF FinalInv
  <2>. QED
    BY <2>1, <2>2, <2>3
<1>7. ASSUME NEW p \in Previews, Reconcile(p)
      PROVE  FinalInv'
  BY <1>1, <1>7 DEF Reconcile
<1>8. CASE ReconcileAnswer \/ Reset
  BY <1>2, <1>8 DEF ReconcileAnswer, Reset
<1>9. CASE Confirm \/ CheckLeftovers
  BY <1>1, <1>9 DEF Confirm, CheckLeftovers
<1>10. ASSUME NEW r \in Row, SearchTarget(r)
       PROVE  FinalInv'
  BY <1>1, <1>10 DEF SearchTarget
<1>11. ASSUME NEW call \in {"reconcile", "confirm", "leftovers"}, CallFails(call)
       PROVE  FinalInv'
  BY <1>1, <1>11 DEF CallFails
<1>12. CASE UNCHANGED vars
  BY <1>1, <1>12 DEF vars
<1>. QED
  BY <1>3, <1>4, <1>5, <1>6, <1>7, <1>8, <1>9, <1>10, <1>11, <1>12 DEF Next

\* Of the entries that settle rows none is dropped, but those about rows
\* that are reported as unmatched.
LEMMA SettledStays ==
    ASSUME NEW pairs, NEW es \in Seq(Entry), NEW k \in DOMAIN es,
           es[k].item.kind # "unmatched"
    PROVE  HomeOf(es[k]) \subseteq Settled(pairs, Cleaned(pairs, es))
<1>1. PICK at : StandsFor(pairs, es, at)
  BY Kept
<1>2. k \in Survivors(pairs, es)
  BY DEF Survivors, Stale
<1>3. PICK i \in DOMAIN Cleaned(pairs, es) : Cleaned(pairs, es)[i] = es[k]
  BY <1>1, <1>2 DEF StandsFor
<1>. QED
  BY <1>3 DEF Settled

\* Later rounds about the same upload only add homes.
THEOREM NothingUndone == ASSUME Patient PROVE Spec => ConfirmedForGood
<1>1. Init => FinalInv
  BY DEF Init, FinalInv
<1>2. IInv /\ FinalInv /\ [Next]_vars => FinalInv'
  BY FinalStep
<1>3. IInv /\ FinalInv /\ NoRowBothWays /\ [Next]_vars =>
        [final # None /\ final' # None /\ final'.upload = final.upload =>
            Settled(final.matched, final.review)
               \subseteq Settled(final'.matched, final'.review)]_vars
  <2> SUFFICES ASSUME IInv, FinalInv, NoRowBothWays, [Next]_vars,
                      final # None, final' # None
               PROVE  Settled(final.matched, final.review)
                         \subseteq Settled(final'.matched, final'.review)
    OBVIOUS
  <2>1. CASE UNCHANGED final
    BY <2>1
  <2>2. CASE ConfirmAnswer
    <3>1. asked.confirm = Body /\ Body.matched = matched /\ Body.review = review
          /\ review \in Seq(Entry)
      BY <2>2, Posted DEF IInv, CallsInv, ConfirmAnswer, Body
    <3>2. final'.matched = matched /\ final'.review = Cleaned(matched, review)
      BY <2>2, <3>1 DEF ConfirmAnswer
    <3>3. final.matched = matched
          /\ \A k \in DOMAIN final.review : k \in DOMAIN review /\ review[k] = final.review[k]
      BY DEF FinalInv
    <3>4. ASSUME NEW k \in DOMAIN final.review
          PROVE  HomeOf(final.review[k]) \subseteq Settled(matched, Cleaned(matched, review))
      <4>1. CASE final.review[k].item.kind # "unmatched"
        BY <3>1, <3>3, <4>1, SettledStays
      <4>2. CASE final.review[k].item.kind = "unmatched"
        <5>1. FixedRows(final.review[k].item) \cap Settled(final.matched, final.review) = {}
          BY <4>2 DEF NoRowBothWays
        <5>2. HomeOf(final.review[k]) \subseteq FixedRows(final.review[k].item)
          BY <4>2 DEF HomeOf, Ambiguous
        <5>3. HomeOf(final.review[k]) \subseteq Settled(final.matched, final.review)
          BY DEF Settled
        <5>. QED
          BY <5>1, <5>2, <5>3
      <4>. QED
        BY <4>1, <4>2
    <3>5. PairedRows(matched) \subseteq Settled(matched, Cleaned(matched, review))
      BY DEF Settled
    <3>6. ASSUME NEW r \in Settled(final.matched, final.review)
          PROVE  r \in PairedRows(matched) \/ \E k \in DOMAIN final.review : r \in HomeOf(final.review[k])
      BY <3>3, <3>6 DEF Settled
    <3>. QED
      BY <3>2, <3>4, <3>5, <3>6
  <2>3. CASE final' = None
    BY <2>3
  <2>. QED
    BY <2>1, <2>2, <2>3 DEF Next, Reconcile, ReconcileAnswer, Reset, CloseDialog, Decide,
       Pick, DecideContested, LeaveContested, Change, Confirm, CheckLeftovers, SearchTarget,
       LeftoversAnswer, CallFails, vars
<1>. QED
  BY <1>1, <1>2, <1>3, PatientInductive, NoContradiction, PTL DEF Spec, ConfirmedForGood

-----------------------------------------------------------------------------
(* No row gets lost *)

\* A row is on show in a clean match or in an entry.
LEMMA OnShowWhere ==
    ASSUME NEW pairs, NEW es, NEW r
    PROVE  Surfaced(pairs, ItemsIn(es), r) <=>
              \/ r \in PairedRows(pairs)
              \/ \E k \in DOMAIN es : r \in ItemRows(es[k].item)
BY DEF Surfaced, ItemsIn, PairedRows

\* Entries with the same items show the same rows.
LEMMA SameShow ==
    ASSUME matched' = matched, DOMAIN review' = DOMAIN review,
           \A k \in DOMAIN review : review'[k].item = review[k].item
    PROVE  \A r \in Row : OnShow(r)' <=> OnShow(r)
BY OnShowWhere DEF OnShow

\* What the answer of the second search shows.
LEMMA SecondRoundShow ==
    ASSUME IInv, LeftoversAnswer
    PROVE  /\ matched' = matched /\ upload' = upload
           /\ DOMAIN review \subseteq DOMAIN review'
           /\ \A k \in DOMAIN review : review'[k].item = review[k].item
           /\ \A k \in DOMAIN review' \ DOMAIN review :
                 /\ IsSum(review'[k].item)
                 /\ ItemRows(review'[k].item) \subseteq Leftovers(matched, review)
<1> DEFINE s == asked.leftovers
           es == review \o [k \in DOMAIN s.found |-> NewEntry(s.found[k], s.upload)]
           at == NewIndexes(es, Len(review))
<1>1. /\ UNCHANGED <<upload, matched>>
      /\ \/ review' = Rendered(es, at)
         \/ UNCHANGED review
  BY DEF LeftoversAnswer
<1>2. CASE UNCHANGED review
  BY <1>1, <1>2
<1>3. CASE review' = Rendered(es, at)
  <2>1. /\ es \in Seq(Entry)
        /\ DOMAIN review \subseteq DOMAIN es
        /\ \A k \in DOMAIN review : es[k] = review[k]
        /\ \A k \in at : /\ k - Len(review) \in DOMAIN s.found
                         /\ es[k].item = s.found[k - Len(review)]
    BY SecondRound DEF IInv, LeftoversAnswer
  <2>2. \A k \in DOMAIN es \ DOMAIN review : k \in at
    <3>1. /\ DOMAIN review = 1 .. Len(review) /\ Len(review) \in Nat
          /\ DOMAIN es = 1 .. Len(es) /\ Len(es) \in Nat
      BY <2>1, Posted, Indexes DEF IInv
    <3>. QED
      BY <3>1 DEF NewIndexes
  <2>3. SearchInv(s)
    BY DEF IInv, CallsInv, LeftoversAnswer
  <2> HIDE DEF es, at
  <2>4. /\ DOMAIN review' = DOMAIN es
        /\ \A k \in DOMAIN es : review'[k].item = es[k].item
    BY <1>3, <2>1, RenderedEntries
  <2>5. \A i \in DOMAIN s.found :
           IsSum(s.found[i]) /\ ItemRows(s.found[i]) \subseteq Leftovers(matched, review)
    BY <2>3 DEF SearchInv
  <2>. QED
    BY <1>1, <2>1, <2>2, <2>4, <2>5
<1>. QED
  BY <1>1, <1>2, <1>3

\* Leftovers are on show.
LEMMA LeftoversOnShow ==
    ASSUME NEW r \in Leftovers(matched, review)
    PROVE  OnShow(r)
<1> DEFINE named == UNION {ItemRows(review[n].item) : n \in DOMAIN review}
<1>1. Leftovers(matched, review) = named \ Settled(matched, review)
  BY DEF Leftovers
<1>2. \E k \in DOMAIN review : r \in ItemRows(review[k].item)
  BY <1>1
<1>. QED
  BY <1>2, OnShowWhere DEF OnShow

\* Every step keeps unmatched items to one row, and an empty page empty.
LEMMA RowsStep == ASSUME IInv, RowsInv, Patient, [Next]_vars PROVE RowsInv'
<1>1. /\ \A k \in DOMAIN review : OneRow(review[k].item)
      /\ upload = 0 => \A r \in Row : ~OnShow(r)
      /\ upload <= uploads /\ upload \in Nat /\ uploads \in Nat
      /\ asked.reconcile # None => upload < uploads
      /\ asked \in Calls
  <2>1. upload \in 0 .. MaxUploads /\ uploads \in 0 .. MaxUploads /\ MaxUploads \in Nat
    BY Posted, SessionAssumption DEF IInv, Types, TypeOK
  <2>2. asked \in Calls
    BY DEF IInv, Types, TypeOK
  <2>. QED
    BY <2>1, <2>2 DEF RowsInv
<1>2. ASSUME UNCHANGED <<upload, uploads, matched>>,
             DOMAIN review' = DOMAIN review,
             \A k \in DOMAIN review : review'[k].item = review[k].item,
             asked'.reconcile \in {None, asked.reconcile}
      PROVE  RowsInv'
  <2>1. \A r \in Row : OnShow(r)' <=> OnShow(r)
    BY <1>2, SameShow
  <2>. QED
    BY <1>1, <1>2, <2>1 DEF RowsInv
<1>3. ASSUME NEW p \in Previews, Reconcile(p)
      PROVE  RowsInv'
  <2>1. \A r \in Row : OnShow(r)' <=> OnShow(r)
    BY <1>3, SameShow DEF Reconcile
  <2>. QED
    BY <1>1, <1>3, <2>1 DEF Reconcile, RowsInv
<1>4. CASE ReconcileAnswer
  <2> DEFINE p  == asked.reconcile
             es == [k \in DOMAIN p.items |-> NewEntry(p.items[k], uploads)]
  <2>1. /\ p \in Previews /\ upload < uploads
        /\ upload' = uploads /\ uploads' = uploads
        /\ review' = Rendered(es, DOMAIN es)
        /\ asked' = [asked EXCEPT !.reconcile = None]
    BY <1>1, <1>4, Posted DEF ReconcileAnswer, IInv
  <2>2. /\ es \in Seq(Entry)
        /\ DOMAIN es = DOMAIN p.items
        /\ \A k \in DOMAIN es : es[k].item = p.items[k]
    BY <1>4, FirstRound DEF ReconcileAnswer, IInv
  <2> HIDE DEF es
  <2>3. DOMAIN review' = DOMAIN p.items /\ \A k \in DOMAIN p.items : review'[k].item = p.items[k]
    BY <2>1, <2>2, RenderedEntries
  <2>4. \A k \in DOMAIN p.items : OneRow(p.items[k])
    <3>1. \A k \in DOMAIN p.items : p.items[k] \in ItemsOf(p)
      BY DEF ItemsOf
    <3>. QED
      BY <2>1, <3>1, PreviewAssumption DEF OneRow
  <2>5. asked'.reconcile = None
    BY <1>1, <2>1 DEF Calls
  <2>. QED
    BY <1>1, <2>1, <2>3, <2>4, <2>5 DEF RowsInv
<1>5. CASE Reset
  <2>1. upload' = 0 /\ uploads' = uploads /\ matched' = {} /\ review' = << >>
        /\ asked'.reconcile = None
    BY <1>5 DEF Reset, MayClick, Quiet
  <2>2. \A r \in Row : ~OnShow(r)'
    BY <2>1, OnShowWhere DEF OnShow, PairedRows
  <2>. QED
    BY <1>1, <2>1, <2>2 DEF RowsInv
<1>6. ASSUME NEW c \in cards,
             \/ \E d \in Decision : Decide(c, d)
             \/ \E b \in B \cup {NoRow} : Pick(c, b)
             \/ \E k \in DOMAIN c \cup {0} : DecideContested(c, k)
             \/ LeaveContested(c)
      PROVE  RowsInv'
  <2>1. /\ Change(review')
        /\ DOMAIN review' = DOMAIN review
        /\ \A k \in DOMAIN review : review'[k].item = review[k].item
    BY <1>6, Clicked DEF IInv
  <2>. QED
    BY <1>2, <2>1 DEF Change
<1>7. CASE ConfirmAnswer
  <2>1. asked.confirm = Body /\ Body.matched = matched /\ Body.review = review
        /\ Body.upload = upload /\ review \in Seq(Entry)
    BY <1>7, Posted DEF IInv, CallsInv, ConfirmAnswer, Body
  <2>2. /\ upload' = upload /\ uploads' = uploads
        /\ matched' = matched /\ review' = Cleaned(matched, review)
        /\ asked' = [asked EXCEPT !.confirm = None]
    BY <1>7, <2>1 DEF ConfirmAnswer
  <2>3. PICK at : StandsFor(matched, review, at)
    BY <2>1, Kept
  <2>4. \A i \in DOMAIN review' : at[i] \in DOMAIN review /\ review'[i] = review[at[i]]
    BY <2>2, <2>3 DEF StandsFor, Survivors
  <2>5. \A r \in Row : OnShow(r)' => OnShow(r)
    BY <2>2, <2>4, OnShowWhere DEF OnShow
  <2>6. asked'.reconcile = asked.reconcile
    BY <1>1, <2>2 DEF Calls
  <2>. QED
    BY <1>1, <2>2, <2>4, <2>5, <2>6 DEF RowsInv
<1>8. CASE LeftoversAnswer
  <2>1. /\ matched' = matched /\ upload' = upload
        /\ DOMAIN review \subseteq DOMAIN review'
        /\ \A k \in DOMAIN review : review'[k].item = review[k].item
        /\ \A k \in DOMAIN review' \ DOMAIN review :
              /\ IsSum(review'[k].item)
              /\ ItemRows(review'[k].item) \subseteq Leftovers(matched, review)
    BY <1>8, SecondRoundShow
  <2>2. \A k \in DOMAIN review' : OneRow(review'[k].item)
    BY <1>1, <2>1 DEF OneRow, IsSum
  <2>3. \A r \in Row : OnShow(r)' => OnShow(r)
    BY <2>1, LeftoversOnShow, OnShowWhere DEF OnShow
  <2>4. uploads' = uploads /\ asked'.reconcile = asked.reconcile
    BY <1>1, <1>8 DEF LeftoversAnswer, Calls
  <2>. QED
    BY <1>1, <2>1, <2>2, <2>3, <2>4 DEF RowsInv
<1>9. CASE CloseDialog \/ Confirm \/ CheckLeftovers
  BY <1>1, <1>2, <1>9 DEF CloseDialog, Confirm, CheckLeftovers, Calls
<1>10. ASSUME NEW r \in Row, SearchTarget(r)
       PROVE  RowsInv'
  <2>1. UNCHANGED <<upload, uploads, matched, review>>
        /\ \E s : asked' = [asked EXCEPT !.leftovers = s]
    BY <1>10 DEF SearchTarget
  <2>. QED
    BY <1>1, <1>2, <2>1 DEF Calls
<1>11. ASSUME NEW call \in {"reconcile", "confirm", "leftovers"}, CallFails(call)
       PROVE  RowsInv'
  BY <1>1, <1>2, <1>11 DEF CallFails, Calls
<1>12. CASE UNCHANGED vars
  BY <1>1, <1>2, <1>12 DEF vars
<1>. QED
  BY <1>3, <1>4, <1>5, <1>6, <1>7, <1>8, <1>9, <1>10, <1>11, <1>12 DEF Next

\* The answer of /confirm: what is dropped is unmatched no more.
LEMMA ConfirmKeepsRows ==
    ASSUME IInv, RowsInv, ConfirmAnswer, NEW r \in Row, OnShow(r)
    PROVE  \/ OnShow(r)'
           \/ \E k \in DOMAIN review :
                 /\ review[k].item.kind = "unmatched"
                 /\ r \in FixedRows(review[k].item)
                 /\ Confirmed(review[k])
<1> DEFINE Gone == \E k \in DOMAIN review :
                      /\ review[k].item.kind = "unmatched"
                      /\ r \in FixedRows(review[k].item)
                      /\ Confirmed(review[k])
<1>1. /\ asked.confirm = Body
      /\ Body.matched = matched /\ Body.review = review
      /\ review \in Seq(Entry)
  BY Posted DEF IInv, CallsInv, ConfirmAnswer, Body
<1>2. Acceptable(review) /\ matched' = matched /\ review' = Cleaned(matched, review)
  BY <1>1 DEF ConfirmAnswer
<1>3. PICK at : StandsFor(matched, review, at)
  BY <1>1, Kept
<1>4. ASSUME NEW k \in DOMAIN review, ~Stale(matched, review, review[k]),
             r \in ItemRows(review[k].item)
      PROVE  OnShow(r)'
  <2>1. k \in Survivors(matched, review)
    BY <1>4 DEF Survivors
  <2>2. \E i \in DOMAIN review' : review'[i] = review[k]
    BY <1>2, <1>3, <2>1 DEF StandsFor
  <2>. QED
    BY <1>4, <2>2, OnShowWhere DEF OnShow
<1>5. CASE r \in PairedRows(matched)
  BY <1>2, <1>5, OnShowWhere DEF OnShow
<1>6. ASSUME NEW k \in DOMAIN review, r \in HomeOf(review[k])
      PROVE  OnShow(r)' \/ Gone
  <2>1. Confirmed(review[k])
    BY <1>6 DEF HomeOf
  <2>2. CASE review[k].item.kind = "unmatched"
    <3>1. r \in FixedRows(review[k].item)
      BY <1>6, <2>2 DEF HomeOf, Ambiguous
    <3>. QED
      BY <2>1, <2>2, <3>1
  <2>3. CASE review[k].item.kind # "unmatched"
    <3>1. Ambiguous(review[k]) => review[k].picked \in review[k].item.cands
      BY <1>2, <2>1 DEF Acceptable
    <3>2. r \in ItemRows(review[k].item)
      BY <1>1, <1>6, <3>1, EntriesOf, Homes
    <3>. QED
      BY <1>4, <2>3, <3>2 DEF Stale
  <2>. QED
    BY <2>2, <2>3
<1>7. ASSUME NEW k \in DOMAIN review, r \in ItemRows(review[k].item)
      PROVE  OnShow(r)' \/ Gone
  <2>1. CASE ~Stale(matched, review, review[k])
    BY <1>4, <1>7, <2>1
  <2>2. CASE Stale(matched, review, review[k])
    <3>1. /\ review[k].item.kind = "unmatched"
          /\ FixedRows(review[k].item) \cap Settled(matched, review) # {}
      BY <2>2 DEF Stale
    <3>2. ItemRows(review[k].item) = {r}
      BY <1>7, <3>1 DEF RowsInv, OneRow
    <3>3. r \in Settled(matched, review)
      BY <3>1, <3>2 DEF ItemRows
    <3>4. r \in PairedRows(matched) \/ \E j \in DOMAIN review : r \in HomeOf(review[j])
      BY <3>3 DEF Settled
    <3>. QED
      BY <1>5, <1>6, <3>4
  <2>. QED
    BY <2>1, <2>2
<1>. QED
  BY <1>5, <1>7, OnShowWhere DEF OnShow

\* Until the page turns to another upload, a row leaves it only with an
\* unmatched item that was confirmed.
THEOREM NoRowLost == ASSUME Patient PROVE Spec => RowsKept
<1> DEFINE Leaves(r) == \E k \in DOMAIN review :
                           /\ review[k].item.kind = "unmatched"
                           /\ r \in FixedRows(review[k].item)
                           /\ Confirmed(review[k])
<1>1. Init => RowsInv
  <2> SUFFICES ASSUME Init PROVE RowsInv
    OBVIOUS
  <2>1. \A r \in Row : ~OnShow(r)
    BY OnShowWhere DEF Init, OnShow, PairedRows
  <2>. QED
    BY <2>1 DEF Init, RowsInv
<1>2. IInv /\ RowsInv /\ [Next]_vars => RowsInv'
  BY RowsStep
<1>3. IInv /\ RowsInv /\ [Next]_vars =>
        [upload' = upload =>
            \A r \in Row : OnShow(r) =>
                \/ OnShow(r)'
                \/ \E k \in DOMAIN review :
                      /\ review[k].item.kind = "unmatched"
                      /\ r \in FixedRows(review[k].item)
                      /\ Confirmed(review[k])]_vars
  <2> SUFFICES ASSUME IInv, RowsInv, Next, upload' = upload,
                      NEW r \in Row, OnShow(r)
               PROVE  OnShow(r)' \/ Leaves(r)
    OBVIOUS
  <2>1. ASSUME matched' = matched, DOMAIN review' = DOMAIN review,
               \A k \in DOMAIN review : review'[k].item = review[k].item
        PROVE  OnShow(r)'
    BY <2>1, SameShow
  <2>2. CASE ConfirmAnswer
    BY <2>2, ConfirmKeepsRows
  <2>3. CASE LeftoversAnswer
    BY <2>3, SecondRoundShow, OnShowWhere DEF OnShow
  <2>4. CASE ReconcileAnswer
    <3>1. upload \in 0 .. MaxUploads /\ uploads \in 0 .. MaxUploads /\ MaxUploads \in Nat
      BY Posted, SessionAssumption DEF IInv, Types, TypeOK
    <3>. QED
      BY <2>4, <3>1 DEF ReconcileAnswer, RowsInv
  <2>5. CASE Reset
    BY <2>5 DEF Reset, RowsInv
  <2>6. ASSUME NEW c \in cards,
               \/ \E d \in Decision : Decide(c, d)
               \/ \E b \in B \cup {NoRow} : Pick(c, b)
               \/ \E k \in DOMAIN c \cup {0} : DecideContested(c, k)
               \/ LeaveContested(c)
        PROVE  OnShow(r)'
    <3>1. /\ Change(review')
          /\ DOMAIN review' = DOMAIN review
          /\ \A k \in DOMAIN review : review'[k].item = review[k].item
      BY <2>6, Clicked DEF IInv
    <3>. QED
      BY <2>1, <3>1 DEF Change
  <2>7. CASE UNCHANGED <<matched, review>>
    BY <2>1, <2>7
  <2>. QED
    BY <2>2, <2>3, <2>4, <2>5, <2>6, <2>7
       DEF Next, Reconcile, CloseDialog, Confirm, CheckLeftovers, SearchTarget, CallFails
<1>. QED
  BY <1>1, <1>2, <1>3, PatientInductive, PTL DEF Spec, RowsKept
=============================================================================
