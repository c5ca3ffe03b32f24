--------------------------- MODULE ReviewSession ---------------------------
(***************************************************************************)
(* The comparator's review: the page frontend/comparator.html, which keeps *)
(* all of the state, and the handlers of services/comparator/main.py it    *)
(* calls, which keep none.                                                 *)
(*                                                                         *)
(* Every button posts what the page holds at that moment and puts the      *)
(* answer where it belongs when it comes.  A button is disabled while its  *)
(* own call is out, and only then; the dialog with the review cards blocks *)
(* the rest of the page while it is open.  A call may fail at any time and *)
(* then changes nothing.                                                   *)
(*                                                                         *)
(* Previews are the answers /reconcile can give.  Nothing is assumed of    *)
(* them but what ReconcileProofs proves of the matching engine.  An entry  *)
(* of `review` carries, besides what the code keeps, the number of the     *)
(* Reconcile press its rows come from (upload).                            *)
(***************************************************************************)
EXTENDS ReviewItems, Integers, Sequences, FiniteSetsExt

CONSTANTS
    Previews,     \* answers of /reconcile: [pairs, items]
    Amount, Date, \* the cells of a row that /reconcile-leftovers looks at
    Absent,       \* no date
    Tol,          \* AMOUNT_TOLERANCE
    Spread,       \* SUM_MATCH_MAX_DATE_SPREAD_DAYS
    Patient,      \* does the user wait for an answer before the next click?
    None,         \* null
    MaxUploads,   \* bound: Reconcile presses
    MaxItems      \* bound: a list this long is not searched for more groupings

ItemsOf(p) == {p.items[k] : k \in DOMAIN p.items}

ASSUME SessionAssumption ==
    /\ Amount \in [Row -> Int]
    /\ Date \in [Row -> Int \cup {Absent}]
    /\ Tol \in Nat /\ Spread \in Nat
    /\ Patient \in BOOLEAN
    /\ MaxUploads \in Nat /\ MaxItems \in Nat
    /\ None \notin {"confirmed", "dismissed"}

ASSUME PreviewAssumption ==
    \A p \in Previews :
        /\ p.pairs \subseteq MatchedPair
        /\ p.items \in Seq({i \in ReviewItem : i.kind # "sum_match"})
        /\ \A j, k \in DOMAIN p.items : p.items[j] = p.items[k] => j = k
        /\ \A r \in Row : Surfaced(p.pairs, ItemsOf(p), r)
        /\ ClaimedOnce(p.pairs, ItemsOf(p))
        /\ \A i \in ItemsOf(p) : i.kind = "unmatched" => \E r \in Row : ItemRows(i) = {r}

VARIABLES
    uploads,      \* Reconcile presses so far
    upload,       \* the press `matched` comes from, 0 for none
    matched,      \* clean matches
    review,       \* reviewItems
    narration,    \* the upload the summary is about, or None
    open,         \* is the dialog open?
    cards,        \* the cards in it: index in reviewItems -> item shown
    reportShown,  \* is the report step visible?
    asked,        \* calls under way
    final         \* the last answer of /confirm since that press (history)

vars == <<uploads, upload, matched, review, narration, open, cards,
          reportShown, asked, final>>

Decision == {None, "confirmed", "dismissed"}
Entry == [item : ReviewItem, decision : Decision, picked : B \cup {NoRow},
          upload : 0 .. MaxUploads]
NewEntry(item, u) ==
    [item |-> item, decision |-> None, picked |-> NoRow, upload |-> u]

Confirmed(e) == e.decision = "confirmed"
Ambiguous(e) == e.item.kind = "ambiguous"

\* The rows a confirmed entry gives a home; none for the others.
HomeOf(e) ==
    IF Confirmed(e)
    THEN FixedRows(e.item) \cup (IF Ambiguous(e) THEN {e.picked} \ {NoRow} ELSE {})
    ELSE {}
PairedRows(pairs) == UNION {PairRows(m) : m \in pairs}
Settled(pairs, es) == PairedRows(pairs) \cup UNION {HomeOf(es[k]) : k \in DOMAIN es}

\* What a click posts.
Body == [upload |-> upload, matched |-> matched, review |-> review]

Quiet == asked = [reconcile |-> None, confirm |-> None, leftovers |-> None]
MayClick == Patient => Quiet

-----------------------------------------------------------------------------
(* The cards *)

OneCandidate(item) == item.kind = "ambiguous" /\ Cardinality(item.cands) = 1

\* Ambiguous items with the same single candidate share a card.
CardAt(es, at, k) ==
    LET item == es[k].item
        on == IF OneCandidate(item)
              THEN {j \in at : OneCandidate(es[j].item) /\ es[j].item.cands = item.cands}
              ELSE {k}
    IN  [j \in on |-> es[j].item]
CardsAt(es, at) == {CardAt(es, at, k) : k \in at}

\* Rendering ticks the box of a single candidate that nobody contests.
Rendered(es, at) ==
    [k \in DOMAIN es |->
        IF k \in at /\ OneCandidate(es[k].item) /\ DOMAIN CardAt(es, at, k) = {k}
        THEN [es[k] EXCEPT !.picked = CHOOSE b \in es[k].item.cands : TRUE]
        ELSE es[k]]

\* (mistaken) the second round shows the cards of the first again
AllIndexes(es, n) == DOMAIN es

\* A second round shows the new items only.
NewIndexes(es, n) == {k \in DOMAIN es : k > n}

-----------------------------------------------------------------------------
(* /confirm *)

\* (mistaken) each item is looked at alone
PicksOwnCandidate(es) ==
    \A k \in DOMAIN es :
        Ambiguous(es[k]) /\ Confirmed(es[k]) => es[k].picked \in es[k].item.cands

\* A confirmed ambiguous item picks one of its candidates, and no candidate
\* is picked twice; anything else is refused (422).
Acceptable(es) ==
    LET picks == {k \in DOMAIN es : Ambiguous(es[k]) /\ Confirmed(es[k])}
    IN  /\ \A k \in picks : es[k].picked \in es[k].item.cands
        /\ \A j, k \in picks : es[j].picked = es[k].picked => j = k

\* (mistaken) the rows of a group are not looked at
SingleSideStale(pairs, es, e) ==
    /\ e.item.kind = "unmatched"
    /\ {e.item.a, e.item.b} \cap
         (PairedRows(pairs) \cup
            UNION {{es[k].item.a, es[k].item.b} \ {NoRow} :
                      k \in {j \in DOMAIN es : Confirmed(es[j])}}) # {}

\* (mistaken) whatever is unmatched is gone once it has been confirmed
Placeholder(pairs, es, e) == e.item.kind = "unmatched" /\ Settled(pairs, es) # {}

\* drop_stale_unmatched_items: an unmatched item whose row has a home.
Stale(pairs, es, e) ==
    e.item.kind = "unmatched" /\ FixedRows(e.item) \cap Settled(pairs, es) # {}

\* The list without them, in the old order: entry i is the one that has i
\* survivors up to and including itself.  (SelectSeq, in a form that can be
\* reasoned about without induction.)
Survivors(pairs, es) == {k \in DOMAIN es : ~Stale(pairs, es, es[k])}
Position(K, k) == Cardinality({j \in K : j <= k})
Cleaned(pairs, es) ==
    LET K == Survivors(pairs, es)
    IN  [i \in 1 .. Cardinality(K) |-> es[CHOOSE k \in K : Position(K, k) = i]]

-----------------------------------------------------------------------------
(* /reconcile-leftovers *)

\* (mistaken) every row of an item that was not confirmed is open again
OpenRows(pairs, es) ==
    UNION {ItemRows(es[k].item) : k \in {j \in DOMAIN es : ~Confirmed(es[j])}}

\* Rows that items name and nothing settles.
Leftovers(pairs, es) ==
    (UNION {ItemRows(es[k].item) : k \in DOMAIN es}) \ Settled(pairs, es)

Distance(x, y) == IF x < y THEN y - x ELSE x - y
WithinDateCeiling(r, s) ==
    Absent \in {Date[r], Date[s]} \/ Distance(Date[r], Date[s]) <= Spread

AmountOf(r) == Amount[r]
SumCombos(target, pool) ==
    {g \in SUBSET {r \in pool : WithinDateCeiling(target, r)} :
        /\ Cardinality(g) \in 2 .. 4
        /\ Distance(MapThenSumSet(AmountOf, g), Amount[target]) <= Tol}

\* (mistaken) the target on the side of its group
SumItemOnWrongSide(r, g) ==
    IF r \in B THEN GroupItem("sum_match", r, NoRow, g)
               ELSE GroupItem("sum_match", NoRow, r, g)

SumItem(r, g) ==
    IF r \in A THEN GroupItem("sum_match", r, NoRow, g)
               ELSE GroupItem("sum_match", NoRow, r, g)

\* The search starts with every leftover as a target still to be looked at.
Search(body) ==
    LET open_rows == Leftovers(body.matched, body.review)
    IN  [upload |-> body.upload, pool |-> open_rows, todo |-> open_rows,
         used |-> {}, found |-> <<>>]

-----------------------------------------------------------------------------
(* The page *)

Init ==
    /\ uploads = 0
    /\ upload = 0
    /\ matched = {}
    /\ review = <<>>
    /\ narration = None
    /\ open = FALSE
    /\ cards = {}
    /\ reportShown = FALSE
    /\ asked = [reconcile |-> None, confirm |-> None, leftovers |-> None]
    /\ final = None

Reconcile(p) ==
    /\ ~open /\ MayClick
    /\ asked.reconcile = None
    /\ uploads < MaxUploads
    /\ uploads' = uploads + 1
    /\ asked' = [asked EXCEPT !.reconcile = p]
    /\ UNCHANGED <<upload, matched, review, narration, open, cards, reportShown, final>>

\* The summary and the report step of an earlier upload stay on the page.
ReconcileAnswer ==
    LET p  == asked.reconcile
        es == [k \in DOMAIN p.items |-> NewEntry(p.items[k], uploads)]
    IN  /\ p # None
        /\ upload' = uploads
        /\ matched' = p.pairs
        /\ review' = Rendered(es, DOMAIN es)
        /\ cards' = CardsAt(es, DOMAIN es)
        /\ open' = TRUE
        /\ asked' = [asked EXCEPT !.reconcile = None]
        /\ final' = None
        /\ UNCHANGED <<uploads, narration, reportShown>>

Reset ==
    /\ ~open /\ MayClick
    /\ upload' = 0
    /\ matched' = {}
    /\ review' = <<>>
    /\ narration' = None
    /\ cards' = {}
    /\ reportShown' = FALSE
    /\ final' = None
    /\ UNCHANGED <<uploads, open, asked>>

CloseDialog ==
    /\ open /\ MayClick
    /\ open' = FALSE
    /\ UNCHANGED <<uploads, upload, matched, review, narration, cards,
                   reportShown, asked, final>>

\* What a card's controls do: they change entries of reviewItems by index.
\* A control whose index is gone does nothing.
Change(es) ==
    /\ open /\ MayClick
    /\ review' = es
    /\ UNCHANGED <<uploads, upload, matched, narration, open, cards,
                   reportShown, asked, final>>

Decide(c, d) ==
    \E k \in DOMAIN review :
        /\ DOMAIN c = {k}
        /\ Change([review EXCEPT ![k].decision = d])

\* The box of a single candidate can be unticked, radio buttons cannot.
Pick(c, b) ==
    \E k \in DOMAIN review :
        /\ DOMAIN c = {k}
        /\ c[k].kind = "ambiguous"
        /\ b \in c[k].cands \/ (b = NoRow /\ OneCandidate(c[k]))
        /\ Change([review EXCEPT ![k].picked = b])

\* One of the contesting items is confirmed and the others are dismissed.
DecideContested(c, k) ==
    /\ Cardinality(DOMAIN c) > 1
    /\ DOMAIN c \subseteq DOMAIN review
    /\ Change([j \in DOMAIN review |->
                 IF j \notin DOMAIN c THEN review[j]
                 ELSE IF j = k
                 THEN [review[j] EXCEPT !.decision = "confirmed",
                                        !.picked = CHOOSE b \in c[j].cands : TRUE]
                 ELSE [review[j] EXCEPT !.decision = "dismissed", !.picked = NoRow]])

\* "Not sure yet": none of them is decided.
LeaveContested(c) ==
    /\ Cardinality(DOMAIN c) > 1
    /\ DOMAIN c \subseteq DOMAIN review
    /\ Change([j \in DOMAIN review |->
                 IF j \notin DOMAIN c THEN review[j]
                 ELSE [review[j] EXCEPT !.decision = None, !.picked = NoRow]])

Confirm ==
    /\ open /\ MayClick
    /\ asked.confirm = None
    /\ asked' = [asked EXCEPT !.confirm = Body]
    /\ UNCHANGED <<uploads, upload, matched, review, narration, open, cards,
                   reportShown, final>>

\* (mistaken) the dialog is left as it is
AsBefore == open
\* The answer closes the dialog with the cards of the list it replaces.
AfterConfirm == FALSE

\* The summary is optional: without an answer of the model, or without an
\* item to summarise, there is none.
ConfirmAnswer ==
    LET body == asked.confirm
        kept == Cleaned(body.matched, body.review)
    IN  /\ body # None
        /\ Acceptable(body.review)
        /\ upload' = body.upload
        /\ matched' = body.matched
        /\ review' = kept
        /\ narration' \in {None} \cup (IF kept = <<>> THEN {} ELSE {body.upload})
        /\ open' = AfterConfirm
        /\ reportShown' = TRUE
        /\ asked' = [asked EXCEPT !.confirm = None]
        /\ final' = [upload |-> body.upload, matched |-> body.matched, review |-> kept,
                     narration |-> narration']
        /\ UNCHANGED <<uploads, cards>>

CheckLeftovers ==
    /\ ~open /\ MayClick
    /\ reportShown
    /\ asked.leftovers = None
    /\ Len(review) <= MaxItems
    /\ asked' = [asked EXCEPT !.leftovers = Search(Body)]
    /\ UNCHANGED <<uploads, upload, matched, review, narration, open, cards,
                   reportShown, final>>

\* find_leftover_sum_matches, one target: all rows of theirs come before
\* ours, and a row that has been grouped is out of the search.
SearchTarget(r) ==
    LET s == asked.leftovers
        others == {t \in s.pool \ s.used : (t \in A) # (r \in A)}
        combos == IF r \in s.used THEN {} ELSE SumCombos(r, others)
        rest == [s EXCEPT !.todo = @ \ {r}]
    IN  /\ s # None
        /\ r \in s.todo
        /\ r \in A => s.todo \cap B = {}
        /\ asked' = [asked EXCEPT !.leftovers =
              IF \E g \in combos : combos = {g}
              THEN LET g == CHOOSE g \in combos : TRUE
                   IN  [rest EXCEPT !.used = @ \cup g \cup {r},
                                    !.found = Append(@, SumItem(r, g))]
              ELSE rest]
        /\ UNCHANGED <<uploads, upload, matched, review, narration, open, cards,
                       reportShown, final>>

LeftoversAnswer ==
    LET s  == asked.leftovers
        es == review \o [k \in DOMAIN s.found |-> NewEntry(s.found[k], s.upload)]
    IN  /\ s # None
        /\ s.todo = {}
        /\ asked' = [asked EXCEPT !.leftovers = None]
        /\ \/ /\ s.found # <<>>
              /\ review' = Rendered(es, NewIndexes(es, Len(review)))
              /\ cards' = CardsAt(es, NewIndexes(es, Len(review)))
              /\ open' = TRUE
           \/ /\ s.found = <<>>
              /\ UNCHANGED <<review, cards, open>>
        /\ UNCHANGED <<uploads, upload, matched, narration, reportShown, final>>

\* The call is refused or gets lost; an error is shown.
CallFails(call) ==
    /\ asked[call] # None
    /\ asked' = [asked EXCEPT ![call] = None]
    /\ UNCHANGED <<uploads, upload, matched, review, narration, open, cards,
                   reportShown, final>>

Next ==
    \/ \E p \in Previews : Reconcile(p)
    \/ ReconcileAnswer
    \/ Reset
    \/ CloseDialog
    \/ \E c \in cards, d \in Decision : Decide(c, d)
    \/ \E c \in cards, b \in B \cup {NoRow} : Pick(c, b)
    \/ \E c \in cards : \E k \in DOMAIN c \cup {0} : DecideContested(c, k)
    \/ \E c \in cards : LeaveContested(c)
    \/ Confirm
    \/ ConfirmAnswer
    \/ CheckLeftovers
    \/ \E r \in Row : SearchTarget(r)
    \/ LeftoversAnswer
    \/ \E call \in {"reconcile", "confirm", "leftovers"} : CallFails(call)

Spec == Init /\ [][Next]_vars

-----------------------------------------------------------------------------
(* Properties *)

ItemsIn(es) == {es[k].item : k \in DOMAIN es}
OnShow(r) == Surfaced(matched, ItemsIn(review), r)

Page == [upload : 0 .. MaxUploads, matched : SUBSET MatchedPair, review : Seq(Entry)]
SearchState ==
    [upload : 0 .. MaxUploads, pool : SUBSET Row, todo : SUBSET Row,
     used : SUBSET Row, found : Seq(ReviewItem)]
Calls ==
    [reconcile : {None} \cup Previews,
     confirm   : {None} \cup Page,
     leftovers : {None} \cup SearchState]

\* The variables hold what their names say.
TypeOK ==
    /\ uploads \in 0 .. MaxUploads
    /\ Body \in Page
    /\ narration \in {None} \cup (0 .. MaxUploads)
    /\ open \in BOOLEAN
    /\ reportShown \in BOOLEAN
    /\ \A c \in cards : \A k \in DOMAIN c : c[k] \in ReviewItem
    /\ asked \in Calls

\* A confirmed result gives no row two homes: not through two contesting
\* items, not through a grouping of the second round and an item of the
\* first, and not through a clean match and an item.
BookedOnce ==
    final # None =>
        LET es == final.review
        IN  \A k \in DOMAIN es :
                /\ HomeOf(es[k]) \cap PairedRows(final.matched) = {}
                /\ \A j \in DOMAIN es \ {k} : HomeOf(es[j]) \cap HomeOf(es[k]) = {}

\* A confirmed result does not report a row as unmatched that has a home,
\* whichever round found it one.
NoRowBothWays ==
    final # None =>
        \A k \in DOMAIN final.review :
            LET e == final.review[k]
            IN  e.item.kind = "unmatched" =>
                    FixedRows(e.item) \cap Settled(final.matched, final.review) = {}

\* The second round proposes nothing that is decided: no row of a grouping on
\* show has a home in a clean match or in any other item, also when several
\* groupings of the round have been confirmed.
SettledNotOffered ==
    open =>
        \A c \in cards : \A k \in DOMAIN c : c[k].kind = "sum_match" =>
            /\ FixedRows(c[k]) \cap PairedRows(matched) = {}
            /\ \A j \in DOMAIN review \ {k} :
                  FixedRows(c[k]) \cap HomeOf(review[j]) = {}

\* The controls of an open dialog work on the items their cards show,
\* although they hold indexes into a list that answers replace.
CardsShowTheirItems ==
    open =>
        \A c \in cards : \A k \in DOMAIN c :
            k \in DOMAIN review /\ review[k].item = c[k]

\* What was confirmed stays confirmed: later rounds about the same upload
\* only add homes.
ConfirmedForGood ==
    [][final # None /\ final' # None /\ final'.upload = final.upload =>
          Settled(final.matched, final.review)
             \subseteq Settled(final'.matched, final'.review)]_vars

\* Until the page turns to another upload, a row leaves it in one way only:
\* an unmatched item about it was confirmed.
RowsKept ==
    [][upload' = upload =>
          \A r \in Row : OnShow(r) =>
              \/ OnShow(r)'
              \/ \E k \in DOMAIN review :
                    /\ review[k].item.kind = "unmatched"
                    /\ r \in FixedRows(review[k].item)
                    /\ Confirmed(review[k])]_vars

\* The report step, reached with no call out, works on a confirmed result:
\* what it posts to /reconcile-leftovers and /report is the last answer of
\* /confirm, summary included.
ReportStepIsConfirmed ==
    reportShown /\ ~open /\ Quiet =>
        /\ final # None
        /\ <<upload, matched, review, narration>> =
              <<final.upload, final.matched, final.review, final.narration>>

\* Only items that are wrong about a row are dropped: every row of the
\* documents is somewhere in a confirmed result.
EveryRowReported ==
    final # None => \A r \in Row : Surfaced(final.matched, ItemsIn(final.review), r)

\* The groupings of the second round are appended to the list they were
\* searched in: all items on the page are about one upload.
OneUpload == \A k \in DOMAIN review : review[k].upload = upload
=============================================================================
