--------------------------- MODULE PeriodFigures ---------------------------
(***************************************************************************)
(* The figures of a period's VAT return, features/calculator/              *)
(* period_return.py: from the sheets of an upload and the roles a user     *)
(* gives them to the headline figures, and from the user's decisions on    *)
(* doubtful purchases to the final ones.                                   *)
(*                                                                         *)
(* A sheet has a guessed role, may have a VAT column, and has rows.  Of a  *)
(* row's cells the code uses: the VAT and the net amount (in halalas, None *)
(* when unreadable), its own VAT rate in percent (None when it states      *)
(* none), whether some cell says "total", and for purchases what the sheet *)
(* states about reclaiming and which keywords its text has.                *)
(*                                                                         *)
(* A mapping is what /confirm-mapping is sent: the role of each sheet, and *)
(* for sheets without a rate column possibly the rate to check with.       *)
(* A place <<s, r>> is row r of sheet s.                                   *)
(***************************************************************************)
EXTENDS Integers, Sequences, FiniteSets, Functions

CONSTANT None

Role == {"sales", "purchases", "ignore"}
Guess == {"sales", "purchases", "unknown"}
Rate == {0, 15}

Row == [vat : Int \cup {None}, amount : Int \cup {None}, rate : Rate \cup {None},
        total : {"no", "plain", "reclaimable"},
        stated : {"yes", "no", None}, words : SUBSET {"blocked", "ambiguous"}]
Sheet == [guess : Guess, vat_col : BOOLEAN, rows : Seq(Row)]

RowAt(sheets, p) == sheets[p[1]].rows[p[2]]
RoleOf(sheets, mapping, s) ==
    IF s \in DOMAIN mapping.role THEN mapping.role[s] ELSE sheets[s].guess

\* The sheets process_period_return goes through.
Processed(sheets, mapping) ==
    {s \in DOMAIN sheets : RoleOf(sheets, mapping, s) \in {"sales", "purchases"}
                           /\ sheets[s].vat_col}

\* Rows that count: not a total, and with a VAT amount.
DataRows(sheets, s) ==
    {<<s, r>> : r \in {q \in DOMAIN sheets[s].rows :
                          /\ sheets[s].rows[q].total = "no"
                          /\ sheets[s].rows[q].vat # None}}
Places(sheets, mapping, role) ==
    UNION {DataRows(sheets, s) :
              s \in {t \in Processed(sheets, mapping) : RoleOf(sheets, mapping, t) = role}}

-----------------------------------------------------------------------------
(* Purchases *)

\* _resolve_reclaimability: what the sheet states, else the keywords.
Doubtful(row) ==
    row.stated = None /\ "blocked" \notin row.words /\ "ambiguous" \in row.words
Reclaimable(row) ==
    row.stated = "yes" \/ (row.stated = None /\ "blocked" \notin row.words)

Before(p, q) == p[1] < q[1] \/ (p[1] = q[1] /\ p[2] < q[2])

\* (mistaken) numbered within the sheet
ItemIdInSheet(places, p) == Cardinality({q \in places : q[1] = p[1] /\ Before(q, p)})

\* item_id: the number of purchases before this one.
ItemId(places, p) == Cardinality({q \in places : Before(q, p)})

Purchases(sheets, mapping) ==
    LET places == Places(sheets, mapping, "purchases")
    IN  [p \in places |-> [id |-> ItemId(places, p),
                           vat |-> RowAt(sheets, p).vat,
                           reclaimable |-> Reclaimable(RowAt(sheets, p)),
                           needs_review |-> Doubtful(RowAt(sheets, p))]]

\* The rows a person has to decide about.
Pending(rows) == {p \in DOMAIN rows : rows[p].needs_review}

\* What counts as reclaimable input VAT.
Counted(rows) == {p \in DOMAIN rows : rows[p].reclaimable /\ ~rows[p].needs_review}

Sum(f, places) == FoldFunctionOnSet(+, 0, f, places)
SumVat(rows, places) == Sum([p \in DOMAIN rows |-> rows[p].vat], places)

-----------------------------------------------------------------------------
(* Consistency checks *)

Apart(x, y) == x - y > 1 \/ y - x > 1    \* by more than one halala
RoundedShare(amount, rate) ==
    IF amount >= 0 THEN (amount * rate + 50) \div 100
                   ELSE -((50 - amount * rate) \div 100)
Fits(row, rate) == ~Apart(RoundedShare(row.amount, rate), row.vat)

Answered(mapping, s) == s \in DOMAIN mapping.rate
DefaultRate(mapping, s) == IF Answered(mapping, s) THEN mapping.rate[s] ELSE 15

\* Rows checked against the default, because they state no rate.  Zero is
\* always taken for possible.
CheckedByDefault(sheets, s) ==
    {p \in DataRows(sheets, s) : RowAt(sheets, p).rate = None /\ RowAt(sheets, p).amount # None}
Suspicious(sheets, mapping, s) ==
    {p \in DataRows(sheets, s) :
        LET row == RowAt(sheets, p)
        IN  /\ row.amount # None
            /\ IF row.rate # None THEN ~Fits(row, row.rate)
               ELSE ~Fits(row, DefaultRate(mapping, s)) /\ ~Fits(row, 0)}

\* (mistaken) only a sheet that states no rate at all gets the notice
AssumedForSheet(sheets, mapping, s) ==
    /\ ~Answered(mapping, s)
    /\ CheckedByDefault(sheets, s) # {}
    /\ \A p \in DataRows(sheets, s) : RowAt(sheets, p).rate = None

\* Was the standard rate assumed because the user gave none?
Assumed(sheets, mapping, s) ==
    ~Answered(mapping, s) /\ CheckedByDefault(sheets, s) # {}

\* A total the sheet prints must be the sum of its rows, or of those that
\* are reclaimed if that is what it says.
SheetVat(sheets, places) == Sum([p \in places |-> RowAt(sheets, p).vat], places)
WrongTotals(sheets, mapping, s) ==
    LET data == DataRows(sheets, s)
        reclaimed == {p \in data : Reclaimable(RowAt(sheets, p)) /\ ~Doubtful(RowAt(sheets, p))}
        purchases == RoleOf(sheets, mapping, s) = "purchases"
    IN  {p \in {<<s, r>> : r \in DOMAIN sheets[s].rows} :
            LET row == RowAt(sheets, p)
            IN  /\ row.total # "no" /\ row.vat # None
                /\ Apart(row.vat, SheetVat(sheets,
                      IF purchases /\ row.total = "reclaimable" THEN reclaimed ELSE data))}

Issue(kind, places) == {[kind |-> kind, at |-> p] : p \in places}
Issues(sheets, mapping) ==
    LET done == Processed(sheets, mapping)
        skipped == {s \in DOMAIN sheets : RoleOf(sheets, mapping, s) \in {"sales", "purchases"}
                                          /\ ~sheets[s].vat_col}
        assumed == {s \in done : Assumed(sheets, mapping, s)}
    IN  Issue("no_vat_column", {<<s, 0>> : s \in skipped})
        \cup Issue("assumed", {<<s, 0>> : s \in assumed})
        \cup Issue("recalculated", UNION {Suspicious(sheets, mapping, s) : s \in done})
        \cup Issue("total", UNION {WrongTotals(sheets, mapping, s) : s \in done})

-----------------------------------------------------------------------------
(* The result *)

\* The headline figures for these purchases.
Headline(output, input, rows) ==
    [status |-> IF Pending(rows) = {} THEN "ready" ELSE "awaiting_review",
     output_vat |-> output,
     input_vat_total |-> input,
     reclaimable_input_vat |-> SumVat(rows, Counted(rows)),
     net_position |-> output - SumVat(rows, Counted(rows)),
     rows |-> rows]

Process(sheets, mapping) ==
    LET rows == Purchases(sheets, mapping)
    IN  [figures |-> Headline(SheetVat(sheets, Places(sheets, mapping, "sales")),
                              SumVat(rows, DOMAIN rows), rows),
         issues |-> Issues(sheets, mapping)]

\* (mistaken) what is left undecided stays as it was guessed
OrAsGuessed(decisions, row) ==
    IF row.id \in DOMAIN decisions THEN decisions[row.id] ELSE row.reclaimable

\* Left undecided means not reclaimable.
Decision(decisions, row) ==
    row.id \in DOMAIN decisions /\ decisions[row.id]

\* apply_review_decisions
Decided(rows, decisions) ==
    [p \in DOMAIN rows |->
        [id |-> rows[p].id, vat |-> rows[p].vat, needs_review |-> FALSE,
         reclaimable |-> IF rows[p].needs_review THEN Decision(decisions, rows[p])
                         ELSE rows[p].reclaimable]]
Finalised(result, decisions) ==
    LET draft == result.figures
    IN  [figures |-> Headline(draft.output_vat, draft.input_vat_total,
                              Decided(draft.rows, decisions)),
         issues |-> result.issues]
=============================================================================
