---------------------------- MODULE InvoiceRules ----------------------------
(***************************************************************************)
(* The verdict on one invoice (features/calculator/invoice_check.py): what *)
(* must be on it, VAT computed again line by line (engine.py, tools.py)    *)
(* and compared with the totals printed, and what the two reports say of   *)
(* the result (compliance_reports.py).                                     *)
(***************************************************************************)
EXTENDS Extraction

CONSTANTS
    WellFormed,  \* the VAT numbers of fifteen digits that start and end with 3
    Today,       \* a date is a number when it can be read
    Precision    \* largest amount quantize() rounds: decimal has 28 digits

ASSUME RulesAssumption ==
    /\ Today \in Nat /\ Precision \in Nat
    /\ None \notin WellFormed

\* XML names its lines in order, a PDF its attachments.
InOrder(s) == s \in Seq({s[i] : i \in DOMAIN s})

-----------------------------------------------------------------------------
(* What must be on the invoice *)

EssentialFieldsIssues(x) ==
    {rule \in {"missing_seller_vat_number", "missing_issue_date", "missing_buyer_identity"} :
        CASE rule = "missing_seller_vat_number" -> x.seller = None
          [] rule = "missing_issue_date" -> x.date = None
          [] OTHER -> x.buyerName = None /\ x.buyer = None}

BadVatNumber(number) == number # None /\ number \notin WellFormed

\* A date that cannot be read is no issue.
FutureDate(date) == date \in Nat /\ date > Today

SameParty(seller, buyer) == seller # None /\ seller = buyer

StructuralIssues(x) ==
    EssentialFieldsIssues(x)
        \cup (IF BadVatNumber(x.seller) THEN {"invalid_vat_number_format"} ELSE {})
        \cup (IF BadVatNumber(x.buyer) THEN {"invalid_buyer_vat_number_format"} ELSE {})
        \cup (IF FutureDate(x.date) THEN {"future_issue_date"} ELSE {})
        \cup (IF SameParty(x.seller, x.buyer) THEN {"seller_equals_buyer"} ELSE {})

Warnings == {"missing_buyer_identity", "no_printed_totals"}
Errors(issues) == issues \ Warnings

-----------------------------------------------------------------------------
(* The category of each line *)

TaxCategory == {"standard", "zero_rated", "exempt"}

ASSUME CategoryAssumption == None \notin TaxCategory

\* "O" has no category of its own.
Mapped(line) ==
    CASE line.code = "S" -> "standard" [] line.code = "Z" -> "zero_rated"
      [] line.code = "E" -> "exempt" [] OTHER -> None

Unresolved(lines) == {i \in DOMAIN lines : Mapped(lines[i]) = None}

\* Of the categories the model names, those there are.
ClassifyLineItems(named) ==
    [id \in {i \in DOMAIN named : named[i] \in TaxCategory} |-> named[id]]

\* What comes of asking it about the lines without a category, by line id:
\* anything, also nothing (it is down, or calls no tool).
Suggestions(lines) ==
    {ClassifyLineItems(named) :
        named \in [{lines[i].id : i \in Unresolved(lines)} -> TaxCategory \cup {None}]}

ResolveLineItems(lines, suggestions) ==
    [i \in DOMAIN lines |->
        [base |-> lines[i].base,
         category |-> IF Mapped(lines[i]) # None THEN Mapped(lines[i])
                      ELSE IF lines[i].id \in DOMAIN suggestions THEN suggestions[lines[i].id]
                      ELSE "standard"]]

-----------------------------------------------------------------------------
(* The engine *)

VatRates == [category \in TaxCategory |-> IF category = "standard" THEN 15 ELSE 0]

\* Hundredths of a halala to halalas, a half away from zero.
RoundCurrency(hundredths) ==
    IF hundredths >= 0 THEN (hundredths + 50) \div 100 ELSE -((50 - hundredths) \div 100)

CalculateLine(item) == RoundCurrency(item.base * VatRates[item.category])

\* What sum() has added up after each of the amounts.
Running(amounts) ==
    LET sum[n \in 0 .. Len(amounts)] == IF n = 0 THEN 0 ELSE sum[n - 1] + amounts[n] IN sum
Total(amounts) == Running(amounts)[Len(amounts)]

CalculateInvoice(items) ==
    LET vat      == Total([i \in DOMAIN items |-> CalculateLine(items[i])])
        subtotal == Total([i \in DOMAIN items |-> items[i].base])
    IN  [total_vat |-> vat, grand_total |-> subtotal + vat]

-----------------------------------------------------------------------------
(* The comparison with what is printed *)

\* A line without a base: the tool refuses its input.
ParseLineItemsFails(items) == \E i \in DOMAIN items : items[i].base = None

\* More digits than the context has: quantize() raises what nobody catches.
QuantizeFails(items) ==
    \E i \in DOMAIN items : LET vat == CalculateLine(items[i]) IN vat > Precision \/ vat < -Precision

ValidateZatcaForm(items, printed) ==
    LET calculation == CalculateInvoice(items)
    IN  {[field |-> f, printed |-> printed[f], computed |-> calculation[f]] :
            f \in {g \in {"total_vat", "grand_total"} : printed[g] \notin {None, calculation[g]}}}

SignedGap(m, tolerance) == m.printed - m.computed > tolerance    \* (mistaken) abs() is missing
HalfGap(m, tolerance) ==                                          \* (mistaken) >= for >
    m.printed - m.computed >= tolerance \/ m.computed - m.printed >= tolerance
IsSignificantMismatch(m, tolerance) ==
    m.printed - m.computed > tolerance \/ m.computed - m.printed > tolerance

\* One invoice: its result, or None, an exception that ends the request.
Verdict(name, issues, mismatches) ==
    [name |-> name, issues |-> issues, mismatches |-> mismatches,
     status |-> IF Errors(issues) # {} \/ \E m \in mismatches : ~m.within THEN "flagged" ELSE "clean"]

CheckLines(name, x, issues, suggestions, tolerance) ==
    LET items  == ResolveLineItems(x.lines, suggestions)
        noted  == issues \cup (IF x.vat = None /\ x.total = None THEN {"no_printed_totals"} ELSE {})
        wrong  == ValidateZatcaForm(items, [total_vat |-> x.vat, grand_total |-> x.total])
    IN  IF ParseLineItemsFails(items) THEN Verdict(name, noted \cup {"calculation_failed"}, {})
        ELSE IF QuantizeFails(items) THEN None
        ELSE Verdict(name, noted,
                     {[field |-> m.field, within |-> ~IsSignificantMismatch(m, tolerance)] : m \in wrong})

CheckOneInvoice(name, x, suggestions, tolerance) ==
    IF x = None THEN Verdict(name, {"extraction_failed"}, {})
    ELSE IF x.lines = << >>
         THEN Verdict(name, StructuralIssues(x) \cup {"not_readable_as_invoice"}, {})
         ELSE CheckLines(name, x, StructuralIssues(x), suggestions, tolerance)

\* The lines the model is asked about: none unless there are lines.
Asked(x) == IF x = None THEN << >> ELSE x.lines
=============================================================================
