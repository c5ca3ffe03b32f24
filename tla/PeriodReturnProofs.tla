------------------------- MODULE PeriodReturnProofs -------------------------
(***************************************************************************)
(* Theorems about PeriodReturn, for uploads of any size, any number of     *)
(* calls under way and of mishaps.                                         *)
(*                                                                         *)
(* First what the figures are made of, then what holds however calls       *)
(* overlap (Inv), then what holds of a page without mishaps (Tidy).        *)
(***************************************************************************)
EXTENDS PeriodReturn, FiniteSetTheorems, TLAPS

-----------------------------------------------------------------------------
(* Figures *)

Yes(rows, yes) == [id \in {rows[p].id : p \in yes} |-> TRUE]

\* The results a mapping can come to.
Results(sheets, mapping) ==
    LET draft == Process(sheets, mapping)
    IN  {draft} \cup {Finalised(draft, Yes(draft.figures.rows, yes)) :
                         yes \in SUBSET Pending(draft.figures.rows)}

LEMMA DecidedTwice ==
    ASSUME NEW rows, NEW d, NEW e
    PROVE  Decided(Decided(rows, d), e) = Decided(rows, d)
<1> DEFINE once == Decided(rows, d)
<1>1. DOMAIN once = DOMAIN rows
  BY DEF Decided
<1>2. \A p \in DOMAIN rows : ~once[p].needs_review
  BY DEF Decided
<1>3. \A p \in DOMAIN rows :
        once[p] = [id |-> once[p].id, vat |-> once[p].vat, needs_review |-> FALSE,
                   reclaimable |-> once[p].reclaimable]
  BY DEF Decided
<1> HIDE DEF once
<1>4. Decided(once, e) = [p \in DOMAIN rows |-> once[p]]
  BY <1>1, <1>2, <1>3 DEF Decided
<1>5. once = [p \in DOMAIN rows |-> once[p]]
  BY <1>1 DEF once, Decided
<1>. QED
  BY <1>4, <1>5 DEF once

\* The fields of a finished return.
LEMMA FinalFields ==
    ASSUME NEW result, NEW d
    PROVE  LET final == Finalised(result, d)
           IN  /\ final.figures.status = "ready"
               /\ final.figures.output_vat = result.figures.output_vat
               /\ final.figures.input_vat_total = result.figures.input_vat_total
               /\ final.figures.rows = Decided(result.figures.rows, d)
               /\ final.issues = result.issues
<1>1. Pending(Decided(result.figures.rows, d)) = {}
  BY DEF Pending, Decided
<1>. QED
  BY <1>1 DEF Finalised, Headline

\* A second review changes nothing.
LEMMA FinalisedTwice ==
    ASSUME NEW result, NEW d, NEW e
    PROVE  Finalised(Finalised(result, d), e) = Finalised(result, d)
BY FinalFields, DecidedTwice DEF Finalised

\* Any decisions come to marking some of the pending purchases reclaimable.
LEMMA DecisionsAreMarks ==
    ASSUME NEW rows, NEW d
    PROVE  \E yes \in SUBSET Pending(rows) : Decided(rows, d) = Decided(rows, Yes(rows, yes))
<1> DEFINE yes == {p \in Pending(rows) : Decision(d, rows[p])}
<1>1. ASSUME NEW p \in DOMAIN rows, rows[p].needs_review
      PROVE  Decision(d, rows[p]) = Decision(Yes(rows, yes), rows[p])
  <2>1. Decision(d, rows[p]) => Decision(Yes(rows, yes), rows[p])
    BY <1>1 DEF Decision, Yes, Pending
  <2>2. ASSUME Decision(Yes(rows, yes), rows[p])
        PROVE  Decision(d, rows[p])
    <3>1. PICK q \in yes : rows[q].id = rows[p].id
      BY <2>2 DEF Decision, Yes
    <3>. QED
      BY <3>1 DEF Decision
  <2>3. Decision(d, rows[p]) \in BOOLEAN /\ Decision(Yes(rows, yes), rows[p]) \in BOOLEAN
    BY DEF Decision
  <2>. QED
    BY <2>1, <2>2, <2>3
<1>2. Decided(rows, d) = Decided(rows, Yes(rows, yes))
  BY <1>1 DEF Decided
<1>. QED
  BY <1>2

LEMMA FinalisedIsResult ==
    ASSUME NEW sheets, NEW mapping, NEW result \in Results(sheets, mapping), NEW d
    PROVE  Finalised(result, d) \in Results(sheets, mapping)
<1> DEFINE draft == Process(sheets, mapping)
<1>1. CASE result = draft
  <2>1. PICK yes \in SUBSET Pending(draft.figures.rows) :
          Decided(draft.figures.rows, d)
             = Decided(draft.figures.rows, Yes(draft.figures.rows, yes))
    BY DecisionsAreMarks
  <2>2. Finalised(draft, d) = Finalised(draft, Yes(draft.figures.rows, yes))
    BY <2>1 DEF Finalised
  <2>. QED
    BY <1>1, <2>2 DEF Results
<1>2. CASE \E yes \in SUBSET Pending(draft.figures.rows) :
             result = Finalised(draft, Yes(draft.figures.rows, yes))
  BY <1>2, FinalisedTwice DEF Results
<1>. QED
  BY <1>1, <1>2 DEF Results

\* Whatever a result is, its figures are the headline of its rows.
LEMMA FiguresOfRows ==
    ASSUME NEW sheets, NEW mapping, NEW result \in Results(sheets, mapping)
    PROVE  result.figures = Headline(result.figures.output_vat,
                                     result.figures.input_vat_total, result.figures.rows)
<1>1. ASSUME NEW o, NEW i, NEW rows
      PROVE  LET h == Headline(o, i, rows)
             IN  h = Headline(h.output_vat, h.input_vat_total, h.rows)
  BY DEF Headline
<1>2. \E o, i, rows : result.figures = Headline(o, i, rows)
  BY DEF Results, Process, Finalised
<1>. QED
  BY <1>1, <1>2

LEMMA UndecidedRows ==
    ASSUME NEW rows
    PROVE  /\ Counted(Decided(rows, <<>>)) = Counted(rows)
           /\ \A places : SumVat(Decided(rows, <<>>), places) = SumVat(rows, places)
<1>1. ASSUME NEW row
      PROVE  ~Decision(<<>>, row)
  BY DEF Decision
<1>2. Counted(Decided(rows, <<>>)) = Counted(rows)
  BY <1>1 DEF Counted, Decided
<1>3. [p \in DOMAIN Decided(rows, <<>>) |-> Decided(rows, <<>>)[p].vat]
         = [p \in DOMAIN rows |-> rows[p].vat]
  BY DEF Decided
<1>. QED
  BY <1>2, <1>3 DEF SumVat

LEMMA DraftStands ==
    ASSUME NEW sheets, NEW mapping, NEW result \in Results(sheets, mapping)
    PROVE  LET final == Finalised(result, <<>>).figures
           IN  /\ final.reclaimable_input_vat = result.figures.reclaimable_input_vat
               /\ final.net_position = result.figures.net_position
<1> DEFINE rows == result.figures.rows
<1>1. /\ result.figures.reclaimable_input_vat = SumVat(rows, Counted(rows))
      /\ result.figures.net_position
            = result.figures.output_vat - SumVat(rows, Counted(rows))
  <2>1. ASSUME NEW f, NEW o, NEW i, NEW r, f = Headline(o, i, r)
        PROVE  /\ f.reclaimable_input_vat = SumVat(r, Counted(r))
               /\ f.net_position = o - SumVat(r, Counted(r))
    BY <2>1 DEF Headline
  <2>. QED
    BY <2>1, FiguresOfRows
<1>2. /\ Finalised(result, <<>>).figures.reclaimable_input_vat
            = SumVat(Decided(rows, <<>>), Counted(Decided(rows, <<>>)))
      /\ Finalised(result, <<>>).figures.net_position
            = result.figures.output_vat
                 - SumVat(Decided(rows, <<>>), Counted(Decided(rows, <<>>)))
  BY DEF Finalised, Headline
<1>. QED
  BY <1>1, <1>2, UndecidedRows

-----------------------------------------------------------------------------
(* Default rates *)

\* The mapping with a default rate for one more sheet.
WithRate(mapping, s, rate) ==
    [role |-> mapping.role,
     rate |-> [t \in DOMAIN mapping.rate \cup {s} |->
                  IF t = s THEN rate ELSE mapping.rate[t]]]

LEMMA RateMatters ==
    ASSUME NEW sheets, NEW mapping, NEW s \in DOMAIN sheets, NEW rate,
           s \notin DOMAIN mapping.rate,
           [kind |-> "assumed", at |-> <<s, 0>>] \notin Issues(sheets, mapping)
    PROVE  Issues(sheets, WithRate(mapping, s, rate)) = Issues(sheets, mapping)
<1> DEFINE given == WithRate(mapping, s, rate)
<1>1. \A t : RoleOf(sheets, given, t) = RoleOf(sheets, mapping, t)
  BY DEF RoleOf, WithRate
<1>2. Processed(sheets, given) = Processed(sheets, mapping)
  BY <1>1 DEF Processed
<1>3. \A t : t # s => /\ Answered(given, t) = Answered(mapping, t)
                      /\ DefaultRate(given, t) = DefaultRate(mapping, t)
  BY DEF Answered, DefaultRate, WithRate
<1>4. Answered(given, s) /\ ~Answered(mapping, s)
  BY DEF Answered, WithRate
<1>5. s \in Processed(sheets, mapping) => CheckedByDefault(sheets, s) = {}
  <2>1. Issue("assumed", {<<t, 0>> : t \in {u \in Processed(sheets, mapping) : Assumed(sheets, mapping, u)}})
           \subseteq Issues(sheets, mapping)
    BY DEF Issues
  <2>2. s \in Processed(sheets, mapping) => ~Assumed(sheets, mapping, s)
    BY <2>1 DEF Issue
  <2>. QED
    BY <1>4, <2>2 DEF Assumed
<1>6. \A t \in Processed(sheets, mapping) :
         Suspicious(sheets, given, t) = Suspicious(sheets, mapping, t)
  BY <1>3, <1>5 DEF Suspicious, CheckedByDefault
<1>7. \A t \in Processed(sheets, mapping) :
         Assumed(sheets, given, t) <=> Assumed(sheets, mapping, t)
  BY <1>3, <1>5 DEF Assumed
<1>8. \A t : WrongTotals(sheets, given, t) = WrongTotals(sheets, mapping, t)
  BY <1>1 DEF WrongTotals
<1> DEFINE done == Processed(sheets, mapping)
           skipped(m) == {t \in DOMAIN sheets :
                            RoleOf(sheets, m, t) \in {"sales", "purchases"} /\ ~sheets[t].vat_col}
           assumed(m) == {t \in done : Assumed(sheets, m, t)}
<1>9. skipped(given) = skipped(mapping) /\ assumed(given) = assumed(mapping)
  BY <1>1, <1>7
<1>10. /\ UNION {Suspicious(sheets, given, t) : t \in done}
             = UNION {Suspicious(sheets, mapping, t) : t \in done}
       /\ UNION {WrongTotals(sheets, given, t) : t \in done}
             = UNION {WrongTotals(sheets, mapping, t) : t \in done}
  BY <1>6, <1>8
<1>. QED
  BY <1>2, <1>9, <1>10 DEF Issues

-----------------------------------------------------------------------------
(* However calls overlap *)

MappedRow(sheets, mapping, result) ==
    [sheets |-> sheets, mapping |-> mapping, result |-> result,
     status |-> result.figures.status]
Table ==
    {NewBatch(sheets) : sheets \in Uploads}
    \cup UNION {UNION {{MappedRow(sheets, mapping, result) : result \in Results(sheets, mapping)}
                         : mapping \in Mappings(sheets)} : sheets \in Uploads}

CallOk(bs, c) ==
    /\ c.button \in {"upload", "confirm", "review", "report"}
    /\ c.phase \in {"sent", "read", "answered", "refused"}
    /\ c.button = "upload" => c.body \in Uploads /\ c.phase # "read"
    /\ c.button = "confirm" => c.batch \in DOMAIN bs /\ c.body \in Mappings(bs[c.batch].sheets)
    /\ c.phase = "read" =>
          /\ c.button \in {"confirm", "review"}
          /\ c.batch \in DOMAIN bs
          /\ c.seen \in Table /\ c.seen.sheets = bs[c.batch].sheets
          /\ c.button = "review" => HasResult(c.seen)
    /\ c.phase = "answered" => c.answer.batch \in DOMAIN bs

CallsOk == DOMAIN calls = Slot /\ \A s \in Slot : calls[s] # None => CallOk(batches, calls[s])

PageOk ==
    /\ batchId \in {0} \cup DOMAIN batches
    /\ modal \in BOOLEAN /\ results \in BOOLEAN
    /\ modal => batchId # 0
    /\ headline # None => headline.batch \in DOMAIN batches

Inv ==
    /\ batches \in Seq(Table)
    /\ CallsOk
    /\ waiting \subseteq Slot
    /\ PageOk
    /\ mishaps \in 0 .. MaxMishaps

\* The table only grows, and sheets do not change.
Extends(bs, bt) ==
    /\ bt \in Seq(Table)
    /\ DOMAIN bs \subseteq DOMAIN bt
    /\ \A b \in DOMAIN bs : bt[b].sheets = bs[b].sheets

LEMMA TableRow ==
    ASSUME NEW b \in Table
    PROVE  /\ b.sheets \in Uploads
           /\ HasResult(b) =>
                 /\ b.mapping \in Mappings(b.sheets)
                 /\ b.result \in Results(b.sheets, b.mapping)
                 /\ b.status = b.result.figures.status
           /\ ~HasResult(b) => b.status = "awaiting_mapping"
<1>1. CASE b \in {NewBatch(sheets) : sheets \in Uploads}
  BY <1>1 DEF NewBatch, HasResult
<1>2. ASSUME NEW sheets \in Uploads, NEW mapping \in Mappings(sheets),
             NEW result \in Results(sheets, mapping), b = MappedRow(sheets, mapping, result)
      PROVE  /\ b.sheets \in Uploads /\ HasResult(b)
             /\ b.mapping \in Mappings(b.sheets)
             /\ b.result \in Results(b.sheets, b.mapping)
             /\ b.status = b.result.figures.status
  BY <1>2 DEF MappedRow, HasResult
<1>. QED
  BY <1>1, <1>2 DEF Table

LEMMA InTable ==
    ASSUME NEW sheets \in Uploads, NEW mapping \in Mappings(sheets),
           NEW result \in Results(sheets, mapping)
    PROVE  MappedRow(sheets, mapping, result) \in Table
BY DEF Table

LEMMA ConfirmedInTable ==
    ASSUME NEW b \in Table, NEW mapping \in Mappings(b.sheets)
    PROVE  Confirmed(b, mapping, Process(b.sheets, mapping)) \in Table
<1>1. Process(b.sheets, mapping) \in Results(b.sheets, mapping)
  BY DEF Results
<1>. QED
  BY <1>1, TableRow, InTable DEF Confirmed, MappedRow

LEMMA ReviewedInTable ==
    ASSUME NEW b \in Table, HasResult(b), NEW now, NEW d
    PROVE  Reviewed(b, now, Finalised(b.result, d)) \in Table
<1>1. Finalised(b.result, d) \in Results(b.sheets, b.mapping)
  BY TableRow, FinalisedIsResult
<1>2. Finalised(b.result, d).figures.status = "ready"
  BY FinalFields
<1>. QED
  BY <1>1, <1>2, TableRow, InTable DEF Reviewed, MappedRow

LEMMA CallStays ==
    ASSUME NEW bs, NEW bt, Extends(bs, bt), NEW c, CallOk(bs, c)
    PROVE  CallOk(bt, c)
BY DEF CallOk, Extends

LEMMA RowOfSeq ==
    ASSUME NEW S, NEW q \in Seq(S)
    PROVE  /\ DOMAIN q = 1 .. Len(q) /\ Len(q) \in Nat
           /\ \A k \in DOMAIN q : q[k] \in S
OBVIOUS

LEMMA SameTable ==
    ASSUME NEW bs \in Seq(Table)
    PROVE  Extends(bs, bs)
BY DEF Extends

LEMMA Appended ==
    ASSUME NEW bs \in Seq(Table), NEW sheets \in Uploads
    PROVE  /\ Extends(bs, Append(bs, NewBatch(sheets)))
           /\ Len(bs) + 1 \in DOMAIN Append(bs, NewBatch(sheets))
           /\ Append(bs, NewBatch(sheets))[Len(bs) + 1] = NewBatch(sheets)
           /\ \A b \in DOMAIN bs : Append(bs, NewBatch(sheets))[b] = bs[b]
<1>1. NewBatch(sheets) \in Table
  BY DEF Table
<1>. QED
  BY <1>1 DEF Extends

LEMMA Replaced ==
    ASSUME NEW bs \in Seq(Table), NEW b \in DOMAIN bs, NEW new \in Table,
           new.sheets = bs[b].sheets
    PROVE  Extends(bs, [bs EXCEPT ![b] = new])
BY DEF Extends

\* One call changes.
LEMMA CallSet ==
    ASSUME CallsOk, Extends(batches, batches'), NEW s \in Slot, NEW c,
           c # None => CallOk(batches', c),
           calls' = [calls EXCEPT ![s] = c]
    PROVE  CallsOk'
<1>1. DOMAIN calls' = Slot
  BY DEF CallsOk
<1>2. ASSUME NEW t \in Slot, calls'[t] # None
      PROVE  CallOk(batches', calls'[t])
  <2>1. CASE t = s
    BY <1>2, <2>1 DEF CallsOk
  <2>2. CASE t # s
    <3>1. calls'[t] = calls[t]
      BY <2>2 DEF CallsOk
    <3>2. CallOk(batches, calls[t])
      BY <1>2, <3>1 DEF CallsOk
    <3>. QED
      BY <3>1, <3>2, CallStays
  <2>. QED
    BY <2>1, <2>2
<1>. QED
  BY <1>1, <1>2 DEF CallsOk

LEMMA CallsKept ==
    ASSUME CallsOk, Extends(batches, batches'), calls' = calls
    PROVE  CallsOk'
<1>1. ASSUME NEW t \in Slot, calls'[t] # None
      PROVE  CallOk(batches', calls'[t])
  BY <1>1, CallStays DEF CallsOk
<1>. QED
  BY <1>1 DEF CallsOk

LEMMA PageKept ==
    ASSUME PageOk, Extends(batches, batches'), UNCHANGED page
    PROVE  PageOk'
BY DEF PageOk, Extends, page

\* A call ends, answered or refused.
LEMMA Ended ==
    ASSUME CallsOk, Extends(batches, batches'), NEW s \in Slot, calls[s] # None,
           NEW phase \in {"answered", "refused"}, NEW answer,
           phase = "answered" => answer.batch \in DOMAIN batches',
           Ends(s, phase, answer)
    PROVE  CallsOk'
<1> DEFINE c == IF s \in waiting THEN Moved(calls[s], phase, None, answer) ELSE None
<1>1. CallOk(batches', calls[s])
  BY CallStays DEF CallsOk
<1>2. c # None => CallOk(batches', c)
  BY <1>1 DEF CallOk, Moved
<1>3. calls' = [calls EXCEPT ![s] = c]
  BY DEF Ends, CallsOk
<1> HIDE DEF c
<1>. QED
  BY <1>2, <1>3, CallSet

\* A button is pressed.
LEMMA Pressed ==
    ASSUME Inv, PeriodAssumption, NEW s \in Slot, NEW button, NEW body, Press(s, button, body),
           batches' = batches, UNCHANGED page,
           button \in {"upload", "confirm", "review", "report"},
           button = "upload" => body \in Uploads,
           button = "confirm" => /\ batchId \in DOMAIN batches
                                 /\ body \in Mappings(batches[batchId].sheets)
    PROVE  Inv'
<1>1. Extends(batches, batches')
  BY SameTable DEF Inv
<1> DEFINE c == [button |-> button, batch |-> batchId, body |-> body,
                 phase |-> "sent", seen |-> None, answer |-> None]
<1>2. CallOk(batches', c)
  BY DEF CallOk
<1>3. calls' = [calls EXCEPT ![s] = c]
  BY DEF Press
<1> HIDE DEF c
<1>4. CallsOk'
  BY <1>1, <1>2, <1>3, CallSet DEF Inv
<1>5. waiting' \subseteq Slot
  BY DEF Press, Inv
<1>6. mishaps' \in 0 .. MaxMishaps
  BY DEF Press, Click, Mishap, Inv, PeriodAssumption
<1>. QED
  BY <1>1, <1>4, <1>5, <1>6, PageKept DEF Inv, Extends

LEMMA InitInv ==
    ASSUME Init, PeriodAssumption
    PROVE  Inv
<1>1. batches \in Seq(Table)
  BY DEF Init
<1>2. CallsOk /\ waiting \subseteq Slot
  BY DEF Init, CallsOk
<1>3. PageOk
  BY DEF Init, PageOk
<1>4. mishaps \in 0 .. MaxMishaps
  BY DEF Init, PeriodAssumption
<1>. QED
  BY <1>1, <1>2, <1>3, <1>4 DEF Inv

LEMMA ReadInv ==
    ASSUME Inv, NEW s \in Slot, Read(s)
    PROVE  Inv'
<1> DEFINE call == calls[s]
           row == batches[call.batch]
<1>1. /\ call # None /\ CallOk(batches, call)
      /\ call.phase = "sent" /\ call.button # "upload"
  BY DEF Read, Inv, CallsOk
<1>2. Extends(batches, batches')
  BY SameTable DEF Inv, Read
<1>3. CallsOk'
  <2>1. CASE Refuse(s)
    BY <1>1, <1>2, <2>1, Ended DEF Refuse, Inv
  <2>2. CASE /\ ~Refused(call) /\ call.button = "report"
             /\ Answer(s, [batch |-> call.batch, result |-> row.result])
    <3>1. call.batch \in DOMAIN batches'
      BY <1>2, <2>2 DEF Refused, Extends
    <3>. QED
      BY <1>1, <1>2, <2>2, <3>1, Ended DEF Answer, Inv
  <2>3. CASE /\ ~Refused(call) /\ call.button # "report"
             /\ calls' = [calls EXCEPT ![s] = Moved(call, "read", row, None)]
    <3>1. call.batch \in DOMAIN batches /\ row \in Table
      BY <2>3, RowOfSeq DEF Refused, Inv
    <3> DEFINE c == Moved(call, "read", row, None)
    <3>2. CallOk(batches, c)
      BY <1>1, <2>3, <3>1 DEF CallOk, Moved, Refused
    <3>3. calls' = [calls EXCEPT ![s] = c]
      BY <2>3
    <3> HIDE DEF c
    <3>4. CallOk(batches', c)
      BY <1>2, <3>2, CallStays
    <3>. QED
      BY <1>2, <3>3, <3>4, CallSet DEF Inv
  <2>. QED
    BY <2>1, <2>2, <2>3 DEF Read
<1>. QED
  BY <1>2, <1>3, PageKept DEF Read, Inv, Extends

LEMMA StoreInv ==
    ASSUME Inv, NEW s \in Slot, Store(s)
    PROVE  Inv'
<1> DEFINE call == calls[s]
<1>1. call # None /\ CallOk(batches, call) /\ call.button = "upload"
  BY DEF Store, Inv, CallsOk
<1>2. CASE /\ batches' = Append(batches, NewBatch(call.body))
           /\ Answer(s, [batch |-> Len(batches) + 1])
  <2>1. Extends(batches, batches') /\ Len(batches) + 1 \in DOMAIN batches'
    BY <1>1, <1>2, Appended DEF CallOk, Inv
  <2>2. CallsOk'
    BY <1>1, <1>2, <2>1, Ended DEF Answer, Inv
  <2>. QED
    BY <2>1, <2>2, PageKept DEF Store, Inv, Extends
<1>3. CASE batches' = batches /\ Refuse(s)
  <2>1. Extends(batches, batches')
    BY <1>3, SameTable DEF Inv
  <2>2. CallsOk'
    BY <1>1, <1>3, <2>1, Ended DEF Refuse, Inv
  <2>. QED
    BY <2>1, <2>2, PageKept DEF Store, Inv, Extends
<1>. QED
  BY <1>2, <1>3 DEF Store

\* What a call writes is a row of the table, with the sheets it had.
LEMMA Written ==
    ASSUME NEW c, CallOk(batches, c), c.phase = "read", NEW now
    PROVE  LET result == IF c.button = "confirm" THEN Process(c.seen.sheets, c.body)
                         ELSE Finalised(c.seen.result, c.body.decisions)
               new == IF c.button = "confirm" THEN Confirmed(c.seen, c.body, result)
                      ELSE Reviewed(c.seen, now, result)
           IN  new \in Table /\ new.sheets = batches[c.batch].sheets
<1>1. /\ c.batch \in DOMAIN batches
      /\ c.seen \in Table /\ c.seen.sheets = batches[c.batch].sheets
      /\ c.button \in {"confirm", "review"}
      /\ c.button = "confirm" => c.body \in Mappings(batches[c.batch].sheets)
      /\ c.button = "review" => HasResult(c.seen)
  BY DEF CallOk
<1>2. CASE c.button = "confirm"
  <2>1. Confirmed(c.seen, c.body, Process(c.seen.sheets, c.body)) \in Table
    BY <1>1, <1>2, ConfirmedInTable
  <2>. QED
    BY <1>1, <1>2, <2>1 DEF Confirmed
<1>3. CASE c.button = "review"
  <2>1. Reviewed(c.seen, now, Finalised(c.seen.result, c.body.decisions)) \in Table
    BY <1>1, <1>3, ReviewedInTable
  <2>. QED
    BY <1>1, <1>3, <2>1 DEF Reviewed
<1>. QED
  BY <1>1, <1>2, <1>3

LEMMA WriteInv ==
    ASSUME Inv, NEW s \in Slot, Write(s)
    PROVE  Inv'
<1> DEFINE call == calls[s]
           result == IF call.button = "confirm" THEN Process(call.seen.sheets, call.body)
                     ELSE Finalised(call.seen.result, call.body.decisions)
           new == IF call.button = "confirm" THEN Confirmed(call.seen, call.body, result)
                  ELSE Reviewed(call.seen, batches[call.batch], result)
<1>1. /\ call # None /\ CallOk(batches, call) /\ call.phase = "read"
      /\ call.batch \in DOMAIN batches
  BY DEF Write, Inv, CallsOk, CallOk
<1>2. new \in Table /\ new.sheets = batches[call.batch].sheets
  BY <1>1, Written
<1>3. CASE /\ batches' = [batches EXCEPT ![call.batch] = new]
           /\ Answer(s, [batch |-> call.batch, result |-> result])
  <2>0. batches' = [batches EXCEPT ![call.batch] = new]
    BY <1>3
  <2> HIDE DEF new
  <2>1. Extends(batches, batches')
    BY <1>1, <1>2, <2>0, Replaced DEF Inv
  <2>2. call.batch \in DOMAIN batches'
    BY <1>1, <2>1 DEF Extends
  <2>3. CallsOk'
    BY <1>1, <1>3, <2>1, <2>2, Ended DEF Answer, Inv
  <2>. QED
    BY <2>1, <2>3, PageKept DEF Write, Inv, Extends
<1>4. CASE batches' = batches /\ Refuse(s)
  <2>1. Extends(batches, batches')
    BY <1>4, SameTable DEF Inv
  <2>2. CallsOk'
    BY <1>1, <1>4, <2>1, Ended DEF Refuse, Inv
  <2>. QED
    BY <2>1, <2>2, PageKept DEF Write, Inv, Extends
<1>. QED
  BY <1>3, <1>4 DEF Write

LEMMA ArriveInv ==
    ASSUME Inv, NEW s \in Slot, Arrive(s)
    PROVE  Inv'
<1> DEFINE call == calls[s]
<1>1. CallOk(batches, call)
  BY DEF Arrive, Inv, CallsOk
<1>2. Extends(batches, batches')
  BY SameTable DEF Inv, Arrive
<1>3. CallsOk'
  BY <1>2, CallSet DEF Inv, Arrive
<1>4. PageOk'
  <2>1. CASE call.phase = "refused" \/ call.button = "report"
    BY <1>2, <2>1, PageKept DEF Arrive, Inv
  <2>2. CASE ~(call.phase = "refused" \/ call.button = "report")
    <3>1. call.phase = "answered" /\ call.answer.batch \in DOMAIN batches
      BY <1>1, <2>2 DEF CallOk, Arrive
    <3>2. \A b \in DOMAIN batches : b # 0
      BY RowOfSeq DEF Inv
    <3>3. CASE call.button = "upload"
      BY <2>2, <3>1, <3>2, <3>3 DEF Arrive, Inv, PageOk
    <3>4. CASE call.button = "confirm"
      BY <2>2, <3>1, <3>4 DEF Arrive, Inv, PageOk, Shown
    <3>5. CASE call.button \notin {"upload", "confirm"}
      BY <2>2, <3>1, <3>5 DEF Arrive, Inv, PageOk, Shown
    <3>. QED
      BY <3>3, <3>4, <3>5
  <2>. QED
    BY <2>1, <2>2
<1>. QED
  BY <1>2, <1>3, <1>4 DEF Arrive, Inv, Extends

LEMMA LoseInv ==
    ASSUME Inv, PeriodAssumption, NEW s \in Slot, Lose(s)
    PROVE  Inv'
<1>1. Extends(batches, batches')
  BY SameTable DEF Inv, Lose
<1>2. CallsOk'
  <2>1. CASE calls' = calls
    BY <1>1, <2>1, CallsKept DEF Inv
  <2>2. CASE calls' = [calls EXCEPT ![s] = None]
    BY <1>1, <2>2, CallSet DEF Inv
  <2>. QED
    BY <2>1, <2>2 DEF Lose
<1>3. mishaps' \in 0 .. MaxMishaps
  BY DEF Lose, Mishap, Inv, PeriodAssumption
<1>. QED
  BY <1>1, <1>2, <1>3, PageKept DEF Lose, Inv, Extends

\* Leaving the dialog and starting over.
LEMMA TurnInv ==
    ASSUME Inv, PeriodAssumption, CloseModal \/ Reset
    PROVE  Inv'
<1>1. Extends(batches, batches')
  BY SameTable DEF Inv, CloseModal, Reset
<1>2. CallsOk'
  BY <1>1, CallsKept DEF Inv, CloseModal, Reset
<1>3. mishaps' \in 0 .. MaxMishaps
  BY DEF CloseModal, Reset, Click, Mishap, Inv, PeriodAssumption
<1>4. PageOk'
  <2>1. CASE CloseModal
    BY <2>1 DEF CloseModal, Inv, PageOk
  <2>2. CASE Reset
    BY <2>2 DEF Reset, Inv, PageOk
  <2>. QED
    BY <2>1, <2>2
<1>. QED
  BY <1>1, <1>2, <1>3, <1>4 DEF CloseModal, Reset, Inv, Extends

LEMMA NextInv ==
    ASSUME Inv, PeriodAssumption, [Next]_vars
    PROVE  Inv'
<1>1. ASSUME NEW s \in Slot, NEW sheets \in Uploads, Upload(s, sheets)
      PROVE  Inv'
  BY <1>1, Pressed DEF Upload
<1>2. ASSUME NEW s \in Slot, Confirm(s)
      PROVE  Inv'
  <2>1. PICK mapping \in Mappings(batches[batchId].sheets) : Press(s, "confirm", mapping)
    BY <1>2 DEF Confirm
  <2>2. batchId \in DOMAIN batches
    BY <1>2 DEF Confirm, Inv, PageOk
  <2>. QED
    BY <1>2, <2>1, <2>2, Pressed DEF Confirm
<1>3. ASSUME NEW s \in Slot, NEW marked, NEW yes, Submit(s, marked, yes)
      PROVE  Inv'
  <2>1. \E body : Press(s, "review", body)
    BY <1>3 DEF Submit
  <2>. QED
    BY <1>3, <2>1, Pressed DEF Submit
<1>4. ASSUME NEW s \in Slot, Download(s)
      PROVE  Inv'
  BY <1>4, Pressed DEF Download
<1>5. CASE CloseModal \/ Reset
  BY <1>5, TurnInv
<1>6. ASSUME NEW s \in Slot, Store(s) \/ Read(s) \/ Write(s) \/ Arrive(s) \/ Lose(s)
      PROVE  Inv'
  BY <1>6, StoreInv, ReadInv, WriteInv, ArriveInv, LoseInv
<1>7. CASE UNCHANGED vars
  <2>1. Extends(batches, batches')
    BY <1>7, SameTable DEF Inv, vars
  <2>2. CallsOk' /\ PageOk'
    BY <1>7, <2>1, CallsKept, PageKept DEF Inv, vars
  <2>. QED
    BY <1>7, <2>2 DEF Inv, vars
<1>. QED
  BY <1>1, <1>2, <1>3, <1>4, <1>5, <1>6, <1>7 DEF Next

\* Every kept row of the table has a result of its own mapping.
LEMMA BatchInTable ==
    ASSUME Inv, NEW batch \in Batch
    PROVE  batch \in Table
BY RowOfSeq DEF Inv, Batch

LEMMA InvTypeOK ==
    ASSUME Inv
    PROVE  TypeOK
<1>1. ASSUME NEW batch \in Batch
      PROVE  /\ batch.sheets \in Uploads
             /\ IF HasResult(batch)
                THEN batch.mapping \in Mappings(batch.sheets)
                     /\ batch.status = batch.result.figures.status
                ELSE batch.status = "awaiting_mapping"
  BY BatchInTable, TableRow
<1>2. ASSUME NEW s \in Slot, calls[s] # None
      PROVE  /\ calls[s].button \in {"upload", "confirm", "review", "report"}
             /\ calls[s].phase \in {"sent", "read", "answered", "refused"}
  BY <1>2 DEF Inv, CallsOk, CallOk
<1>. QED
  BY <1>1, <1>2 DEF TypeOK, Inv, PageOk

LEMMA InvResultOfMapping ==
    ASSUME Inv
    PROVE  ResultOfMapping
<1>1. ASSUME NEW batch \in Batch, HasResult(batch)
      PROVE  batch.result \in Results(batch.sheets, batch.mapping)
  BY <1>1, BatchInTable, TableRow
<1>. QED
  BY <1>1 DEF ResultOfMapping, Results, Yes

LEMMA InvDraftStands ==
    ASSUME Inv
    PROVE  DraftStandsUndecided
<1>1. ASSUME NEW batch \in Batch, HasResult(batch)
      PROVE  batch.result \in Results(batch.sheets, batch.mapping)
  BY <1>1, BatchInTable, TableRow
<1>. QED
  BY <1>1, DraftStands DEF DraftStandsUndecided

LEMMA InvAssumedRateTold ==
    ASSUME Inv
    PROVE  AssumedRateTold
<1>1. ASSUME NEW batch \in Batch, HasResult(batch)
      PROVE  batch.result.issues = Issues(batch.sheets, batch.mapping)
  <2>1. batch.result \in Results(batch.sheets, batch.mapping)
    BY <1>1, BatchInTable, TableRow
  <2>2. Process(batch.sheets, batch.mapping).issues = Issues(batch.sheets, batch.mapping)
    BY DEF Process
  <2>. QED
    BY <2>1, <2>2, FinalFields DEF Results
<1>. QED
  BY <1>1, RateMatters DEF AssumedRateTold, WithRate

-----------------------------------------------------------------------------
\* The shapes are kept by any number of calls under way, in any order, for
\* uploads of any size.
THEOREM TypeCorrect == Spec => []TypeOK
<1>1. Init => Inv
  BY InitInv, PeriodAssumption
<1>2. Inv /\ [Next]_vars => Inv'
  BY NextInv, PeriodAssumption
<1>. QED
  BY <1>1, <1>2, InvTypeOK, PTL DEF Spec

\* A kept result always comes from the sheets and the mapping kept with it:
\* /review and /confirm-mapping write rows back as a whole, so that whoever
\* writes last, no row mixes two computations.
THEOREM ResultIsOfMapping == Spec => []ResultOfMapping
<1>1. Init => Inv
  BY InitInv, PeriodAssumption
<1>2. Inv /\ [Next]_vars => Inv'
  BY NextInv, PeriodAssumption
<1>. QED
  BY <1>1, <1>2, InvResultOfMapping, PTL DEF Spec

\* A draft's reclaimable input VAT and net position are those of a review that
\* decides nothing, for every table of purchases.
THEOREM UndecidedChangesNothing == Spec => []DraftStandsUndecided
<1>1. Init => Inv
  BY InitInv, PeriodAssumption
<1>2. Inv /\ [Next]_vars => Inv'
  BY NextInv, PeriodAssumption
<1>. QED
  BY <1>1, <1>2, InvDraftStands, PTL DEF Spec

\* A kept result that depends on the standard rate being assumed says so.
THEOREM AssumptionIsTold == Spec => []AssumedRateTold
<1>1. Init => Inv
  BY InitInv, PeriodAssumption
<1>2. Inv /\ [Next]_vars => Inv'
  BY NextInv, PeriodAssumption
<1>. QED
  BY <1>1, <1>2, InvAssumedRateTold, PTL DEF Spec

-----------------------------------------------------------------------------
(* Item ids *)

Distinct(rows) == \A p, q \in DOMAIN rows : rows[p].id = rows[q].id => p = q

LEMMA SheetOf ==
    ASSUME PeriodAssumption, NEW sheets \in Uploads
    PROVE  /\ DOMAIN sheets = 1 .. Len(sheets) /\ Len(sheets) \in Nat
           /\ \A s \in DOMAIN sheets : DOMAIN sheets[s].rows = 1 .. Len(sheets[s].rows)
                                       /\ Len(sheets[s].rows) \in Nat
<1>1. sheets \in Seq(Sheet)
  BY DEF PeriodAssumption
<1>2. \A s \in DOMAIN sheets : sheets[s].rows \in Seq(Row)
  <2>1. \A s \in DOMAIN sheets : sheets[s] \in Sheet
    BY <1>1, RowOfSeq
  <2>2. \A sheet \in Sheet : sheet.rows \in Seq(Row)
    BY DEF Sheet
  <2>. QED
    BY <2>1, <2>2
<1>. QED
  BY <1>1, <1>2, RowOfSeq

LEMMA PlacesFinite ==
    ASSUME PeriodAssumption, NEW sheets \in Uploads, NEW mapping, NEW role
    PROVE  /\ IsFiniteSet(Places(sheets, mapping, role))
           /\ \A p \in Places(sheets, mapping, role) : p \in Nat \X Nat
<1> DEFINE done == {s \in Processed(sheets, mapping) : RoleOf(sheets, mapping, s) = role}
           f == [s \in done |-> DataRows(sheets, s)]
           data == {DataRows(sheets, s) : s \in done}
<1>1. IsFiniteSet(done)
  <2>1. IsFiniteSet(1 .. Len(sheets))
    BY SheetOf, FS_Interval
  <2>2. done \in SUBSET (1 .. Len(sheets))
    BY SheetOf DEF Processed
  <2>. QED
    BY <2>1, <2>2, FS_Subset
<1>2. IsFiniteSet(data)
  <2>1. f \in Surjection(done, data)
    BY DEF Surjection
  <2>. QED
    BY <1>1, <2>1, FS_Surjection
<1>3. ASSUME NEW s \in done
      PROVE  IsFiniteSet(DataRows(sheets, s)) /\ DataRows(sheets, s) \subseteq Nat \X Nat
  <2>1. s \in Nat /\ Len(sheets[s].rows) \in Nat /\ s \in DOMAIN sheets
    BY SheetOf DEF Processed
  <2>2. DataRows(sheets, s) \in SUBSET ({s} \X (1 .. Len(sheets[s].rows)))
    BY <2>1, SheetOf DEF DataRows
  <2>3. IsFiniteSet({s}) /\ IsFiniteSet(1 .. Len(sheets[s].rows))
    <3>1. IsFiniteSet({s})
      BY FS_Singleton
    <3>2. 1 \in Int /\ Len(sheets[s].rows) \in Int
      BY <2>1
    <3>3. IsFiniteSet(1 .. Len(sheets[s].rows))
      BY <3>2, FS_Interval
    <3>. QED
      BY <3>1, <3>3
  <2>4. IsFiniteSet({s} \X (1 .. Len(sheets[s].rows)))
    BY <2>3, FS_Product
  <2>. QED
    BY <2>1, <2>2, <2>4, FS_Subset
<1>4. IsFiniteSet(UNION data)
  BY <1>2, <1>3, FS_UNION
<1>. QED
  BY <1>3, <1>4 DEF Places

\* Item ids number the purchases: no two have the same.
LEMMA ItemIdDiffers ==
    ASSUME NEW places, IsFiniteSet(places), \A p \in places : p \in Nat \X Nat,
           NEW p \in places, NEW q \in places, Before(p, q)
    PROVE  ItemId(places, p) # ItemId(places, q)
<1> DEFINE P == {r \in places : Before(r, p)}
           Q == {r \in places : Before(r, q)}
<1>1. P \subseteq Q
  BY DEF Before
<1>2. p \in Q /\ p \notin P
  BY DEF Before
<1>3. IsFiniteSet(Q)
  <2>1. Q \in SUBSET places
    OBVIOUS
  <2>. QED
    BY <2>1, FS_Subset
<1>4. Cardinality(P) # Cardinality(Q)
  BY <1>1, <1>2, <1>3, FS_Subset
<1>. QED
  BY <1>4 DEF ItemId

LEMMA PurchasesDistinct ==
    ASSUME PeriodAssumption, NEW sheets \in Uploads, NEW mapping
    PROVE  Distinct(Purchases(sheets, mapping))
<1> DEFINE places == Places(sheets, mapping, "purchases")
           rows == Purchases(sheets, mapping)
<1>1. DOMAIN rows = places /\ \A p \in places : rows[p].id = ItemId(places, p)
  BY DEF Purchases
<1>2. IsFiniteSet(places) /\ \A p \in places : p \in Nat \X Nat
  BY PlacesFinite
<1>3. ASSUME NEW p \in places, NEW q \in places, p # q
      PROVE  Before(p, q) \/ Before(q, p)
  BY <1>2, <1>3 DEF Before
<1> HIDE DEF places
<1>4. ASSUME NEW p \in places, NEW q \in places, p # q
      PROVE  ItemId(places, p) # ItemId(places, q)
  BY <1>2, <1>3, <1>4, ItemIdDiffers
<1>. QED
  BY <1>1, <1>4 DEF Distinct

LEMMA ResultDistinct ==
    ASSUME PeriodAssumption, NEW sheets \in Uploads, NEW mapping,
           NEW result \in Results(sheets, mapping)
    PROVE  Distinct(result.figures.rows)
<1> DEFINE draft == Process(sheets, mapping)
<1>1. draft.figures.rows = Purchases(sheets, mapping)
  BY DEF Process, Headline
<1>2. Distinct(draft.figures.rows)
  BY <1>1, PurchasesDistinct
<1>3. ASSUME NEW rows, Distinct(rows), NEW d
      PROVE  Distinct(Decided(rows, d))
  BY <1>3 DEF Distinct, Decided
<1>. QED
  BY <1>2, <1>3, FinalFields DEF Results

-----------------------------------------------------------------------------
(* Without mishaps *)

Named(h) == h = [batch |-> h.batch, result |-> h.result]

\* Page h, which works on batch id, shows it as table bs has it.
Shows(bs, id, h) ==
    id # 0 /\ h # None =>
        IF h.batch = id
        THEN HasResult(bs[id]) /\ bs[id].result = h.result
        ELSE ~HasResult(bs[id])

PendingOn(h) == IF h = None THEN {} ELSE Pending(h.result.figures.rows)
Marks(h, marked, yes) ==
    LET rows == h.result.figures.rows
        ids(places) == {rows[p].id : p \in places}
    IN  [decisions |-> [id \in ids(marked) |-> id \in ids(yes)],
         yes |-> {<<h.batch, p>> : p \in yes}]
IsReview(h, body) ==
    /\ h # None
    /\ \E marked \in SUBSET PendingOn(h) : \E yes \in SUBSET marked : body = Marks(h, marked, yes)

\* The answer of a call that writes, before the page has it.
Ahead(c) == c.phase = "answered" /\ c.button \in {"confirm", "review"}

\* A call the page waits for.
Underway(bs, id, h, c) ==
    /\ c.button # "upload" => c.batch = id
    /\ c.phase = "read" => c.seen = bs[id]
    /\ c.button = "review" => IsReview(h, c.body)
    /\ c.button = "report" => h # None
    /\ c.phase = "answered" /\ c.button = "upload" =>
          /\ ~HasResult(bs[c.answer.batch])
          /\ h # None => h.batch # c.answer.batch
    /\ Ahead(c) =>
          /\ Named(c.answer) /\ c.answer.batch = id
          /\ HasResult(bs[id]) /\ bs[id].result = c.answer.result
    /\ c.phase = "answered" /\ c.button = "review" =>
          /\ h.batch = id /\ Distinct(h.result.figures.rows)
          /\ c.answer.result = Finalised(h.result, c.body.decisions)
    /\ c.phase = "answered" /\ c.button = "report" => c.answer = h

Tidy ==
    /\ \A s \in Slot : calls[s] # None => s \in waiting
    /\ \A s, t \in waiting : s = t
    /\ headline # None => Named(headline)
    /\ \A s \in waiting : Underway(batches, batchId, headline, calls[s])
    /\ Shows(batches, batchId, headline) \/ \E s \in waiting : Ahead(calls[s])

\* A step of the only call.
LEMMA TidySet ==
    ASSUME Inv, Tidy, NEW s \in Slot, calls[s] # None, NEW c,
           calls' = [calls EXCEPT ![s] = c], waiting' = waiting, UNCHANGED page,
           Underway(batches', batchId, headline, c),
           Shows(batches', batchId, headline) \/ Ahead(c)
    PROVE  Tidy'
<1>1. s \in waiting /\ \A t \in waiting : t = s
  BY DEF Tidy
<1>2. calls'[s] = c /\ \A t \in Slot : t # s => calls'[t] = calls[t]
  BY DEF Inv, CallsOk
<1>3. batchId' = batchId /\ headline' = headline
  BY DEF page
<1>4. \A t \in Slot : calls'[t] # None => t \in waiting'
  BY <1>1, <1>2 DEF Tidy
<1>5. \A t \in waiting' : Underway(batches', batchId', headline', calls'[t])
  BY <1>1, <1>2, <1>3
<1>6. Shows(batches', batchId', headline') \/ \E t \in waiting' : Ahead(calls'[t])
  BY <1>1, <1>2, <1>3
<1>. QED
  BY <1>1, <1>3, <1>4, <1>5, <1>6 DEF Tidy

LEMMA TidyEnds ==
    ASSUME Inv, Tidy, NEW s \in Slot, calls[s] # None, NEW phase, NEW answer,
           Ends(s, phase, answer), waiting' = waiting, UNCHANGED page,
           NEW c, c = Moved(calls[s], phase, None, answer),
           Underway(batches', batchId, headline, c),
           Shows(batches', batchId, headline) \/ Ahead(c)
    PROVE  Tidy'
<1>1. s \in waiting
  BY DEF Tidy
<1>2. calls' = [calls EXCEPT ![s] = c]
  BY <1>1 DEF Ends, Inv, CallsOk
<1>. QED
  BY <1>2, TidySet

\* A refusal tells nothing new.
LEMMA TidyRefuse ==
    ASSUME Inv, Tidy, NEW s \in Slot, calls[s] # None, Refuse(s),
           calls[s].phase \in {"sent", "read"},
           batches' = batches, waiting' = waiting, UNCHANGED page
    PROVE  Tidy'
<1> DEFINE c == Moved(calls[s], "refused", None, None)
<1>1. s \in waiting /\ \A t \in waiting : t = s
  BY DEF Tidy
<1>2. Underway(batches, batchId, headline, calls[s])
  BY <1>1 DEF Tidy
<1>3. Underway(batches', batchId, headline, c)
  BY <1>2 DEF Underway, Moved, Ahead
<1>4. Shows(batches', batchId, headline)
  <2>1. ~Ahead(calls[s])
    BY DEF Ahead
  <2>2. Shows(batches, batchId, headline)
    BY <1>1, <2>1 DEF Tidy
  <2>. QED
    BY <2>2
<1> HIDE DEF c
<1>. QED
  BY <1>3, <1>4, TidyEnds DEF c, Refuse

\* The first click, when nothing is under way.
LEMMA TidyPress ==
    ASSUME Inv, mishaps = 0 => Tidy, NEW s \in Slot, NEW button, NEW body,
           Press(s, button, body), batches' = batches, UNCHANGED page, mishaps' = 0,
           button = "review" => IsReview(headline, body),
           button = "report" => headline # None
    PROVE  Tidy'
<1>1. Quiet /\ mishaps = 0
  BY DEF Press, Click, Mishap, Inv
<1>2. Tidy
  BY <1>1
<1> DEFINE c == [button |-> button, batch |-> batchId, body |-> body,
                 phase |-> "sent", seen |-> None, answer |-> None]
<1>3. waiting' = {s} /\ calls' = [calls EXCEPT ![s] = c]
  BY <1>1 DEF Press, Quiet
<1>4. Underway(batches, batchId, headline, c)
  BY DEF Underway, Ahead
<1> HIDE DEF c
<1>5. calls'[s] = c /\ \A t \in Slot : t # s => calls'[t] = None
  BY <1>1, <1>2, <1>3 DEF Inv, CallsOk, Tidy, Quiet
<1>6. Shows(batches, batchId, headline)
  BY <1>1, <1>2 DEF Tidy, Quiet
<1>7. batchId' = batchId /\ headline' = headline
  BY DEF page
<1>8. \A t \in Slot : calls'[t] # None => t \in waiting'
  BY <1>3, <1>5
<1>9. \A t \in waiting' : Underway(batches', batchId', headline', calls'[t])
  BY <1>3, <1>4, <1>5, <1>7
<1>. QED
  BY <1>2, <1>3, <1>6, <1>7, <1>8, <1>9 DEF Tidy

LEMMA StoreTidy ==
    ASSUME Inv, Tidy, NEW s \in Slot, Store(s)
    PROVE  Tidy'
<1> DEFINE call == calls[s]
<1>1. /\ call # None /\ CallOk(batches, call) /\ call.button = "upload"
      /\ call.phase = "sent" /\ waiting' = waiting /\ UNCHANGED page
  BY DEF Store, Inv, CallsOk
<1>2. CASE /\ batches' = Append(batches, NewBatch(call.body))
           /\ Answer(s, [batch |-> Len(batches) + 1])
  <2> DEFINE c == Moved(call, "answered", None, [batch |-> Len(batches) + 1])
  <2>1. /\ batches'[Len(batches) + 1] = NewBatch(call.body)
        /\ \A b \in DOMAIN batches : batches'[b] = batches[b]
        /\ Len(batches) + 1 \notin DOMAIN batches
    BY <1>1, <1>2, Appended, RowOfSeq DEF CallOk, Inv
  <2>2. ~HasResult(NewBatch(call.body))
    BY DEF NewBatch, HasResult
  <2>3. Underway(batches', batchId, headline, c)
    BY <1>1, <2>1, <2>2 DEF Underway, Moved, Ahead, Inv, PageOk
  <2>4. Shows(batches', batchId, headline)
    <3>1. Shows(batches, batchId, headline)
      BY <1>1 DEF Tidy, Ahead
    <3>. QED
      BY <2>1, <3>1 DEF Shows, Inv, PageOk
  <2> HIDE DEF c
  <2>. QED
    BY <1>1, <1>2, <2>3, <2>4, TidyEnds DEF c, Answer
<1>3. CASE batches' = batches /\ Refuse(s)
  BY <1>1, <1>3, TidyRefuse
<1>. QED
  BY <1>2, <1>3 DEF Store

\* The call under way is the only one and knows the page.
LEMMA OnlyCall ==
    ASSUME Tidy, NEW s \in Slot, calls[s] # None, ~Ahead(calls[s])
    PROVE  /\ Underway(batches, batchId, headline, calls[s])
           /\ Shows(batches, batchId, headline)
BY DEF Tidy

LEMMA ReadTidy ==
    ASSUME Inv, Tidy, NEW s \in Slot, Read(s)
    PROVE  Tidy'
<1> DEFINE call == calls[s]
           row == batches[call.batch]
<1>1. /\ call # None /\ call.phase = "sent" /\ call.button # "upload"
      /\ batches' = batches /\ waiting' = waiting /\ UNCHANGED page
      /\ CallOk(batches, call)
  BY DEF Read, Inv, CallsOk
<1>2. /\ Underway(batches, batchId, headline, call)
      /\ Shows(batches, batchId, headline)
      /\ call.batch = batchId
  BY <1>1, OnlyCall DEF Ahead, Underway
<1>3. CASE Refuse(s)
  BY <1>1, <1>3, TidyRefuse
<1>4. CASE /\ ~Refused(call) /\ call.button = "report"
           /\ Answer(s, [batch |-> call.batch, result |-> row.result])
  <2> DEFINE c == Moved(call, "answered", None, [batch |-> call.batch, result |-> row.result])
  <2>1. call.batch \in DOMAIN batches /\ row \in Table /\ row.status = "ready"
    BY <1>4, RowOfSeq DEF Refused, Inv
  <2>2. HasResult(row)
    BY <2>1, TableRow
  <2>3. call.batch # 0
    BY <2>1, RowOfSeq DEF Inv
  <2>4. headline # None /\ headline.batch = call.batch /\ row.result = headline.result
    BY <1>2, <1>4, <2>2, <2>3 DEF Shows, Underway
  <2>5. [batch |-> call.batch, result |-> row.result] = headline
    BY <2>4 DEF Tidy, Named
  <2>6. Underway(batches', batchId, headline, c)
    BY <1>1, <1>2, <1>4, <2>4, <2>5 DEF Underway, Moved, Ahead
  <2> HIDE DEF c
  <2>. QED
    BY <1>1, <1>2, <1>4, <2>6, TidyEnds DEF c, Answer
<1>5. CASE /\ ~Refused(call) /\ call.button # "report"
           /\ calls' = [calls EXCEPT ![s] = Moved(call, "read", row, None)]
  <2> DEFINE c == Moved(call, "read", row, None)
  <2>1. Underway(batches', batchId, headline, c)
    BY <1>1, <1>2 DEF Underway, Moved, Ahead
  <2>2. calls' = [calls EXCEPT ![s] = c]
    BY <1>5
  <2> HIDE DEF c
  <2>. QED
    BY <1>1, <1>2, <2>1, <2>2, TidySet
<1>. QED
  BY <1>3, <1>4, <1>5 DEF Read

LEMMA WriteTidy ==
    ASSUME Inv, PeriodAssumption, Tidy, NEW s \in Slot, Write(s)
    PROVE  Tidy'
<1> DEFINE call == calls[s]
           seen == call.seen
           result == IF call.button = "confirm" THEN Process(seen.sheets, call.body)
                     ELSE Finalised(seen.result, call.body.decisions)
           new == IF call.button = "confirm" THEN Confirmed(seen, call.body, result)
                  ELSE Reviewed(seen, batches[call.batch], result)
           answer == [batch |-> call.batch, result |-> result]
           c == Moved(call, "answered", None, answer)
<1>1. /\ call # None /\ call.phase = "read"
      /\ waiting' = waiting /\ UNCHANGED page
      /\ CallOk(batches, call)
  BY DEF Write, Inv, CallsOk
<1>2. /\ Underway(batches, batchId, headline, call)
      /\ Shows(batches, batchId, headline)
  BY <1>1, OnlyCall DEF Ahead
<1>3. /\ call.button \in {"confirm", "review"}
      /\ call.batch = batchId /\ batchId \in DOMAIN batches /\ batchId # 0
      /\ seen = batches[batchId] /\ seen \in Table
      /\ call.button = "review" => HasResult(seen)
  <2>1. \A b \in DOMAIN batches : b # 0
    BY RowOfSeq DEF Inv
  <2>. QED
    BY <1>1, <1>2, <2>1 DEF CallOk, Underway
<1>4. CASE /\ batches' = [batches EXCEPT ![call.batch] = new]
           /\ Answer(s, answer)
  <2>1. batches'[batchId] = new
    <3>0. batches' = [batches EXCEPT ![call.batch] = new]
      BY <1>4
    <3> HIDE DEF new
    <3>. QED
      BY <1>3, <3>0
  <2>2. HasResult(new) /\ new.result = result
    BY DEF Confirmed, Reviewed, HasResult
  <2>3. ASSUME call.button = "review"
        PROVE  /\ headline.batch = batchId /\ Distinct(headline.result.figures.rows)
               /\ result = Finalised(headline.result, call.body.decisions)
    <3>1. headline.batch = batchId /\ seen.result = headline.result
      BY <1>2, <1>3, <2>3 DEF Shows, Underway, IsReview
    <3>2. Distinct(seen.result.figures.rows)
      BY <1>3, <2>3, TableRow, ResultDistinct
    <3>. QED
      BY <2>3, <3>1, <3>2
  <2>4. Named(answer)
    BY DEF Named
  <2>5. /\ c.button = call.button /\ c.batch = call.batch /\ c.body = call.body
        /\ c.phase = "answered" /\ c.answer = answer
    BY DEF Moved
  <2>6. answer.batch = batchId /\ answer.result = result
    BY <1>3
  <2>7. Ahead(c)
    BY <1>3, <2>5 DEF Ahead
  <2>8. call.button = "review" => IsReview(headline, call.body)
    BY <1>2 DEF Underway
  <2> HIDE DEF c, answer, new, result
  <2>9. Underway(batches', batchId, headline, c)
    BY <1>3, <2>1, <2>2, <2>3, <2>4, <2>5, <2>6, <2>8 DEF Underway
  <2>10. c = Moved(calls[s], "answered", None, answer)
    BY DEF c
  <2>. QED
    BY <1>1, <1>4, <2>7, <2>9, <2>10, TidyEnds DEF Answer
<1>5. CASE batches' = batches /\ Refuse(s)
  BY <1>1, <1>5, TidyRefuse
<1>. QED
  BY <1>4, <1>5 DEF Write

\* The page gets the answer, and nothing is under way any more.
LEMMA ArriveTidy ==
    ASSUME Inv, Tidy, NEW s \in Slot, Arrive(s)
    PROVE  Tidy'
<1> DEFINE call == calls[s]
<1>1. /\ call # None /\ batches' = batches /\ CallOk(batches, call)
      /\ calls' = [calls EXCEPT ![s] = None] /\ waiting' = waiting \ {s}
  BY DEF Arrive, Inv, CallsOk
<1>2. s \in waiting /\ \A t \in waiting : t = s
  BY <1>1 DEF Tidy
<1>3. waiting' = {} /\ \A t \in Slot : calls'[t] = None
  BY <1>1, <1>2 DEF Tidy, Inv, CallsOk
<1>4. Underway(batches, batchId, headline, call)
  BY <1>2 DEF Tidy
<1>5. (headline' # None => Named(headline')) /\ Shows(batches', batchId', headline')
  <2>1. CASE call.phase = "refused" \/ call.button = "report"
    <3>1. headline' = headline /\ batchId' = batchId
      BY <2>1 DEF Arrive, page
    <3>2. Shows(batches, batchId, headline)
      BY <1>1, <2>1, OnlyCall DEF Ahead
    <3>. QED
      BY <1>1, <3>1, <3>2 DEF Tidy
  <2>2. CASE ~(call.phase = "refused" \/ call.button = "report") /\ call.button = "upload"
    <3>1. headline' = headline /\ batchId' = call.answer.batch /\ call.phase = "answered"
      BY <2>2 DEF Arrive
    <3>2. /\ ~HasResult(batches[call.answer.batch])
          /\ headline # None => headline.batch # call.answer.batch
      BY <1>4, <2>2, <3>1 DEF Underway
    <3>. QED
      BY <1>1, <3>1, <3>2 DEF Tidy, Shows
  <2>3. CASE ~(call.phase = "refused" \/ call.button = "report") /\ call.button # "upload"
    <3>1. headline' = call.answer /\ batchId' = batchId /\ call.phase = "answered"
      BY <2>3 DEF Arrive, Shown
    <3>2. Ahead(call)
      BY <1>1, <2>3, <3>1 DEF Ahead, CallOk
    <3>3. /\ Named(call.answer) /\ call.answer.batch = batchId
          /\ HasResult(batches[batchId]) /\ batches[batchId].result = call.answer.result
      BY <1>4, <3>2 DEF Underway
    <3>. QED
      BY <1>1, <3>1, <3>3 DEF Shows
  <2>. QED
    BY <2>1, <2>2, <2>3
<1>. QED
  BY <1>3, <1>5 DEF Tidy

LEMMA TurnTidy ==
    ASSUME Inv, mishaps = 0 => Tidy, CloseModal \/ Reset, mishaps' = 0
    PROVE  Tidy'
<1>1. batches' = batches /\ calls' = calls /\ waiting' = waiting
  BY DEF CloseModal, Reset
<1>2. Quiet /\ \A s \in Slot : calls[s] = None
  <2>1. CASE CloseModal
    BY <2>1 DEF CloseModal, Click, Mishap, Inv, Tidy, Quiet
  <2>2. CASE Reset
    BY <2>2 DEF Reset, Click, Mishap, Inv, Tidy, Quiet
  <2>. QED
    BY <2>1, <2>2
<1>3. (headline' # None => Named(headline')) /\ Shows(batches', batchId', headline')
  <2>1. CASE CloseModal
    <3>1. Tidy
      BY <1>2, <2>1 DEF CloseModal, Click
    <3>. QED
      BY <1>1, <1>2, <2>1, <3>1 DEF CloseModal, Tidy, Quiet
  <2>2. CASE Reset
    BY <2>2 DEF Reset, Shows
  <2>. QED
    BY <2>1, <2>2
<1>. QED
  BY <1>1, <1>2, <1>3 DEF Quiet, Tidy

LEMMA InitTidy ==
    ASSUME Init
    PROVE  Tidy
<1>1. waiting = {} /\ headline = None /\ \A s \in Slot : calls[s] = None
  BY DEF Init
<1>2. Shows(batches, batchId, headline)
  BY <1>1 DEF Shows
<1>. QED
  BY <1>1, <1>2 DEF Tidy

LEMMA NextTidy ==
    ASSUME Inv, PeriodAssumption, mishaps = 0 => Tidy, [Next]_vars, mishaps' = 0
    PROVE  Tidy'
<1>1. ASSUME NEW s \in Slot, NEW sheets, Upload(s, sheets)
      PROVE  Tidy'
  BY <1>1, TidyPress DEF Upload
<1>2. ASSUME NEW s \in Slot, Confirm(s)
      PROVE  Tidy'
  <2>1. PICK mapping \in Mappings(batches[batchId].sheets) : Press(s, "confirm", mapping)
    BY <1>2 DEF Confirm
  <2>. QED
    BY <1>2, <2>1, TidyPress DEF Confirm
<1>3. ASSUME NEW s \in Slot, NEW marked, NEW yes, Submit(s, marked, yes)
      PROVE  Tidy'
  <2>1. headline # None /\ marked \subseteq PendingOn(headline) /\ yes \subseteq marked
    BY <1>3 DEF Submit, Cards, PendingOn
  <2>2. Press(s, "review", Marks(headline, marked, yes))
    BY <1>3 DEF Submit, Marks
  <2>3. IsReview(headline, Marks(headline, marked, yes))
    BY <2>1 DEF IsReview
  <2>. QED
    BY <1>3, <2>2, <2>3, TidyPress DEF Submit
<1>4. ASSUME NEW s \in Slot, Download(s)
      PROVE  Tidy'
  BY <1>4, TidyPress DEF Download
<1>5. CASE CloseModal \/ Reset
  BY <1>5, TurnTidy
<1>6. ASSUME NEW s \in Slot, Store(s) \/ Read(s) \/ Write(s) \/ Arrive(s)
      PROVE  Tidy'
  <2>1. mishaps = 0
    BY <1>6 DEF Store, Read, Write, Arrive
  <2>. QED
    BY <1>6, <2>1, StoreTidy, ReadTidy, WriteTidy, ArriveTidy
<1>7. ASSUME NEW s \in Slot, Lose(s)
      PROVE  FALSE
  BY <1>7 DEF Lose, Mishap, Inv
<1>8. CASE UNCHANGED vars
  <2>1. Tidy
    BY <1>8 DEF vars
  <2>2. /\ batches' = batches /\ calls' = calls /\ waiting' = waiting
        /\ batchId' = batchId /\ headline' = headline
    BY <1>8 DEF vars, page
  <2>. QED
    BY <2>1, <2>2 DEF Tidy
<1>. QED
  BY <1>1, <1>2, <1>3, <1>4, <1>5, <1>6, <1>7, <1>8 DEF Next

\* What holds without mishaps.
TidyInv == Inv /\ (mishaps = 0 => Tidy)

LEMMA TidyPageShowsRecord ==
    ASSUME TidyInv
    PROVE  PageShowsRecord
<1> SUFFICES ASSUME mishaps = 0, Quiet, headline # None, batchId # 0
             PROVE  IF headline.batch = batchId
                    THEN HasResult(batches[batchId]) /\ batches[batchId].result = headline.result
                    ELSE batches[batchId].status = "awaiting_mapping"
  BY DEF PageShowsRecord
<1>1. Shows(batches, batchId, headline)
  BY DEF TidyInv, Tidy, Quiet
<1>2. batches[batchId] \in Table
  BY RowOfSeq DEF TidyInv, Inv, PageOk
<1>. QED
  BY <1>1, <1>2, TableRow DEF Shows

LEMMA TidyReportShowsPage ==
    ASSUME TidyInv
    PROVE  ReportShowsPage
BY DEF TidyInv, Tidy, Underway, ReportShowsPage, Waits

\* Decisions by item id are decisions about cards, as ids are distinct.
LEMMA MarkedByCard ==
    ASSUME NEW h, h # None, Distinct(h.result.figures.rows),
           NEW marked \in SUBSET PendingOn(h), NEW yes \in SUBSET marked,
           NEW q \in PendingOn(h)
    PROVE  /\ q \in DOMAIN h.result.figures.rows
           /\ Decision(Marks(h, marked, yes).decisions, h.result.figures.rows[q]) <=> q \in yes
<1> DEFINE rows == h.result.figures.rows
           ids(places) == {rows[p].id : p \in places}
           d == [id \in ids(marked) |-> id \in ids(yes)]
<1>1. PendingOn(h) = Pending(rows) /\ PendingOn(h) \subseteq DOMAIN rows
  BY DEF PendingOn, Pending
<1>2. Marks(h, marked, yes).decisions = d
  BY DEF Marks
<1>3. rows[q].id \in ids(yes) <=> q \in yes
  BY <1>1 DEF Distinct
<1>4. q \in yes => rows[q].id \in ids(marked)
  BY <1>1
<1>5. Decision(d, rows[q]) <=> rows[q].id \in ids(marked) /\ rows[q].id \in ids(yes)
  BY DEF Decision
<1>. QED
  BY <1>1, <1>2, <1>3, <1>4, <1>5

LEMMA TidyReclaimed ==
    ASSUME TidyInv
    PROVE  ReclaimedAsDecided
<1> SUFFICES ASSUME mishaps = 0, NEW s \in Slot, Waits(s, "review"), calls[s].phase = "answered"
             PROVE  {<<calls[s].answer.batch, p>> :
                        p \in {q \in Cards : calls[s].answer.result.figures.rows[q].reclaimable}}
                       = calls[s].body.yes
  BY DEF ReclaimedAsDecided
<1> DEFINE answer == calls[s].answer
           body == calls[s].body
           rows == headline.result.figures.rows
<1>1. Underway(batches, batchId, headline, calls[s]) /\ Ahead(calls[s])
  BY DEF TidyInv, Tidy, Waits, Ahead
<1>2. /\ IsReview(headline, body) /\ Distinct(rows)
      /\ answer.batch = headline.batch
      /\ answer.result = Finalised(headline.result, body.decisions)
  BY <1>1 DEF Underway, Waits, Ahead
<1>3. PICK marked \in SUBSET PendingOn(headline) :
        \E yes \in SUBSET marked : body = Marks(headline, marked, yes)
  BY <1>2 DEF IsReview
<1>4. PICK yes \in SUBSET marked : body = Marks(headline, marked, yes)
  BY <1>3
<1>5. headline # None /\ Cards = PendingOn(headline)
  BY <1>2 DEF IsReview, Cards, PendingOn
<1>6. answer.result.figures.rows = Decided(rows, body.decisions)
  BY <1>2, FinalFields
<1>7. ASSUME NEW q \in Cards
      PROVE  answer.result.figures.rows[q].reclaimable <=> q \in yes
  <2>1. q \in DOMAIN rows /\ rows[q].needs_review
    BY <1>5, <1>7 DEF PendingOn, Pending
  <2>2. Decided(rows, body.decisions)[q].reclaimable = Decision(body.decisions, rows[q])
    BY <2>1 DEF Decided
  <2>. QED
    BY <1>2, <1>4, <1>5, <1>6, <2>2, MarkedByCard
<1>8. {q \in Cards : answer.result.figures.rows[q].reclaimable} = yes
  BY <1>5, <1>7
<1>9. body.yes = {<<headline.batch, p>> : p \in yes}
  BY <1>4 DEF Marks
<1>. QED
  BY <1>2, <1>8, <1>9

\* As long as every answer arrives and every click waits for the one before,
\* the page shows the batch its buttons work on as the table has it.
THEOREM PageShowsWhatIsKept == Spec => []PageShowsRecord
<1>1. Init => TidyInv
  BY InitInv, InitTidy, PeriodAssumption DEF TidyInv
<1>2. TidyInv /\ [Next]_vars => TidyInv'
  BY NextInv, NextTidy, PeriodAssumption DEF TidyInv
<1>. QED
  BY <1>1, <1>2, TidyPageShowsRecord, PTL DEF Spec

\* The downloaded report has the figures on the page, under the same condition.
THEOREM ReportIsOfPage == Spec => []ReportShowsPage
<1>1. Init => TidyInv
  BY InitInv, InitTidy, PeriodAssumption DEF TidyInv
<1>2. TidyInv /\ [Next]_vars => TidyInv'
  BY NextInv, NextTidy, PeriodAssumption DEF TidyInv
<1>. QED
  BY <1>1, <1>2, TidyReportShowsPage, PTL DEF Spec

\* A review reclaims the doubtful purchases whose cards say so and no other,
\* under the same condition, because item ids are distinct over all sheets.
THEOREM CardsAreObeyed == Spec => []ReclaimedAsDecided
<1>1. Init => TidyInv
  BY InitInv, InitTidy, PeriodAssumption DEF TidyInv
<1>2. TidyInv /\ [Next]_vars => TidyInv'
  BY NextInv, NextTidy, PeriodAssumption DEF TidyInv
<1>. QED
  BY <1>1, <1>2, TidyReclaimed, PTL DEF Spec
=============================================================================
