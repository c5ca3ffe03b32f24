---------------------------- MODULE PeriodReturn ----------------------------
(***************************************************************************)
(* The preparation of a period's VAT return: the handlers of               *)
(* services/calculator/main.py, the rows of work.compliance_batches they   *)
(* read and write (batch_store.py), and the page                           *)
(* frontend/period-return.html of one user.                                *)
(*                                                                         *)
(* /confirm-mapping and /review read the batch in one transaction, compute *)
(* and write the whole row back in another, so calls on one batch overlap. *)
(* A button is disabled while its own call is out, and only then.  The     *)
(* page may be told that a call failed although the server got it: such a  *)
(* call goes on by itself, and the user may press the button again.        *)
(*                                                                         *)
(* History: an answer carries the batch it is about, a review the          *)
(* purchases whose cards were marked reclaimable (`yes`), and `mishaps`    *)
(* counts the answers that did not arrive and the clicks that did not wait *)
(* for one, since the page was last started over.                          *)
(***************************************************************************)
EXTENDS PeriodFigures

CONSTANTS
    Uploads,       \* what /upload makes of the files: sequences of sheets
    Roles,         \* roles the user gives
    DefaultRates,  \* answers to "what rate should we assume": rates, or None
    Slot,          \* bound: calls under way at a time
    MaxBatches,    \* bound: batches stored
    MaxMishaps     \* bound: lost answers and impatient clicks at a time

ASSUME PeriodAssumption ==
    /\ Uploads \subseteq Seq(Sheet)
    /\ Roles \subseteq Role
    /\ DefaultRates \subseteq Rate \cup {None} /\ None \in DefaultRates
    /\ None \notin Rate /\ None \notin {"yes", "no"}
    /\ MaxBatches \in Nat /\ MaxMishaps \in Nat

VARIABLES
    batches,   \* the rows of the table, in the order they were stored
    calls,     \* the calls under way
    waiting,   \* those the page waits for
    batchId,   \* the page: 0 is null
    modal,     \* is the mapping dialog open?
    headline,  \* the answer rendered last; None after "Start over"
    results,   \* is the results step visible?
    mishaps

page == <<batchId, modal, headline, results>>
vars == <<batches, calls, waiting, page, mishaps>>

\* A button is disabled while the page waits for its call.
Waits(s, button) == s \in waiting /\ calls[s].button = button
Busy(button) == \E s \in Slot : Waits(s, button)
Quiet == waiting = {}

\* The dialog asks for the rate of a sheet without a usable rate column.
HasCategory(sheet) ==
    \E r \in DOMAIN sheet.rows : sheet.rows[r].total = "no" /\ sheet.rows[r].rate # None
Mappings(sheets) ==
    LET asked == {s \in DOMAIN sheets : ~HasCategory(sheets[s])}
    IN  {[role |-> role, rate |-> [s \in {t \in asked : f[t] # None} |-> f[s]]] :
            role \in [DOMAIN sheets -> Roles], f \in [asked -> DefaultRates]}

-----------------------------------------------------------------------------
(* The handlers *)

NewBatch(sheets) == [sheets |-> sheets, status |-> "awaiting_mapping"]
HasResult(batch) == "result" \in DOMAIN batch

\* (mistaken) every mapping finishes the return
AlwaysReady(batch, mapping, result) ==
    [sheets |-> batch.sheets, mapping |-> mapping, result |-> result, status |-> "ready"]

\* /confirm-mapping writes back what it read, with the mapping and its result.
Confirmed(batch, mapping, result) ==
    [sheets |-> batch.sheets, mapping |-> mapping, result |-> result,
     status |-> result.figures.status]

\* (mistaken) the result is answered and not kept
OnlyStatus(batch, now, result) == [batch EXCEPT !.status = "ready"]
\* (mistaken) the result is put into the row as it is by now
IntoCurrent(batch, now, result) ==
    [sheets |-> now.sheets, mapping |-> now.mapping, result |-> result, status |-> "ready"]

\* /review writes back the batch it read, whatever the row is by now.
Reviewed(batch, now, result) ==
    [sheets |-> batch.sheets, mapping |-> batch.mapping, result |-> result, status |-> "ready"]

\* Is a call refused (404, 422) that finds the table like this?
Refused(call) ==
    \/ call.batch \notin DOMAIN batches
    \/ call.button = "review" /\ ~HasResult(batches[call.batch])
    \/ call.button = "report" /\ batches[call.batch].status # "ready"

Moved(call, phase, seen, answer) ==
    [button |-> call.button, batch |-> call.batch, body |-> call.body,
     phase |-> phase, seen |-> seen, answer |-> answer]

\* The call ends, with an answer or refused, if the page still waits for it.
Ends(s, phase, answer) ==
    calls' = [calls EXCEPT ![s] =
                IF s \in waiting THEN Moved(@, phase, None, answer) ELSE None]
Refuse(s) == Ends(s, "refused", None)
Answer(s, answer) == Ends(s, "answered", answer)

\* /upload, which can also refuse the files
Store(s) ==
    /\ calls[s] # None /\ calls[s].phase = "sent" /\ calls[s].button = "upload"
    /\ \/ /\ batches' = Append(batches, NewBatch(calls[s].body))
          /\ Answer(s, [batch |-> Len(batches) + 1])
       \/ /\ batches' = batches
          /\ Refuse(s)
    /\ UNCHANGED <<waiting, page, mishaps>>

\* The other handlers begin with get_batch; /report has what it needs then.
\* The call may fail, or the batch have expired, so that it is not found.
Read(s) ==
    LET call == calls[s]
    IN  /\ call # None /\ call.phase = "sent" /\ call.button # "upload"
        /\ \/ Refuse(s)
           \/ /\ ~Refused(call) /\ call.button = "report"
              /\ Answer(s, [batch |-> call.batch, result |-> batches[call.batch].result])
           \/ /\ ~Refused(call) /\ call.button # "report"
              /\ calls' = [calls EXCEPT ![s] = Moved(call, "read", batches[call.batch], None)]
        /\ UNCHANGED <<batches, waiting, page, mishaps>>

\* They end with update_batch, which does not look at expires_at, nor at what
\* the row holds by now.  It may fail.
Write(s) ==
    LET call   == calls[s]
        seen   == call.seen
        result == IF call.button = "confirm" THEN Process(seen.sheets, call.body)
                  ELSE Finalised(seen.result, call.body.decisions)
        new    == IF call.button = "confirm" THEN Confirmed(seen, call.body, result)
                  ELSE Reviewed(seen, batches[call.batch], result)
    IN  /\ call # None /\ call.phase = "read"
        /\ \/ /\ batches' = [batches EXCEPT ![call.batch] = new]
              /\ Answer(s, [batch |-> call.batch, result |-> result])
           \/ batches' = batches /\ Refuse(s)
        /\ UNCHANGED <<waiting, page, mishaps>>

-----------------------------------------------------------------------------
(* The page *)

\* A user need not wait for an answer before the next click.
Mishap == mishaps < MaxMishaps /\ mishaps' = mishaps + 1
Click == IF Quiet THEN mishaps' = mishaps ELSE Mishap

Press(s, button, body) ==
    /\ calls[s] = None /\ ~Busy(button)
    /\ calls' = [calls EXCEPT ![s] =
          [button |-> button, batch |-> batchId, body |-> body,
           phase |-> "sent", seen |-> None, answer |-> None]]
    /\ waiting' = waiting \cup {s}
    /\ Click

Upload(s, sheets) ==
    /\ ~modal
    /\ Cardinality({t \in Slot : calls[t] # None /\ calls[t].button = "upload"})
          + Len(batches) < MaxBatches
    /\ Press(s, "upload", sheets)
    /\ UNCHANGED <<batches, page>>

Confirm(s) ==
    /\ modal
    /\ \E mapping \in Mappings(batches[batchId].sheets) : Press(s, "confirm", mapping)
    /\ UNCHANGED <<batches, page>>

\* The dialog can be left without confirming, and comes back with the next
\* upload only.
CloseModal ==
    /\ modal
    /\ modal' = FALSE
    /\ Click
    /\ UNCHANGED <<batches, calls, waiting, batchId, headline, results>>

\* "Start over", disabled while files are uploaded.  If nothing is under way
\* any more, mishaps are forgotten.
Reset ==
    /\ ~modal /\ ~Busy("upload")
    /\ batchId' = 0
    /\ headline' = None
    /\ results' = FALSE
    /\ IF Quiet /\ \A s \in Slot : calls[s] = None THEN mishaps' = 0 ELSE Click
    /\ UNCHANGED <<batches, calls, waiting, modal>>

\* The review panel shows a card for each pending purchase.
Cards == IF headline = None THEN {} ELSE Pending(headline.result.figures.rows)

\* Each card is marked reclaimable, not reclaimable, or left alone.
Submit(s, marked, yes) ==
    LET rows == headline.result.figures.rows
        ids(places) == {rows[p].id : p \in places}
    IN  /\ results /\ ~modal /\ Cards # {}
        /\ yes \subseteq marked /\ marked \subseteq Cards
        /\ Press(s, "review", [decisions |-> [id \in ids(marked) |-> id \in ids(yes)],
                               yes |-> {<<headline.batch, p>> : p \in yes}])
        /\ UNCHANGED <<batches, page>>

\* The report step is there when the answer rendered last was final.
Download(s) ==
    /\ ~modal /\ headline # None
    /\ headline.result.figures.status = "ready"
    /\ Press(s, "report", None)
    /\ UNCHANGED <<batches, page>>

\* (mistaken) the answer to a review only closes the panel
KeepsFigures(call) == IF call.button = "review" /\ headline # None THEN headline ELSE call.answer

\* renderHeadline: whatever the page has turned to meanwhile.
Shown(call) == call.answer

\* The page gets the answer.
Arrive(s) ==
    LET call == calls[s]
    IN  /\ call # None /\ call.phase \in {"answered", "refused"}
        /\ calls' = [calls EXCEPT ![s] = None]
        /\ waiting' = waiting \ {s}
        /\ IF call.phase = "refused" \/ call.button = "report" THEN UNCHANGED page
           ELSE IF call.button = "upload"
           THEN /\ batchId' = call.answer.batch
                /\ modal' = TRUE
                /\ UNCHANGED <<headline, results>>
           ELSE /\ headline' = Shown(call)
                /\ IF call.button = "confirm" THEN modal' = FALSE /\ results' = TRUE
                   ELSE UNCHANGED <<modal, results>>
                /\ UNCHANGED batchId
        /\ UNCHANGED <<batches, mishaps>>

\* The page is told that the call failed, but it has been answered, or it is
\* still under way.
Lose(s) ==
    /\ s \in waiting
    /\ waiting' = waiting \ {s}
    /\ calls' = IF calls[s].phase \in {"sent", "read"} THEN calls
                ELSE [calls EXCEPT ![s] = None]
    /\ Mishap
    /\ UNCHANGED <<batches, page>>

Init ==
    /\ batches = <<>>
    /\ calls = [s \in Slot |-> None]
    /\ waiting = {}
    /\ batchId = 0
    /\ modal = FALSE
    /\ headline = None
    /\ results = FALSE
    /\ mishaps = 0

Next ==
    \/ \E s \in Slot, sheets \in Uploads : Upload(s, sheets)
    \/ \E s \in Slot : Confirm(s)
    \/ CloseModal
    \/ Reset
    \/ \E s \in Slot, marked \in SUBSET Cards : \E yes \in SUBSET marked : Submit(s, marked, yes)
    \/ \E s \in Slot : Download(s)
    \/ \E s \in Slot : Store(s)
    \/ \E s \in Slot : Read(s)
    \/ \E s \in Slot : Write(s)
    \/ \E s \in Slot : Arrive(s)
    \/ \E s \in Slot : Lose(s)

Spec == Init /\ [][Next]_vars
-----------------------------------------------------------------------------
(* Properties *)

Batch == {batches[b] : b \in DOMAIN batches}

\* The shapes of the page and of the calls.
TypeOK ==
    /\ \A batch \in Batch :
          /\ batch.sheets \in Uploads
          /\ IF HasResult(batch)
             THEN batch.mapping \in Mappings(batch.sheets)
                  /\ batch.status = batch.result.figures.status
             ELSE batch.status = "awaiting_mapping"
    /\ \A s \in Slot : calls[s] # None =>
          /\ calls[s].button \in {"upload", "confirm", "review", "report"}
          /\ calls[s].phase \in {"sent", "read", "answered", "refused"}
    /\ waiting \subseteq Slot
    /\ batchId \in {0} \cup DOMAIN batches
    /\ modal \in BOOLEAN /\ results \in BOOLEAN /\ mishaps \in 0 .. MaxMishaps
    /\ headline # None => headline.batch \in DOMAIN batches

\* However calls overlap, a row of the table is one computation: its result
\* comes from its own sheets under its own mapping, as it was drafted or with
\* decisions about the doubtful purchases.
ResultOfMapping ==
    \A batch \in Batch : HasResult(batch) =>
        LET draft == Process(batch.sheets, batch.mapping)
            rows  == draft.figures.rows
        IN  \/ batch.result = draft
            \/ \E yes \in SUBSET Pending(rows) :
                  batch.result = Finalised(draft, [id \in {rows[p].id : p \in yes} |-> TRUE])

\* A draft is what the return comes to if nothing more is decided: its figures
\* leave out what is pending, and so does a review without decisions.
DraftStandsUndecided ==
    \A batch \in Batch : HasResult(batch) =>
        LET draft == batch.result.figures
            final == Finalised(batch.result, <<>>).figures
        IN  /\ final.reclaimable_input_vat = draft.reclaimable_input_vat
            /\ final.net_position = draft.net_position

\* Whenever another default rate would change what is found in a sheet, the
\* user has given the rate or the result says that one was assumed.
AssumedRateTold ==
    \A batch \in Batch : HasResult(batch) =>
        \A s \in DOMAIN batch.sheets, rate \in Rate :
            LET given == [role |-> batch.mapping.role,
                          rate |-> [t \in DOMAIN batch.mapping.rate \cup {s} |->
                                       IF t = s THEN rate ELSE batch.mapping.rate[t]]]
            IN  Issues(batch.sheets, given) # batch.result.issues =>
                   \/ s \in DOMAIN batch.mapping.rate
                   \/ [kind |-> "assumed", at |-> <<s, 0>>] \in batch.result.issues

\* Without mishaps, the page shows the batch its buttons work on as it is on
\* record, or that batch has no figures yet and its buttons are refused.
PageShowsRecord ==
    mishaps = 0 /\ Quiet /\ headline # None /\ batchId # 0 =>
        LET batch == batches[batchId]
        IN  IF headline.batch = batchId
            THEN HasResult(batch) /\ batch.result = headline.result
            ELSE batch.status = "awaiting_mapping"

\* Without mishaps, the report has the figures on the page.
ReportShowsPage ==
    mishaps = 0 =>
        \A s \in Slot :
            Waits(s, "report") /\ calls[s].phase = "answered" => calls[s].answer = headline

\* Without mishaps, a review reclaims the doubtful purchases whose cards say
\* so and no other.
ReclaimedAsDecided ==
    mishaps = 0 =>
        \A s \in Slot : Waits(s, "review") /\ calls[s].phase = "answered" =>
            LET answer == calls[s].answer
            IN  {<<answer.batch, p>> : p \in {q \in Cards : answer.result.figures.rows[q].reclaimable}}
                   = calls[s].body.yes

\* Whatever happens, a review reclaims a doubtful purchase only if its own
\* card said so.
UndecidedNotReclaimed ==
    \A s \in Slot : calls[s] # None /\ calls[s].phase = "read" /\ calls[s].button = "review" =>
        LET rows == calls[s].seen.result.figures.rows
            final == Decided(rows, calls[s].body.decisions)
        IN  \A p \in Pending(rows) : final[p].reclaimable => <<calls[s].batch, p>> \in calls[s].body.yes
=============================================================================
