---------------------------- MODULE InvoiceCheck ----------------------------
(***************************************************************************)
(* The invoice check: the page (frontend/invoice-check.html), the endpoint *)
(* that checks a batch file by file (services/calculator/main.py), the     *)
(* batches it stores for a day (batch_store.py), and the report made of    *)
(* them later (compliance_reports.py).                                     *)
(*                                                                         *)
(* A check is a job of the service.  The page awaits at most one, but a    *)
(* job whose answer is lost goes on.  The page remembers the batch of the  *)
(* last answer in batchId; what it shows comes from a second call, and     *)
(* what it downloads from a third, made with batchId when it is pressed.   *)
(***************************************************************************)
EXTENDS InvoiceRules

CONSTANTS
    File,                \* the files there are, by name
    Submission,          \* what a user may submit: names of files and a tolerance
    MISMATCH_TOLERANCE,  \* halalas, when the user gives none
    MaxChecks,           \* bound: checks begun
    MaxFaults            \* bound: failed services and lost answers

VARIABLES
    page,      \* batchId, the results shown, the error, what is in flight
    download,  \* the last report asked for
    jobs,      \* the checks, as the service runs them
    batches,   \* work.compliance_batches, oldest first
    faults

vars == <<page, download, jobs, batches, faults>>

\* config.py has two halalas.
ASSUME CheckAssumption ==
    /\ MISMATCH_TOLERANCE \in Nat /\ MISMATCH_TOLERANCE >= 2
    /\ MaxChecks \in Nat /\ MaxFaults \in Nat
    /\ \A s \in Submission : s.files \in Seq(DOMAIN File) /\ s.tolerance \in Int \cup {None}

ASSUME FileAssumption ==
    \A name \in DOMAIN File :
        IF File[name].ext = "xml" THEN InOrder(File[name].doc.lines)
        ELSE /\ InOrder(File[name].attached)
             /\ \A i \in DOMAIN File[name].attached : InOrder(File[name].attached[i].lines)

-----------------------------------------------------------------------------
(* Reports *)

\* All the reasons of a flagged invoice, as the service and as the page
\* puts them together.
FirstReason(r) ==        \* (mistaken) the reasons after the first are lost
    IF Errors(r.issues) # {} THEN {CHOOSE rule \in Errors(r.issues) : TRUE} ELSE {"mismatch"}
FlaggedReasons(r) ==
    Errors(r.issues) \cup (IF \E m \in r.mismatches : ~m.within THEN {"mismatch"} ELSE {})
PageReasons(r) ==
    {rule \in r.issues : rule \notin Warnings}
        \cup {"mismatch" : m \in {n \in r.mismatches : ~n.within}}

\* A clean invoice has a remark when a difference was excused.
SummaryReason(r) ==
    IF r.status = "flagged" THEN FlaggedReasons(r)
    ELSE {<<"rounding", m.field>> : m \in {n \in r.mismatches : n.within}}

\* The summary has a row for each invoice; a flagged one has a file as well.
Summary(results) ==
    [i \in DOMAIN results |->
        [name |-> results[i].name, status |-> results[i].status, reason |-> SummaryReason(results[i])]]
Detail(r) == [name |-> r.name, issues |-> r.issues, mismatches |-> r.mismatches]
Report(results) ==
    [summary |-> Summary(results),
     details |-> {Detail(results[i]) : i \in {j \in DOMAIN results : results[j].status = "flagged"}}]

\* filter(): the places, in order, at which a test holds.
PlacesUpTo(test) ==
    LET places[n \in 0 .. Len(test)] ==
            IF n = 0 THEN << >> ELSE IF test[n] THEN Append(places[n - 1], n) ELSE places[n - 1]
    IN  places
Places(test) == PlacesUpTo(test)[Len(test)]
With(status, rows) == Places([i \in DOMAIN rows |-> rows[i].status = status])

\* The two tables of the page.
RenderResults(results) ==
    LET flagged == With("flagged", results)
        clean   == With("clean", results)
    IN  [flagged |-> [k \in DOMAIN flagged |-> <<results[flagged[k]].name, PageReasons(results[flagged[k]])>>],
         clean   |-> [k \in DOMAIN clean |-> results[clean[k]].name]]

-----------------------------------------------------------------------------
(* The service *)

Init ==
    /\ page = [batchId |-> 0, shown |-> 0, rows |-> None, error |-> FALSE, awaits |-> 0, asks |-> 0]
    /\ download = None
    /\ jobs = << >> /\ batches = << >> /\ faults = 0

Fault == faults < MaxFaults /\ faults' = faults + 1

SetJob(j, job) == jobs' = [jobs EXCEPT ![j] = job]

Tolerance(job) == IF job.tolerance = None THEN MISMATCH_TOLERANCE ELSE job.tolerance

\* Before anything is read: 422 for a negative tolerance.
RefuseTolerance(j) ==
    /\ jobs[j].phase = "running" /\ Tolerance(jobs[j]) < 0
    /\ SetJob(j, [jobs[j] EXCEPT !.phase = "failed"])
    /\ UNCHANGED faults

AfterSkipping(job, result) ==      \* (mistaken) an invoice that fails is left out
    IF result = None THEN [job EXCEPT !.files = RemoveAt(@, Len(job.results) + 1)]
                      ELSE [job EXCEPT !.results = Append(@, result)]
After(job, result) ==
    IF result = None THEN [job EXCEPT !.phase = "failed"]
                      ELSE [job EXCEPT !.results = Append(@, result)]

Extracted == [name \in DOMAIN File |-> RouteAndExtract(File[name])]

\* What the call for a file returns; None for an error, a time-out, no service.
PostFile(name) == {Extracted[name], None}

\* The next file, as it is extracted and as the model judges its lines.
CheckFile(j) ==
    LET job == jobs[j]
        i   == Len(job.results) + 1
    IN  /\ job.phase = "running" /\ Tolerance(job) >= 0 /\ i <= Len(job.files)
        /\ LET name == job.files[i]
           IN  \E x \in PostFile(name) :
                  /\ IF x = Extracted[name] THEN UNCHANGED faults ELSE Fault
                  /\ \E suggestions \in Suggestions(Asked(x)) :
                        SetJob(j, After(job, CheckOneInvoice(name, x, suggestions, Tolerance(job))))

\* The file cannot be written: its name is too long, the disk is full.
WriteFails(j) ==
    LET job == jobs[j]
    IN  /\ job.phase = "running" /\ Tolerance(job) >= 0 /\ Len(job.results) < Len(job.files)
        /\ SetJob(j, After(job, None)) /\ Fault

Clean(results) == Cardinality({i \in DOMAIN results : results[i].status = "clean"})

StoreBatch(j) ==
    LET job == jobs[j]
    IN  /\ job.phase = "running" /\ Len(job.results) = Len(job.files)
        /\ \/ /\ batches' = Append(batches, [results |-> job.results, total |-> Len(job.results),
                                             clean |-> Clean(job.results),
                                             flagged |-> Len(job.results) - Clean(job.results),
                                             of |-> job.submitted, live |-> TRUE])
              /\ SetJob(j, [job EXCEPT !.phase = "stored", !.batch = Len(batches) + 1])
              /\ UNCHANGED faults
           \/ Fault /\ SetJob(j, [job EXCEPT !.phase = "failed"]) /\ UNCHANGED batches

\* A day after it was stored get_batch no longer finds it.
Expire ==
    /\ \E b \in DOMAIN batches :
          /\ batches[b].live /\ \A a \in 1 .. b - 1 : ~batches[a].live
          /\ batches' = [batches EXCEPT ![b].live = FALSE]
    /\ UNCHANGED <<page, download, jobs, faults>>

Found(b) == b \in DOMAIN batches /\ batches[b].live

Serve ==
    /\ \E j \in DOMAIN jobs :
          \/ RefuseTolerance(j) /\ UNCHANGED batches
          \/ CheckFile(j) /\ UNCHANGED batches
          \/ WriteFails(j) /\ UNCHANGED batches
          \/ StoreBatch(j)
    /\ UNCHANGED <<page, download>>

-----------------------------------------------------------------------------
(* The page *)

\* While a check is awaited, Check and Start over are disabled.
Free == page.awaits = 0 /\ page.asks = 0

Check ==
    /\ Free
    /\ \/ /\ Len(jobs) < MaxChecks
          /\ \E s \in Submission :
                jobs' = Append(jobs, [submitted |-> s.files, files |-> s.files, tolerance |-> s.tolerance,
                                      results |-> << >>, phase |-> "running", batch |-> 0])
          /\ page' = [page EXCEPT !.error = FALSE, !.awaits = Len(jobs) + 1]
       \/ page' = [page EXCEPT !.error = TRUE] /\ UNCHANGED jobs    \* no file is chosen
    /\ UNCHANGED <<download, batches, faults>>

\* The answer to the check: batchId is set and the summary asked for.
TakeAnswer ==
    /\ page.awaits # 0
    /\ \/ /\ jobs[page.awaits].phase = "stored"
          /\ page' = [page EXCEPT !.awaits = 0, !.batchId = jobs[page.awaits].batch,
                                  !.asks = jobs[page.awaits].batch]
          /\ UNCHANGED faults
       \/ /\ jobs[page.awaits].phase = "failed"
          /\ page' = [page EXCEPT !.awaits = 0, !.error = TRUE]
          /\ UNCHANGED faults
       \/ Fault /\ page' = [page EXCEPT !.awaits = 0, !.error = TRUE]    \* it is lost
    /\ UNCHANGED <<download, jobs, batches>>

\* The summary: what was shown before stays when it fails.
TakeSummary ==
    /\ page.asks # 0
    /\ \/ /\ Found(page.asks)
          /\ page' = [page EXCEPT !.asks = 0, !.shown = page.asks,
                                  !.rows = RenderResults(batches[page.asks].results)]
          /\ UNCHANGED faults
       \/ ~Found(page.asks) /\ page' = [page EXCEPT !.asks = 0, !.error = TRUE] /\ UNCHANGED faults
       \/ Fault /\ page' = [page EXCEPT !.asks = 0, !.error = TRUE]
    /\ UNCHANGED <<download, jobs, batches>>

ResetHalf ==       \* (mistaken) the tables are left filled
    /\ Free
    /\ page' = [page EXCEPT !.batchId = 0, !.shown = 0, !.error = FALSE]
    /\ UNCHANGED <<download, jobs, batches, faults>>

Reset ==
    /\ Free
    /\ page' = [page EXCEPT !.batchId = 0, !.shown = 0, !.rows = None, !.error = FALSE]
    /\ UNCHANGED <<download, jobs, batches, faults>>

\* Pressed on results as they are shown; the button is not disabled by a
\* check.  What is on the screen is kept with it.
Download ==
    /\ page.shown # 0
    /\ download # None => download.report # None
    /\ download' = [batch |-> page.batchId, shown |-> page.shown, rows |-> page.rows,
                    calm |-> Free /\ ~page.error, report |-> None]
    /\ UNCHANGED <<page, jobs, batches, faults>>

TakeReport ==
    /\ download # None /\ download.report = None
    /\ \/ /\ Found(download.batch)
          /\ download' = [download EXCEPT !.report = Report(batches[download.batch].results)]
          /\ UNCHANGED faults
       \/ ~Found(download.batch) /\ download' = None /\ UNCHANGED faults
       \/ Fault /\ download' = None
    /\ UNCHANGED <<page, jobs, batches>>

Next ==
    \/ Check \/ TakeAnswer \/ TakeSummary \/ Reset \/ Download \/ TakeReport
    \/ Serve \/ Expire

Spec == Init /\ [][Next]_vars

-----------------------------------------------------------------------------
(* Properties *)

TypeOK ==
    /\ page.batchId \in 0 .. Len(batches) /\ page.shown \in 0 .. Len(batches)
    /\ page.rows = IF page.shown = 0 THEN None ELSE RenderResults(batches[page.shown].results)
    /\ page.awaits \in 0 .. Len(jobs) /\ page.asks \in 0 .. Len(batches)
    /\ page.error \in BOOLEAN /\ faults \in 0 .. MaxFaults
    /\ \A j \in DOMAIN jobs :
          /\ jobs[j].phase \in {"running", "stored", "failed"}
          /\ Len(jobs[j].results) <= Len(jobs[j].files)
          /\ jobs[j].phase = "stored" => batches[jobs[j].batch].results = jobs[j].results
    /\ \A b \in DOMAIN batches : batches[b].total = batches[b].clean + batches[b].flagged

\* The invoice a file is, told without the code that finds and reads it.
Invoice(file) ==
    IF file.ext = "xml" THEN file.doc
    ELSE file.attached[CHOOSE i \in DOMAIN file.attached :
                          file.attached[i].invoice /\ \A k \in 1 .. i - 1 : ~file.attached[k].invoice]

\* Printed VAT and total are near VAT as the law has it, 15% of what
\* `standard` names, to the tolerance and half a halala for each line.
Near(doc, standard, tolerance) ==
    LET base == Total([i \in DOMAIN doc.lines |-> doc.lines[i].base])
        owed == 15 * Total([i \in DOMAIN doc.lines |-> IF i \in standard THEN doc.lines[i].base ELSE 0])
        room == 100 * tolerance + 50 * Len(doc.lines)
    IN  /\ doc.vat \in Int => 100 * doc.vat - owed \in -room .. room
        /\ doc.total \in Int => 100 * (doc.total - base) - owed \in -room .. room

Sound(doc, tolerance) ==
    LET lines == DOMAIN doc.lines
    IN  /\ lines # {} /\ \A i \in lines : doc.lines[i].base \in Int
        /\ doc.seller \in WellFormed /\ doc.buyer \in WellFormed \cup {None}
        /\ doc.buyer # doc.seller
        /\ doc.date # None /\ (doc.date \in Nat => doc.date <= Today)
        /\ \E standard \in SUBSET lines :
              /\ \A i \in lines : /\ doc.lines[i].code = "S" => i \in standard
                                  /\ doc.lines[i].code \in {"Z", "E"} => i \notin standard
              /\ Near(doc, standard, tolerance)

\* An invoice found clean has been read and is right: its lines have
\* amounts, the seller's number is sound, it is dated, and the figures on it
\* are near the true ones for categories its codes allow.
CleanIsChecked ==
    \A j \in DOMAIN jobs : \A r \in DOMAIN jobs[j].results :
        jobs[j].results[r].status = "clean"
            => Sound(Invoice(File[jobs[j].files[r]]), Tolerance(jobs[j]))

\* Five standard lines at most, and VAT rounded once, on their sum.
RoundedOnce(file) ==
    /\ file.ext = "xml" /\ file.doc.parses /\ Len(file.doc.lines) <= 5
    /\ \A i \in DOMAIN file.doc.lines : file.doc.lines[i].code = "S" /\ file.doc.lines[i].base \in Int
    /\ LET base == Total([i \in DOMAIN file.doc.lines |-> file.doc.lines[i].base])
       IN  file.doc.vat = RoundCurrency(15 * base) /\ file.doc.total = base + file.doc.vat

\* Software that rounds VAT once, on the sum, is not accused of a mistake as
\* long as an invoice has no more than five lines.
NoiseExcused ==
    \A j \in DOMAIN jobs : \A r \in DOMAIN jobs[j].results :
        jobs[j].tolerance = None /\ RoundedOnce(File[jobs[j].files[r]])
            => \A m \in jobs[j].results[r].mismatches : m.within

\* What is stored is the result of every file submitted, in their order,
\* whatever failed.
WholeBatch ==
    \A b \in DOMAIN batches :
        [i \in DOMAIN batches[b].results |-> batches[b].results[i].name]
            = batches[b].of

\* A report asked for when results are shown, nothing is in flight and no
\* error is told is of those results: the same verdicts and all their reasons,
\* and a file for each flagged invoice.
DownloadMatchesScreen ==
    download # None /\ download.calm =>
        /\ download.batch = download.shown
        /\ download.report # None =>
              LET rows == download.report.summary
                  flagged == With("flagged", rows)
                  clean   == With("clean", rows)
              IN  /\ download.rows.flagged =
                        [k \in DOMAIN flagged |-> <<rows[flagged[k]].name, rows[flagged[k]].reason>>]
                  /\ download.rows.clean = [k \in DOMAIN clean |-> rows[clean[k]].name]
                  /\ {d.name : d \in download.report.details}
                        = {rows[flagged[k]].name : k \in DOMAIN flagged}
=============================================================================
