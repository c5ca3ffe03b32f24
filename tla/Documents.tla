----------------------------- MODULE Documents -----------------------------
(***************************************************************************)
(* Requests to the PDF editor (services/editor) and to the converter       *)
(* (services/converter, features/converter): each works in temporary       *)
(* directories of its own, answers with a file or a refusal, and removes   *)
(* the directories on whatever way it takes, the last of them in the       *)
(* background once the file has been sent.                                 *)
(*                                                                         *)
(* Conversions run LibreOffice, which may hang, and which fails without a  *)
(* word when another instance uses the same profile.                       *)
(***************************************************************************)
EXTENDS PdfEdit

CONSTANTS
    Request,     \* requests in progress
    Asked,       \* what may be asked for
    MaxFaults    \* bound: failing disks and missing programs

Operation == {"annotate", "textboxes", "fill", "signature", "reorder", "watermark", "rotate",
              "password", "split", "redact", "preview", "compress", "merge", "convert"}

\* One file, but for two with a signature and any number to merge.  What can be
\* opened as a picture is no PDF.
ASSUME DocumentsAssumption ==
    /\ MaxFaults \in Nat
    /\ \A ask \in Asked :
          /\ ask.op \in Operation /\ (ask.op = "convert" => ask.json)
          /\ ask.files \in Seq(ToSet(ask.files))
          /\ ask.op # "merge" => Len(ask.files) = IF ask.op = "signature" THEN 2 ELSE 1
          /\ \A file \in ToSet(ask.files) : Untouched(file.doc) /\ (file.picture => ~file.opens)
          /\ ask.op = "rotate" => /\ ask.args.angle \in Int
                                  /\ (ask.args.pages = All \/ ask.args.pages \in Seq(Int))

VARIABLES
    reqs,    \* each request: what it asks, how far it is, what it answers
    tmp,     \* the temporary directories there are, by request and use
    faults

vars == <<reqs, tmp, faults>>

Init == reqs = [r \in Request |-> None] /\ tmp = {} /\ faults = 0

-----------------------------------------------------------------------------
(* Directories and answers *)

At(r, phase) == reqs[r] # None /\ reqs[r].phase = phase
Op(r) == reqs[r].ask.op

Goes(r, phase) == reqs' = [reqs EXCEPT ![r].phase = phase]
Makes(r, uses) == tmp' = tmp \cup ({r} \X uses)
Removes(r, uses) == tmp' = tmp \ ({r} \X uses)

\* The request is over; `fault` says whether a fault has met it.
Ends(r, code, fault) == reqs' = [reqs EXCEPT ![r].phase = "over", ![r].code = code, ![r].fault = fault]

Faulty == faults < MaxFaults /\ faults' = faults + 1

\* A PDFEditError or ConversionError.
Refused(r, fault) == Ends(r, 422, fault) /\ Removes(r, {"upload", "output", "profile"})

-----------------------------------------------------------------------------
(* Both services *)

\* Refused before anything is written: parameters that are no JSON, a
\* darkness that is not positive, fewer than two files to merge.
WellAsked(ask) == ask.json /\ (ask.op = "merge" => Len(ask.files) >= 2)

Begin(r) ==
    /\ reqs[r] = None
    /\ \E ask \in Asked :
          LET good == WellAsked(ask)
          IN  /\ reqs' = [reqs EXCEPT ![r] = [ask |-> ask, phase |-> IF good THEN "upload" ELSE "over",
                                              code |-> IF good THEN 0 ELSE 422, fault |-> FALSE,
                                              disk |-> None, out |-> None, office |-> None]]
              /\ IF good THEN Makes(r, {"upload"}) ELSE UNCHANGED tmp
    /\ UNCHANGED faults

\* Files merged are told apart by their places, as two may have one name.
UploadName(ask, i) == IF ask.op = "merge" THEN <<i, ask.files[i].name>> ELSE ask.files[i].name

\* A file written under a name that is taken replaces what was there.
Written(ask) ==
    [path \in {UploadName(ask, i) : i \in DOMAIN ask.files} |->
        ask.files[CHOOSE i \in DOMAIN ask.files :
                     /\ UploadName(ask, i) = path
                     /\ \A k \in DOMAIN ask.files : UploadName(ask, k) = path => k <= i]]

SaveUpload(r) ==
    /\ At(r, "upload")
    /\ \/ /\ reqs' = [reqs EXCEPT ![r].disk = Written(reqs[r].ask),
                                  ![r].phase = IF Op(r) = "convert" THEN "convert" ELSE "edit"]
          /\ UNCHANGED <<tmp, faults>>
       \/ /\ Faulty /\ Ends(r, 500, TRUE)    \* only the preview tidies up
          /\ IF Op(r) = "preview" THEN Removes(r, {"upload"}) ELSE UNCHANGED tmp

\* The file is sent; what removes the directories is queued with it.
Send(r) ==
    /\ At(r, "send") /\ <<r, "output">> \in tmp
    /\ reqs' = [reqs EXCEPT ![r].phase = "clean", ![r].code = 200]
    /\ UNCHANGED <<tmp, faults>>

CleanUp(r) ==
    /\ At(r, "clean")
    /\ Goes(r, "over") /\ Removes(r, {"upload", "output"}) /\ UNCHANGED faults

-----------------------------------------------------------------------------
(* The editor *)

Uploaded(r, i) == reqs[r].disk[UploadName(reqs[r].ask, i)]

OpenPdf(r) == /\ Uploaded(r, 1).ext = "pdf" /\ Uploaded(r, 1).opens

Merged(r) ==
    LET files == [i \in DOMAIN reqs[r].ask.files |-> Uploaded(r, i)]
    IN  IF \E i \in DOMAIN files : files[i].ext # "pdf" \/ ~files[i].opens THEN None
        ELSE MergePdfs([i \in DOMAIN files |-> files[i].doc])

\* What the operation makes of the documents.
Edited(r) ==
    LET doc  == Uploaded(r, 1).doc
        args == reqs[r].ask.args
    IN  IF Op(r) = "merge" THEN Merged(r)
        ELSE IF ~OpenPdf(r) THEN None
        ELSE CASE Op(r) = "annotate"  -> AddAnnotations(doc, args)
               [] Op(r) = "textboxes" -> AddTextBoxes(doc, args)
               [] Op(r) = "fill"      -> FillForm(doc, args)
               [] Op(r) = "signature" -> AddSignature(doc, args, Uploaded(r, 2))
               [] Op(r) = "reorder"   -> ReorderPages(doc, args)
               [] Op(r) = "watermark" -> AddWatermark(doc, args)
               [] Op(r) = "rotate"    -> RotatePages(doc, args)
               [] Op(r) = "password"  -> AddPassword(doc, args)
               [] Op(r) = "split"     -> SplitPdf(doc, args)
               [] Op(r) = "redact"    -> Redact(doc, args)
               [] Op(r) = "preview"   -> RenderPagePreview(doc, args)
               [] Op(r) = "compress"  -> CompressPdf(doc)

\* The transparent image has a directory nobody removes.
Leaves(r) ==
    IF Op(r) = "signature" /\ OpenPdf(r) /\ SignatureMade(Uploaded(r, 1).doc, reqs[r].ask.args, Uploaded(r, 2))
    THEN {<<r, "signature">>} ELSE {}

Edit(r) ==
    /\ At(r, "edit")
    /\ \/ /\ LET out == Edited(r)
             IN  IF out = None
                 THEN /\ Ends(r, 422, FALSE)
                      /\ tmp' = (tmp \ {<<r, "upload">>}) \cup Leaves(r)
                 ELSE /\ reqs' = [reqs EXCEPT ![r].out = out, ![r].phase = "save"]
                      /\ tmp' = tmp \cup Leaves(r)
                                    \cup (IF Op(r) = "preview" THEN {} ELSE {<<r, "output">>})
          /\ UNCHANGED faults
       \/ /\ Op(r) # "preview" /\ Edited(r) # None     \* there is no room for its directory
          /\ Faulty /\ Ends(r, 500, TRUE) /\ tmp' = tmp \cup Leaves(r)

\* A preview is sent from memory.
ReturnPreview(r) ==
    /\ At(r, "save") /\ Op(r) = "preview"
    /\ Ends(r, 200, FALSE) /\ Removes(r, {"upload"}) /\ UNCHANGED faults

Save(r) ==
    /\ At(r, "save") /\ Op(r) # "preview"
    /\ \/ Goes(r, "send") /\ UNCHANGED <<tmp, faults>>
       \/ Faulty /\ Refused(r, TRUE)

-----------------------------------------------------------------------------
(* The converter *)

ProfileOf(r) == <<r, "profile">>

\* Its files: the copy to be fitted and the result share a directory.
ConvertToPdf(r) ==
    /\ At(r, "convert")
    /\ IF Uploaded(r, 1).ext \notin {"docx", "xlsx"} THEN Refused(r, FALSE)
       ELSE /\ Goes(r, IF Uploaded(r, 1).ext = "xlsx" THEN "autofit" ELSE "launch")
            /\ Makes(r, {"output", "profile"})
    /\ UNCHANGED faults

\* Its error is no ConversionError: the upload stays.
AutofitXlsxColumns(r) ==
    /\ At(r, "autofit")
    /\ IF Uploaded(r, 1).opens THEN Goes(r, "launch") /\ UNCHANGED tmp
       ELSE Ends(r, 500, FALSE) /\ Removes(r, {"output", "profile"})
    /\ UNCHANGED faults

Running(r) == At(r, "office")

\* LibreOffice is started, and fails if its profile is locked; or it is not
\* there to be started.
Launch(r) ==
    /\ At(r, "launch")
    /\ \/ /\ LET locked == \E q \in Request \ {r} : Running(q) /\ ProfileOf(q) = ProfileOf(r)
             IN  reqs' = [reqs EXCEPT ![r].phase = "office",
                                      ![r].office = IF locked THEN "silent" ELSE "works"]
          /\ UNCHANGED <<tmp, faults>>
       \/ Faulty /\ Ends(r, 500, TRUE) /\ Removes(r, {"output", "profile"})

\* Success is an output file that is there.
Convert(r) ==
    /\ Running(r) /\ ~Uploaded(r, 1).hangs
    /\ IF reqs[r].office = "works" /\ Uploaded(r, 1).opens
       THEN /\ reqs' = [reqs EXCEPT ![r].phase = "send", ![r].out = Uploaded(r, 1).doc]
            /\ Removes(r, {"profile"})
       ELSE Refused(r, FALSE)
    /\ UNCHANGED faults

StopAfterTimeout(r) ==
    /\ Running(r) /\ Uploaded(r, 1).hangs
    /\ Refused(r, FALSE) /\ UNCHANGED faults

-----------------------------------------------------------------------------
Work(r) ==
    \/ SaveUpload(r) \/ Send(r) \/ CleanUp(r)
    \/ Edit(r) \/ ReturnPreview(r) \/ Save(r)
    \/ ConvertToPdf(r) \/ AutofitXlsxColumns(r) \/ Launch(r) \/ Convert(r) \/ StopAfterTimeout(r)

Next == \E r \in Request : Begin(r) \/ Work(r)

\* A request has a thread of its own, which goes on; LibreOffice need not,
\* but the time-out comes.
Fairness == \A r \in Request : WF_vars(Work(r))

Spec == Init /\ [][Next]_vars /\ Fairness

-----------------------------------------------------------------------------
(* Properties *)

\* What may stay: the signature's image, and an upload when the request was
\* ended by an error that is no refusal.
Leftovers(r) ==
    (IF Op(r) = "signature" THEN {"signature"} ELSE {})
        \cup (IF reqs[r].code = 500 THEN {"upload"} ELSE {})


\* The pages asked for, in order.
PagesAsked(ask) ==
    LET pages == IF ask.op = "merge" THEN FlattenSeq([i \in DOMAIN ask.files |-> ask.files[i].doc.pages])
                 ELSE ask.files[1].doc.pages
    IN  CASE ask.op = "reorder" -> [i \in DOMAIN ask.args |-> pages[ask.args[i] + 1]]
          [] ask.op = "split"   -> SubSeq(pages, ask.args.start + 1, ask.args.end + 1)
          [] ask.op = "preview" -> <<pages[ask.args + 1]>>
          [] OTHER              -> pages

\* The places at which a request lists page n; pages are asked for from 0.
Listed(pages, n) == IF pages = All THEN {0} ELSE {i \in DOMAIN pages : pages[i] = n - 1}

\* What the items of a request for page n say.
Said(items, n) == {item.what : item \in {i \in items : i.page = n - 1}}

\* The marks a request puts over page n, and the text it takes from it.
MarksFor(ask, n) ==
    CASE ask.op = "annotate"  -> Said(ask.args, n)
      [] ask.op = "textboxes" -> Said({item \in ask.args : item.fits}, n)
      [] ask.op = "signature" -> Said({ask.args}, n)
      [] ask.op = "watermark" -> {what \in {ask.args.what} : Listed(ask.args.pages, n) # {}}
      [] OTHER -> {}
StruckFrom(ask, n) == IF ask.op = "redact" THEN Said(ask.args, n) ELSE {}

\* Turned by the angle for each place at which page n is listed, and stated as a
\* PDF states it.
Turned(args, n, new, old) ==
    /\ new \in {0, 90, 180, 270}
    /\ (new - (old + args.angle * Cardinality(Listed(args.pages, n)))) % 360 = 0

\* Page n as asked: these marks and no other put on it, this text and no other
\* gone from it, and turned only by a rotation.
PageDeserved(ask, n, new, old) ==
    /\ new.id = old.id
    /\ new.marks = old.marks \cup MarksFor(ask, n)
    /\ new.text = old.text \ StruckFrom(ask, n)
    /\ IF ask.op = "rotate" THEN Turned(ask.args, n, new.turned, old.turned)
       ELSE new.turned = old.turned

\* The password that opens the document and the restrictions are those asked
\* for; whatever else was given, some password guards the restrictions.
Locked(lock, args) ==
    /\ lock.opens = args.user /\ lock.forbids = args.forbids
    /\ lock.owner # None /\ lock.owner \in {args.owner, args.user}
    /\ args.owner # None => lock.owner = args.owner

\* What is no page's.
RestDeserved(ask, out) ==
    /\ out.filled = IF ask.op = "fill" THEN ask.args ELSE {}
    /\ IF ask.op = "password" THEN Locked(out.lock, ask.args) ELSE out.lock = None
    /\ ask.op \notin {"merge", "split"} => out.fields = ask.files[1].doc.fields

\* These pages, each as asked, in this order; and the rest.  A preview is a page.
Deserved(ask, out) ==
    LET pages == IF ask.op = "preview" THEN <<out>> ELSE out.pages
        asked == PagesAsked(ask)
    IN  /\ Len(pages) = Len(asked)
        /\ \A n \in DOMAIN asked : PageDeserved(ask, n, pages[n], asked[n])
        /\ ask.op # "preview" => RestDeserved(ask, out)

\* What cannot be converted.
Hopeless(file) == file.ext \notin {"docx", "xlsx"} \/ ~file.opens \/ file.hangs

\* A request answered with a file got the pages it asked for, in their order,
\* every item done on the page it is for and nothing else changed on any page,
\* nor in the fields and the password of the document; and a document that can
\* be converted is never refused, whatever is converted next to it.
AnswerDeserved ==
    \A r \in Request : reqs[r] # None =>
        /\ reqs[r].code = 200 => Deserved(reqs[r].ask, reqs[r].out)
        /\ reqs[r].code = 422 /\ Op(r) = "convert" => Hopeless(reqs[r].ask.files[1])
=============================================================================
