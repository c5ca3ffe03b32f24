------------------------------ MODULE PdfEdit ------------------------------
(***************************************************************************)
(* The operations of the PDF editor (features/editor/edit.py) on what a    *)
(* document is to them: pages, in order, each with a rotation, the text on *)
(* it and the marks put over it; form fields; and a password.  Each yields *)
(* the edited document, or None for a PDFEditError: one bad item of a      *)
(* request spoils the whole of it.                                         *)
(*                                                                         *)
(* An item is sound if the library accepts its shape, colour or text.      *)
(***************************************************************************)
EXTENDS Integers, Sequences, FiniteSets, SequencesExt

CONSTANTS
    None,
    All    \* every page

\* A document before an operation: no mark is put over a page yet, no field
\* filled, and no password needed.
Untouched(doc) ==
    /\ DOMAIN doc = {"pages", "fields", "filled", "lock"}
    /\ doc.filled = {} /\ doc.lock = None /\ doc.pages \in Seq(ToSet(doc.pages))
    /\ \A page \in ToSet(doc.pages) :
          /\ DOMAIN page = {"id", "turned", "marks", "text"}
          /\ page.marks = {} /\ page.turned \in {0, 90, 180, 270}

\* Page numbers count from 0.
OnPage(doc, p) == p \in 0 .. Len(doc.pages) - 1

Sound(doc, items) == items # {} /\ \A item \in items : OnPage(doc, item.page) /\ item.sound

\* Every page, changed by the items for it.
EachPage(doc, New(_, _)) ==
    [doc EXCEPT !.pages = [n \in DOMAIN doc.pages |-> New(n - 1, doc.pages[n])]]

Marked(doc, items) ==
    LET New(p, page) == [page EXCEPT !.marks = @ \cup {item.what : item \in {i \in items : i.page = p}}]
    IN  EachPage(doc, New)

AddAnnotations(doc, items) == IF Sound(doc, items) THEN Marked(doc, items) ELSE None

\* A text too long for its box is left out without an error.
AddTextBoxes(doc, items) ==
    IF Sound(doc, items) THEN Marked(doc, {item \in items : item.fits}) ELSE None

Redactions(doc, items) ==
    LET New(p, page) == [page EXCEPT !.text = @ \ {item.what : item \in {i \in items : i.page = p}}]
    IN  EachPage(doc, New)
Redact(doc, items) == IF Sound(doc, items) THEN Redactions(doc, items) ELSE None

\* Every field named must be there.
FillForm(doc, fields) ==
    IF fields # {} /\ fields \subseteq doc.fields THEN [doc EXCEPT !.filled = @ \cup fields] ELSE None

\* The signature's paper is made transparent before it is placed.
SignatureMade(doc, item, image) == OnPage(doc, item.page) /\ image.picture
AddSignature(doc, item, image) ==
    IF SignatureMade(doc, item, image) /\ item.sound THEN Marked(doc, {item}) ELSE None

\* All, or some pages; None if there are none or one is out of range.
ResolvePages(doc, pages) ==
    IF pages = All THEN 0 .. Len(doc.pages) - 1
    ELSE IF pages # << >> /\ \A i \in DOMAIN pages : OnPage(doc, pages[i]) THEN ToSet(pages)
    ELSE None

AddWatermark(doc, args) ==
    LET pages == ResolvePages(doc, args.pages)
    IN  IF pages = None \/ ~args.sound THEN None
        ELSE Marked(doc, {[page |-> p, what |-> args.what] : p \in pages})

\* (mistaken) the angle is taken for the rotation the page is to have
TurnPagesTo(doc, args) ==
    LET New(p, page) == IF args.pages = All \/ p \in ToSet(args.pages)
                        THEN [page EXCEPT !.turned = args.angle % 360] ELSE page
    IN  IF args.angle % 90 # 0 \/ ResolvePages(doc, args.pages) = None THEN None
        ELSE EachPage(doc, New)

\* For a page listed twice the rotation is added twice.
Times(pages, p) == IF pages = All THEN 1 ELSE Cardinality({i \in DOMAIN pages : pages[i] = p})
RotatePages(doc, args) ==
    LET New(p, page) == [page EXCEPT !.turned = (@ + args.angle * Times(args.pages, p)) % 360]
    IN  IF args.angle % 90 # 0 \/ ResolvePages(doc, args.pages) = None THEN None
        ELSE EachPage(doc, New)

\* A page left out is deleted.
ReorderPages(doc, order) ==
    IF order = << >> \/ \E i \in DOMAIN order : ~OnPage(doc, order[i]) THEN None
    ELSE [doc EXCEPT !.pages = [i \in DOMAIN order |-> doc.pages[order[i] + 1]]]

\* The owner's password is the user's unless there is one.
AddPassword(doc, args) ==
    IF args.user = None /\ args.owner = None THEN None
    ELSE [doc EXCEPT !.lock = [opens |-> args.user,
                               owner |-> IF args.owner # None THEN args.owner ELSE args.user,
                               forbids |-> args.forbids]]

\* What becomes of form fields is up to the library.
NewDocument(pages) == [pages |-> pages, fields |-> {}, filled |-> {}, lock |-> None]

MergePdfs(docs) == NewDocument(FlattenSeq([i \in DOMAIN docs |-> docs[i].pages]))

SplitPdf(doc, args) ==
    IF 0 <= args.start /\ args.start <= args.end /\ args.end < Len(doc.pages)
    THEN NewDocument(SubSeq(doc.pages, args.start + 1, args.end + 1)) ELSE None

CompressPdf(doc) == doc

RenderPagePreview(doc, p) == IF OnPage(doc, p) THEN doc.pages[p + 1] ELSE None
=============================================================================
