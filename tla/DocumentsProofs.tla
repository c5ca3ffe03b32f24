---------------------------- MODULE DocumentsProofs ----------------------------
(***************************************************************************)
(* Theorems about Documents: an answer is the deserved one, for any        *)
(* documents, requests and numbers of them, whatever fails on the way.     *)
(*                                                                         *)
(* What each operation of the editor makes of a document comes first, then *)
(* where the files of a request are found once they are written, then what *)
(* a request keeps on its way.                                             *)
(***************************************************************************)
EXTENDS Documents, FiniteSetTheorems, TLAPS

-----------------------------------------------------------------------------
(* Editing *)

\* A function over the first places is a sequence.
LEMMA IsSequence ==
    ASSUME NEW n \in Nat, NEW f, f = [i \in 1 .. n |-> f[i]]
    PROVE  Len(f) = n /\ DOMAIN f = 1 .. n
<1> DEFINE S == {f[i] : i \in 1 .. n}
<1>1. f \in [1 .. n -> S]
  OBVIOUS
<1>2. f \in Seq(S)
  BY <1>1
<1>. QED
  BY <1>1, <1>2

\* The pages of a document are numbered from 1.
LEMMA PagesOf ==
    ASSUME NEW doc, Untouched(doc)
    PROVE  /\ Len(doc.pages) \in Nat
           /\ DOMAIN doc.pages = 1 .. Len(doc.pages)
           /\ \A n \in DOMAIN doc.pages : /\ DOMAIN doc.pages[n] = {"id", "turned", "marks", "text"}
                                          /\ doc.pages[n].marks = {}
                                          /\ doc.pages[n].turned \in {0, 90, 180, 270}
BY DEF Untouched, ToSet

\* A page with a field changed.
LEMMA FieldChanged ==
    ASSUME NEW page, NEW field \in DOMAIN page, NEW value, NEW new, new = [page EXCEPT ![field] = value]
    PROVE  new[field] = value /\ \A f \in DOMAIN page \ {field} : new[f] = page[f]
OBVIOUS

\* Pages that differ in one field only.
SameBut(field, pages, others) ==
    /\ Len(pages) = Len(others)
    /\ DOMAIN pages = DOMAIN others
    /\ \A i \in DOMAIN others : \A f \in DOMAIN others[i] \ {field} : pages[i][f] = others[i][f]

\* Marks are put over the pages they are for.
LEMMA MarksPut ==
    ASSUME NEW doc, NEW items, Untouched(doc)
    PROVE  /\ SameBut("marks", Marked(doc, items).pages, doc.pages)
           /\ \A n \in DOMAIN doc.pages : Marked(doc, items).pages[n].marks = Said(items, n)
<1> DEFINE out == Marked(doc, items)
           put(n) == {item.what : item \in {i \in items : i.page = n - 1}}
           page(n) == [doc.pages[n] EXCEPT !.marks = @ \cup put(n)]
<1>1. out.pages = [n \in DOMAIN doc.pages |-> page(n)]
  BY DEF Marked, EachPage, Untouched
<1>2. Len(out.pages) = Len(doc.pages) /\ DOMAIN out.pages = DOMAIN doc.pages
  <2>1. out.pages = [n \in 1 .. Len(doc.pages) |-> out.pages[n]]
    BY <1>1, PagesOf
  <2>. QED
    BY <2>1, PagesOf, IsSequence
<1>3. \A n \in DOMAIN doc.pages : out.pages[n] = page(n)
  BY <1>1
<1> HIDE DEF out, put
<1>4. ASSUME NEW n \in DOMAIN doc.pages
      PROVE  /\ out.pages[n].marks = put(n)
             /\ \A f \in DOMAIN doc.pages[n] \ {"marks"} : out.pages[n][f] = doc.pages[n][f]
  <2>1. out.pages[n] = [doc.pages[n] EXCEPT !["marks"] = doc.pages[n].marks \cup put(n)]
    BY <1>3
  <2>2. "marks" \in DOMAIN doc.pages[n] /\ doc.pages[n].marks \cup put(n) = put(n)
    BY PagesOf
  <2>. QED
    BY <2>1, <2>2, FieldChanged
<1>5. SameBut("marks", out.pages, doc.pages)
  BY <1>2, <1>4 DEF SameBut
<1>. QED
  BY <1>4, <1>5 DEF out, put, Said

\* Text is removed from the pages it was to be removed from, nothing else is.
LEMMA TextRemoved ==
    ASSUME NEW doc, NEW items, Untouched(doc)
    PROVE  /\ SameBut("text", Redactions(doc, items).pages, doc.pages)
           /\ \A n \in DOMAIN doc.pages :
                 Redactions(doc, items).pages[n].text = doc.pages[n].text \ Said(items, n)
<1> DEFINE out == Redactions(doc, items)
           gone(n) == {item.what : item \in {i \in items : i.page = n - 1}}
           page(n) == [doc.pages[n] EXCEPT !.text = @ \ gone(n)]
<1>1. out.pages = [n \in DOMAIN doc.pages |-> page(n)]
  BY DEF Redactions, EachPage, Untouched
<1>2. Len(out.pages) = Len(doc.pages) /\ DOMAIN out.pages = DOMAIN doc.pages
  <2>1. out.pages = [n \in 1 .. Len(doc.pages) |-> out.pages[n]]
    BY <1>1, PagesOf
  <2>. QED
    BY <2>1, PagesOf, IsSequence
<1>3. \A n \in DOMAIN doc.pages : out.pages[n] = page(n)
  BY <1>1
<1> HIDE DEF out, gone
<1>4. ASSUME NEW n \in DOMAIN doc.pages
      PROVE  /\ out.pages[n].text = doc.pages[n].text \ gone(n)
             /\ \A f \in DOMAIN doc.pages[n] \ {"text"} : out.pages[n][f] = doc.pages[n][f]
  <2>1. out.pages[n] = [doc.pages[n] EXCEPT !["text"] = doc.pages[n].text \ gone(n)]
    BY <1>3
  <2>2. "text" \in DOMAIN doc.pages[n]
    BY PagesOf
  <2>. QED
    BY <2>1, <2>2, FieldChanged
<1>5. SameBut("text", out.pages, doc.pages)
  BY <1>2, <1>4 DEF SameBut
<1>. QED
  BY <1>4, <1>5 DEF out, gone, Said

\* A quarter turn is one of four.
LEMMA Quarters ==
    ASSUME NEW m \in Int
    PROVE  (90 * m) % 360 \in {0, 90, 180, 270}
<1>1. m = 4 * (m \div 4) + (m % 4) /\ m \div 4 \in Int /\ m % 4 \in 0 .. 3
  BY SMT
<1>2. PICK q, r : q \in Int /\ r \in 0 .. 3 /\ m = 4 * q + r
  BY <1>1
<1>3. 90 * m = 360 * q + 90 * r
  BY <1>2
<1>. QED
  BY <1>2, <1>3

\* Any of the four is a number of quarters.
LEMMA WholeQuarters ==
    ASSUME NEW x \in {0, 90, 180, 270}
    PROVE  x \div 90 \in Int /\ x = 90 * (x \div 90)
OBVIOUS

\* What a rotation leaves out is full turns.
LEMMA FullTurns ==
    ASSUME NEW x \in Int
    PROVE  ((x % 360) - x) % 360 = 0
<1>1. PICK q, r : q \in Int /\ r \in 0 .. 359 /\ x = 360 * q + r /\ r = x % 360
  <2>1. x = 360 * (x \div 360) + (x % 360) /\ x \div 360 \in Int /\ x % 360 \in 0 .. 359
    BY SMT
  <2>. QED
    BY <2>1
<1>2. (x % 360) - x = 360 * (-q) /\ -q \in Int
  BY <1>1
<1>. QED
  BY <1>2

\* Pages are turned by quarters, and nothing else is done to them.
LEMMA PagesTurned ==
    ASSUME NEW doc, NEW args, Untouched(doc), args.angle \in Int,
           args.pages = All \/ args.pages \in Seq(Int), RotatePages(doc, args) # None
    PROVE  /\ SameBut("turned", RotatePages(doc, args).pages, doc.pages)
           /\ \A n \in DOMAIN doc.pages :
                 Turned(args, n, RotatePages(doc, args).pages[n].turned, doc.pages[n].turned)
<1> DEFINE out == RotatePages(doc, args)
           times(n) == Times(args.pages, n - 1)
           page(n) == [doc.pages[n] EXCEPT !.turned = (@ + args.angle * times(n)) % 360]
<1>1. out.pages = [n \in DOMAIN doc.pages |-> page(n)] /\ args.angle % 90 = 0
  BY DEF RotatePages, EachPage, Untouched
<1>2. Len(out.pages) = Len(doc.pages) /\ DOMAIN out.pages = DOMAIN doc.pages
  <2>1. out.pages = [n \in 1 .. Len(doc.pages) |-> out.pages[n]]
    BY <1>1, PagesOf
  <2>. QED
    BY <2>1, PagesOf, IsSequence
<1>3. \A n \in DOMAIN doc.pages : out.pages[n] = page(n)
  BY <1>1
<1>t. ASSUME NEW n
      PROVE  times(n) \in Nat
  <2>1. CASE args.pages = All
    BY <2>1 DEF Times
  <2>2. CASE args.pages # All
    <3>1. IsFiniteSet(1 .. Len(args.pages)) /\ DOMAIN args.pages = 1 .. Len(args.pages)
      BY <2>2, FS_Interval
    <3>2. IsFiniteSet({i \in DOMAIN args.pages : args.pages[i] = n - 1})
      BY <3>1, FS_Subset
    <3>3. Cardinality({i \in DOMAIN args.pages : args.pages[i] = n - 1}) \in Nat
      BY <3>2, FS_CardinalityType
    <3>. QED
      BY <2>2, <3>3 DEF Times
  <2>. QED
    BY <2>1, <2>2
<1>l. ASSUME NEW n
      PROVE  times(n) = Cardinality(Listed(args.pages, n))
  BY FS_Singleton DEF Times, Listed
<1> HIDE DEF out, times
<1>4. ASSUME NEW n \in DOMAIN doc.pages
      PROVE  /\ out.pages[n].turned = (doc.pages[n].turned + args.angle * times(n)) % 360
             /\ \A f \in DOMAIN doc.pages[n] \ {"turned"} : out.pages[n][f] = doc.pages[n][f]
  <2>1. out.pages[n] = [doc.pages[n] EXCEPT
                          !["turned"] = (doc.pages[n].turned + args.angle * times(n)) % 360]
    BY <1>3
  <2>2. "turned" \in DOMAIN doc.pages[n]
    BY PagesOf
  <2>. QED
    BY <2>1, <2>2, FieldChanged
<1>5. SameBut("turned", out.pages, doc.pages)
  BY <1>2, <1>4 DEF SameBut
<1>6. ASSUME NEW n \in DOMAIN doc.pages
      PROVE  out.pages[n].turned \in {0, 90, 180, 270}
  <2>1. PICK a : a \in Int /\ args.angle = 90 * a
    <3>1. args.angle = 90 * (args.angle \div 90) /\ args.angle \div 90 \in Int
      BY <1>1
    <3>. QED
      BY <3>1
  <2> DEFINE b == doc.pages[n].turned \div 90
  <2>2. b \in Int /\ doc.pages[n].turned = 90 * b
    <3>1. doc.pages[n].turned \in {0, 90, 180, 270}
      BY PagesOf
    <3>. QED
      BY <3>1, WholeQuarters
  <2> HIDE DEF b
  <2>3. a * times(n) \in Int
    BY <1>t, <2>1
  <2>4. doc.pages[n].turned + args.angle * times(n) = 90 * (b + a * times(n))
    BY <1>t, <2>1, <2>2
  <2>5. b + a * times(n) \in Int
    BY <2>2, <2>3
  <2>. QED
    BY <1>4, <2>4, <2>5, Quarters
<1>7. ASSUME NEW n \in DOMAIN doc.pages
      PROVE  (out.pages[n].turned - (doc.pages[n].turned + args.angle * times(n))) % 360 = 0
  <2>1. doc.pages[n].turned \in Int
    BY PagesOf
  <2>2. doc.pages[n].turned + args.angle * times(n) \in Int
    BY <1>t, <2>1
  <2>. QED
    BY <1>4, <2>2, FullTurns
<1>. QED
  BY <1>5, <1>6, <1>7, <1>l DEF out, Turned

-----------------------------------------------------------------------------
(* What is deserved *)

\* What changes pages.
Changing == {"annotate", "textboxes", "signature", "watermark", "redact", "rotate"}

\* Only filling a form and setting a password change what is no page's.
LEMMA RestKept ==
    ASSUME NEW ask, NEW out, ask.op \notin {"fill", "password"}, out.filled = {}, out.lock = None,
           ask.op \notin {"merge", "split"} => out.fields = ask.files[1].doc.fields
    PROVE  RestDeserved(ask, out)
BY DEF RestDeserved

\* A document with other pages.
Repaged(out, doc, pages) == out = [doc EXCEPT !["pages"] = pages]

\* An operation on the pages leaves the rest of the document alone.
LEMMA RestOfDocument ==
    ASSUME NEW doc, Untouched(doc), NEW out, NEW pages, Repaged(out, doc, pages)
    PROVE  out.pages = pages /\ out.filled = {} /\ out.lock = None /\ out.fields = doc.fields
<1>1. DOMAIN doc = {"pages", "fields", "filled", "lock"} /\ doc.filled = {} /\ doc.lock = None
  BY DEF Untouched
<1>2. "pages" \in DOMAIN doc /\ out = [doc EXCEPT !["pages"] = pages]
  BY <1>1 DEF Repaged
<1>3. out["pages"] = pages /\ \A f \in DOMAIN doc \ {"pages"} : out[f] = doc[f]
  BY <1>2, FieldChanged
<1>. QED
  BY <1>1, <1>3

\* Pages nothing was asked to be done to, and nothing was done to, are deserved.
LEMMA KeptDeserved ==
    ASSUME NEW ask, NEW out, ask.op \notin Changing,
           ask.op = "preview" => <<out>> = PagesAsked(ask),
           ask.op # "preview" => out.pages = PagesAsked(ask) /\ RestDeserved(ask, out)
    PROVE  Deserved(ask, out)
<1>1. ASSUME NEW n, NEW page
      PROVE  PageDeserved(ask, n, page, page)
  <2>1. MarksFor(ask, n) = {} /\ StruckFrom(ask, n) = {} /\ ask.op # "rotate"
    BY DEF MarksFor, StruckFrom, Changing
  <2>. QED
    BY <2>1 DEF PageDeserved
<1>. QED
  BY <1>1 DEF Deserved

\* Pages each changed as asked are deserved.
LEMMA ChangedDeserved ==
    ASSUME NEW ask, NEW out, ask.op \in Changing, RestDeserved(ask, out),
           NEW field, SameBut(field, out.pages, ask.files[1].doc.pages),
           \A n \in DOMAIN ask.files[1].doc.pages :
              PageDeserved(ask, n, out.pages[n], ask.files[1].doc.pages[n])
    PROVE  Deserved(ask, out)
<1>1. PagesAsked(ask) = ask.files[1].doc.pages /\ ask.op # "preview"
  BY DEF PagesAsked, Changing
<1>. QED
  BY <1>1 DEF Deserved, SameBut

\* Marks that say of each page what the request says of it are deserved.
LEMMA MarkedDeserved ==
    ASSUME NEW ask, NEW items, NEW doc, doc = ask.files[1].doc, Untouched(doc),
           ask.op \in {"annotate", "textboxes", "signature", "watermark"},
           \A n \in DOMAIN doc.pages : Said(items, n) = MarksFor(ask, n)
    PROVE  Deserved(ask, Marked(doc, items))
<1> DEFINE out == Marked(doc, items)
<1>1. /\ SameBut("marks", out.pages, doc.pages)
      /\ \A n \in DOMAIN doc.pages : out.pages[n].marks = Said(items, n)
  BY MarksPut
<1>2. PICK pages : Repaged(out, doc, pages)
  BY DEF Marked, EachPage, Repaged
<1>3. out.filled = {} /\ out.lock = None /\ out.fields = doc.fields
  BY <1>2, RestOfDocument
<1> HIDE DEF out
<1>4. RestDeserved(ask, out)
  BY <1>3, RestKept
<1>5. ASSUME NEW n \in DOMAIN doc.pages
      PROVE  PageDeserved(ask, n, out.pages[n], doc.pages[n])
  <2>1. /\ DOMAIN doc.pages[n] = {"id", "turned", "marks", "text"} /\ doc.pages[n].marks = {}
    BY PagesOf
  <2>2. /\ out.pages[n].id = doc.pages[n].id /\ out.pages[n].text = doc.pages[n].text
        /\ out.pages[n].turned = doc.pages[n].turned
    BY <1>1, <2>1 DEF SameBut
  <2>3. StruckFrom(ask, n) = {} /\ ask.op # "rotate"
    BY DEF StruckFrom
  <2>4. out.pages[n].marks = doc.pages[n].marks \cup MarksFor(ask, n)
    BY <1>1, <2>1
  <2>. QED
    BY <2>2, <2>3, <2>4 DEF PageDeserved
<1>6. ask.op \in Changing
  BY DEF Changing
<1>7. Deserved(ask, out)
  BY <1>1, <1>4, <1>5, <1>6, ChangedDeserved
<1>. QED
  BY <1>7 DEF out

\* Text that was removed where, and only where, the request says is deserved.
LEMMA RedactedDeserved ==
    ASSUME NEW ask, NEW doc, doc = ask.files[1].doc, Untouched(doc), ask.op = "redact"
    PROVE  Deserved(ask, Redactions(doc, ask.args))
<1> DEFINE out == Redactions(doc, ask.args)
<1>1. /\ SameBut("text", out.pages, doc.pages)
      /\ \A n \in DOMAIN doc.pages : out.pages[n].text = doc.pages[n].text \ Said(ask.args, n)
  BY TextRemoved
<1>2. PICK pages : Repaged(out, doc, pages)
  BY DEF Redactions, EachPage, Repaged
<1>3. out.filled = {} /\ out.lock = None /\ out.fields = doc.fields
  BY <1>2, RestOfDocument
<1> HIDE DEF out
<1>4. RestDeserved(ask, out)
  BY <1>3, RestKept
<1>5. ASSUME NEW n \in DOMAIN doc.pages
      PROVE  PageDeserved(ask, n, out.pages[n], doc.pages[n])
  <2>1. DOMAIN doc.pages[n] = {"id", "turned", "marks", "text"}
    BY PagesOf
  <2>2. /\ out.pages[n].id = doc.pages[n].id /\ out.pages[n].marks = doc.pages[n].marks
        /\ out.pages[n].turned = doc.pages[n].turned
    BY <1>1, <2>1 DEF SameBut
  <2>3. MarksFor(ask, n) = {} /\ StruckFrom(ask, n) = Said(ask.args, n)
    BY DEF MarksFor, StruckFrom
  <2>4. out.pages[n].text = doc.pages[n].text \ StruckFrom(ask, n)
    BY <1>1, <2>3
  <2>. QED
    BY <2>2, <2>3, <2>4 DEF PageDeserved
<1>6. Deserved(ask, out)
  BY <1>1, <1>4, <1>5, ChangedDeserved DEF Changing
<1>. QED
  BY <1>6 DEF out

\* Pages that were turned as often as they are listed are deserved.
LEMMA TurnedDeserved ==
    ASSUME NEW ask, NEW doc, doc = ask.files[1].doc, Untouched(doc), ask.op = "rotate",
           ask.args.angle \in Int, ask.args.pages = All \/ ask.args.pages \in Seq(Int),
           RotatePages(doc, ask.args) # None
    PROVE  Deserved(ask, RotatePages(doc, ask.args))
<1> DEFINE out == RotatePages(doc, ask.args)
<1>1. /\ SameBut("turned", out.pages, doc.pages)
      /\ \A n \in DOMAIN doc.pages : Turned(ask.args, n, out.pages[n].turned, doc.pages[n].turned)
  BY PagesTurned
<1>2. PICK pages : Repaged(out, doc, pages)
  BY DEF RotatePages, EachPage, Repaged
<1>3. out.filled = {} /\ out.lock = None /\ out.fields = doc.fields
  BY <1>2, RestOfDocument
<1> HIDE DEF out
<1>4. RestDeserved(ask, out)
  BY <1>3, RestKept
<1>5. ASSUME NEW n \in DOMAIN doc.pages
      PROVE  PageDeserved(ask, n, out.pages[n], doc.pages[n])
  <2>1. DOMAIN doc.pages[n] = {"id", "turned", "marks", "text"}
    BY PagesOf
  <2>2. /\ out.pages[n].id = doc.pages[n].id /\ out.pages[n].marks = doc.pages[n].marks
        /\ out.pages[n].text = doc.pages[n].text
    BY <1>1, <2>1 DEF SameBut
  <2>3. MarksFor(ask, n) = {} /\ StruckFrom(ask, n) = {}
    BY DEF MarksFor, StruckFrom
  <2>. QED
    BY <1>1, <2>2, <2>3 DEF PageDeserved
<1>6. Deserved(ask, out)
  BY <1>1, <1>4, <1>5, ChangedDeserved DEF Changing
<1>. QED
  BY <1>6 DEF out

\* What an operation makes of one document is what the request deserves.
LEMMA OperationDeserved ==
    ASSUME NEW ask \in Asked, NEW doc, doc = ask.files[1].doc, Untouched(doc)
    PROVE  /\ ask.op = "annotate" /\ AddAnnotations(doc, ask.args) # None
                 => Deserved(ask, AddAnnotations(doc, ask.args))
           /\ ask.op = "textboxes" /\ AddTextBoxes(doc, ask.args) # None
                 => Deserved(ask, AddTextBoxes(doc, ask.args))
           /\ ask.op = "fill" /\ FillForm(doc, ask.args) # None => Deserved(ask, FillForm(doc, ask.args))
           /\ ask.op = "reorder" /\ ReorderPages(doc, ask.args) # None
                 => Deserved(ask, ReorderPages(doc, ask.args))
           /\ ask.op = "watermark" /\ AddWatermark(doc, ask.args) # None
                 => Deserved(ask, AddWatermark(doc, ask.args))
           /\ ask.op = "rotate" /\ RotatePages(doc, ask.args) # None
                 => Deserved(ask, RotatePages(doc, ask.args))
           /\ ask.op = "password" /\ AddPassword(doc, ask.args) # None
                 => Deserved(ask, AddPassword(doc, ask.args))
           /\ ask.op = "split" /\ SplitPdf(doc, ask.args) # None => Deserved(ask, SplitPdf(doc, ask.args))
           /\ ask.op = "redact" /\ Redact(doc, ask.args) # None => Deserved(ask, Redact(doc, ask.args))
           /\ ask.op = "preview" /\ RenderPagePreview(doc, ask.args) # None
                 => Deserved(ask, RenderPagePreview(doc, ask.args))
           /\ ask.op = "compress" => Deserved(ask, CompressPdf(doc))
           /\ ask.op = "convert" => Deserved(ask, doc)
           /\ \A image : ask.op = "signature" /\ AddSignature(doc, ask.args, image) # None
                            => Deserved(ask, AddSignature(doc, ask.args, image))
<1>1. ASSUME ask.op = "annotate", AddAnnotations(doc, ask.args) # None
      PROVE  Deserved(ask, AddAnnotations(doc, ask.args))
  <2>1. AddAnnotations(doc, ask.args) = Marked(doc, ask.args)
    BY <1>1 DEF AddAnnotations
  <2>2. \A n \in DOMAIN doc.pages : Said(ask.args, n) = MarksFor(ask, n)
    BY <1>1 DEF MarksFor
  <2>. QED
    BY <1>1, <2>1, <2>2, MarkedDeserved
<1>2. ASSUME ask.op = "textboxes", AddTextBoxes(doc, ask.args) # None
      PROVE  Deserved(ask, AddTextBoxes(doc, ask.args))
  <2> DEFINE fitting == {item \in ask.args : item.fits}
  <2>1. AddTextBoxes(doc, ask.args) = Marked(doc, fitting)
    BY <1>2 DEF AddTextBoxes
  <2>2. \A n \in DOMAIN doc.pages : Said(fitting, n) = MarksFor(ask, n)
    BY <1>2 DEF MarksFor
  <2> HIDE DEF fitting
  <2>. QED
    BY <1>2, <2>1, <2>2, MarkedDeserved
<1>3. ASSUME ask.op = "fill", FillForm(doc, ask.args) # None
      PROVE  Deserved(ask, FillForm(doc, ask.args))
  <2> DEFINE out == FillForm(doc, ask.args)
  <2>1. out = [doc EXCEPT !["filled"] = doc.filled \cup ask.args]
    BY <1>3 DEF FillForm
  <2> HIDE DEF out
  <2>2. DOMAIN doc = {"pages", "fields", "filled", "lock"} /\ doc.lock = None
        /\ doc.filled \cup ask.args = ask.args
    BY DEF Untouched
  <2>3. out.filled = ask.args /\ out.pages = doc.pages /\ out.fields = doc.fields /\ out.lock = None
    BY <2>1, <2>2, FieldChanged
  <2>4. RestDeserved(ask, out)
    BY <1>3, <2>3 DEF RestDeserved
  <2>5. out.pages = PagesAsked(ask)
    BY <1>3, <2>3 DEF PagesAsked
  <2>6. Deserved(ask, out)
    BY <1>3, <2>4, <2>5, KeptDeserved DEF Changing
  <2>. QED
    BY <2>6 DEF out
<1>4. ASSUME ask.op = "reorder", ReorderPages(doc, ask.args) # None
      PROVE  Deserved(ask, ReorderPages(doc, ask.args))
  <2> DEFINE out == ReorderPages(doc, ask.args)
             pages == [i \in DOMAIN ask.args |-> doc.pages[ask.args[i] + 1]]
  <2>1. Repaged(out, doc, pages)
    BY <1>4 DEF ReorderPages, Repaged
  <2>2. pages = PagesAsked(ask)
    BY <1>4 DEF PagesAsked
  <2> HIDE DEF out, pages
  <2>3. out.pages = pages /\ out.filled = {} /\ out.lock = None /\ out.fields = doc.fields
    BY <2>1, RestOfDocument
  <2>4. RestDeserved(ask, out)
    BY <1>4, <2>3, RestKept
  <2>5. Deserved(ask, out)
    BY <1>4, <2>2, <2>3, <2>4, KeptDeserved DEF Changing
  <2>. QED
    BY <2>5 DEF out
<1>5. ASSUME ask.op = "watermark", AddWatermark(doc, ask.args) # None
      PROVE  Deserved(ask, AddWatermark(doc, ask.args))
  <2> DEFINE pages == ResolvePages(doc, ask.args.pages)
             items == {[page |-> p, what |-> ask.args.what] : p \in pages}
  <2>1. pages # None /\ AddWatermark(doc, ask.args) = Marked(doc, items)
    BY <1>5 DEF AddWatermark
  <2>2. ASSUME NEW n \in DOMAIN doc.pages
        PROVE  n - 1 \in pages <=> Listed(ask.args.pages, n) # {}
    <3>1. n \in 1 .. Len(doc.pages) /\ Len(doc.pages) \in Nat
      BY PagesOf
    <3>2. CASE ask.args.pages = All
      BY <3>1, <3>2 DEF ResolvePages, Listed
    <3>3. CASE ask.args.pages # All
      BY <2>1, <3>3 DEF ResolvePages, Listed, ToSet
    <3>. QED
      BY <3>2, <3>3
  <2>3. ASSUME NEW n \in DOMAIN doc.pages
        PROVE  Said(items, n) = MarksFor(ask, n)
    <3>1. Said(items, n) = {what \in {ask.args.what} : n - 1 \in pages}
      <4>1. ASSUME NEW what
            PROVE  what \in Said(items, n) <=> \E p \in pages : p = n - 1 /\ what = ask.args.what
        <5>1. what \in Said(items, n) <=> \E item \in items : item.page = n - 1 /\ what = item.what
          BY DEF Said
        <5>2. ASSUME NEW p \in pages, p = n - 1, what = ask.args.what
              PROVE  what \in Said(items, n)
          <6>1. [page |-> p, what |-> ask.args.what] \in items
            OBVIOUS
          <6>. QED
            BY <5>1, <5>2, <6>1
        <5>3. ASSUME NEW item \in items, item.page = n - 1, what = item.what
              PROVE  \E p \in pages : p = n - 1 /\ what = ask.args.what
          BY <5>3
        <5>. QED
          BY <5>1, <5>2, <5>3
      <4>. QED
        BY <4>1
    <3>2. MarksFor(ask, n) = {what \in {ask.args.what} : Listed(ask.args.pages, n) # {}}
      BY <1>5 DEF MarksFor
    <3>. QED
      BY <2>2, <3>1, <3>2
  <2> HIDE DEF items
  <2>. QED
    BY <1>5, <2>1, <2>3, MarkedDeserved
<1>6. ASSUME ask.op = "rotate", RotatePages(doc, ask.args) # None
      PROVE  Deserved(ask, RotatePages(doc, ask.args))
  BY <1>6, TurnedDeserved, DocumentsAssumption
<1>7. ASSUME ask.op = "password", AddPassword(doc, ask.args) # None
      PROVE  Deserved(ask, AddPassword(doc, ask.args))
  <2> DEFINE args == ask.args
             lock == [opens |-> args.user,
                      owner |-> IF args.owner # None THEN args.owner ELSE args.user,
                      forbids |-> args.forbids]
             out == AddPassword(doc, args)
  <2>1. ~(args.user = None /\ args.owner = None) /\ out = [doc EXCEPT !["lock"] = lock]
    BY <1>7 DEF AddPassword
  <2>2. Locked(lock, args)
    BY <2>1 DEF Locked
  <2> HIDE DEF lock, out
  <2>3. DOMAIN doc = {"pages", "fields", "filled", "lock"} /\ doc.filled = {}
    BY DEF Untouched
  <2>4. out.lock = lock /\ out.pages = doc.pages /\ out.fields = doc.fields /\ out.filled = {}
    BY <2>1, <2>3, FieldChanged
  <2>5. RestDeserved(ask, out)
    BY <1>7, <2>2, <2>4 DEF RestDeserved
  <2>6. out.pages = PagesAsked(ask)
    BY <1>7, <2>4 DEF PagesAsked
  <2>7. Deserved(ask, out)
    BY <1>7, <2>5, <2>6, KeptDeserved DEF Changing
  <2>. QED
    BY <2>7 DEF out
<1>8. ASSUME ask.op = "split", SplitPdf(doc, ask.args) # None
      PROVE  Deserved(ask, SplitPdf(doc, ask.args))
  <2> DEFINE out == SplitPdf(doc, ask.args)
  <2>1. /\ out.pages = SubSeq(doc.pages, ask.args.start + 1, ask.args.end + 1)
        /\ out.filled = {} /\ out.lock = None
    BY <1>8 DEF SplitPdf, NewDocument
  <2> HIDE DEF out
  <2>2. out.pages = PagesAsked(ask)
    BY <1>8, <2>1 DEF PagesAsked
  <2>3. RestDeserved(ask, out)
    BY <1>8, <2>1, RestKept
  <2>4. Deserved(ask, out)
    BY <1>8, <2>2, <2>3, KeptDeserved DEF Changing
  <2>. QED
    BY <2>4 DEF out
<1>9. ASSUME ask.op = "redact", Redact(doc, ask.args) # None
      PROVE  Deserved(ask, Redact(doc, ask.args))
  BY <1>9, RedactedDeserved DEF Redact
<1>10. ASSUME ask.op = "preview", RenderPagePreview(doc, ask.args) # None
       PROVE  Deserved(ask, RenderPagePreview(doc, ask.args))
  <2>1. RenderPagePreview(doc, ask.args) = doc.pages[ask.args + 1]
    BY <1>10 DEF RenderPagePreview
  <2>2. <<RenderPagePreview(doc, ask.args)>> = PagesAsked(ask)
    BY <1>10, <2>1 DEF PagesAsked
  <2>. QED
    BY <1>10, <2>2, KeptDeserved DEF Changing
<1>11. ASSUME ask.op \in {"compress", "convert"}
       PROVE  Deserved(ask, doc)
  <2>1. doc.pages = PagesAsked(ask)
    BY <1>11 DEF PagesAsked
  <2>2. RestDeserved(ask, doc)
    BY <1>11, RestKept DEF Untouched
  <2>. QED
    BY <1>11, <2>1, <2>2, KeptDeserved DEF Changing
<1>12. ASSUME NEW image, ask.op = "signature", AddSignature(doc, ask.args, image) # None
       PROVE  Deserved(ask, AddSignature(doc, ask.args, image))
  <2>1. AddSignature(doc, ask.args, image) = Marked(doc, {ask.args})
    BY <1>12 DEF AddSignature
  <2>2. \A n \in DOMAIN doc.pages : Said({ask.args}, n) = MarksFor(ask, n)
    BY <1>12 DEF MarksFor
  <2>. QED
    BY <1>12, <2>1, <2>2, MarkedDeserved
<1>. QED
  BY <1>1, <1>2, <1>3, <1>4, <1>5, <1>6, <1>7, <1>8, <1>9, <1>10, <1>11, <1>12 DEF CompressPdf

\* Merged documents follow each other.
LEMMA MergeDeserved ==
    ASSUME NEW ask, ask.op = "merge", NEW docs, docs = [i \in DOMAIN ask.files |-> ask.files[i].doc]
    PROVE  Deserved(ask, MergePdfs(docs))
<1>1. [i \in DOMAIN docs |-> docs[i].pages] = [i \in DOMAIN ask.files |-> ask.files[i].doc.pages]
  OBVIOUS
<1>2. MergePdfs(docs).pages = FlattenSeq([i \in DOMAIN ask.files |-> ask.files[i].doc.pages])
  BY <1>1 DEF MergePdfs, NewDocument
<1>3. MergePdfs(docs).pages = PagesAsked(ask)
  BY <1>2 DEF PagesAsked
<1>4. MergePdfs(docs).filled = {} /\ MergePdfs(docs).lock = None
  BY DEF MergePdfs, NewDocument
<1>5. RestDeserved(ask, MergePdfs(docs))
  BY <1>4, RestKept
<1>. QED
  BY <1>3, <1>5, KeptDeserved DEF Changing

-----------------------------------------------------------------------------
(* Files *)

\* Under a name there is the last file that was written with it.
LEMMA LastWritten ==
    ASSUME NEW ask, NEW i \in DOMAIN ask.files, DOMAIN ask.files \subseteq Nat,
           \A k \in DOMAIN ask.files : UploadName(ask, k) = UploadName(ask, i) => k <= i
    PROVE  Written(ask)[UploadName(ask, i)] = ask.files[i]
<1> DEFINE Latest(k) == /\ UploadName(ask, k) = UploadName(ask, i)
                      /\ \A m \in DOMAIN ask.files : UploadName(ask, m) = UploadName(ask, i) => m <= k
           last == CHOOSE k \in DOMAIN ask.files : Latest(k)
<1>1. Latest(i)
  OBVIOUS
<1>2. last \in DOMAIN ask.files /\ Latest(last)
  BY <1>1
<1>3. last <= i /\ i <= last /\ last \in Nat /\ i \in Nat
  BY <1>2
<1>4. last = i
  BY <1>3
<1>5. Written(ask)[UploadName(ask, i)] = ask.files[last]
  BY DEF Written
<1>. QED
  BY <1>4, <1>5

\* The places of a request's files.
LEMMA Places ==
    ASSUME NEW ask \in Asked
    PROVE  /\ DOMAIN ask.files \subseteq Nat
           /\ ask.op # "merge" /\ ask.op # "signature" => DOMAIN ask.files = {1}
           /\ ask.op = "signature" => DOMAIN ask.files = {1, 2}
           /\ \A i \in DOMAIN ask.files : /\ Untouched(ask.files[i].doc)
                                          /\ ask.files[i].picture => ~ask.files[i].opens
<1>1. ask.files \in Seq(ToSet(ask.files))
  BY DocumentsAssumption
<1>2. DOMAIN ask.files = 1 .. Len(ask.files) /\ Len(ask.files) \in Nat
  BY <1>1
<1>3. ask.op # "merge" => Len(ask.files) = IF ask.op = "signature" THEN 2 ELSE 1
  BY DocumentsAssumption
<1>4. \A i \in DOMAIN ask.files : ask.files[i] \in ToSet(ask.files)
  BY DEF ToSet
<1>5. \A file \in ToSet(ask.files) : Untouched(file.doc) /\ (file.picture => ~file.opens)
  BY DocumentsAssumption
<1>. QED
  BY <1>2, <1>3, <1>4, <1>5

\* Of two files with one name the second is left, which matters for a signature
\* only: for the others there is one file, or a name holds its place.
LEMMA FilesFound ==
    ASSUME NEW ask \in Asked
    PROVE  /\ ask.op # "signature" =>
                 \A i \in DOMAIN ask.files : Written(ask)[UploadName(ask, i)] = ask.files[i]
           /\ ask.op = "signature" =>
                 /\ Written(ask)[UploadName(ask, 2)] = ask.files[2]
                 /\ \/ Written(ask)[UploadName(ask, 1)] = ask.files[1]
                    \/ Written(ask)[UploadName(ask, 1)] = ask.files[2]
<1>1. ASSUME ask.op = "merge", NEW i \in DOMAIN ask.files
      PROVE  Written(ask)[UploadName(ask, i)] = ask.files[i]
  <2>1. \A k \in DOMAIN ask.files : UploadName(ask, k) = UploadName(ask, i) => k = i
    BY <1>1 DEF UploadName
  <2>2. \A k \in DOMAIN ask.files : UploadName(ask, k) = UploadName(ask, i) => k <= i
    BY <2>1, Places
  <2>. QED
    BY <2>2, Places, LastWritten
<1>2. ASSUME ask.op # "merge", ask.op # "signature"
      PROVE  Written(ask)[UploadName(ask, 1)] = ask.files[1] /\ DOMAIN ask.files = {1}
  BY <1>2, Places, LastWritten
<1>3. ASSUME ask.op = "signature"
      PROVE  /\ Written(ask)[UploadName(ask, 2)] = ask.files[2]
             /\ \/ Written(ask)[UploadName(ask, 1)] = ask.files[1]
                \/ Written(ask)[UploadName(ask, 1)] = ask.files[2]
  <2>1. DOMAIN ask.files = {1, 2}
    BY <1>3, Places
  <2>2. Written(ask)[UploadName(ask, 2)] = ask.files[2]
    BY <2>1, Places, LastWritten
  <2>3. CASE UploadName(ask, 1) = UploadName(ask, 2)
    BY <2>2, <2>3
  <2>4. CASE UploadName(ask, 1) # UploadName(ask, 2)
    <3>1. \A k \in DOMAIN ask.files : UploadName(ask, k) = UploadName(ask, 1) => k <= 1
      BY <2>1, <2>4
    <3>. QED
      BY <2>1, <3>1, Places, LastWritten
  <2>. QED
    BY <2>2, <2>3, <2>4
<1>. QED
  BY <1>1, <1>2, <1>3

-----------------------------------------------------------------------------
(* What a request keeps *)

\* How far a request gets with its files as they were sent.
Filed == {"edit", "save", "send", "clean", "convert", "autofit", "launch", "office"}

\* A request has its files, runs LibreOffice with a profile nobody else uses,
\* and has a file to send, or was sent one, only if that is the one it deserves.
Handled(q) ==
    /\ q.ask \in Asked
    /\ DOMAIN q = {"ask", "phase", "code", "fault", "disk", "out", "office"}
    /\ q.phase \in {"upload", "over"} \cup Filed
    /\ q.phase \in {"upload"} \cup (Filed \ {"clean"}) => q.code = 0
    /\ q.phase \in Filed => q.disk = Written(q.ask)
    /\ q.phase \in {"edit", "save"} => q.ask.op # "convert"
    /\ q.phase \in {"convert", "autofit", "launch", "office"} => q.ask.op = "convert"
    /\ q.phase = "office" => q.office = "works"
    /\ q.phase \in {"save", "send", "clean"} \/ q.code = 200 => Deserved(q.ask, q.out)
    /\ q.code = 422 /\ q.ask.op = "convert" => Hopeless(q.ask.files[1])

\* The directories there may be for a request at each step.
Holds(q) ==
    (IF q.ask.op = "signature" THEN {"signature"} ELSE {}) \cup
        CASE q.phase \in {"upload", "edit", "convert"} -> {"upload"}
          [] q.phase \in {"save", "send", "clean"} ->
                {"upload"} \cup (IF q.ask.op = "preview" THEN {} ELSE {"output"})
          [] q.phase \in {"autofit", "launch", "office"} -> {"upload", "output", "profile"}
          [] OTHER -> IF q.code = 500 THEN {"upload"} ELSE {}

\* Those there must be.
Needs(q) ==
    IF q.phase \in {"autofit", "launch", "office", "send"} \/ (q.phase = "save" /\ q.ask.op # "preview")
    THEN {"output"} ELSE {}

HandledOk == DOMAIN reqs = Request /\ \A r \in Request : reqs[r] # None => Handled(reqs[r])
HeldOk == \A d \in tmp : \E r \in Request : reqs[r] # None /\ \E use \in Holds(reqs[r]) : d = <<r, use>>
NeededOk == \A r \in Request : reqs[r] # None => \A use \in Needs(reqs[r]) : <<r, use>> \in tmp

\* A request with its files finds them, the first of them when it is the only
\* one.
LEMMA UploadedOne ==
    ASSUME NEW r \in Request, Handled(reqs[r]), reqs[r].phase \in Filed,
           Op(r) # "merge", Op(r) # "signature"
    PROVE  Uploaded(r, 1) = reqs[r].ask.files[1] /\ Untouched(reqs[r].ask.files[1].doc)
BY Places, FilesFound DEF Uploaded, Handled, Op

\* What comes out of the editor is what the request deserves.
LEMMA EditedDeserved ==
    ASSUME NEW r \in Request, Handled(reqs[r]), reqs[r].phase = "edit", Edited(r) # None
    PROVE  Deserved(reqs[r].ask, Edited(r))
<1> DEFINE ask == reqs[r].ask
           doc == Uploaded(r, 1).doc
<1>1. /\ ask \in Asked /\ ask.op \in Operation /\ ask.op # "convert" /\ Op(r) = ask.op
      /\ reqs[r].phase \in Filed /\ reqs[r].disk = Written(ask)
  BY DocumentsAssumption DEF Handled, Filed, Op
<1>2. CASE ask.op = "merge"
  <2>1. \A i \in DOMAIN ask.files : Uploaded(r, i) = ask.files[i]
    BY <1>1, <1>2, FilesFound DEF Uploaded
  <2>2. [i \in DOMAIN ask.files |-> Uploaded(r, i)] = [i \in DOMAIN ask.files |-> ask.files[i]]
    BY <2>1
  <2> DEFINE files == [i \in DOMAIN ask.files |-> ask.files[i]]
             docs == [i \in DOMAIN files |-> files[i].doc]
  <2>3. docs = [i \in DOMAIN ask.files |-> ask.files[i].doc]
    OBVIOUS
  <2>4. Edited(r) = MergePdfs(docs)
    BY <1>1, <1>2, <2>2 DEF Edited, Merged
  <2> HIDE DEF docs
  <2>. QED
    BY <1>2, <2>3, <2>4, MergeDeserved
<1>3. CASE ask.op = "signature"
  <2>1. OpenPdf(r) /\ Edited(r) = AddSignature(doc, ask.args, Uploaded(r, 2))
    BY <1>1, <1>3 DEF Edited
  <2>2. Uploaded(r, 2).picture /\ Uploaded(r, 1).opens
    BY <2>1 DEF AddSignature, SignatureMade, OpenPdf
  <2>3. Uploaded(r, 1) = ask.files[1]
    BY <1>1, <1>3, <2>2, Places, FilesFound DEF Uploaded
  <2>4. Untouched(ask.files[1].doc)
    BY <1>1, <1>3, Places
  <2>. QED
    BY <1>1, <1>3, <2>1, <2>3, <2>4, OperationDeserved
<1>4. CASE ask.op \notin {"merge", "signature"}
  <2>1. doc = ask.files[1].doc /\ Untouched(doc)
    BY <1>1, <1>4, UploadedOne
  <2>2. OpenPdf(r)
    BY <1>1, <1>4 DEF Edited
  <2> HIDE DEF ask, doc
  <2>. QED
    BY <1>1, <1>4, <2>1, <2>2, OperationDeserved DEF Edited, ask, doc, Operation
<1>. QED
  BY <1>2, <1>3, <1>4

\* A request that is changed in some fields keeps the others.
Changed(r, fields) ==
    /\ DOMAIN reqs' = Request
    /\ \A q \in Request \ {r} : reqs'[q] = reqs[q]
    /\ DOMAIN reqs'[r] = DOMAIN reqs[r]
    /\ \A f \in DOMAIN reqs[r] \ fields : reqs'[r][f] = reqs[r][f]

\* A request that goes on, or ends, changes in little else.
LEMMA GoesChanged ==
    ASSUME NEW r \in Request, DOMAIN reqs = Request, Handled(reqs[r]), NEW phase, Goes(r, phase)
    PROVE  Changed(r, {"phase"}) /\ reqs'[r].phase = phase
BY DEF Goes, Changed, Handled

LEMMA EndsChanged ==
    ASSUME NEW r \in Request, DOMAIN reqs = Request, Handled(reqs[r]), NEW code, NEW fault \in BOOLEAN,
           Ends(r, code, fault)
    PROVE  /\ Changed(r, {"phase", "code", "fault"})
           /\ reqs'[r].phase = "over" /\ reqs'[r].code = code
<1>1. DOMAIN reqs' = Request /\ \A q \in Request \ {r} : reqs'[q] = reqs[q]
  BY DEF Ends
<1>2. reqs'[r] = [reqs[r] EXCEPT !.phase = "over", !.code = code, !.fault = fault]
  BY DEF Ends
<1>. QED
  BY <1>1, <1>2 DEF Changed, Handled

\* A step of one request leaves the others as they are.
LEMMA OthersHandled ==
    ASSUME HandledOk, NEW r \in Request, NEW fields, Changed(r, fields), Handled(reqs'[r])
    PROVE  HandledOk'
BY DEF HandledOk, Changed

\* A request begins without a file, and a conversion is asked for well.
LEMMA BeginHandled ==
    ASSUME HandledOk, NEW r \in Request, Begin(r)
    PROVE  HandledOk'
<1> DEFINE Asks(ask) ==
      reqs' = [reqs EXCEPT ![r] = [ask |-> ask, phase |-> IF WellAsked(ask) THEN "upload" ELSE "over",
                                   code |-> IF WellAsked(ask) THEN 0 ELSE 422, fault |-> FALSE,
                                   disk |-> None, out |-> None, office |-> None]]
<1>0. \E ask \in Asked :
         LET good == WellAsked(ask)
         IN  /\ reqs' = [reqs EXCEPT ![r] = [ask |-> ask, phase |-> IF good THEN "upload" ELSE "over",
                                             code |-> IF good THEN 0 ELSE 422, fault |-> FALSE,
                                             disk |-> None, out |-> None, office |-> None]]
             /\ IF good THEN Makes(r, {"upload"}) ELSE UNCHANGED tmp
  BY Zenon DEF Begin
<1>1. PICK ask \in Asked : Asks(ask)
  BY <1>0
<1>2. ask.op = "convert" => WellAsked(ask)
  BY DocumentsAssumption DEF WellAsked
<1>3. DOMAIN reqs' = Request /\ \A q \in Request \ {r} : reqs'[q] = reqs[q]
  BY <1>1 DEF HandledOk
<1>4. reqs'[r] = [ask |-> ask, phase |-> IF WellAsked(ask) THEN "upload" ELSE "over",
                  code |-> IF WellAsked(ask) THEN 0 ELSE 422, fault |-> FALSE,
                  disk |-> None, out |-> None, office |-> None]
  BY <1>1 DEF HandledOk
<1>5. Handled(reqs'[r])
  BY <1>2, <1>4 DEF Handled, Filed
<1>. QED
  BY <1>3, <1>5 DEF HandledOk

\* A step that ends a request with a refusal, or an error.
LEMMA RefusedHandled ==
    ASSUME HandledOk, NEW r \in Request, reqs[r] # None, NEW fault \in BOOLEAN, Ends(r, 422, fault),
           Op(r) = "convert" => Hopeless(reqs[r].ask.files[1])
    PROVE  HandledOk'
<1>1. Handled(reqs[r]) /\ DOMAIN reqs = Request
  BY DEF HandledOk
<1>2. Changed(r, {"phase", "code", "fault"}) /\ reqs'[r].phase = "over" /\ reqs'[r].code = 422
  BY <1>1, EndsChanged
<1>3. Handled(reqs'[r])
  BY <1>1, <1>2 DEF Handled, Changed, Filed, Op
<1>. QED
  BY <1>2, <1>3, OthersHandled

LEMMA FailedHandled ==
    ASSUME HandledOk, NEW r \in Request, reqs[r] # None, NEW fault \in BOOLEAN, Ends(r, 500, fault)
    PROVE  HandledOk'
<1>1. Handled(reqs[r]) /\ DOMAIN reqs = Request
  BY DEF HandledOk
<1>2. Changed(r, {"phase", "code", "fault"}) /\ reqs'[r].phase = "over" /\ reqs'[r].code = 500
  BY <1>1, EndsChanged
<1>3. Handled(reqs'[r])
  BY <1>1, <1>2 DEF Handled, Changed, Filed, Op
<1>. QED
  BY <1>2, <1>3, OthersHandled

\* Its files are written, or it ends.
LEMMA SaveUploadHandled ==
    ASSUME HandledOk, NEW r \in Request, SaveUpload(r)
    PROVE  HandledOk'
<1>1. Handled(reqs[r]) /\ reqs[r] # None /\ reqs[r].phase = "upload" /\ DOMAIN reqs = Request
  BY DEF HandledOk, SaveUpload, At
<1>2. CASE reqs' = [reqs EXCEPT ![r].disk = Written(reqs[r].ask),
                                ![r].phase = IF Op(r) = "convert" THEN "convert" ELSE "edit"]
  <2>1. /\ Changed(r, {"disk", "phase"})
        /\ reqs'[r].disk = Written(reqs[r].ask)
        /\ reqs'[r].phase = IF Op(r) = "convert" THEN "convert" ELSE "edit"
    BY <1>1, <1>2 DEF Changed, Handled
  <2>2. Handled(reqs'[r])
    BY <1>1, <2>1 DEF Handled, Changed, Filed, Op
  <2>. QED
    BY <2>1, <2>2, OthersHandled
<1>3. CASE Ends(r, 500, TRUE)
  BY <1>1, <1>3, FailedHandled
<1>. QED
  BY <1>2, <1>3 DEF SaveUpload

\* The editor's result is kept to be sent.
LEMMA EditHandled ==
    ASSUME HandledOk, NEW r \in Request, Edit(r)
    PROVE  HandledOk'
<1>1. Handled(reqs[r]) /\ reqs[r] # None /\ reqs[r].phase = "edit" /\ DOMAIN reqs = Request
  BY DEF HandledOk, Edit, At
<1>2. Op(r) # "convert"
  BY <1>1 DEF Handled, Op
<1>3. CASE Ends(r, 422, FALSE)
  BY <1>1, <1>2, <1>3, RefusedHandled
<1>5. CASE Ends(r, 500, TRUE)
  BY <1>1, <1>5, FailedHandled
<1>4. CASE Edited(r) # None /\ reqs' = [reqs EXCEPT ![r].out = Edited(r), ![r].phase = "save"]
  <2>1. Changed(r, {"out", "phase"}) /\ reqs'[r].out = Edited(r) /\ reqs'[r].phase = "save"
    BY <1>1, <1>4 DEF Changed, Handled
  <2>2. Deserved(reqs[r].ask, Edited(r))
    BY <1>1, <1>4, EditedDeserved
  <2>3. Handled(reqs'[r])
    BY <1>1, <2>1, <2>2 DEF Handled, Changed, Filed
  <2>. QED
    BY <2>1, <2>3, OthersHandled
<1>. QED
  BY <1>3, <1>4, <1>5 DEF Edit

\* What is sent was made before.
LEMMA SentHandled ==
    ASSUME HandledOk, NEW r \in Request,
           Send(r) \/ CleanUp(r) \/ Save(r) \/ ReturnPreview(r)
    PROVE  HandledOk'
<1>1. Handled(reqs[r]) /\ reqs[r] # None /\ DOMAIN reqs = Request
  BY DEF HandledOk, Send, CleanUp, Save, ReturnPreview, At
<1>2. CASE Send(r)
  <2>1. Changed(r, {"code", "phase"}) /\ reqs'[r].code = 200 /\ reqs'[r].phase = "clean"
    BY <1>1, <1>2 DEF Send, Changed, Handled
  <2>2. Handled(reqs'[r])
    BY <1>1, <1>2, <2>1 DEF Handled, Changed, Filed, Send, At
  <2>. QED
    BY <2>1, <2>2, OthersHandled
<1>3. CASE CleanUp(r)
  <2>1. Changed(r, {"phase"}) /\ reqs'[r].phase = "over"
    BY <1>1, <1>3, GoesChanged DEF CleanUp
  <2>2. Handled(reqs'[r])
    BY <1>1, <1>3, <2>1 DEF Handled, Changed, Filed, CleanUp, At
  <2>. QED
    BY <2>1, <2>2, OthersHandled
<1>4. CASE Save(r)
  <2>1. CASE Goes(r, "send")
    <3>1. Changed(r, {"phase"}) /\ reqs'[r].phase = "send"
      BY <1>1, <2>1, GoesChanged
    <3>2. Handled(reqs'[r])
      BY <1>1, <1>4, <3>1 DEF Handled, Changed, Filed, Save, At
    <3>. QED
      BY <3>1, <3>2, OthersHandled
  <2>2. CASE Refused(r, TRUE)
    <3>1. Op(r) # "convert"
      BY <1>1, <1>4 DEF Handled, Save, At, Op
    <3>. QED
      BY <1>1, <2>2, <3>1, RefusedHandled DEF Refused
  <2>. QED
    BY <1>4, <2>1, <2>2 DEF Save
<1>5. CASE ReturnPreview(r)
  <2>1. Changed(r, {"phase", "code", "fault"}) /\ reqs'[r].phase = "over" /\ reqs'[r].code = 200
    BY <1>1, <1>5, EndsChanged DEF ReturnPreview
  <2>2. Handled(reqs'[r])
    BY <1>1, <1>5, <2>1 DEF Handled, Changed, Filed, ReturnPreview, At
  <2>. QED
    BY <2>1, <2>2, OthersHandled
<1>. QED
  BY <1>2, <1>3, <1>4, <1>5

\* A conversion is refused only if it is hopeless: LibreOffice has a profile
\* for this request alone.
LEMMA ConvertHandled ==
    ASSUME HandledOk, NEW r \in Request,
           \/ ConvertToPdf(r) \/ AutofitXlsxColumns(r) \/ Launch(r) \/ Convert(r) \/ StopAfterTimeout(r)
    PROVE  HandledOk'
<1>1. Handled(reqs[r]) /\ reqs[r] # None /\ DOMAIN reqs = Request
  BY DEF HandledOk, ConvertToPdf, AutofitXlsxColumns, Launch, Convert, StopAfterTimeout, Running, At
<1>2. reqs[r].phase \in {"convert", "autofit", "launch", "office"} /\ Op(r) = "convert"
  BY <1>1 DEF Handled, ConvertToPdf, AutofitXlsxColumns, Launch, Convert, StopAfterTimeout, Running, At, Op
<1>3. Uploaded(r, 1) = reqs[r].ask.files[1] /\ Untouched(reqs[r].ask.files[1].doc)
  BY <1>1, <1>2, UploadedOne DEF Filed
<1>4. CASE ConvertToPdf(r)
  <2>1. CASE Uploaded(r, 1).ext \notin {"docx", "xlsx"} /\ Refused(r, FALSE)
    BY <1>1, <1>3, <2>1, RefusedHandled DEF Refused, Hopeless
  <2>2. CASE Goes(r, IF Uploaded(r, 1).ext = "xlsx" THEN "autofit" ELSE "launch")
    <3>1. Changed(r, {"phase"}) /\ reqs'[r].phase \in {"autofit", "launch"}
      BY <1>1, <2>2, GoesChanged
    <3>2. Handled(reqs'[r])
      BY <1>1, <1>2, <3>1 DEF Handled, Changed, Filed, Op
    <3>. QED
      BY <3>1, <3>2, OthersHandled
  <2>. QED
    BY <1>4, <2>1, <2>2 DEF ConvertToPdf
<1>5. CASE AutofitXlsxColumns(r)
  <2>1. CASE Goes(r, "launch")
    <3>1. Changed(r, {"phase"}) /\ reqs'[r].phase = "launch"
      BY <1>1, <2>1, GoesChanged
    <3>2. Handled(reqs'[r])
      BY <1>1, <1>2, <3>1 DEF Handled, Changed, Filed, Op
    <3>. QED
      BY <3>1, <3>2, OthersHandled
  <2>2. CASE Ends(r, 500, FALSE)
    BY <1>1, <2>2, FailedHandled
  <2>. QED
    BY <1>5, <2>1, <2>2 DEF AutofitXlsxColumns
<1>6. CASE Launch(r)
  <2>1. CASE Ends(r, 500, TRUE)
    BY <1>1, <2>1, FailedHandled
  <2>2. CASE ~Ends(r, 500, TRUE)
    <3>1. \A q \in Request \ {r} : ProfileOf(q) # ProfileOf(r)
      BY DEF ProfileOf
    <3>2. reqs' = [reqs EXCEPT ![r].phase = "office", ![r].office = "works"]
      BY <1>6, <2>2, <3>1 DEF Launch
    <3>3. Changed(r, {"office", "phase"}) /\ reqs'[r].office = "works" /\ reqs'[r].phase = "office"
      BY <1>1, <3>2 DEF Changed, Handled
    <3>4. Handled(reqs'[r])
      BY <1>1, <1>2, <3>3 DEF Handled, Changed, Filed, Op
    <3>. QED
      BY <3>3, <3>4, OthersHandled
  <2>. QED
    BY <2>1, <2>2
<1>7. CASE Convert(r)
  <2>1. reqs[r].office = "works"
    BY <1>1, <1>7 DEF Convert, Running, At, Handled
  <2>2. CASE Uploaded(r, 1).opens
    <3>1. reqs' = [reqs EXCEPT ![r].phase = "send", ![r].out = Uploaded(r, 1).doc]
      BY <1>7, <2>1, <2>2 DEF Convert
    <3>2. Changed(r, {"out", "phase"}) /\ reqs'[r].out = Uploaded(r, 1).doc /\ reqs'[r].phase = "send"
      BY <1>1, <3>1 DEF Changed, Handled
    <3>3. Deserved(reqs[r].ask, Uploaded(r, 1).doc)
      BY <1>1, <1>2, <1>3, OperationDeserved DEF Handled, Op
    <3>4. Handled(reqs'[r])
      BY <1>1, <1>2, <3>2, <3>3 DEF Handled, Changed, Filed, Op
    <3>. QED
      BY <3>2, <3>4, OthersHandled
  <2>3. CASE ~Uploaded(r, 1).opens
    <3>1. Refused(r, FALSE)
      BY <1>7, <2>3 DEF Convert
    <3>. QED
      BY <1>1, <1>3, <2>3, <3>1, RefusedHandled DEF Refused, Hopeless
  <2>. QED
    BY <2>2, <2>3
<1>8. CASE StopAfterTimeout(r)
  BY <1>1, <1>3, <1>8, RefusedHandled DEF StopAfterTimeout, Refused, Hopeless
<1>. QED
  BY <1>4, <1>5, <1>6, <1>7, <1>8

\* Requests are handled as they deserve on every way they take.
LEMMA NextHandled ==
    ASSUME HandledOk, [Next]_vars
    PROVE  HandledOk'
<1>1. CASE UNCHANGED vars
  BY <1>1 DEF vars, HandledOk
<1>2. ASSUME NEW r \in Request, Begin(r) \/ Work(r)
      PROVE  HandledOk'
  BY <1>2, BeginHandled, SaveUploadHandled, EditHandled, SentHandled, ConvertHandled DEF Work
<1>. QED
  BY <1>1, <1>2 DEF Next

-----------------------------------------------------------------------------
(* Directories *)

\* A step removes some directories of a request and makes others.
Swept(r, gone, made) ==
    \A d : d \in tmp' <=> \/ d \in tmp /\ ~\E use \in gone : d = <<r, use>>
                         \/ \E use \in made : d = <<r, use>>

\* It keeps them in order if it does so for this request.
LEMMA Housekeeping ==
    ASSUME HandledOk, HandledOk', HeldOk, NeededOk, NEW r \in Request, NEW gone, NEW made,
           \A q \in Request \ {r} : reqs'[q] = reqs[q],
           reqs'[r] # None,
           Swept(r, gone, made),
           reqs[r] # None => Holds(reqs[r]) \ gone \subseteq Holds(reqs'[r]),
           made \subseteq Holds(reqs'[r]),
           Needs(reqs'[r]) \subseteq made \cup (IF reqs[r] = None THEN {} ELSE Needs(reqs[r]) \ gone)
    PROVE  HeldOk' /\ NeededOk'
<1>1. ASSUME NEW d \in tmp'
      PROVE  \E q \in Request : reqs'[q] # None /\ \E use \in Holds(reqs'[q]) : d = <<q, use>>
  <2>0. (d \in tmp /\ ~\E use \in gone : d = <<r, use>>) \/ \E use \in made : d = <<r, use>>
    BY DEF Swept
  <2>1. CASE \E use \in made : d = <<r, use>>
    BY <2>1
  <2>2. CASE d \in tmp /\ ~\E use \in gone : d = <<r, use>>
    <3>1. PICK q \in Request : reqs[q] # None /\ \E use \in Holds(reqs[q]) : d = <<q, use>>
      BY <2>2 DEF HeldOk
    <3>2. CASE q = r
      BY <2>2, <3>1, <3>2
    <3>3. CASE q # r
      BY <3>1, <3>3
    <3>. QED
      BY <3>2, <3>3
  <2>. QED
    BY <2>0, <2>1, <2>2
<1>2. ASSUME NEW q \in Request, reqs'[q] # None, NEW use \in Needs(reqs'[q])
      PROVE  <<q, use>> \in tmp'
  <2>1. CASE q = r
    <3>1. CASE use \in made
      BY <2>1, <3>1 DEF Swept
    <3>2. CASE use \notin made
      <4>1. reqs[r] # None /\ use \in Needs(reqs[r]) \ gone
        BY <1>2, <2>1, <3>2
      <4>2. <<r, use>> \in tmp
        BY <4>1 DEF NeededOk
      <4>3. ~\E u \in gone : <<r, use>> = <<r, u>>
        BY <4>1
      <4>. QED
        BY <2>1, <4>2, <4>3 DEF Swept
    <3>. QED
      BY <3>1, <3>2
  <2>2. CASE q # r
    <3>1. <<q, use>> \in tmp
      BY <1>2, <2>2 DEF NeededOk
    <3>2. ~\E u \in gone : <<q, use>> = <<r, u>>
      BY <2>2
    <3>. QED
      BY <3>1, <3>2 DEF Swept
  <2>. QED
    BY <2>1, <2>2
<1>3. HeldOk'
  BY <1>1 DEF HeldOk
<1>4. NeededOk'
  BY <1>2 DEF NeededOk
<1>. QED
  BY <1>3, <1>4

\* None is no request.
Apart == \A q : DOMAIN q = {"ask", "phase", "code", "fault", "disk", "out", "office"} => q # None

\* A request that goes on keeps its order if its directories follow its step.
LEMMA StepKept ==
    ASSUME Apart, HandledOk, HandledOk', HeldOk, NeededOk, NEW r \in Request, reqs[r] # None,
           NEW fields, Changed(r, fields), NEW gone, NEW made, Swept(r, gone, made),
           Holds(reqs[r]) \ gone \subseteq Holds(reqs'[r]), made \subseteq Holds(reqs'[r]),
           Needs(reqs'[r]) \subseteq made \cup (Needs(reqs[r]) \ gone)
    PROVE  HeldOk' /\ NeededOk'
<1>1. DOMAIN reqs'[r] = {"ask", "phase", "code", "fault", "disk", "out", "office"}
  BY DEF Changed, HandledOk, Handled
<1>2. reqs'[r] # None
  BY <1>1 DEF Apart
<1>3. \A q \in Request \ {r} : reqs'[q] = reqs[q]
  BY DEF Changed
<1>. QED
  BY <1>2, <1>3, Housekeeping

\* Nothing there is touched, or these uses are removed, or made.
LEMMA Sweeps ==
    ASSUME NEW r
    PROVE  /\ tmp' = tmp => Swept(r, {}, {})
           /\ \A uses : Removes(r, uses) => Swept(r, uses, {})
           /\ \A uses : Makes(r, uses) => Swept(r, {}, uses)
BY DEF Swept, Removes, Makes

\* A request that ends with an error has removed what a refusal removes, or may
\* leave what it was sent.
LEMMA EndKept ==
    ASSUME Apart, HandledOk, HandledOk', HeldOk, NeededOk, NEW r \in Request, reqs[r] # None,
           Changed(r, {"phase", "code", "fault"}), reqs'[r].phase = "over",
           NEW gone, NEW made, Swept(r, gone, made),
           made \subseteq IF Op(r) = "signature" THEN {"signature"} ELSE {},
           Holds(reqs[r]) \ gone
              \subseteq {"signature"} \cup (IF reqs'[r].code = 500 THEN {"upload"} ELSE {})
    PROVE  HeldOk' /\ NeededOk'
<1>1. Handled(reqs[r])
  BY DEF HandledOk
<1>2. reqs'[r].phase = "over"
  OBVIOUS
<1>3. reqs'[r].ask = reqs[r].ask
  BY <1>1 DEF Changed, Handled
<1>4. Holds(reqs'[r]) = (IF Op(r) = "signature" THEN {"signature"} ELSE {})
                            \cup (IF reqs'[r].code = 500 THEN {"upload"} ELSE {})
  BY <1>2, <1>3 DEF Holds, Op
<1>5. "signature" \in Holds(reqs[r]) => Op(r) = "signature"
  BY DEF Holds, Op
<1>6. Holds(reqs[r]) \ gone \subseteq Holds(reqs'[r]) /\ made \subseteq Holds(reqs'[r])
  BY <1>4, <1>5
<1>7. Needs(reqs'[r]) = {}
  BY <1>2 DEF Needs
<1>. QED
  BY <1>6, <1>7, StepKept

\* A refusal removes all but the signature.
LEMMA RefusedKept ==
    ASSUME Apart, HandledOk, HandledOk', HeldOk, NeededOk, NEW r \in Request, reqs[r] # None,
           NEW fault \in BOOLEAN, Refused(r, fault)
    PROVE  HeldOk' /\ NeededOk'
<1> DEFINE gone == {"upload", "output", "profile"}
<1>1. Ends(r, 422, fault) /\ Swept(r, gone, {})
  BY Sweeps DEF Refused
<1>2. Holds(reqs[r]) \ gone \subseteq {"signature"}
  BY DEF Holds
<1> HIDE DEF gone
<1>3. Handled(reqs[r]) /\ DOMAIN reqs = Request
  BY DEF HandledOk
<1>4. Changed(r, {"phase", "code", "fault"}) /\ reqs'[r].phase = "over"
  BY <1>1, <1>3, EndsChanged
<1>. QED
  BY <1>1, <1>2, <1>4, EndKept

\* Begun, with a directory for the upload, or refused before there is one.
LEMMA BeginKept ==
    ASSUME Apart, HandledOk, HandledOk', HeldOk, NeededOk, NEW r \in Request, Begin(r)
    PROVE  HeldOk' /\ NeededOk'
<1>0. \E ask \in Asked :
         LET good == WellAsked(ask)
         IN  /\ reqs' = [reqs EXCEPT ![r] = [ask |-> ask, phase |-> IF good THEN "upload" ELSE "over",
                                             code |-> IF good THEN 0 ELSE 422, fault |-> FALSE,
                                             disk |-> None, out |-> None, office |-> None]]
             /\ IF good THEN Makes(r, {"upload"}) ELSE UNCHANGED tmp
  BY Zenon DEF Begin
<1>1. PICK ask \in Asked :
         /\ reqs' = [reqs EXCEPT ![r] = [ask |-> ask, phase |-> IF WellAsked(ask) THEN "upload" ELSE "over",
                                         code |-> IF WellAsked(ask) THEN 0 ELSE 422, fault |-> FALSE,
                                         disk |-> None, out |-> None, office |-> None]]
         /\ IF WellAsked(ask) THEN Makes(r, {"upload"}) ELSE UNCHANGED tmp
  BY <1>0, Zenon
<1>2. \A q \in Request \ {r} : reqs'[q] = reqs[q]
  BY <1>1 DEF HandledOk
<1>3. reqs'[r] = [ask |-> ask, phase |-> IF WellAsked(ask) THEN "upload" ELSE "over",
                  code |-> IF WellAsked(ask) THEN 0 ELSE 422, fault |-> FALSE,
                  disk |-> None, out |-> None, office |-> None]
  BY <1>1 DEF HandledOk
<1>4. DOMAIN reqs'[r] = {"ask", "phase", "code", "fault", "disk", "out", "office"}
  BY <1>3
<1>5. reqs'[r] # None /\ reqs[r] = None
  BY <1>4 DEF Apart, Begin
<1>6. Needs(reqs'[r]) = {}
  BY <1>3 DEF Needs
<1>7. CASE WellAsked(ask)
  <2>1. Swept(r, {}, {"upload"})
    BY <1>1, <1>7, Sweeps
  <2>2. "upload" \in Holds(reqs'[r])
    BY <1>3, <1>7 DEF Holds
  <2>. QED
    BY <1>2, <1>5, <1>6, <2>1, <2>2, Housekeeping
<1>8. CASE ~WellAsked(ask)
  <2>1. Swept(r, {}, {})
    BY <1>1, <1>8, Sweeps
  <2>. QED
    BY <1>2, <1>5, <1>6, <2>1, Housekeeping
<1>. QED
  BY <1>7, <1>8

\* An upload that fails stays, but for a preview's.
LEMMA SaveUploadKept ==
    ASSUME Apart, HandledOk, HandledOk', HeldOk, NeededOk, NEW r \in Request, SaveUpload(r)
    PROVE  HeldOk' /\ NeededOk'
<1>1. Handled(reqs[r]) /\ reqs[r] # None /\ reqs[r].phase = "upload" /\ DOMAIN reqs = Request
  BY DEF HandledOk, SaveUpload, At
<1>2. CASE /\ reqs' = [reqs EXCEPT ![r].disk = Written(reqs[r].ask),
                                   ![r].phase = IF Op(r) = "convert" THEN "convert" ELSE "edit"]
           /\ tmp' = tmp
  <2>1. /\ Changed(r, {"disk", "phase"})
        /\ reqs'[r].phase \in {"convert", "edit"}
        /\ reqs'[r].ask = reqs[r].ask
    BY <1>1, <1>2 DEF Changed, Handled
  <2>2. Holds(reqs'[r]) = Holds(reqs[r]) /\ Needs(reqs'[r]) = {}
    BY <1>1, <2>1 DEF Holds, Needs
  <2>3. Swept(r, {}, {})
    BY <1>2, Sweeps
  <2>. QED
    BY <1>1, <2>1, <2>2, <2>3, StepKept
<1>3. CASE Ends(r, 500, TRUE) /\ (Removes(r, {"upload"}) \/ tmp' = tmp)
  <2>1. Swept(r, {"upload"}, {}) \/ Swept(r, {}, {})
    BY <1>3, Sweeps
  <2>2. Holds(reqs[r]) \subseteq {"signature", "upload"}
    BY <1>1 DEF Holds
  <2>3. Holds(reqs[r]) \ {"upload"} \subseteq {"signature"} \cup {"upload"}
    BY <2>2
  <2>4. Changed(r, {"phase", "code", "fault"}) /\ reqs'[r].phase = "over" /\ reqs'[r].code = 500
    BY <1>1, <1>3 DEF Ends, Changed, Handled
  <2>5. CASE Swept(r, {"upload"}, {})
    BY <1>1, <2>3, <2>4, <2>5, EndKept
  <2>6. CASE Swept(r, {}, {})
    BY <1>1, <2>2, <2>4, <2>6, EndKept
  <2>. QED
    BY <2>1, <2>5, <2>6
<1>. QED
  BY <1>2, <1>3 DEF SaveUpload

\* An edit may leave the signature's image, and needs a directory for its
\* result.
LEMMA EditKept ==
    ASSUME Apart, HandledOk, HandledOk', HeldOk, NeededOk, NEW r \in Request, Edit(r)
    PROVE  HeldOk' /\ NeededOk'
<1> DEFINE image == IF Leaves(r) = {} THEN {} ELSE {"signature"}
           result == IF Op(r) = "preview" THEN {} ELSE {"output"}
<1>1. Handled(reqs[r]) /\ reqs[r] # None /\ reqs[r].phase = "edit" /\ DOMAIN reqs = Request
  BY DEF HandledOk, Edit, At
<1>2. /\ image \subseteq IF Op(r) = "signature" THEN {"signature"} ELSE {}
      /\ \A d : d \in Leaves(r) <=> \E use \in image : d = <<r, use>>
  BY DEF Leaves
<1>3. Holds(reqs[r]) = {"upload"} \cup IF Op(r) = "signature" THEN {"signature"} ELSE {}
  BY <1>1 DEF Holds, Op
<1> HIDE DEF image
<1>4. CASE Ends(r, 422, FALSE) /\ tmp' = (tmp \ {<<r, "upload">>}) \cup Leaves(r)
  <2>1. Swept(r, {"upload"}, image)
    BY <1>2, <1>4 DEF Swept
  <2>2. Holds(reqs[r]) \ {"upload"} \subseteq {"signature"}
    BY <1>3
  <2>3. Changed(r, {"phase", "code", "fault"}) /\ reqs'[r].phase = "over"
    BY <1>1, <1>4 DEF Ends, Changed, Handled
  <2>. QED
    BY <1>1, <1>2, <2>1, <2>2, <2>3, EndKept
<1>5. CASE Ends(r, 500, TRUE) /\ tmp' = tmp \cup Leaves(r)
  <2>1. Swept(r, {}, image)
    BY <1>2, <1>5 DEF Swept
  <2>3. Changed(r, {"phase", "code", "fault"}) /\ reqs'[r].phase = "over" /\ reqs'[r].code = 500
    BY <1>1, <1>5 DEF Ends, Changed, Handled
  <2>4. reqs'[r].ask = reqs[r].ask
    BY <1>1, <2>3 DEF Changed, Handled
  <2>5. Holds(reqs'[r]) = Holds(reqs[r]) /\ Needs(reqs'[r]) = {}
    BY <1>3, <2>3, <2>4 DEF Holds, Needs, Op
  <2>6. image \subseteq Holds(reqs'[r])
    BY <1>2, <1>3, <2>5
  <2>. QED
    BY <1>1, <2>1, <2>3, <2>5, <2>6, StepKept
<1>6. CASE /\ reqs' = [reqs EXCEPT ![r].out = Edited(r), ![r].phase = "save"]
           /\ tmp' = tmp \cup Leaves(r) \cup (IF Op(r) = "preview" THEN {} ELSE {<<r, "output">>})
  <2>1. Changed(r, {"out", "phase"}) /\ reqs'[r].phase = "save" /\ reqs'[r].ask = reqs[r].ask
    BY <1>1, <1>6 DEF Changed, Handled
  <2>2. Swept(r, {}, image \cup result)
    BY <1>2, <1>6 DEF Swept
  <2>3. Holds(reqs'[r]) = Holds(reqs[r]) \cup result /\ Needs(reqs'[r]) = result
    BY <1>3, <2>1 DEF Holds, Needs, Op
  <2> HIDE DEF result
  <2>4. Holds(reqs[r]) \ {} \subseteq Holds(reqs'[r]) /\ image \cup result \subseteq Holds(reqs'[r])
    BY <1>2, <1>3, <2>3
  <2>5. Needs(reqs'[r]) \subseteq (image \cup result) \cup (Needs(reqs[r]) \ {})
    BY <2>3
  <2>. QED
    BY <1>1, <2>1, <2>2, <2>4, <2>5, StepKept
<1>. QED
  BY <1>4, <1>5, <1>6 DEF Edit

\* What is sent is there until it has been sent.
LEMMA SentKept ==
    ASSUME Apart, HandledOk, HandledOk', HeldOk, NeededOk, NEW r \in Request,
           Send(r) \/ CleanUp(r) \/ Save(r) \/ ReturnPreview(r)
    PROVE  HeldOk' /\ NeededOk'
<1>1. Handled(reqs[r]) /\ reqs[r] # None /\ DOMAIN reqs = Request
  BY DEF HandledOk, Send, CleanUp, Save, ReturnPreview, At
<1>2. CASE Send(r)
  <2>1. Changed(r, {"code", "phase"}) /\ reqs'[r].phase = "clean" /\ reqs'[r].ask = reqs[r].ask
    BY <1>1, <1>2 DEF Send, Changed, Handled
  <2>0. reqs[r].phase = "send"
    BY <1>2 DEF Send, At
  <2>2. Holds(reqs'[r]) = Holds(reqs[r]) /\ Needs(reqs'[r]) = {}
    BY <2>0, <2>1 DEF Holds, Needs
  <2>3. Swept(r, {}, {})
    BY <1>2, Sweeps DEF Send
  <2>. QED
    BY <1>1, <2>1, <2>2, <2>3, StepKept
<1>3. CASE CleanUp(r)
  <2>1. Changed(r, {"phase"}) /\ reqs'[r].phase = "over" /\ reqs'[r].ask = reqs[r].ask
    BY <1>1, <1>3 DEF CleanUp, Goes, Changed, Handled
  <2>2. Swept(r, {"upload", "output"}, {})
    BY <1>3, Sweeps DEF CleanUp
  <2>3. Holds(reqs[r]) \ {"upload", "output"} \subseteq Holds(reqs'[r]) /\ Needs(reqs'[r]) = {}
    BY <1>3, <2>1 DEF Holds, Needs, CleanUp, At
  <2>. QED
    BY <1>1, <2>1, <2>2, <2>3, StepKept
<1>4. CASE Save(r)
  <2>1. CASE Goes(r, "send") /\ tmp' = tmp
    <3>1. Changed(r, {"phase"}) /\ reqs'[r].phase = "send" /\ reqs'[r].ask = reqs[r].ask
      BY <1>1, <2>1 DEF Goes, Changed, Handled
    <3>2. Swept(r, {}, {})
      BY <2>1, Sweeps
    <3>3. Holds(reqs'[r]) = Holds(reqs[r]) /\ Needs(reqs'[r]) = Needs(reqs[r])
      BY <1>4, <3>1 DEF Holds, Needs, Save, At, Op
    <3>. QED
      BY <1>1, <3>1, <3>2, <3>3, StepKept
  <2>2. CASE Refused(r, TRUE)
    BY <1>1, <2>2, RefusedKept
  <2>. QED
    BY <1>4, <2>1, <2>2 DEF Save
<1>5. CASE ReturnPreview(r)
  <2>1. Changed(r, {"phase", "code", "fault"}) /\ reqs'[r].phase = "over"
    BY <1>1, <1>5 DEF ReturnPreview, Ends, Changed, Handled
  <2>2. Swept(r, {"upload"}, {})
    BY <1>5, Sweeps DEF ReturnPreview
  <2>3. Holds(reqs[r]) \ {"upload"} \subseteq {"signature"}
    BY <1>5 DEF Holds, ReturnPreview, At, Op
  <2>. QED
    BY <1>1, <2>1, <2>2, <2>3, EndKept
<1>. QED
  BY <1>2, <1>3, <1>4, <1>5

\* LibreOffice's profile goes with the conversion it was for.
LEMMA ConvertKept ==
    ASSUME Apart, HandledOk, HandledOk', HeldOk, NeededOk, NEW r \in Request,
           \/ ConvertToPdf(r) \/ AutofitXlsxColumns(r) \/ Launch(r) \/ Convert(r) \/ StopAfterTimeout(r)
    PROVE  HeldOk' /\ NeededOk'
<1>1. Handled(reqs[r]) /\ reqs[r] # None /\ DOMAIN reqs = Request
  BY DEF HandledOk, ConvertToPdf, AutofitXlsxColumns, Launch, Convert, StopAfterTimeout, Running, At
<1>2. reqs[r].phase \in {"convert", "autofit", "launch", "office"} /\ reqs[r].ask.op = "convert"
  BY <1>1 DEF Handled, ConvertToPdf, AutofitXlsxColumns, Launch, Convert, StopAfterTimeout, Running, At
<1>3. CASE \E phase \in {"autofit", "launch"} :
              Goes(r, phase) /\ Makes(r, {"output", "profile"}) /\ reqs[r].phase = "convert"
  <2>1. PICK phase \in {"autofit", "launch"} : reqs' = [reqs EXCEPT ![r].phase = phase]
    BY <1>3 DEF Goes
  <2>2. Changed(r, {"phase"}) /\ reqs'[r].phase = phase /\ reqs'[r].ask = reqs[r].ask
    BY <1>1, <2>1 DEF Changed, Handled
  <2>3. Swept(r, {}, {"output", "profile"})
    BY <1>3, Sweeps
  <2>4. /\ Holds(reqs[r]) = {"upload"} /\ Holds(reqs'[r]) = {"upload", "output", "profile"}
        /\ Needs(reqs'[r]) = {"output"}
    BY <1>2, <1>3, <2>2 DEF Holds, Needs
  <2>5. /\ Holds(reqs[r]) \ {} \subseteq Holds(reqs'[r]) /\ {"output", "profile"} \subseteq Holds(reqs'[r])
        /\ Needs(reqs'[r]) \subseteq {"output", "profile"} \cup (Needs(reqs[r]) \ {})
    BY <2>4
  <2>. QED
    BY <1>1, <2>2, <2>3, <2>5, StepKept
<1>4. CASE Goes(r, "launch") /\ tmp' = tmp /\ reqs[r].phase = "autofit"
  <2>1. Changed(r, {"phase"}) /\ reqs'[r].phase = "launch" /\ reqs'[r].ask = reqs[r].ask
    BY <1>1, <1>4 DEF Goes, Changed, Handled
  <2>2. Swept(r, {}, {})
    BY <1>4, Sweeps
  <2>3. Holds(reqs'[r]) = Holds(reqs[r]) /\ Needs(reqs'[r]) = Needs(reqs[r])
    BY <1>4, <2>1 DEF Holds, Needs
  <2>. QED
    BY <1>1, <2>1, <2>2, <2>3, StepKept
<1>5. CASE (Ends(r, 500, FALSE) \/ Ends(r, 500, TRUE)) /\ Removes(r, {"output", "profile"})
  <2>1. Changed(r, {"phase", "code", "fault"}) /\ reqs'[r].phase = "over" /\ reqs'[r].code = 500
    BY <1>1, <1>5 DEF Ends, Changed, Handled
  <2>2. Swept(r, {"output", "profile"}, {})
    BY <1>5, Sweeps
  <2>3. Holds(reqs[r]) \ {"output", "profile"}
           \subseteq {"signature"} \cup (IF reqs'[r].code = 500 THEN {"upload"} ELSE {})
    BY <1>2, <2>1 DEF Holds
  <2>. QED
    BY <1>1, <2>1, <2>2, <2>3, EndKept
<1>6. CASE /\ \E office \in {"silent", "works"} :
                 reqs' = [reqs EXCEPT ![r].phase = "office", ![r].office = office]
           /\ tmp' = tmp /\ reqs[r].phase = "launch"
  <2>1. Changed(r, {"phase", "office"}) /\ reqs'[r].phase = "office" /\ reqs'[r].ask = reqs[r].ask
    BY <1>1, <1>6 DEF Changed, Handled
  <2>2. Swept(r, {}, {})
    BY <1>6, Sweeps
  <2>3. Holds(reqs'[r]) = Holds(reqs[r]) /\ Needs(reqs'[r]) = Needs(reqs[r])
    BY <1>6, <2>1 DEF Holds, Needs
  <2>. QED
    BY <1>1, <2>1, <2>2, <2>3, StepKept
<1>7. CASE /\ reqs' = [reqs EXCEPT ![r].phase = "send", ![r].out = Uploaded(r, 1).doc]
           /\ Removes(r, {"profile"}) /\ reqs[r].phase = "office"
  <2>1. Changed(r, {"phase", "out"}) /\ reqs'[r].phase = "send" /\ reqs'[r].ask = reqs[r].ask
    BY <1>1, <1>7 DEF Changed, Handled
  <2>2. Swept(r, {"profile"}, {})
    BY <1>7, Sweeps
  <2>3. /\ Holds(reqs[r]) = {"upload", "output", "profile"} /\ Holds(reqs'[r]) = {"upload", "output"}
        /\ Needs(reqs'[r]) = {"output"} /\ Needs(reqs[r]) = {"output"}
    BY <1>2, <1>7, <2>1 DEF Holds, Needs
  <2>4. /\ Holds(reqs[r]) \ {"profile"} \subseteq Holds(reqs'[r])
        /\ Needs(reqs'[r]) \subseteq {} \cup (Needs(reqs[r]) \ {"profile"})
    BY <2>3
  <2>. QED
    BY <1>1, <2>1, <2>2, <2>4, StepKept
<1>8. CASE Refused(r, FALSE)
  BY <1>1, <1>8, RefusedKept
<1>9. ConvertToPdf(r) => Refused(r, FALSE) \/ \E phase \in {"autofit", "launch"} :
              Goes(r, phase) /\ Makes(r, {"output", "profile"}) /\ reqs[r].phase = "convert"
  BY DEF ConvertToPdf, At, Goes
<1>10. AutofitXlsxColumns(r) =>
          \/ Goes(r, "launch") /\ tmp' = tmp /\ reqs[r].phase = "autofit"
          \/ Ends(r, 500, FALSE) /\ Removes(r, {"output", "profile"})
  BY DEF AutofitXlsxColumns, At
<1>11. Launch(r) =>
          \/ /\ \E office \in {"silent", "works"} :
                   reqs' = [reqs EXCEPT ![r].phase = "office", ![r].office = office]
             /\ tmp' = tmp /\ reqs[r].phase = "launch"
          \/ Ends(r, 500, TRUE) /\ Removes(r, {"output", "profile"})
  BY DEF Launch, At
<1>12. Convert(r) =>
          \/ /\ reqs' = [reqs EXCEPT ![r].phase = "send", ![r].out = Uploaded(r, 1).doc]
             /\ Removes(r, {"profile"}) /\ reqs[r].phase = "office"
          \/ Refused(r, FALSE)
  BY DEF Convert, Running, At
<1>13. StopAfterTimeout(r) => Refused(r, FALSE)
  BY DEF StopAfterTimeout
<1>. QED
  BY <1>3, <1>4, <1>5, <1>6, <1>7, <1>8, <1>9, <1>10, <1>11, <1>12, <1>13

\* The directories of all requests are kept in order.
LEMMA NextKept ==
    ASSUME Apart, HandledOk, HeldOk, NeededOk, [Next]_vars
    PROVE  HeldOk' /\ NeededOk'
<1>0. HandledOk'
  BY NextHandled
<1>1. CASE UNCHANGED vars
  BY <1>1 DEF vars, HeldOk, NeededOk
<1>2. ASSUME NEW r \in Request, Begin(r) \/ Work(r)
      PROVE  HeldOk' /\ NeededOk'
  BY <1>0, <1>2, BeginKept, SaveUploadKept, EditKept, SentKept, ConvertKept DEF Work
<1>. QED
  BY <1>1, <1>2 DEF Next

-----------------------------------------------------------------------------
(* Theorems *)

\* A request that got a file got the pages it asked for in their order, each
\* with the marks, the text and the rotation asked for it and with no other, and
\* the fields and the password asked for; and none is refused a conversion that
\* can be done, whatever is converted next to it.
THEOREM AnswerDeservedInvariant == Spec => []AnswerDeserved
<1>1. Init => HandledOk
  BY DEF Init, HandledOk
<1>2. HandledOk /\ [Next]_vars => HandledOk'
  BY NextHandled
<1>3. HandledOk => AnswerDeserved
  BY DEF HandledOk, Handled, AnswerDeserved, Op
<1>. QED
  BY <1>1, <1>2, <1>3, PTL DEF Spec

\* A request that is over leaves no directory but what may stay; while one goes
\* on, what it is to send is there.
Tidy ==
    \A r \in Request :
        /\ At(r, "over") => {d \in tmp : d[1] = r} \subseteq {r} \X Leftovers(r)
        /\ At(r, "send") => <<r, "output">> \in tmp

\* Whatever fails, requests clean up, and none cleans up for another.
THEOREM TidyInvariant ==
    ASSUME Apart
    PROVE  Spec => []Tidy
<1> DEFINE Inv == HandledOk /\ HeldOk /\ NeededOk
<1>1. Init => Inv
  BY DEF Init, HandledOk, HeldOk, NeededOk
<1>2. Inv /\ [Next]_vars => Inv'
  BY NextHandled, NextKept
<1>3. Inv => Tidy
  <2> SUFFICES ASSUME Inv, NEW r \in Request
               PROVE  /\ At(r, "over") => {d \in tmp : d[1] = r} \subseteq {r} \X Leftovers(r)
                      /\ At(r, "send") => <<r, "output">> \in tmp
    BY DEF Tidy
  <2>1. ASSUME At(r, "over"), NEW d \in tmp, d[1] = r
        PROVE  d \in {r} \X Leftovers(r)
    <3>1. PICK q \in Request : reqs[q] # None /\ \E use \in Holds(reqs[q]) : d = <<q, use>>
      BY DEF HeldOk
    <3>2. PICK use \in Holds(reqs[r]) : d = <<r, use>>
      BY <2>1, <3>1
    <3>3. Holds(reqs[r]) \subseteq Leftovers(r)
      BY <2>1 DEF Holds, Leftovers, At, Op
    <3>. QED
      BY <3>2, <3>3
  <2>2. ASSUME At(r, "send")
        PROVE  <<r, "output">> \in tmp
    <3>1. reqs[r] # None /\ "output" \in Needs(reqs[r])
      BY <2>2 DEF Needs, At
    <3>. QED
      BY <3>1 DEF NeededOk
  <2>. QED
    BY <2>1, <2>2
<1>. QED
  BY <1>1, <1>2, <1>3, PTL DEF Spec

-----------------------------------------------------------------------------
(* Towards the end *)

Rank(phase) ==
    CASE phase = "upload" -> 0 [] phase \in {"edit", "convert"} -> 1 [] phase \in {"save", "autofit"} -> 2
      [] phase = "launch" -> 3 [] phase = "office" -> 4 [] phase = "send" -> 5
      [] phase = "clean" -> 6 [] OTHER -> 7

\* A step of a request brings it nearer to its end, and an answer once given
\* stays: no way through the editor or the converter has a loop.
Nearer(r) ==
    reqs'[r] # reqs[r] =>
        /\ Rank(reqs[r].phase) < Rank(reqs'[r].phase)
        /\ reqs'[r].ask = reqs[r].ask
        /\ reqs[r].code # 0 => reqs'[r].code = reqs[r].code
Forward == \A r \in Request : reqs[r] # None => Nearer(r)

\* The steps of a request, one by one.
LEMMA WorkNearer ==
    ASSUME HandledOk, NEW r \in Request, Work(r)
    PROVE  /\ \A q \in Request \ {r} : reqs'[q] = reqs[q]
           /\ Nearer(r)
<1>1. Handled(reqs[r]) /\ reqs[r] # None /\ DOMAIN reqs = Request
  BY DEF HandledOk, Work, SaveUpload, Send, CleanUp, Edit, ReturnPreview, Save, ConvertToPdf,
         AutofitXlsxColumns, Launch, Convert, StopAfterTimeout, Running, At
<1> DEFINE Moved(low, high) ==
      /\ \A q \in Request \ {r} : reqs'[q] = reqs[q]
      /\ reqs'[r].ask = reqs[r].ask
      /\ reqs[r].phase \in low /\ reqs'[r].phase \in high
      /\ reqs[r].phase # "clean" => reqs[r].code = 0
      /\ reqs[r].phase = "clean" => reqs'[r].code = reqs[r].code
<1>2. reqs[r].phase \in {"upload"} \cup (Filed \ {"clean"}) => reqs[r].code = 0
  BY <1>1 DEF Handled
<1>4. SaveUpload(r) => Moved({"upload"}, {"edit", "convert", "over"})
  BY <1>1, <1>2 DEF SaveUpload, Ends, At, Handled
<1>5. Edit(r) => Moved({"edit"}, {"save", "over"})
  BY <1>1, <1>2 DEF Edit, Ends, At, Handled, Filed
<1>6. Send(r) => Moved({"send"}, {"clean"})
  BY <1>1, <1>2 DEF Send, At, Handled, Filed
<1>7. CleanUp(r) => Moved({"clean"}, {"over"})
  BY <1>1, <1>2 DEF CleanUp, Goes, At, Handled, Filed
<1>8. Save(r) \/ ReturnPreview(r) => Moved({"save"}, {"send", "over"})
  BY <1>1, <1>2 DEF Save, ReturnPreview, Refused, Goes, Ends, At, Handled, Filed
<1>9. ConvertToPdf(r) => Moved({"convert"}, {"autofit", "launch", "over"})
  BY <1>1, <1>2 DEF ConvertToPdf, Refused, Goes, Ends, At, Handled, Filed
<1>10. AutofitXlsxColumns(r) => Moved({"autofit"}, {"launch", "over"})
  BY <1>1, <1>2 DEF AutofitXlsxColumns, Goes, Ends, At, Handled, Filed
<1>11. Launch(r) => Moved({"launch"}, {"office", "over"})
  BY <1>1, <1>2 DEF Launch, Ends, At, Handled, Filed
<1>12. Convert(r) \/ StopAfterTimeout(r) => Moved({"office"}, {"send", "over"})
  BY <1>1, <1>2 DEF Convert, StopAfterTimeout, Running, Refused, Ends, At, Handled, Filed
<1>. QED
  BY <1>4, <1>5, <1>6, <1>7, <1>8, <1>9, <1>10, <1>11, <1>12 DEF Work, Nearer, Rank

\* Every step of a request is a step towards its end: none comes back to where
\* it was, none is answered twice.
THEOREM TowardsTheEnd == Spec => [][Forward]_vars
<1>1. Init => HandledOk
  BY DEF Init, HandledOk
<1>2. HandledOk /\ [Next]_vars => HandledOk'
  BY NextHandled
<1>3. HandledOk /\ [Next]_vars => [Forward]_vars
  <2> SUFFICES ASSUME HandledOk, Next
               PROVE  Forward
    OBVIOUS
  <2>1. PICK r \in Request : Begin(r) \/ Work(r)
    BY DEF Next
  <2>2. CASE Begin(r)
    <3>1. reqs[r] = None /\ \A q \in Request \ {r} : reqs'[q] = reqs[q]
      BY <2>2 DEF Begin, HandledOk
    <3>. QED
      BY <3>1 DEF Forward, Nearer
  <2>3. CASE Work(r)
    BY <2>3, WorkNearer DEF Forward, Nearer
  <2>. QED
    BY <2>1, <2>2, <2>3
<1>. QED
  BY <1>1, <1>2, <1>3, PTL DEF Spec
================================================================================
