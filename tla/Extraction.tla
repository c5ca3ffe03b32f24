----------------------------- MODULE Extraction -----------------------------
(***************************************************************************)
(* What the document extraction service reads off one file                 *)
(* (features/common/document_extraction.py, services/data_extraction).     *)
(*                                                                         *)
(* Only an invoice in XML, by itself or attached to a PDF, has parties,    *)
(* lines and totals; a spreadsheet yields at most the seller's VAT number, *)
(* and text nothing that is used here.  A file is a record of              *)
(*   ext      - "xml", "pdf", "xlsx", "csv", "txt" or another extension    *)
(*   opens    - whether the library for that extension can read it         *)
(*   pages, text - of a PDF: its pages, the characters on the first three  *)
(*   attached - of a PDF: the XML files attached, in order                 *)
(*   doc      - of an XML file: its elements                               *)
(*   preamble - of a spreadsheet: the VAT numbers above its headers        *)
(* An XML document is well formed and an invoice or not, and has elements; *)
(* an element is absent (None), text, or a number.  Amounts are whole      *)
(* halalas.                                                                *)
(***************************************************************************)
EXTENDS Integers, Sequences, FiniteSets, SequencesExt

CONSTANT None    \* an absent element, and a read that fails

Format == {"ubl_xml", "pdf_embedded_xml", "pdf", "xlsx", "csv", "text"}

ASSUME NoneAssumption == None \notin Int /\ None \notin Format

\* Text in the place of a number counts as absent.
Float(element) == IF element \in Int THEN element ELSE None

\* A code that is none of UNCL5305's four is left for classification.
UblTaxCategoryCodes == {"S", "Z", "E", "O"}
Code(element) == IF element \in UblTaxCategoryCodes THEN element ELSE None

EmptyResult(format) ==
    [format |-> format, seller |-> None, buyer |-> None, buyerName |-> None, date |-> None,
     lines |-> << >>, vat |-> None, total |-> None]

ExtractUblXml(doc, format) ==
    IF ~doc.parses THEN None
    ELSE [format |-> format, seller |-> doc.seller, buyer |-> doc.buyer, buyerName |-> doc.buyerName,
          date |-> doc.date,
          lines |-> [i \in DOMAIN doc.lines |->
                        LET line == doc.lines[i]
                        IN  [id |-> line.id, code |-> Code(line.code), base |-> Float(line.base)]],
          vat |-> Float(doc.vat), total |-> Float(doc.total)]

\* The first attachment that looks like an invoice counts.
FindEmbeddedXml(file) ==
    LET invoices == {i \in DOMAIN file.attached : file.attached[i].invoice}
    IN  IF file.opens /\ invoices # {} THEN file.attached[Min(invoices)] ELSE None

ExtractPdfEmbeddedXml(file) == ExtractUblXml(FindEmbeddedXml(file), "pdf_embedded_xml")

\* Nearly no text on the first pages: a picture of an invoice.
IsScannedPdf(file) == file.opens /\ file.pages > 0 /\ file.text < 20

DetectFormat(file) ==
    CASE file.ext = "xml" -> "ubl_xml"
      [] file.ext = "pdf" -> IF FindEmbeddedXml(file) # None THEN "pdf_embedded_xml"
                             ELSE IF IsScannedPdf(file) THEN None ELSE "pdf"
      [] file.ext \in {"xlsx", "csv"} -> file.ext
      [] file.ext = "txt" -> "text"
      [] OTHER -> None

SniffVatNumber(file) == IF file.preamble = << >> THEN None ELSE Head(file.preamble)

ExtractXlsxOrCsv(file) ==
    IF file.opens THEN [EmptyResult(file.ext) EXCEPT !.seller = SniffVatNumber(file)] ELSE None

ExtractPdf(file) == IF file.opens THEN EmptyResult("pdf") ELSE None

ExtractText(file) == IF file.opens THEN EmptyResult("text") ELSE None

\* What is extracted, or None: the service answers 422 or 500, which
\* its callers take alike (post_file).
RouteAndExtract(file) ==
    LET format == DetectFormat(file)
    IN  CASE format = None -> None
          [] format = "ubl_xml" -> ExtractUblXml(file.doc, format)
          [] format = "pdf_embedded_xml" -> ExtractPdfEmbeddedXml(file)
          [] format = "pdf" -> ExtractPdf(file)
          [] format \in {"xlsx", "csv"} -> ExtractXlsxOrCsv(file)
          [] format = "text" -> ExtractText(file)
=============================================================================
