--------------------------- MODULE MCInvoiceCheck ---------------------------
(***************************************************************************)
(* Files of every kind the service tells apart, invoices with one thing    *)
(* wrong, and five lines whose VAT the two ways of rounding put furthest   *)
(* apart, up and down.                                                     *)
(***************************************************************************)
EXTENDS InvoiceCheck

CONSTANTS Garbage, seller, buyer, short

MCWellFormed == {seller, buyer}

Line(id, code, base) == [id |-> id, code |-> code, base |-> base]
Doc(lines, vat, total) ==
    [parses |-> TRUE, invoice |-> TRUE, seller |-> seller, buyer |-> buyer, buyerName |-> "name",
     date |-> Today, lines |-> lines, vat |-> vat, total |-> total]
Kind(ext) ==
    [ext |-> ext, opens |-> TRUE, pages |-> 1, text |-> 100,
     attached |-> << >>, doc |-> None, preamble |-> << >>]
Xml(doc) == [Kind("xml") EXCEPT !.doc = doc]

Right == Doc(<<Line("1", "S", 1000), Line("2", "E", 10)>>, 150, 1160)
MCFile ==
    [right |-> Xml(Right),
     wrong |-> Xml(Doc(<<Line("1", "S", 1000)>>, 140, 1140)),
     under |-> Xml([Doc(<<Line("1", "S", 1000)>>, 160, 1160) EXCEPT !.buyer = None, !.buyerName = None]),
     credit |-> Xml(Doc(<<Line("1", "S", -10), Line("2", "Z", -50)>>, -2, -62)),
     halves |-> Xml(Doc([i \in 1 .. 5 |-> Line("1", "S", 10)], 8, 58)),
     threes |-> Xml(Doc([i \in 1 .. 5 |-> Line("1", "S", 3)], 2, 17)),
     mixed |-> Xml(Doc([i \in 1 .. 5 |-> Line("1", "S", IF i = 5 THEN 13 ELSE 3)], 4, 29)),
     codes |-> Xml(Doc(<<Line("", "O", 100), Line("", "X", 200), Line("3", None, 100)>>, 60, 460)),
     huge |-> Xml(Doc(<<Line("1", "S", 100 * Precision)>>, None, None)),
     exempthuge |-> Xml(Doc(<<Line("1", "E", 100 * Precision)>>, 0, None)),
     nobase |-> Xml(Doc(<<Line("1", "S", Garbage)>>, 10, Garbage)),
     odd |-> Xml([Right EXCEPT !.seller = short, !.buyer = short, !.date = Today + 1]),
     twin |-> Xml([Right EXCEPT !.buyer = seller, !.date = Garbage]),
     blank |-> Xml([Doc(<<Line("1", "S", 1000)>>, None, None) EXCEPT !.seller = None, !.date = None]),
     broken |-> Xml([Right EXCEPT !.parses = FALSE]),
     hybrid |-> [Kind("pdf") EXCEPT !.attached = <<[Right EXCEPT !.invoice = FALSE], Right>>],
     plain |-> Kind("pdf"),
     scan |-> [Kind("pdf") EXCEPT !.text = 3],
     torn |-> [Kind("pdf") EXCEPT !.opens = FALSE],
     ledger |-> [Kind("xlsx") EXCEPT !.preamble = <<seller>>],
     text |-> Kind("txt"),
     image |-> Kind("png")]

Submit(files, tolerance) == [files |-> files, tolerance |-> tolerance]

MCSubmission ==
    {Submit(<<f>>, None) :
        f \in {"right", "halves", "threes", "mixed", "codes", "huge", "exempthuge", "odd"}}
    \cup {Submit(<<"credit", "wrong", "right">>, None),
          Submit(<<"right", "huge", "under">>, None),
          Submit(<<"hybrid", "plain">>, None),
          Submit(<<"scan", "torn">>, None),
          Submit(<<"ledger", "text", "image">>, None),
          Submit(<<"broken", "nobase">>, None),
          Submit(<<"twin", "blank">>, None),
          Submit(<<"wrong", "halves">>, 0),
          Submit(<<"under">>, 10),
          Submit(<<"right">>, -1)}
=============================================================================
