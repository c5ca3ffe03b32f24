---------------------------- MODULE MCExplainer ----------------------------
(***************************************************************************)
(* Two versions of one document, in Arabic, whose tables share their names *)
(* and the older of which has two articles of one number; one in English   *)
(* whose file may be replaced by one without articles; and a sheet.        *)
(***************************************************************************)
EXTENDS Explainer

Titled(tag, pieces, cites) ==
    [tag |-> tag, chapter |-> FALSE, title |-> TRUE, pieces |-> pieces, cites |-> cites]
Chapter == [tag |-> None, chapter |-> TRUE, title |-> TRUE, pieces |-> 1, cites |-> {}]
Fragment == [tag |-> None, chapter |-> FALSE, title |-> FALSE, pieces |-> 1, cites |-> {}]

Text(headings, tables) == [prose |-> headings # << >>, headings |-> headings, tables |-> tables]

Standard == Text(<<Titled(1, 1, {2}), Titled(2, 2, {})>>, 1)
OldStandard == Text(<<Titled(2, 1, {}), Titled(2, 1, {1})>>, 1)
Regulations == Text(<<Fragment, Chapter, Titled(None, 1, {2}), Titled(None, 1, {1, 2}), Fragment>>, 1)
Overview == Text(<<Fragment, Fragment>>, 1)

MCManifest ==
    << [doc |-> "standard", version |-> "new", language |-> "ar", contents |-> <<Standard>>],
       [doc |-> "standard", version |-> "old", language |-> "ar", contents |-> <<OldStandard>>],
       [doc |-> "regulations", version |-> "current", language |-> "en",
        contents |-> <<Regulations, Overview>>],
       [doc |-> "penalties", version |-> "current", language |-> "en", contents |-> <<Text(<< >>, 1)>>] >>

\* A question two versions and a table answer, and one both documents answer.
MCQuestions ==
    {[language |-> "ar", relevant |-> {Id(1, "article", 1, 0), Id(2, "article", 2, 0), Id(1, "table", 0, 0)}],
     [language |-> "ar", relevant |-> {Id(3, "article", 1, 0), Id(3, "table", 0, 0)}],
     [language |-> "en", relevant |-> {Id(3, "article", 2, 0), Id(3, "section", 1, 0)}]}
=============================================================================
