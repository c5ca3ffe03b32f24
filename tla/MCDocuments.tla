---------------------------- MODULE MCDocuments ----------------------------
EXTENDS Documents

CONSTANTS r1, r2

Page(id) == [id |-> id, turned |-> IF id = 2 THEN 270 ELSE 0, marks |-> {}, text |-> {"name", "sum"}]
Pages(first, last) == [i \in 1 .. last - first + 1 |-> Page(first + i - 1)]
Doc(first, last) == [pages |-> Pages(first, last), fields |-> {"f", "g"}, filled |-> {}, lock |-> None]

File(name, ext, doc) ==
    [name |-> name, ext |-> ext, opens |-> TRUE, hangs |-> FALSE, picture |-> FALSE, doc |-> doc]
Three   == File("a", "pdf", Doc(1, 3))
Two     == File("a", "pdf", Doc(4, 5))
Word    == File("w", "docx", Doc(1, 1))
Sheet   == File("s", "xlsx", Doc(1, 1))
Broken(file)  == [file EXCEPT !.opens = FALSE]
Hanging(file) == [file EXCEPT !.hangs = TRUE]
Picture(name) == [File(name, "png", Doc(1, 0)) EXCEPT !.opens = FALSE, !.picture = TRUE]

Ask(op, files, args) == [op |-> op, json |-> TRUE, files |-> files, args |-> args]
On3(op, args) == Ask(op, <<Three>>, args)

Item(page, what) == [page |-> page, what |-> what, sound |-> TRUE, fits |-> what # "long"]
Bad(page)        == [Item(page, "x") EXCEPT !.sound = FALSE]

\* Lists of items: none, on two pages, one without a page, one unsound.
Lists == {{}, {Item(0, "x"), Item(0, "long"), Item(2, "y")}, {Item(0, "x"), Item(3, "y")}, {Item(1, "y"), Bad(1)}}
Redacted == {{Item(0, "name"), Item(0, "sum"), Item(2, "sum")}, {Item(0, "sum"), Bad(1)}}
PageLists == {All, << >>, <<0, 2>>, <<1, 1>>, <<3>>}

Edits ==
    {On3("annotate", args) : args \in Lists}
    \cup {On3("textboxes", args) : args \in {list \in Lists : Cardinality(list) > 1}}
    \cup {On3("redact", args) : args \in Redacted}
    \cup {On3("fill", args) : args \in {{}, {"f"}, {"f", "h"}}}
    \cup {On3("reorder", args) : args \in {<<2, 0>>, <<1, 1, 0>>, << >>, <<0, 3>>}}
    \cup {On3("watermark", [pages |-> p, what |-> "w", sound |-> TRUE]) : p \in PageLists}
    \cup {On3("watermark", [pages |-> All, what |-> "w", sound |-> FALSE])}
    \cup {On3("rotate", [pages |-> p, angle |-> -90]) : p \in PageLists}
    \cup {On3("rotate", [pages |-> p, angle |-> a]) : p \in {All, <<1>>}, a \in {90, 45}}
    \cup {On3("password", [user |-> u, owner |-> o, forbids |-> {"print"}]) : u \in {None, "user"}, o \in {None, "owner"}}
    \cup {On3("split", [start |-> s, end |-> e]) : s \in {-1, 1}, e \in {0, 1, 2, 3}}
    \cup {On3("preview", p) : p \in {-1, 2, 3}}
    \cup {Ask("signature", <<Three, image>>, item) :
             image \in {Picture("i")}, item \in {Item(1, "s"), Item(3, "s"), Bad(1)}}
    \cup {Ask("signature", <<Three, image>>, Item(1, "s")) : image \in {Picture("a"), Broken(Word)}}

Whole == {Ask("compress", <<f>>, {}) : f \in {Three, Broken(Three), Word}}
         \cup {Ask("merge", fs, {}) : fs \in {<<Three>>, <<Three, Two>>, <<Two, Three, Two>>, <<Three, Word>>, <<Two, Broken(Three)>>}}
         \cup {[On3("annotate", {}) EXCEPT !.json = FALSE]}

Conversions == {Ask("convert", <<f>>, {}) :
                   f \in {Word, Sheet, Broken(Word), Broken(Sheet), Hanging(Word), Hanging(Sheet), Three}}

MCAsked == Edits \cup Whole \cup Conversions
=============================================================================
