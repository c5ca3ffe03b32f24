------------------------------ MODULE Chunking ------------------------------
(***************************************************************************)
(* How the text of a regulation is cut into chunks (features/explainer/    *)
(* offline/chunker.py, references.py).                                     *)
(*                                                                         *)
(* The text is the sequence of its candidates for a boundary, in order of  *)
(* position: markdown headings, and "Article N:" outside of one.  Of each  *)
(* it matters which number it prints (`tag`), whether it divides chapters, *)
(* whether it looks like a title, how many pieces of MAX_ARTICLE_WORDS the *)
(* text up to the next one makes, and which articles that text cites.      *)
(***************************************************************************)
EXTENDS Naturals, Sequences, FiniteSets, SequencesExt

CONSTANT None

Heading == [tag : Nat \cup {None}, chapter : BOOLEAN, title : BOOLEAN,
            pieces : Nat \ {0}, cites : SUBSET Nat]

Article(no, h) == [no |-> no, pieces |-> h.pieces, cites |-> h.cites]

\* What is found has the place of its candidate.

\* split_into_articles_ar: the marker is always printed in full.
ArticlesAr(headings) ==
    [i \in {n \in DOMAIN headings : headings[n].tag # None} |-> Article(headings[i].tag, headings[i])]

\* split_into_articles_en.  Nothing counts before the first chapter or number;
\* a title without a number takes the next one; other headings are body text.
Begins(state, h) == h.tag # None \/ (state.begun /\ ~h.chapter /\ h.title)
Number(state, h) == IF h.tag # None THEN h.tag ELSE state.next
Counted(state, h) ==
    [begun |-> state.begun \/ h.tag # None \/ h.chapter,
     next  |-> IF Begins(state, h) THEN Number(state, h) + 1 ELSE state.next]
\* The state before each candidate, and after the last.
States(headings) ==
    LET state[n \in 1 .. Len(headings) + 1] ==
            IF n = 1 THEN [begun |-> FALSE, next |-> 1] ELSE Counted(state[n - 1], headings[n - 1])
    IN  state
ArticlesEn(headings) ==
    LET state == States(headings)
    IN  [i \in {n \in DOMAIN headings : Begins(state[n], headings[n])} |->
            Article(Number(state[i], headings[i]), headings[i])]

Articles(headings, language) ==
    IF language = "ar" THEN ArticlesAr(headings) ELSE ArticlesEn(headings)

\* chunk_fallback, for a text without articles: by heading, or else by
\* paragraphs, which are one section here.
Sections(headings) ==
    IF headings = << >> THEN << [no |-> 1, pieces |-> 1, cites |-> {}] >>
    ELSE [i \in DOMAIN headings |-> Article(i, headings[i])]

\* chunk_document and chunk_fallback, with detect_article_references: what an
\* article says of itself is no reference; a section has no such number.
Pieces(kind, articles) ==
    UNION {{[kind |-> kind, no |-> articles[i].no, part |-> p, at |-> i,
             cites |-> IF kind = "article" THEN articles[i].cites \ {articles[i].no}
                       ELSE articles[i].cites] :
               p \in 0 .. articles[i].pieces - 1} : i \in DOMAIN articles}
Chunks(headings, language) ==
    LET articles == Articles(headings, language)
    IN  IF DOMAIN articles = {} THEN Pieces("section", Sections(headings))
        ELSE Pieces("article", articles)
=============================================================================
