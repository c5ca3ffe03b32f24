------------------------------ MODULE Explainer ------------------------------
(***************************************************************************)
(* Questions about the regulations (features/explainer/online,             *)
(* services/explainer/main.py), answered from the corpus while the job may *)
(* be changing it.                                                         *)
(*                                                                         *)
(* A turn is a run of the graph: ask, embed, search in the language of the *)
(* question, else in both, resolve what was found, let the model write.    *)
(* Each of these is a call to another machine, and the job may run between *)
(* any two of them.  The chat shows the reply with its citations.          *)
(*                                                                         *)
(* A question is [language, relevant]: the ids of the points that score    *)
(* above RELEVANCE_THRESHOLD for it.  Scores order what is found; the      *)
(* order is any.                                                           *)
(*                                                                         *)
(* History: steady[t] has the points that have been in the store at every  *)
(* moment since t asked.                                                   *)
(***************************************************************************)
EXTENDS Corpus

CONSTANTS
    Turn,            \* the turns
    Questions,       \* what may be asked
    CONTEXT_CHUNK_CAP, SearchLimit \* 6, and search()'s `limit`, 10

ASSUME ExplainerAssumption == CONTEXT_CHUNK_CAP \in Nat \ {0} /\ SearchLimit \in Nat \ {0}

VARIABLES turn, steady

explainerVars == <<turn, steady>>
vars == <<file, rows, points, job, ingested, changes, faults, turn, steady>>

NoTurn == [step |-> "idle"]

Begin(t, language, relevant, step) ==
    /\ turn[t].step = "idle"
    /\ turn' = [turn EXCEPT ![t] = [language |-> language, relevant |-> relevant, step |-> step,
                                    found |-> {}, cross |-> FALSE, context |-> {}]]
    /\ steady' = [steady EXCEPT ![t] = points]
    /\ UNCHANGED corpusVars

\* A question that names another GCC country is answered at once.
AskElsewhere(t) == \E q \in Questions : Begin(t, q.language, q.relevant, "wrong_jurisdiction")
Ask(t) == \E q \in Questions : Begin(t, q.language, q.relevant, "embed")

Awaits(t, step) == turn[t].step = step
Goes(t, changed) == turn' = [turn EXCEPT ![t] = changed] /\ UNCHANGED <<steady, corpusVars>>

Embed(t) == Awaits(t, "embed") /\ Goes(t, [turn[t] EXCEPT !.step = "search"])

\* The embedder, or the stores: no handler, the request fails.
Fail(t) ==
    /\ turn[t].step \in {"embed", "search", "search_any", "resolve"}
    /\ Goes(t, [turn[t] EXCEPT !.step = "failed"])

LanguageOf(p) == Manifest[p.from].language

\* search: the best SearchLimit of the points, of a language or of any, and of
\* these the ones above the threshold.
Relevant(t, language) ==
    {p \in points : (language = None \/ LanguageOf(p) = language) /\ p.id \in turn[t].relevant}
Best(matches) ==
    {found \in SUBSET matches :
        Cardinality(found) = IF Cardinality(matches) < SearchLimit THEN Cardinality(matches)
                             ELSE SearchLimit}

\* search_with_fallback: two calls.
Search(t) ==
    /\ Awaits(t, "search")
    /\ \E found \in Best(Relevant(t, turn[t].language)) :
           Goes(t, [turn[t] EXCEPT !.found = found,
                                   !.step = IF found = {} THEN "search_any" ELSE "resolve"])

\* (mistaken) the second search has the filter of the first
SearchAgain(t) ==
    /\ Awaits(t, "search_any")
    /\ \E found \in Best(Relevant(t, turn[t].language)) :
           Goes(t, [turn[t] EXCEPT !.found = found, !.cross = found # {},
                                   !.step = IF found = {} THEN "nothing_found" ELSE "resolve"])

SearchAny(t) ==
    /\ Awaits(t, "search_any")
    /\ \E found \in Best(Relevant(t, None)) :
           Goes(t, [turn[t] EXCEPT !.found = found, !.cross = found # {},
                                   !.step = IF found = {} THEN "nothing_found" ELSE "resolve"])

\* (mistaken) the article of any version
FindByNumber(p, no) ==
    {q \in points : q.id.kind = "article" /\ q.id.no = no /\ q.id.doc = p.id.doc}
\* find_by_composite_key: one of the pieces of the article.
FindByCompositeKey(p, no) ==
    {q \in points : q.id.kind = "article" /\ q.id.no = no
                    /\ q.id.doc = p.id.doc /\ q.id.version = p.id.version}

\* resolve_table_pointer, the text found, resolve_cross_references.
TableItems(found) ==
    {[rank |-> 1, chunk |-> p.id, for |-> None, shown |-> p.id,
      rows |-> rows[TableRef(p.from, p.id.no)]] : p \in {p \in found : p.id.kind = "table"}}
TextItems(found) ==
    {[rank |-> 2, chunk |-> p.id, for |-> None, shown |-> p.id, rows |-> None] :
        p \in {p \in found : p.id.kind # "table"}}
Citations(found) == UNION {{<<p, no>> : no \in p.cites} : p \in found}
ReferredItems(found, pick) ==
    {[rank |-> 3, chunk |-> c[1].id, for |-> c[2], shown |-> pick[c].id, rows |-> None] :
        c \in DOMAIN pick}

\* (mistaken) nothing is cut
Whole(items) == {items}

\* resolve_and_cap: tables, then texts, then what they refer to, cut at the cap.
Cap(items) ==
    {kept \in SUBSET items :
        /\ Cardinality(kept) = IF Cardinality(items) < CONTEXT_CHUNK_CAP
                               THEN Cardinality(items) ELSE CONTEXT_CHUNK_CAP
        /\ \A k \in kept, i \in items \ kept : k.rank <= i.rank}
Resolve(t) ==
    LET found == turn[t].found
        resolved == {c \in Citations(found) : FindByCompositeKey(c[1], c[2]) # {}}
    IN  /\ Awaits(t, "resolve")
        /\ \E pick \in [resolved -> points] :
               /\ \A c \in resolved : pick[c] \in FindByCompositeKey(c[1], c[2])
               /\ \E kept \in Cap(TableItems(found) \cup TextItems(found)
                                      \cup ReferredItems(found, pick)) :
                      Goes(t, [turn[t] EXCEPT !.context = kept, !.step = "generate"])

\* The reply cites the context, whoever wrote it.
Generate(t) == Awaits(t, "generate") /\ Goes(t, [turn[t] EXCEPT !.step = "answered"])

\* The model fails, and the words for nothing found stand in for its answer,
\* after those about the other language if the texts are in it.
GenerateFails(t) == Awaits(t, "generate") /\ Goes(t, [turn[t] EXCEPT !.step = "model_failed"])

\* The model writes nothing, and the same words go out alone.
GenerateNothing(t) == Awaits(t, "generate") /\ Goes(t, [turn[t] EXCEPT !.step = "wrote_nothing"])

Answer(t) ==
    \/ Embed(t) \/ Search(t) \/ SearchAny(t) \/ Resolve(t)
    \/ Generate(t) \/ GenerateFails(t) \/ GenerateNothing(t)

Init == CorpusInit /\ turn = [t \in Turn |-> NoTurn] /\ steady = [t \in Turn |-> {}]

Next ==
    \/ /\ StartRun \/ Ingest \/ SkipDocument \/ Die \/ \E d \in Document : ReplaceFile(d)
       /\ steady' = [t \in Turn |-> steady[t] \cap points']
       /\ UNCHANGED turn
    \/ \E t \in Turn : Ask(t) \/ AskElsewhere(t) \/ Fail(t) \/ Answer(t)

\* The job is run again and again, and a run that is not killed goes on.
Fairness ==
    /\ WF_vars(StartRun /\ UNCHANGED explainerVars)
    /\ WF_vars(Ingest /\ steady' = [t \in Turn |-> steady[t] \cap points'] /\ UNCHANGED turn)

Spec == Init /\ [][Next]_vars /\ Fairness

-----------------------------------------------------------------------------
(* Correctness *)

\* The corpus, and how far each turn is.
TypeOK ==
    /\ CorpusTypeOK
    /\ \A t \in Turn : turn[t] # NoTurn =>
           /\ turn[t].step \in {"wrong_jurisdiction", "embed", "search", "search_any", "resolve",
                                "generate", "nothing_found", "answered", "model_failed",
                                "wrote_nothing", "failed"}
           /\ Cardinality(turn[t].found) <= SearchLimit
           /\ Cardinality(turn[t].context) <= CONTEXT_CHUNK_CAP

\* Replies with the words for nothing found.
ToldNothing(t) == turn[t].step \in {"nothing_found", "model_failed", "wrote_nothing"}

\* However the two searches and the job interleave, nobody is told that nothing
\* was found, and shown no source, while a text that answers was in the corpus
\* all the time; and no search turns to the other language while one in the
\* language of the question was.  (When the model fails or writes nothing, the
\* words are the same although texts were found: then their sources are shown.)
NothingOverlooked ==
    \A t \in Turn : turn[t] # NoTurn =>
        LET known == {p \in steady[t] : p.id \in turn[t].relevant}
        IN  /\ ToldNothing(t) /\ turn[t].context = {} => known = {}
            /\ turn[t].cross => \A p \in known : LanguageOf(p) # turn[t].language

\* Whatever else is being ingested, what an answer shows for a reference is the
\* article named, of the version that refers to it; and the rows it shows for a
\* table are rows of that version, unless versions share their names.
CitesItsVersion ==
    \A t \in Turn : turn[t] # NoTurn => \A i \in turn[t].context :
        /\ i.shown.doc = i.chunk.doc /\ i.shown.version = i.chunk.version
        /\ i.for # None => i.shown.kind = "article" /\ i.shown.no = i.for
        /\ i.rank = 1 =>
               /\ i.rows # None
               /\ \/ Manifest[i.rows.from].version = i.chunk.version
                  \/ Shared(i.rows.from, i.chunk.no)
=============================================================================
