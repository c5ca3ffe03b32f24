-------------------------- MODULE ExplainerProofs --------------------------
(***************************************************************************)
(* Theorems about Explainer: for any manifest, any number of runs of the   *)
(* job, failures and replaced files, and any turns beside them.            *)
(*                                                                         *)
(* The two stores are written by different calls, and what keeps them      *)
(* together is how things are named: points of different documents have    *)
(* different ids, and tables of one name belong to one document unless its *)
(* versions share them.                                                    *)
(***************************************************************************)
EXTENDS Explainer, FiniteSetTheorems, TLAPS

-----------------------------------------------------------------------------
(* Names *)

\* Documents are numbered from one.
LEMMA Documents ==
    /\ Len(Manifest) \in Nat /\ Document = 1 .. Len(Manifest)
    /\ 0 \notin Document
BY CorpusAssumption DEF Document

\* A table of a document is a table of the store.
LEMMA TableNamed ==
    ASSUME NEW d \in Document, NEW c \in Content(d), NEW i \in 0 .. Holds(d, c).tables - 1
    PROVE  TableRef(d, i) \in Tables(d, c) /\ TableRef(d, i) \in TableRefs
BY DEF Tables, TableRefs

\* Names of tables are told apart by document and number.
LEMMA TableNames ==
    ASSUME NEW d, NEW e, NEW i, NEW j
    PROVE  TableRef(d, i) = TableRef(e, j) <=> Manifest[d].doc = Manifest[e].doc /\ i = j
BY DEF TableRef

\* A table that two documents have is shared.
LEMMA SharedTable ==
    ASSUME NEW d \in Document, NEW e \in Document, d # e, NEW c \in Content(e),
           NEW i \in 0 .. Holds(e, c).tables - 1, TableRef(d, i) = TableRef(e, i)
    PROVE  Shared(d, i)
BY TableNamed DEF Shared

\* The points of a document carry its name, and a pointer the number of a table.
OfDocument(p, d, c) ==
    /\ p.from = d /\ p.content = c
    /\ p.id.doc = Manifest[d].doc /\ p.id.version = Manifest[d].version
    /\ p.id.kind = "table" => p.id.no \in 0 .. Holds(d, c).tables - 1

\* The points of a document are named after it.
LEMMA PointsNamed ==
    ASSUME NEW d \in Document, NEW c \in Content(d), NEW p \in PointsOf[d][c]
    PROVE  OfDocument(p, d, c)
<1>. DEFINE pointers == {Pointer(d, c, i) : i \in 0 .. Holds(d, c).tables - 1}
            prose == IF Holds(d, c).prose
                     THEN {Point(d, c, k) : k \in Chunks(Holds(d, c).headings, Manifest[d].language)}
                     ELSE {}
<1>1. p \in prose \/ p \in pointers
  BY DEF PointsOf
<1>2. CASE p \in pointers
  BY <1>2 DEF Pointer, Id, OfDocument
<1>3. CASE p \in prose
  <2>1. PICK k \in Chunks(Holds(d, c).headings, Manifest[d].language) : p = Point(d, c, k)
    BY <1>3
  <2>2. k.kind # "table"
    BY <2>1 DEF Chunks, Pieces
  <2>. QED
    BY <2>1, <2>2 DEF Point, Id, OfDocument
<1>. QED
  BY <1>1, <1>2, <1>3

\* Points of two documents never have one id.
LEMMA PointsApart ==
    ASSUME NEW d \in Document, NEW e \in Document, d # e,
           NEW c \in Content(d), NEW b \in Content(e),
           NEW p \in PointsOf[d][c], NEW q \in PointsOf[e][b]
    PROVE  p.id # q.id
BY PointsNamed, CorpusAssumption DEF OfDocument

-----------------------------------------------------------------------------
(* Points are finitely many, and told apart by their ids *)

\* The values of a function.
Values(f, S) == {f[x] : x \in S}

\* The values of a function on a finite set are finitely many.
LEMMA ValuesFinite ==
    ASSUME NEW S, IsFiniteSet(S), NEW f
    PROVE  IsFiniteSet(Values(f, S))
<1>. PICK g : g = [x \in S |-> f[x]]
  OBVIOUS
<1>. PICK T : T = Values(f, S)
  OBVIOUS
<1>1. g \in [S -> T] /\ \A y \in T : \E x \in S : g[x] = y
  BY DEF Values
<1>2. g \in Surjection(S, T)
  BY <1>1 DEF Surjection
<1>. QED
  BY <1>2, FS_Surjection

\* What a text is divided into: at places of it, a number of pieces each.
Divided(articles) ==
    /\ DOMAIN articles \subseteq Nat /\ IsFiniteSet(DOMAIN articles)
    /\ \A i \in DOMAIN articles : articles[i].pieces \in Nat /\ IsFiniteSet(articles[i].cites)

\* Articles and sections are at places of the text.
LEMMA TextDivided ==
    ASSUME NEW headings \in Seq(Heading), \A i \in DOMAIN headings : IsFiniteSet(headings[i].cites),
           NEW language
    PROVE  Divided(Articles(headings, language)) /\ Divided(Sections(headings))
<1>1. /\ DOMAIN headings = 1 .. Len(headings) /\ IsFiniteSet(DOMAIN headings) /\ DOMAIN headings \subseteq Nat
      /\ \A i \in DOMAIN headings : headings[i].pieces \in Nat /\ IsFiniteSet(headings[i].cites)
  <2>1. DOMAIN headings = 1 .. Len(headings) /\ Len(headings) \in Nat
    OBVIOUS
  <2>. QED
    <3>1. IsFiniteSet(1 .. Len(headings))
      BY <2>1, FS_Interval
    <3>2. \A i \in DOMAIN headings : headings[i] \in Heading
      BY <2>1
    <3>3. \A i \in DOMAIN headings : headings[i].pieces \in Nat
      BY <3>2 DEF Heading
    <3>. QED
      BY <2>1, <3>1, <3>3
<1>2. ASSUME NEW S \in SUBSET DOMAIN headings, NEW f, DOMAIN f = S,
             \A i \in S : f[i].pieces = headings[i].pieces /\ f[i].cites = headings[i].cites
      PROVE  Divided(f)
  <2>1. IsFiniteSet(S)
    BY <1>1, FS_Subset
  <2>. QED
    BY <1>1, <1>2, <2>1 DEF Divided
<1>3. Divided(ArticlesAr(headings))
  <2>. PICK S \in SUBSET DOMAIN headings : S = {n \in DOMAIN headings : headings[n].tag # None}
    OBVIOUS
  <2>1. ArticlesAr(headings) = [i \in S |-> Article(headings[i].tag, headings[i])]
    BY DEF ArticlesAr
  <2>. PICK f : f = ArticlesAr(headings)
    OBVIOUS
  <2>2. DOMAIN f = S /\ \A i \in S : f[i].pieces = headings[i].pieces /\ f[i].cites = headings[i].cites
    BY <2>1 DEF Article
  <2>. QED
    BY <1>2, <2>2
<1>4. Divided(ArticlesEn(headings))
  <2>. PICK state : state = States(headings)
    OBVIOUS
  <2>. PICK S \in SUBSET DOMAIN headings : S = {n \in DOMAIN headings : Begins(state[n], headings[n])}
    OBVIOUS
  <2>1. ArticlesEn(headings) = [i \in S |-> Article(Number(state[i], headings[i]), headings[i])]
    BY DEF ArticlesEn
  <2>. PICK f : f = ArticlesEn(headings)
    OBVIOUS
  <2>2. DOMAIN f = S /\ \A i \in S : f[i].pieces = headings[i].pieces /\ f[i].cites = headings[i].cites
    BY <2>1 DEF Article
  <2>. QED
    BY <1>2, <2>2
<1>5. Divided(Sections(headings))
  <2>1. CASE headings = << >>
    <3>f. PICK f : f = << [no |-> 1, pieces |-> 1, cites |-> {}] >>
      OBVIOUS
    <3>1. DOMAIN f = {1} /\ f[1].pieces = 1 /\ f[1].cites = {}
      BY <3>f
    <3>2. IsFiniteSet({1}) /\ IsFiniteSet({})
      BY FS_Singleton, FS_EmptySet
    <3>3. \A i \in DOMAIN f : f[i].pieces \in Nat /\ IsFiniteSet(f[i].cites)
      <4>1. IsFiniteSet(f[1].cites)
        BY <3>1, <3>2, Zenon
      <4>2. f[1].pieces \in Nat
        BY <3>1
      <4>. QED
        BY <3>1, <4>1, <4>2
    <3>4. DOMAIN f \subseteq Nat /\ IsFiniteSet(DOMAIN f)
      BY <3>1, <3>2
    <3>5. Divided(f)
      BY <3>3, <3>4 DEF Divided
    <3>. QED
      BY <2>1, <3>f, <3>5 DEF Sections
  <2>2. CASE headings # << >>
    <3>1. Sections(headings) = [i \in DOMAIN headings |-> Article(i, headings[i])]
      BY <2>2 DEF Sections
    <3>. PICK f : f = Sections(headings)
      OBVIOUS
    <3>2. DOMAIN f = DOMAIN headings
          /\ \A i \in DOMAIN headings : f[i].pieces = headings[i].pieces /\ f[i].cites = headings[i].cites
      BY <3>1 DEF Article
    <3>. QED
      BY <1>2, <3>2
  <2>. QED
    BY <2>1, <2>2
<1>. QED
  BY <1>3, <1>4, <1>5 DEF Articles

\* Chunks: finitely many, with a place, and told apart by place and piece.
Cut(chunks) ==
    /\ IsFiniteSet(chunks)
    /\ \A k \in chunks : k.at \in Nat /\ k.kind # "table" /\ IsFiniteSet(k.cites)
    /\ \A k, l \in chunks : k.at = l.at /\ k.part = l.part => k = l

\* The pieces of what a text is divided into.
LEMMA PiecesCut ==
    ASSUME NEW kind \in {"article", "section"}, NEW articles, Divided(articles)
    PROVE  Cut(Pieces(kind, articles))
<1>. DEFINE Cites(i) == IF kind = "article" THEN articles[i].cites \ {articles[i].no} ELSE articles[i].cites
            Piece(i, p) == [kind |-> kind, no |-> articles[i].no, part |-> p, at |-> i, cites |-> Cites(i)]
            Of(i) == {Piece(i, p) : p \in 0 .. articles[i].pieces - 1}
<1>1. Pieces(kind, articles) = UNION {Of(i) : i \in DOMAIN articles}
  BY DEF Pieces
<1>2. ASSUME NEW i \in DOMAIN articles PROVE IsFiniteSet(Of(i)) /\ IsFiniteSet(Cites(i))
  <2>1. articles[i].pieces \in Nat /\ IsFiniteSet(articles[i].cites)
    BY DEF Divided
  <2>2. IsFiniteSet(0 .. articles[i].pieces - 1)
    BY <2>1, FS_Interval
  <2>. PICK N : N = 0 .. articles[i].pieces - 1
    OBVIOUS
  <2>3. PICK f : f = [p \in N |-> Piece(i, p)]
    OBVIOUS
  <2>4. Of(i) = Values(f, N)
    BY <2>3 DEF Values
  <2>5. IsFiniteSet(Of(i))
    BY <2>2, <2>4, ValuesFinite
  <2>6. Cites(i) \subseteq articles[i].cites
    OBVIOUS
  <2>. QED
    BY <2>1, <2>5, <2>6, FS_Subset
<1>3. IsFiniteSet(Pieces(kind, articles))
  <2>1. PICK f : f = [i \in DOMAIN articles |-> Of(i)]
    OBVIOUS
  <2>. PICK sets : sets = {Of(i) : i \in DOMAIN articles}
    OBVIOUS
  <2>2. sets = Values(f, DOMAIN articles)
    BY <2>1 DEF Values
  <2>3. IsFiniteSet(sets)
    BY <2>2, ValuesFinite DEF Divided
  <2>4. \A T \in sets : IsFiniteSet(T)
    BY <1>2
  <2>. HIDE DEF Of
  <2>. QED
    BY <1>1, <2>3, <2>4, FS_UNION
<1>4. ASSUME NEW k \in Pieces(kind, articles)
      PROVE  \E i \in DOMAIN articles : k = Piece(i, k.part)
  BY <1>1
<1>5. ASSUME NEW k \in Pieces(kind, articles)
      PROVE  /\ k.at \in DOMAIN articles /\ k = Piece(k.at, k.part)
             /\ k.kind = kind /\ k.cites = Cites(k.at)
  <2>1. PICK i \in DOMAIN articles : k = Piece(i, k.part)
    BY <1>4
  <2>. QED
    BY <2>1
<1>6. ASSUME NEW k \in Pieces(kind, articles)
      PROVE  k.at \in Nat /\ k.kind # "table" /\ IsFiniteSet(k.cites)
  <2>. HIDE DEF Cites
  <2>. QED
    BY <1>2, <1>5 DEF Divided
<1>7. ASSUME NEW k \in Pieces(kind, articles), NEW l \in Pieces(kind, articles), k.at = l.at, k.part = l.part
      PROVE  k = l
  <2>. HIDE DEF Piece
  <2>. QED
    BY <1>5, <1>7
<1>. QED
  BY <1>3, <1>6, <1>7 DEF Cut

\* Points: finitely many, citing finitely many articles, one for an id.
Distinct(set) == \A p, q \in set : p.id = q.id => p = q

\* The points of a content have ids of their own.
LEMMA ContentPoints ==
    ASSUME NEW d \in Document, NEW c \in Content(d)
    PROVE  /\ IsFiniteSet(PointsOf[d][c]) /\ Distinct(PointsOf[d][c])
           /\ \A p \in PointsOf[d][c] : IsFiniteSet(p.cites)
<1>. PICK held : held = Holds(d, c)
  OBVIOUS
<1>. PICK chunks : chunks = Chunks(held.headings, Manifest[d].language)
  OBVIOUS
<1>. PICK prose : prose = IF held.prose THEN {Point(d, c, k) : k \in chunks} ELSE {}
  OBVIOUS
<1>. PICK last : last = {p \in prose : \A q \in prose : q.id = p.id => q.at <= p.at}
  OBVIOUS
<1>. PICK tables : tables = 0 .. held.tables - 1
  OBVIOUS
<1>. PICK pointers : pointers = {Pointer(d, c, i) : i \in tables}
  OBVIOUS
<1>1. PointsOf[d][c] = last \cup pointers
  BY DEF PointsOf
<1>2. Cut(chunks)
  <2>1. held.headings \in Seq(Heading) /\ \A i \in DOMAIN held.headings : IsFiniteSet(held.headings[i].cites)
    BY CorpusAssumption
  <2>2. Divided(Articles(held.headings, Manifest[d].language)) /\ Divided(Sections(held.headings))
    BY <2>1, TextDivided
  <2>. QED
    BY <2>2, PiecesCut DEF Chunks
<1>3. ASSUME NEW p \in prose
      PROVE  \E k \in chunks : p = Point(d, c, k)
  OBVIOUS
<1>4. IsFiniteSet(prose)
  <2>1. PICK f : f = [k \in chunks |-> Point(d, c, k)]
    OBVIOUS
  <2>2. {Point(d, c, k) : k \in chunks} = Values(f, chunks)
    BY <2>1 DEF Values
  <2>3. IsFiniteSet({Point(d, c, k) : k \in chunks})
    <3>1. IsFiniteSet(Values(f, chunks))
      BY <1>2, ValuesFinite DEF Cut
    <3>. QED
      BY <2>2, <3>1
  <2>. QED
    BY <2>3, FS_EmptySet
<1>5. IsFiniteSet(pointers)
  <2>1. IsFiniteSet(tables)
    <3>1. held.tables \in Nat
      BY CorpusAssumption
    <3>. QED
      BY <3>1, FS_Interval
  <2>2. PICK f : f = [i \in tables |-> Pointer(d, c, i)]
    OBVIOUS
  <2>3. pointers = Values(f, tables)
    BY <2>2 DEF Values
  <2>. QED
    BY <2>1, <2>3, ValuesFinite
<1>6. IsFiniteSet(PointsOf[d][c])
  <2>1. IsFiniteSet(last)
    BY <1>4, FS_Subset
  <2>. QED
    <3>1. IsFiniteSet(last \cup pointers)
      BY <1>5, <2>1, FS_Union
    <3>. QED
      BY <1>1, <3>1
<1>7. ASSUME NEW p \in last, NEW q \in last, p.id = q.id PROVE p = q
  <2>1. PICK k \in chunks : p = Point(d, c, k)
    BY <1>3
  <2>2. PICK l \in chunks : q = Point(d, c, l)
    BY <1>3
  <2>3. p.at = k.at /\ q.at = l.at /\ k.at \in Nat /\ l.at \in Nat
    BY <1>2, <2>1, <2>2 DEF Cut, Point
  <2>4. p.at <= q.at /\ q.at <= p.at
    BY <1>7
  <2>5. k.part = l.part
    BY <1>7, <2>1, <2>2 DEF Point, Id
  <2>6. k = l
    BY <1>2, <2>3, <2>4, <2>5 DEF Cut
  <2>. QED
    BY <2>1, <2>2, <2>6
<1>8. ASSUME NEW p \in pointers, NEW q \in pointers, p.id = q.id PROVE p = q
  <2>1. PICK i \in tables : p = Pointer(d, c, i)
    OBVIOUS
  <2>2. PICK j \in tables : q = Pointer(d, c, j)
    OBVIOUS
  <2>3. i = j
    BY <1>8, <2>1, <2>2 DEF Pointer, Id
  <2>. QED
    BY <2>1, <2>2, <2>3
<1>9. ASSUME NEW p \in last, NEW q \in pointers PROVE p.id # q.id
  <2>1. PICK k \in chunks : p = Point(d, c, k)
    BY <1>3
  <2>2. p.id.kind # "table" /\ q.id.kind = "table"
    BY <1>2, <2>1 DEF Cut, Point, Pointer, Id
  <2>. QED
    BY <2>2
<1>10. ASSUME NEW p \in PointsOf[d][c] PROVE IsFiniteSet(p.cites)
  <2>1. CASE p \in last
    BY <1>2, <1>3, <2>1 DEF Cut, Point
  <2>2. CASE p \in pointers
    <3>1. p.cites = {}
      BY <2>2 DEF Pointer
    <3>. QED
      BY <3>1, FS_EmptySet
  <2>. QED
    BY <1>1, <2>1, <2>2
<1>. QED
  BY <1>1, <1>6, <1>7, <1>8, <1>9, <1>10 DEF Distinct

-----------------------------------------------------------------------------
(* The two stores *)

RowsOk ==
    /\ rows \in [TableRefs -> {None} \cup Rows]
    /\ \A r \in TableRefs : rows[r] # None => TableRef(rows[r].from, r.no) = r
FilesOk == file \in [Document -> Nat] /\ \A d \in Document : file[d] \in Content(d)

\* What the job has behind it.
HasRows(d, c, n) ==
    \A i \in 0 .. n - 1 :
        /\ rows[TableRef(d, i)] # None
        /\ ~Shared(d, i) => rows[TableRef(d, i)] = [from |-> d, content |-> c]
JobOk ==
    /\ job \in Job
    /\ IF job.step = "idle" THEN job.on = 0 ELSE job.on \in Document
    /\ job.step = "extract" => job.table = 0
    /\ job.step \in {"tables", "upsert"} =>
           /\ job.content \in Content(job.on) /\ job.table <= Holds(job.on, job.content).tables
           /\ HasRows(job.on, job.content, job.table)
    /\ job.step = "upsert" => job.table = Holds(job.on, job.content).tables

\* Points are of a document, and pointers have rows.
PointOk(p) ==
    \E d \in Document : \E c \in Content(d) :
        /\ p \in PointsOf[d][c]
        /\ p.id.kind = "table" => rows[TableRef(d, p.id.no)] # None
PointsOk == \A p \in points : PointOk(p)
IngestedOk ==
    /\ ingested \in [Document -> Nat]
    /\ \A d \in Document : ingested[d] # 0 =>
           ingested[d] \in Content(d) /\ InStores(d, ingested[d])

CorpusInv == RowsOk /\ FilesOk /\ JobOk /\ PointsOk /\ IngestedOk

\* A step of the service is one of the job or a new file, or leaves all alone.
CorpusStep ==
    \/ StartRun \/ Ingest \/ SkipDocument \/ Die
    \/ \E d \in Document : ReplaceFile(d)
    \/ UNCHANGED corpusVars

\* Every step of the system is one of these.
LEMMA StepOfCorpus == [Next]_vars => CorpusStep
BY DEF Next, CorpusStep, Ask, AskElsewhere, Begin, Fail, Answer, Embed, Search, SearchAny, Resolve,
       Generate, GenerateFails, GenerateNothing, Goes, vars, corpusVars

\* The job takes up a document, or is over.
LEMMA ForwardOk ==
    ASSUME JobOk, job.step # "idle"
    PROVE  /\ Forward \in Job /\ Forward.step \in {"idle", "extract"}
           /\ IF Forward.step = "idle" THEN Forward.on = 0 ELSE Forward.on \in Document
           /\ Forward.table = 0
BY Documents DEF Forward, At, Idle, Job, JobOk

\* Files and the job change, the stores do not.
LEMMA StoresAlone ==
    ASSUME CorpusInv, UNCHANGED <<rows, points, ingested>>, FilesOk',
           job' \in Job, job'.step \in {"idle", "extract"},
           IF job'.step = "idle" THEN job'.on = 0 ELSE job'.on \in Document,
           job'.table = 0
    PROVE  CorpusInv'
<1>1. RowsOk' /\ PointsOk' /\ IngestedOk'
  BY DEF CorpusInv, RowsOk, PointsOk, PointOk, IngestedOk, InStores
<1>2. JobOk'
  BY DEF JobOk
<1>. QED
  BY <1>1, <1>2 DEF CorpusInv

\* The rows that are in a store stay.
RowsStay == \A r \in TableRefs : rows[r] # None => rows'[r] # None

\* Points that stay where they are keep their rows.
LEMMA PointsStay ==
    ASSUME CorpusInv, RowsStay, points' = points
    PROVE  PointsOk'
<1>. SUFFICES ASSUME NEW p \in points PROVE PointOk(p)'
  BY DEF PointsOk
<1>1. PICK d \in Document : \E c \in Content(d) :
        /\ p \in PointsOf[d][c]
        /\ p.id.kind = "table" => rows[TableRef(d, p.id.no)] # None
  BY DEF CorpusInv, PointsOk, PointOk
<1>2. PICK c \in Content(d) :
        /\ p \in PointsOf[d][c]
        /\ p.id.kind = "table" => rows[TableRef(d, p.id.no)] # None
  BY <1>1
<1>3. p.id.kind = "table" => TableRef(d, p.id.no) \in TableRefs
  BY <1>2, PointsNamed, TableNamed DEF OfDocument
<1>. QED
  BY <1>2, <1>3 DEF PointOk, RowsStay

\* The rows of one table are replaced by those of the same table, and no other
\* document has it unless it is shared.
LEMMA InsertOk ==
    ASSUME CorpusInv, InsertTableRows
    PROVE  CorpusInv' /\ RowsStay
<1>0. /\ job.on \in Document /\ job.content \in Content(job.on) /\ job.step = "tables"
      /\ job \in Job /\ job.table \in Nat
      /\ job.table <= Holds(job.on, job.content).tables
      /\ job.table # Holds(job.on, job.content).tables
      /\ HasRows(job.on, job.content, job.table)
  BY DEF InsertTableRows, Stored, CorpusInv, JobOk, Job
<1>. PICK d \in Document : d = job.on
  BY <1>0
<1>. PICK c \in Content(d) : c = job.content
  BY <1>0
<1>. PICK n \in Nat : n = job.table
  BY <1>0
<1>. DEFINE new == [from |-> d, content |-> c]
<1>1. /\ d \in Document /\ c \in Content(d) /\ c \in Nat
      /\ n <= Holds(d, c).tables /\ Holds(d, c).tables \in Nat
      /\ n # Holds(d, c).tables /\ HasRows(d, c, n)
  BY <1>0, CorpusAssumption
<1>2. /\ rows' = [rows EXCEPT ![TableRef(d, n)] = new]
      /\ job' = [job EXCEPT !.table = @ + 1]
      /\ ingested' = [ingested EXCEPT ![d] = 0]
      /\ file' = file /\ points' = points
  BY DEF InsertTableRows, Ref
<1>3. n \in 0 .. Holds(d, c).tables - 1
  BY <1>1
<1>4. TableRef(d, n) \in TableRefs /\ TableRef(d, n).no = n
  BY <1>1, <1>3, TableNamed DEF TableRef
<1>5. new \in Rows /\ new # None /\ new.from = d
  BY <1>1, CorpusAssumption DEF Rows
<1>6. /\ job' \in Job /\ job'.on = d /\ job'.content = c /\ job'.table = n + 1
      /\ job'.step = "tables"
  BY <1>0, <1>2 DEF Job
<1>. HIDE DEF new
<1>7. RowsOk' /\ RowsStay
  BY <1>2, <1>4, <1>5 DEF CorpusInv, RowsOk, RowsStay
<1>8. FilesOk'
  BY <1>2 DEF CorpusInv, FilesOk
<1>9. PointsOk'
  BY <1>2, <1>7, PointsStay
<1>10. HasRows(d, c, n + 1)'
  <2>. SUFFICES ASSUME NEW i \in 0 .. (n + 1) - 1
                PROVE  /\ rows'[TableRef(d, i)] # None
                       /\ ~Shared(d, i) => rows'[TableRef(d, i)] = new
    BY <1>5 DEF HasRows, new
  <2>1. rows \in [TableRefs -> {None} \cup Rows]
    BY DEF CorpusInv, RowsOk
  <2>2. CASE i = n
    BY <1>2, <1>4, <1>5, <2>1, <2>2
  <2>3. CASE i # n
    <3>1. i \in 0 .. n - 1 /\ i \in 0 .. Holds(d, c).tables - 1
      BY <1>1, <2>3
    <3>2. TableRef(d, i) \in TableRefs /\ TableRef(d, i) # TableRef(d, n)
      BY <1>1, <2>3, <3>1, TableNamed, TableNames
    <3>3. rows'[TableRef(d, i)] = rows[TableRef(d, i)]
      BY <1>2, <2>1, <3>2
    <3>. QED
      BY <1>1, <3>1, <3>3 DEF HasRows, new
  <2>. QED
    BY <2>2, <2>3
<1>11. JobOk'
  BY <1>1, <1>6, <1>10 DEF JobOk
<1>12. IngestedOk'
  <2>1. ingested' \in [Document -> Nat] /\ ingested'[d] = 0
    BY <1>1, <1>2 DEF CorpusInv, IngestedOk
  <2>2. ASSUME NEW e \in Document, ingested'[e] # 0
        PROVE  ingested'[e] \in Content(e) /\ InStores(e, ingested[e])' /\ ingested'[e] = ingested[e]
    <3>1. e # d /\ ingested'[e] = ingested[e]
      BY <1>1, <1>2, <2>1, <2>2 DEF CorpusInv, IngestedOk
    <3>2. ingested[e] \in Content(e) /\ InStores(e, ingested[e])
      BY <2>2, <3>1 DEF CorpusInv, IngestedOk
    <3>3. ASSUME NEW i \in 0 .. Holds(e, ingested[e]).tables - 1, ~Shared(e, i)
          PROVE  rows'[TableRef(e, i)] = [from |-> e, content |-> ingested[e]]
      <4>1. rows[TableRef(e, i)] = [from |-> e, content |-> ingested[e]]
        BY <3>2, <3>3 DEF InStores
      <4>2. TableRef(e, i) # TableRef(d, n)
        <5>1. TableRef(d, n) \in UNION {Tables(d, b) : b \in Content(d)}
          BY <1>1, <1>3, TableNamed
        <5>. QED
          BY <1>1, <3>1, <3>3, <5>1 DEF Shared
      <4>3. TableRef(e, i) \in TableRefs
        BY <3>2, TableNamed
      <4>. QED
        BY <1>2, <4>1, <4>2, <4>3 DEF CorpusInv, RowsOk
    <3>. QED
      BY <1>2, <3>1, <3>2, <3>3 DEF InStores
  <2>. QED
    BY <2>1, <2>2 DEF IngestedOk, InStores
<1>. QED
  BY <1>7, <1>8, <1>9, <1>11, <1>12 DEF CorpusInv

\* The points of one document are replaced, and all tables of it are stored.
LEMMA UpsertOk ==
    ASSUME CorpusInv, UpsertChunks
    PROVE  CorpusInv' /\ RowsStay
<1>0. /\ job.on \in Document /\ job.content \in Content(job.on) /\ job.step = "upsert"
      /\ HasRows(job.on, job.content, Holds(job.on, job.content).tables)
  BY DEF UpsertChunks, CorpusInv, JobOk
<1>. PICK d \in Document : d = job.on
  BY <1>0
<1>. PICK c \in Content(d) : c = job.content
  BY <1>0
<1>1. d \in Document /\ c \in Content(d) /\ c \in Nat /\ HasRows(d, c, Holds(d, c).tables)
  BY <1>0, CorpusAssumption
<1>2. /\ points' = Upserted(points, PointsOf[d][c])
      /\ ingested' = [ingested EXCEPT ![d] = c]
      /\ job' = Forward /\ file' = file /\ rows' = rows
  BY DEF UpsertChunks
<1>3. JobOk'
  BY <1>0, <1>2, ForwardOk DEF CorpusInv, JobOk
<1>4. RowsOk' /\ FilesOk' /\ RowsStay
  BY <1>2 DEF CorpusInv, RowsOk, FilesOk, RowsStay
<1>5. PointsOk'
  <2>. SUFFICES ASSUME NEW p \in points' PROVE PointOk(p)'
    BY DEF PointsOk
  <2>1. CASE p \in points
    BY <1>2, <2>1 DEF CorpusInv, PointsOk, PointOk
  <2>2. CASE p \in PointsOf[d][c]
    <3>1. p.id.kind = "table" => rows[TableRef(d, p.id.no)] # None
      BY <1>1, <2>2, PointsNamed DEF OfDocument, HasRows
    <3>. QED
      BY <1>1, <1>2, <2>2, <3>1 DEF PointOk
  <2>. QED
    BY <1>2, <2>1, <2>2 DEF Upserted
<1>6. IngestedOk'
  <2>1. ingested' \in [Document -> Nat]
    BY <1>1, <1>2 DEF CorpusInv, IngestedOk
  <2>2. ASSUME NEW e \in Document, ingested'[e] # 0
        PROVE  /\ ingested'[e] \in Content(e)
               /\ PointsOf[e][ingested'[e]] \subseteq points'
               /\ \A i \in 0 .. Holds(e, ingested'[e]).tables - 1 :
                      ~Shared(e, i) => rows'[TableRef(e, i)] = [from |-> e, content |-> ingested'[e]]
    <3>1. CASE e = d
      <4>1. ingested'[e] = c
        BY <1>1, <1>2, <3>1 DEF CorpusInv, IngestedOk
      <4>2. PointsOf[d][c] \subseteq points'
        BY <1>2 DEF Upserted
      <4>. QED
        BY <1>1, <1>2, <3>1, <4>1, <4>2 DEF HasRows
    <3>2. CASE e # d
      <4>1. ingested'[e] = ingested[e]
        BY <1>2, <3>2 DEF CorpusInv, IngestedOk
      <4>2. ingested[e] \in Content(e) /\ InStores(e, ingested[e])
        BY <2>2, <4>1 DEF CorpusInv, IngestedOk
      <4>3. PointsOf[e][ingested[e]] \subseteq points'
        BY <1>1, <1>2, <3>2, <4>2, PointsApart DEF InStores, Upserted
      <4>. QED
        BY <1>2, <4>1, <4>2, <4>3 DEF InStores
    <3>. QED
      BY <3>1, <3>2
  <2>. QED
    BY <2>1, <2>2 DEF IngestedOk, InStores
<1>. QED
  BY <1>3, <1>4, <1>5, <1>6 DEF CorpusInv

\* Every step keeps the corpus in order, and no table is ever emptied.
LEMMA CorpusKept == CorpusInv /\ [Next]_vars => CorpusInv' /\ RowsStay
<1>. SUFFICES ASSUME CorpusInv, CorpusStep PROVE CorpusInv' /\ RowsStay
  BY StepOfCorpus
<1>0. ASSUME rows' = rows PROVE RowsStay
  BY <1>0 DEF RowsStay
<1>1. CASE StartRun
  <2>1. At(1) \in Job /\ At(1).step = "extract" /\ At(1).on \in Document /\ At(1).table = 0
    <3>1. Manifest \in Seq(Range(Manifest)) /\ Manifest # << >>
      BY CorpusAssumption
    <3>2. 1 \in Document
      BY <3>1, Documents
    <3>. QED
      BY <3>2 DEF At, Job
  <2>2. /\ job' \in Job /\ job'.step \in {"idle", "extract"} /\ job'.table = 0
        /\ IF job'.step = "idle" THEN job'.on = 0 ELSE job'.on \in Document
        /\ UNCHANGED <<rows, points, ingested>>
    BY <1>1, <2>1 DEF StartRun
  <2>3. FilesOk'
    BY <1>1 DEF StartRun, CorpusInv, FilesOk
  <2>. QED
    BY <1>0, <2>2, <2>3, StoresAlone
<1>2. CASE Extract
  <2>1. /\ job.step = "extract" /\ job.on \in Document /\ job \in Job
        /\ file[job.on] \in Content(job.on) /\ file[job.on] \in Nat /\ job.table = 0
        /\ job' = [job EXCEPT !.content = file[job.on], !.step = "tables"]
        /\ UNCHANGED <<file, rows, points, ingested>>
    BY <1>2 DEF Extract, CorpusInv, JobOk, FilesOk
  <2>2. JobOk'
    <3>1. /\ job' \in Job /\ job'.step = "tables" /\ job'.on = job.on
          /\ job'.content = file[job.on] /\ job'.table = 0
      BY <2>1 DEF Job
    <3>2. Holds(job.on, file[job.on]).tables \in Nat
      BY <2>1, CorpusAssumption
    <3>. QED
      BY <2>1, <3>1, <3>2 DEF JobOk, HasRows
  <2>3. RowsOk' /\ FilesOk' /\ PointsOk' /\ IngestedOk'
    BY <2>1 DEF CorpusInv, RowsOk, FilesOk, PointsOk, PointOk, IngestedOk, InStores
  <2>. QED
    BY <1>0, <2>1, <2>2, <2>3 DEF CorpusInv
<1>3. CASE RunEmbedding
  <2>1. /\ job.step = "tables" /\ JobOk /\ job.table = Holds(job.on, job.content).tables
        /\ job' = [job EXCEPT !.step = "upsert"]
        /\ UNCHANGED <<file, rows, points, ingested>>
    BY <1>3 DEF RunEmbedding, Stored, CorpusInv
  <2>2. JobOk'
    BY <2>1 DEF JobOk, Job, HasRows
  <2>3. RowsOk' /\ FilesOk' /\ PointsOk' /\ IngestedOk'
    BY <2>1 DEF CorpusInv, RowsOk, FilesOk, PointsOk, PointOk, IngestedOk, InStores
  <2>. QED
    BY <1>0, <2>1, <2>2, <2>3 DEF CorpusInv
<1>4. CASE SkipDocument \/ Die
  <2>1. job.step # "idle"
    BY <1>4 DEF SkipDocument, Die, Running, CorpusInv, JobOk
  <2>2. Idle \in Job /\ Idle.step = "idle" /\ Idle.on = 0 /\ Idle.table = 0
    BY DEF Idle, Job
  <2>3. /\ job' \in Job /\ job'.step \in {"idle", "extract"} /\ job'.table = 0
        /\ IF job'.step = "idle" THEN job'.on = 0 ELSE job'.on \in Document
    BY <1>4, <2>1, <2>2, ForwardOk DEF SkipDocument, Die, CorpusInv
  <2>. QED
    BY <1>0, <1>4, <2>3, StoresAlone DEF SkipDocument, Die, CorpusInv, FilesOk
<1>5. ASSUME NEW d \in Document, ReplaceFile(d) PROVE CorpusInv' /\ RowsStay
  <2>1. FilesOk'
    BY <1>5, CorpusAssumption DEF ReplaceFile, CorpusInv, FilesOk
  <2>2. UNCHANGED <<rows, points, job, ingested>>
    BY <1>5 DEF ReplaceFile
  <2>. QED
    BY <1>0, <2>1, <2>2
       DEF CorpusInv, RowsOk, PointsOk, PointOk, IngestedOk, InStores, JobOk, HasRows
<1>6. CASE UNCHANGED corpusVars
  BY <1>0, <1>6
     DEF corpusVars, CorpusInv, RowsOk, FilesOk, PointsOk, PointOk, IngestedOk, InStores, JobOk, HasRows
<1>. QED
  BY <1>1, <1>2, <1>3, <1>4, <1>5, <1>6, InsertOk, UpsertOk DEF CorpusStep, Ingest

\* Both stores are empty at first.
LEMMA CorpusStarts == Init => CorpusInv
<1>. SUFFICES ASSUME CorpusInit PROVE CorpusInv
  BY DEF Init
<1>1. JobOk
  BY DEF CorpusInit, JobOk, Idle, Job
<1>. QED
  BY <1>1, CorpusAssumption
     DEF CorpusInit, CorpusInv, RowsOk, FilesOk, PointsOk, IngestedOk

\* Names keep the two stores together: rows are under the name of their own
\* table, points are those of a content, and pointers have rows.
THEOREM CorpusInvariant == Spec => []CorpusInv
<1>1. Init => CorpusInv
  BY CorpusStarts
<1>2. CorpusInv /\ [Next]_vars => CorpusInv'
  BY CorpusKept
<1>. QED
  BY <1>1, <1>2, PTL DEF Spec

\* The two stores agree on every document whose last ingestion came to its end.
THEOREM IndexedInvariant == Spec => []Indexed
<1>1. CorpusInv => Indexed
  BY DEF CorpusInv, IngestedOk, Indexed
<1>. QED
  BY <1>1, CorpusInvariant, PTL

-----------------------------------------------------------------------------
(* Towards a current corpus *)

\* The stores have what the document's file has now.
Current(d) == InStores(d, file[d])

\* The job is not at this document with an older file of it.
Fresh(d) == job.on = d /\ job.step \in {"tables", "upsert"} => job.content = file[d]

\* A document that is up to date gets out of date by a new file only, or by a
\* job that read the old one; and one that the job comes to the end of is up to
\* date.
CurrentKept ==
    \A d \in Document : Fresh(d) /\ file'[d] = file[d] =>
        /\ Current(d) => Current(d)'
        /\ UpsertChunks /\ job.on = d => Current(d)'

\* Rows of one document are those of its file, or of another document.
LEMMA InsertCurrent ==
    ASSUME CorpusInv, InsertTableRows, NEW e \in Document, Fresh(e), Current(e)
    PROVE  Current(e)'
<1>. PICK d \in Document : d = job.on
  BY DEF InsertTableRows, CorpusInv, JobOk
<1>. PICK c \in Content(d) : c = job.content
  BY DEF InsertTableRows, CorpusInv, JobOk
<1>. PICK n : n = job.table
  OBVIOUS
<1>. PICK b \in Content(e) : b = file[e]
  BY DEF CorpusInv, FilesOk
<1>1. n \in 0 .. Holds(d, c).tables - 1
  BY CorpusAssumption DEF InsertTableRows, Stored, CorpusInv, JobOk, Job
<1>2. /\ rows' = [rows EXCEPT ![TableRef(d, n)] = [from |-> d, content |-> c]]
      /\ file' = file /\ points' = points
  BY DEF InsertTableRows, Ref
<1>3. d = e => c = b
  BY DEF Fresh, InsertTableRows
<1>4. ASSUME NEW i \in 0 .. Holds(e, b).tables - 1, ~Shared(e, i)
      PROVE  rows'[TableRef(e, i)] = [from |-> e, content |-> b]
  <2>1. rows[TableRef(e, i)] = [from |-> e, content |-> b]
    BY <1>4 DEF Current, InStores
  <2>2. TableRef(e, i) \in TableRefs
    BY TableNamed
  <2>3. TableRef(e, i) = TableRef(d, n) => e = d
    <3>1. TableRef(d, n) \in UNION {Tables(d, a) : a \in Content(d)}
      BY <1>1, TableNamed
    <3>. QED
      BY <1>4, <3>1 DEF Shared
  <2>. QED
    BY <1>2, <1>3, <2>1, <2>2, <2>3 DEF CorpusInv, RowsOk
<1>5. PointsOf[e][b] \subseteq points'
  BY <1>2 DEF Current, InStores
<1>6. InStores(e, b)'
  BY <1>4, <1>5 DEF InStores
<1>. QED
  BY <1>2, <1>6 DEF Current

\* Points of one document are those of its file, or of another document.
LEMMA UpsertCurrent ==
    ASSUME CorpusInv, UpsertChunks, NEW e \in Document, Fresh(e), Current(e) \/ job.on = e
    PROVE  Current(e)'
<1>. PICK d \in Document : d = job.on
  BY DEF UpsertChunks, CorpusInv, JobOk
<1>. PICK c \in Content(d) : c = job.content
  BY DEF UpsertChunks, CorpusInv, JobOk
<1>. PICK b \in Content(e) : b = file[e]
  BY DEF CorpusInv, FilesOk
<1>1. /\ points' = Upserted(points, PointsOf[d][c]) /\ file' = file /\ rows' = rows
      /\ ingested'[d] = c
  BY DEF UpsertChunks, CorpusInv, IngestedOk
<1>2. CASE e = d
  <2>1. b = c /\ c # 0
    BY <1>2, CorpusAssumption DEF Fresh, UpsertChunks
  <2>2. InStores(d, ingested[d])'
    BY <1>1, <2>1, UpsertOk DEF CorpusInv, IngestedOk
  <2>. QED
    BY <1>1, <1>2, <2>1, <2>2 DEF Current
<1>3. CASE e # d
  <2>1. InStores(e, b)
    BY <1>3 DEF Current
  <2>2. PointsOf[e][b] \subseteq points'
    BY <1>1, <1>3, <2>1, PointsApart DEF InStores, Upserted
  <2>. QED
    BY <1>1, <2>1, <2>2 DEF Current, InStores
<1>. QED
  BY <1>2, <1>3

\* Running the job again never undoes what is current, wherever it fails or
\* dies, and completes what it comes to the end of.
THEOREM CurrentStays == Spec => [][CurrentKept]_vars
<1>1. CorpusInv /\ [Next]_vars => CurrentKept
  <2>. SUFFICES ASSUME CorpusInv, CorpusStep, NEW d \in Document, Fresh(d), file'[d] = file[d],
                       Current(d) \/ (UpsertChunks /\ job.on = d)
                PROVE  Current(d)'
    BY StepOfCorpus DEF CurrentKept
  <2>1. CASE InsertTableRows
    BY <2>1, InsertCurrent DEF InsertTableRows, UpsertChunks
  <2>2. CASE UpsertChunks
    BY <2>2, UpsertCurrent
  <2>3. CASE UNCHANGED <<rows, points>> /\ ~UpsertChunks
    BY <2>3 DEF Current, InStores
  <2>. QED
    BY <2>1, <2>2, <2>3 DEF CorpusStep, Ingest, StartRun, Extract, RunEmbedding, SkipDocument, Die,
       ReplaceFile, corpusVars
<1>. QED
  BY <1>1, CorpusInvariant, PTL DEF Spec

-----------------------------------------------------------------------------
(* Turns *)

\* What an answer shows is what it names.
Shows(i) ==
    /\ i.shown.doc = i.chunk.doc /\ i.shown.version = i.chunk.version
    /\ i.for # None => i.shown.kind = "article" /\ i.shown.no = i.for
    /\ i.rank = 1 =>
           /\ i.rows # None
           /\ \/ Manifest[i.rows.from].version = i.chunk.version
              \/ Shared(i.rows.from, i.chunk.no)

\* No text the turn could have been answered with stayed in the corpus.
Overlooks(p, q) == p.id \in q.relevant /\ LanguageOf(p) = q.language
Searched(q, stayed) ==
    /\ q.step = "search_any" \/ q.cross => \A p \in stayed : ~Overlooks(p, q)
    /\ q.step = "nothing_found" => \A p \in stayed : p.id \notin q.relevant

TurnOk(q, stayed) ==
    q # NoTurn =>
        /\ DOMAIN q = {"language", "relevant", "step", "found", "cross", "context"}
        /\ q.step # "idle"
        /\ \A p \in q.found : PointOk(p)
        /\ \A i \in q.context : Shows(i)
        /\ Searched(q, stayed)

TurnsInv ==
    /\ CorpusInv /\ IsFiniteSet(points)
    /\ turn = [t \in Turn |-> turn[t]] /\ steady = [t \in Turn |-> steady[t]]
    /\ \A t \in Turn : steady[t] \subseteq points /\ TurnOk(turn[t], steady[t])

\* Points keep their rows.
LEMMA PointStays ==
    ASSUME RowsStay, NEW p, PointOk(p)
    PROVE  PointOk(p)'
<1>1. PICK d \in Document : \E c \in Content(d) :
        /\ p \in PointsOf[d][c]
        /\ p.id.kind = "table" => rows[TableRef(d, p.id.no)] # None
  BY DEF PointOk
<1>2. PICK c \in Content(d) :
        /\ p \in PointsOf[d][c]
        /\ p.id.kind = "table" => rows[TableRef(d, p.id.no)] # None
  BY <1>1
<1>3. p.id.kind = "table" => TableRef(d, p.id.no) \in TableRefs
  BY <1>2, PointsNamed, TableNamed DEF OfDocument
<1>. QED
  BY <1>2, <1>3 DEF PointOk, RowsStay

\* A turn is not disturbed by what the job does.
LEMMA TurnStays ==
    ASSUME RowsStay, NEW q, NEW stayed, NEW stay, TurnOk(q, stayed), stay \subseteq stayed
    PROVE  TurnOk(q, stay)'
<1>. SUFFICES ASSUME q # NoTurn PROVE TurnOk(q, stay)'
  BY DEF TurnOk
<1>1. \A p \in q.found : PointOk(p)'
  BY PointStays DEF TurnOk
<1>2. Searched(q, stay)'
  BY DEF TurnOk, Searched, Overlooks, LanguageOf
<1>3. \A i \in q.context : Shows(i)'
  BY DEF TurnOk, Shows, Shared
<1>. QED
  BY <1>1, <1>2, <1>3 DEF TurnOk

\* There are never infinitely many points.
LEMMA PointsFinite ==
    ASSUME CorpusInv, IsFiniteSet(points), CorpusStep
    PROVE  IsFiniteSet(points')
<1>1. CASE UpsertChunks
  <2>1. job.on \in Document /\ job.content \in Content(job.on)
    BY <1>1 DEF UpsertChunks, CorpusInv, JobOk
  <2>2. IsFiniteSet(PointsOf[job.on][job.content])
    BY <2>1, ContentPoints
  <2>3. IsFiniteSet({p \in points : \A q \in PointsOf[job.on][job.content] : q.id # p.id})
    BY FS_Subset
  <2>. QED
    BY <1>1, <2>2, <2>3, FS_Union DEF UpsertChunks, Upserted
<1>2. CASE points' = points
  BY <1>2
<1>. QED
  BY <1>1, <1>2 DEF CorpusStep, Ingest, StartRun, Extract, InsertTableRows, RunEmbedding,
       SkipDocument, Die, ReplaceFile, corpusVars

\* The step of one turn.
LEMMA OneTurn ==
    ASSUME TurnsInv, NEW t \in Turn, NEW q, NEW stay,
           turn' = [turn EXCEPT ![t] = q], steady' = [steady EXCEPT ![t] = stay],
           UNCHANGED corpusVars, stay \subseteq points, TurnOk(q, stay)
    PROVE  TurnsInv'
<1>1. CorpusInv' /\ RowsStay
  BY DEF corpusVars, TurnsInv, RowsStay, CorpusInv, RowsOk, FilesOk, PointsOk, PointOk, IngestedOk,
         InStores, JobOk, HasRows
<1>2. points' = points
  BY DEF corpusVars
<1>3. /\ turn' = [u \in Turn |-> turn'[u]] /\ steady' = [u \in Turn |-> steady'[u]]
      /\ turn'[t] = q /\ steady'[t] = stay
      /\ \A u \in Turn \ {t} : turn'[u] = turn[u] /\ steady'[u] = steady[u]
  BY DEF TurnsInv
<1>4. ASSUME NEW u \in Turn
      PROVE  (steady[u] \subseteq points /\ TurnOk(turn[u], steady[u]))'
  <2>1. PICK r : r = turn'[u]
    OBVIOUS
  <2>2. PICK s : s = steady'[u]
    OBVIOUS
  <2>3. TurnOk(r, s) /\ s \subseteq points /\ turn[u]' = r /\ steady[u]' = s
    BY <1>3, <2>1, <2>2 DEF TurnsInv
  <2>4. TurnOk(r, s)'
    BY <1>1, <2>3, TurnStays
  <2>. QED
    BY <1>2, <2>3, <2>4 DEF TurnOk, Searched, Overlooks
<1>5. IsFiniteSet(points)'
  BY <1>2 DEF TurnsInv
<1>. QED
  BY <1>1, <1>3, <1>4, <1>5 DEF TurnsInv

\* A turn goes on.
LEMMA GoesOn ==
    ASSUME TurnsInv, NEW t \in Turn, NEW q, Goes(t, q), TurnOk(q, steady[t])
    PROVE  TurnsInv'
<1>1. /\ turn' = [turn EXCEPT ![t] = q] /\ UNCHANGED corpusVars
      /\ steady' = [steady EXCEPT ![t] = steady[t]] /\ steady[t] \subseteq points
  BY DEF Goes, TurnsInv
<1>. QED
  BY <1>1, OneTurn

\* Nothing is found only if nothing is relevant.
LEMMA NoneBest ==
    ASSUME IsFiniteSet(points), NEW matches \in SUBSET points, {} \in Best(matches)
    PROVE  matches = {}
<1>1. IsFiniteSet(matches) /\ Cardinality(matches) \in Nat
  BY FS_Subset, FS_CardinalityType
<1>2. Cardinality({}) = 0
  BY FS_EmptySet
<1>3. Cardinality(matches) = 0
  BY <1>1, <1>2, ExplainerAssumption DEF Best
<1>. QED
  BY <1>1, <1>3, FS_EmptySet

\* A question is asked.
LEMMA BeginOk ==
    ASSUME TurnsInv, NEW t \in Turn, NEW language, NEW relevant, NEW step,
           Begin(t, language, relevant, step), step \in {"wrong_jurisdiction", "embed"}
    PROVE  TurnsInv'
<1>. DEFINE q == [language |-> language, relevant |-> relevant, step |-> step,
                  found |-> {}, cross |-> FALSE, context |-> {}]
<1>1. /\ turn' = [turn EXCEPT ![t] = q] /\ UNCHANGED corpusVars
      /\ steady' = [steady EXCEPT ![t] = points]
  BY DEF Begin
<1>2. TurnOk(q, points)
  <2>1. DOMAIN q = {"language", "relevant", "step", "found", "cross", "context"}
    OBVIOUS
  <2>2. q.step # "idle" /\ q.step # "search_any" /\ q.step # "nothing_found"
    OBVIOUS
  <2>3. q.found = {} /\ q.context = {} /\ ~q.cross
    OBVIOUS
  <2>. HIDE DEF q
  <2>. QED
    BY <2>1, <2>2, <2>3 DEF TurnOk, Searched
<1>. HIDE DEF q
<1>. QED
  BY <1>1, <1>2, OneTurn

\* The turn that takes a step.
LEMMA TurnOf ==
    ASSUME TurnsInv, NEW t \in Turn, turn[t].step # "idle"
    PROVE  /\ turn[t] # NoTurn /\ TurnOk(turn[t], steady[t])
           /\ DOMAIN turn[t] = {"language", "relevant", "step", "found", "cross", "context"}
BY DEF TurnsInv, TurnOk, NoTurn

\* What generating ends in.
Generated == {"answered", "model_failed", "wrote_nothing"}

\* Only the step changes.
LEMMA StepOk ==
    ASSUME TurnsInv, NEW t \in Turn, turn[t].step # "idle", NEW step,
           step \in {"search", "failed"} \cup Generated, Goes(t, [turn[t] EXCEPT !.step = step])
    PROVE  TurnsInv'
<1>. PICK q : q = [turn[t] EXCEPT !.step = step]
  OBVIOUS
<1>1. /\ DOMAIN q = DOMAIN turn[t] /\ q.step = step
      /\ q.language = turn[t].language /\ q.relevant = turn[t].relevant
      /\ q.found = turn[t].found /\ q.cross = turn[t].cross /\ q.context = turn[t].context
  BY TurnOf
<1>2. q.step # "search_any" /\ q.step # "nothing_found" /\ q.step # "idle"
  BY <1>1 DEF Generated
<1>3. Searched(q, steady[t])
  BY <1>1, <1>2, TurnOf DEF TurnOk, Searched, Overlooks
<1>4. TurnOk(q, steady[t])
  BY <1>1, <1>2, <1>3, TurnOf DEF TurnOk
<1>. QED
  BY <1>4, GoesOn

\* What a search finds is in the corpus.
LEMMA Found ==
    ASSUME TurnsInv, NEW t \in Turn, NEW language, NEW found \in Best(Relevant(t, language))
    PROVE  /\ Relevant(t, language) \subseteq points
           /\ \A p \in found : p \in points /\ PointOk(p)
BY DEF TurnsInv, CorpusInv, PointsOk, Best, Relevant

\* The search in the language of the question.
LEMMA SearchOk ==
    ASSUME TurnsInv, NEW t \in Turn, Search(t)
    PROVE  TurnsInv'
<1>1. /\ turn[t].step = "search"
      /\ \E found \in Best(Relevant(t, turn[t].language)) :
             Goes(t, [turn[t] EXCEPT !.found = found,
                                     !.step = IF found = {} THEN "search_any" ELSE "resolve"])
  BY DEF Search, Awaits
<1>2. PICK found \in Best(Relevant(t, turn[t].language)) :
             Goes(t, [turn[t] EXCEPT !.found = found,
                                     !.step = IF found = {} THEN "search_any" ELSE "resolve"])
  BY <1>1
<1>. PICK step : step = IF found = {} THEN "search_any" ELSE "resolve"
  OBVIOUS
<1>. PICK q : q = [turn[t] EXCEPT !.found = found, !.step = step]
  OBVIOUS
<1>3. /\ DOMAIN q = DOMAIN turn[t] /\ q.step = step
      /\ q.language = turn[t].language /\ q.relevant = turn[t].relevant
      /\ q.found = found /\ q.cross = turn[t].cross /\ q.context = turn[t].context
  BY <1>1, TurnOf
<1>4. ASSUME found = {}, NEW p \in steady[t] PROVE ~Overlooks(p, turn[t])
  <2>1. Relevant(t, turn[t].language) = {}
    BY <1>4, Found, NoneBest DEF TurnsInv
  <2>. QED
    BY <2>1 DEF Relevant, Overlooks, TurnsInv
<1>5. Searched(q, steady[t])
  BY <1>1, <1>3, <1>4, TurnOf DEF TurnOk, Searched, Overlooks
<1>6. TurnOk(q, steady[t])
  BY <1>1, <1>3, <1>5, TurnOf, Found DEF TurnOk
<1>. QED
  BY <1>2, <1>6, GoesOn

\* The search in both languages comes after one that found nothing in the first.
LEMMA SearchAnyOk ==
    ASSUME TurnsInv, NEW t \in Turn, SearchAny(t)
    PROVE  TurnsInv'
<1>1. /\ turn[t].step = "search_any"
      /\ \E found \in Best(Relevant(t, None)) :
             Goes(t, [turn[t] EXCEPT !.found = found, !.cross = found # {},
                                     !.step = IF found = {} THEN "nothing_found" ELSE "resolve"])
  BY DEF SearchAny, Awaits
<1>2. PICK found \in Best(Relevant(t, None)) :
             Goes(t, [turn[t] EXCEPT !.found = found, !.cross = found # {},
                                     !.step = IF found = {} THEN "nothing_found" ELSE "resolve"])
  BY <1>1
<1>. PICK step : step = IF found = {} THEN "nothing_found" ELSE "resolve"
  OBVIOUS
<1>. PICK cross : cross = (found # {})
  OBVIOUS
<1>. PICK q : q = [turn[t] EXCEPT !.found = found, !.cross = cross, !.step = step]
  OBVIOUS
<1>3. /\ DOMAIN q = DOMAIN turn[t] /\ q.step = step
      /\ q.language = turn[t].language /\ q.relevant = turn[t].relevant
      /\ q.found = found /\ q.context = turn[t].context
  BY <1>1, TurnOf
<1>4. ASSUME found = {}, NEW p \in steady[t] PROVE p.id \notin turn[t].relevant
  <2>1. Relevant(t, None) = {}
    BY <1>4, Found, NoneBest DEF TurnsInv
  <2>. QED
    BY <2>1 DEF Relevant, TurnsInv
<1>5. Searched(q, steady[t])
  <2>1. \A p \in steady[t] : ~Overlooks(p, turn[t])
    BY <1>1, TurnOf DEF TurnOk, Searched
  <2>. QED
    BY <1>3, <1>4, <2>1 DEF Searched, Overlooks
<1>6. TurnOk(q, steady[t])
  BY <1>1, <1>3, <1>5, TurnOf, Found DEF TurnOk
<1>7. Goes(t, q)
  BY <1>2
<1>. QED
  BY <1>6, <1>7, GoesOn

\* A table is shown with rows of its version, or of one that shares its name.
LEMMA TableShown ==
    ASSUME CorpusInv, NEW found, \A p \in found : PointOk(p), NEW i \in TableItems(found)
    PROVE  Shows(i)
<1>1. PICK p \in found : p.id.kind = "table" /\
          i = [rank |-> 1, chunk |-> p.id, for |-> None, shown |-> p.id,
               rows |-> rows[TableRef(p.from, p.id.no)]]
  BY DEF TableItems
<1>2. PICK d \in Document : \E c \in Content(d) :
        p \in PointsOf[d][c] /\ rows[TableRef(d, p.id.no)] # None
  BY <1>1 DEF PointOk
<1>3. PICK c \in Content(d) : p \in PointsOf[d][c] /\ rows[TableRef(d, p.id.no)] # None
  BY <1>2
<1>. PICK n : n = p.id.no
  OBVIOUS
<1>4. /\ p.from = d /\ p.id.version = Manifest[d].version /\ n \in 0 .. Holds(d, c).tables - 1
      /\ TableRef(d, n) \in Tables(d, c) /\ TableRef(d, n) \in TableRefs
  BY <1>1, <1>3, PointsNamed, TableNamed DEF OfDocument
<1>. PICK e : e = rows[TableRef(d, n)].from
  OBVIOUS
<1>5. e \in Document /\ TableRef(e, n) = TableRef(d, n)
  <2>1. rows[TableRef(d, n)] \in Rows /\ TableRef(e, TableRef(d, n).no) = TableRef(d, n)
    BY <1>3, <1>4 DEF CorpusInv, RowsOk
  <2>. QED
    BY <2>1 DEF Rows, TableRef
<1>6. e = d \/ Shared(e, n)
  BY <1>4, <1>5, SharedTable
<1>. QED
  BY <1>1, <1>3, <1>4, <1>6 DEF Shows

\* What is put before the model names what it shows.
LEMMA ResolveOk ==
    ASSUME TurnsInv, NEW t \in Turn, Resolve(t)
    PROVE  TurnsInv'
<1>. PICK found : found = turn[t].found
  OBVIOUS
<1>. PICK resolved : resolved = {c \in Citations(found) : FindByCompositeKey(c[1], c[2]) # {}}
  OBVIOUS
<1>1. /\ turn[t].step = "resolve"
      /\ \E pick \in [resolved -> points] :
               /\ \A c \in resolved : pick[c] \in FindByCompositeKey(c[1], c[2])
               /\ \E kept \in Cap(TableItems(found) \cup TextItems(found)
                                      \cup ReferredItems(found, pick)) :
                      Goes(t, [turn[t] EXCEPT !.context = kept, !.step = "generate"])
  BY DEF Resolve, Awaits
<1>2. PICK pick \in [resolved -> points] :
               /\ \A c \in resolved : pick[c] \in FindByCompositeKey(c[1], c[2])
               /\ \E kept \in Cap(TableItems(found) \cup TextItems(found)
                                      \cup ReferredItems(found, pick)) :
                      Goes(t, [turn[t] EXCEPT !.context = kept, !.step = "generate"])
  BY <1>1
<1>3. PICK kept \in Cap(TableItems(found) \cup TextItems(found) \cup ReferredItems(found, pick)) :
          Goes(t, [turn[t] EXCEPT !.context = kept, !.step = "generate"])
  BY <1>2
<1>4. \A p \in found : PointOk(p)
  BY <1>1, TurnOf DEF TurnOk
<1>5. ASSUME NEW i \in ReferredItems(found, pick) PROVE Shows(i)
  <2>1. PICK c \in resolved :
            i = [rank |-> 3, chunk |-> c[1].id, for |-> c[2], shown |-> pick[c].id, rows |-> None]
    BY <1>5 DEF ReferredItems
  <2>2. pick[c] \in FindByCompositeKey(c[1], c[2])
    BY <1>2
  <2>. QED
    BY <2>1, <2>2 DEF FindByCompositeKey, Shows
<1>6. ASSUME NEW i \in TextItems(found) PROVE Shows(i)
  BY DEF TextItems, Shows
<1>7. \A i \in kept : Shows(i)
  BY <1>4, <1>5, <1>6, TableShown DEF Cap, TurnsInv
<1>. PICK q : q = [turn[t] EXCEPT !.context = kept, !.step = "generate"]
  OBVIOUS
<1>8. /\ DOMAIN q = DOMAIN turn[t] /\ q.step = "generate"
      /\ q.language = turn[t].language /\ q.relevant = turn[t].relevant
      /\ q.found = turn[t].found /\ q.cross = turn[t].cross /\ q.context = kept
  BY <1>1, TurnOf
<1>9. Searched(q, steady[t])
  BY <1>1, <1>8, TurnOf DEF TurnOk, Searched, Overlooks
<1>10. TurnOk(q, steady[t])
  BY <1>1, <1>7, <1>8, <1>9, TurnOf DEF TurnOk
<1>. QED
  BY <1>3, <1>10, GoesOn

\* The job takes a step.
JobStep ==
    /\ StartRun \/ Ingest \/ SkipDocument \/ Die \/ \E d \in Document : ReplaceFile(d)
    /\ steady' = [t \in Turn |-> steady[t] \cap points']
    /\ UNCHANGED turn

\* The job does not disturb turns: points may go from what stayed, rows never.
LEMMA JobStepOk ==
    ASSUME TurnsInv, JobStep
    PROVE  TurnsInv'
<1>1. CorpusInv' /\ RowsStay
  BY CorpusKept DEF TurnsInv, JobStep, Next
<1>2. IsFiniteSet(points)'
  BY PointsFinite DEF TurnsInv, JobStep, CorpusStep
<1>3. ASSUME NEW u \in Turn
      PROVE  (steady[u] \subseteq points /\ TurnOk(turn[u], steady[u]))'
  <2>1. PICK q : q = turn[u]
    OBVIOUS
  <2>2. PICK s : s = steady[u]
    OBVIOUS
  <2>3. PICK r : r = steady'[u]
    OBVIOUS
  <2>4. turn[u]' = q /\ r \subseteq s /\ r \subseteq points' /\ TurnOk(q, s)
    BY <2>1, <2>2, <2>3 DEF JobStep, TurnsInv
  <2>5. TurnOk(q, r)'
    BY <1>1, <2>4, TurnStays
  <2>. QED
    BY <2>3, <2>4, <2>5 DEF TurnOk, Searched, Overlooks
<1>4. (turn = [t \in Turn |-> turn[t]] /\ steady = [t \in Turn |-> steady[t]])'
  BY DEF JobStep, TurnsInv
<1>. QED
  BY <1>1, <1>2, <1>3, <1>4 DEF TurnsInv

\* The last step of a turn that found something.
Ends(t) == Generate(t) \/ GenerateFails(t) \/ GenerateNothing(t)

\* Every step keeps the turns in order.
LEMMA TurnsKept == TurnsInv /\ [Next]_vars => TurnsInv'
<1>. SUFFICES ASSUME TurnsInv, [Next]_vars PROVE TurnsInv'
  OBVIOUS
<1>1. CASE JobStep
  BY <1>1, JobStepOk
<1>2. ASSUME NEW t \in Turn, Ask(t) \/ AskElsewhere(t) PROVE TurnsInv'
  BY <1>2, BeginOk DEF Ask, AskElsewhere
<1>3. ASSUME NEW t \in Turn, Fail(t) \/ Embed(t) \/ Ends(t) PROVE TurnsInv'
  BY <1>3, StepOk DEF Fail, Embed, Ends, Generate, GenerateFails, GenerateNothing, Generated, Awaits
<1>4. CASE UNCHANGED vars
  <2>1. CorpusInv'
    BY <1>4, CorpusKept DEF TurnsInv
  <2>2. RowsStay
    BY <1>4 DEF vars, RowsStay
  <2>3. turn' = turn /\ steady' = steady /\ points' = points
    BY <1>4 DEF vars
  <2>4. ASSUME NEW u \in Turn
        PROVE  (steady[u] \subseteq points /\ TurnOk(turn[u], steady[u]))'
    <3>1. PICK q : q = turn[u]
      OBVIOUS
    <3>2. PICK s : s = steady[u]
      OBVIOUS
    <3>3. TurnOk(q, s)'
      BY <2>2, <3>1, <3>2, TurnStays DEF TurnsInv
    <3>. QED
      BY <2>3, <3>1, <3>2, <3>3 DEF TurnOk, Searched, Overlooks, TurnsInv
  <2>. QED
    BY <2>1, <2>3, <2>4 DEF TurnsInv
<1>. QED
  BY <1>1, <1>2, <1>3, <1>4, SearchOk, SearchAnyOk, ResolveOk DEF Next, JobStep, Answer, Ends

\* Turns are answered from what the corpus held while they ran.
THEOREM TurnsInvariant == Spec => []TurnsInv
<1>1. Init => TurnsInv
  <2>1. ASSUME Init PROVE points = {} /\ IsFiniteSet(points)
    BY <2>1, FS_EmptySet DEF Init, CorpusInit
  <2>. QED
    BY <2>1, CorpusStarts DEF Init, TurnsInv, TurnOk
<1>2. TurnsInv /\ [Next]_vars => TurnsInv'
  BY TurnsKept
<1>. QED
  BY <1>1, <1>2, PTL DEF Spec

\* An answer shows the articles and rows it names.
THEOREM CitesItsVersionInvariant == Spec => []CitesItsVersion
<1>1. TurnsInv => CitesItsVersion
  BY DEF TurnsInv, TurnOk, Shows, CitesItsVersion
<1>. QED
  BY <1>1, TurnsInvariant, PTL

-----------------------------------------------------------------------------
(* Types *)

\* One point for an id, and counters within their bounds.
PointsDistinct == Distinct(points) /\ \A p \in points : IsFiniteSet(p.cites)
Bounded == changes \in 0 .. MaxChanges /\ faults \in 0 .. MaxFaults

\* No more is found and kept than the limits allow, and something of what was
\* found is kept.
Sized(q) ==
    q # NoTurn =>
        /\ q.step \in {"wrong_jurisdiction", "embed", "search", "search_any", "resolve",
                       "generate", "nothing_found", "failed"} \cup Generated
        /\ IsFiniteSet(q.found) /\ Cardinality(q.found) <= SearchLimit
        /\ \A p \in q.found : IsFiniteSet(p.cites)
        /\ Cardinality(q.context) <= CONTEXT_CHUNK_CAP
        /\ q.step = "resolve" => q.found # {}
        /\ q.step \in {"generate"} \cup Generated => q.context # {}

TypeInv == TurnsInv /\ PointsDistinct /\ Bounded /\ \A t \in Turn : Sized(turn[t])

\* The points of a content replace those with their ids.
LEMMA DistinctKept == ASSUME TypeInv, CorpusStep PROVE PointsDistinct'
<1>1. CASE points' = points
  BY <1>1 DEF TypeInv, PointsDistinct, Distinct
<1>2. CASE UpsertChunks
  <2>1. /\ job.on \in Document /\ job.content \in Content(job.on)
        /\ points' = Upserted(points, PointsOf[job.on][job.content])
    BY <1>2 DEF UpsertChunks, TypeInv, TurnsInv, CorpusInv, JobOk
  <2>. PICK new : new = PointsOf[job.on][job.content]
    OBVIOUS
  <2>2. Distinct(new) /\ \A p \in new : IsFiniteSet(p.cites)
    BY <2>1, ContentPoints
  <2>3. points' = {p \in points : \A q \in new : q.id # p.id} \cup new
    BY <2>1 DEF Upserted
  <2>. QED
    BY <2>2, <2>3 DEF TypeInv, PointsDistinct, Distinct
<1>. QED
  BY <1>1, <1>2 DEF CorpusStep, Ingest, StartRun, Extract, InsertTableRows, RunEmbedding,
       SkipDocument, Die, ReplaceFile, corpusVars

\* Counters stop at their bounds.
LEMMA CountersKept == ASSUME TypeInv, CorpusStep PROVE Bounded'
BY CorpusAssumption DEF TypeInv, Bounded, CorpusStep, Ingest, StartRun, Extract, InsertTableRows, RunEmbedding,
   UpsertChunks, SkipDocument, Die, ReplaceFile, corpusVars

\* A search finds no more than its limit.
LEMMA SearchSized ==
    ASSUME TypeInv, NEW t \in Turn, NEW language, NEW found \in Best(Relevant(t, language))
    PROVE  /\ IsFiniteSet(found) /\ Cardinality(found) <= SearchLimit
           /\ \A p \in found : IsFiniteSet(p.cites)
<1>1. Relevant(t, language) \subseteq points /\ found \subseteq Relevant(t, language) /\ IsFiniteSet(points)
  BY DEF Relevant, Best, TypeInv, TurnsInv
<1>2. IsFiniteSet(Relevant(t, language)) /\ IsFiniteSet(found)
  BY <1>1, FS_Subset
<1>3. Cardinality(Relevant(t, language)) \in Nat
  BY <1>2, FS_CardinalityType
<1>. QED
  BY <1>1, <1>2, <1>3, ExplainerAssumption DEF Best, TypeInv, PointsDistinct

\* No more than the cap is kept of finitely many items.
LEMMA CapSized ==
    ASSUME NEW items, IsFiniteSet(items), NEW kept \in Cap(items)
    PROVE  Cardinality(kept) <= CONTEXT_CHUNK_CAP /\ (items # {} => kept # {})
<1>1. Cardinality(items) \in Nat
  BY FS_CardinalityType
<1>2. items # {} => Cardinality(items) # 0
  BY FS_EmptySet
<1>3. kept = {} => Cardinality(kept) = 0
  BY FS_EmptySet
<1>. QED
  BY <1>1, <1>2, <1>3, ExplainerAssumption DEF Cap

\* All that is found is put up for the context.
LEMMA ItemsThere ==
    ASSUME NEW found, found # {}
    PROVE  TableItems(found) \cup TextItems(found) # {}
<1>1. PICK p : p \in found
  OBVIOUS
<1>2. CASE p.id.kind = "table"
  BY <1>1, <1>2 DEF TableItems
<1>3. CASE p.id.kind # "table"
  BY <1>1, <1>3 DEF TextItems
<1>. QED
  BY <1>2, <1>3

\* What is resolved is finite.
LEMMA ItemsFinite ==
    ASSUME NEW found, IsFiniteSet(found), \A p \in found : IsFiniteSet(p.cites),
           NEW pick, DOMAIN pick \subseteq Citations(found)
    PROVE  IsFiniteSet(TableItems(found) \cup TextItems(found) \cup ReferredItems(found, pick))
<1>1. IsFiniteSet(TableItems(found))
  <2>. PICK S : S = {p \in found : p.id.kind = "table"}
    OBVIOUS
  <2>1. IsFiniteSet(S)
    BY FS_Subset
  <2>2. PICK f : f = [p \in S |-> [rank |-> 1, chunk |-> p.id, for |-> None, shown |-> p.id,
                                   rows |-> rows[TableRef(p.from, p.id.no)]]]
    OBVIOUS
  <2>3. TableItems(found) = Values(f, S)
    BY <2>2 DEF TableItems, Values
  <2>. QED
    BY <2>1, <2>3, ValuesFinite
<1>2. IsFiniteSet(TextItems(found))
  <2>. PICK S : S = {p \in found : p.id.kind # "table"}
    OBVIOUS
  <2>1. IsFiniteSet(S)
    BY FS_Subset
  <2>2. PICK f : f = [p \in S |-> [rank |-> 2, chunk |-> p.id, for |-> None, shown |-> p.id, rows |-> None]]
    OBVIOUS
  <2>3. TextItems(found) = Values(f, S)
    BY <2>2 DEF TextItems, Values
  <2>. QED
    BY <2>1, <2>3, ValuesFinite
<1>3. IsFiniteSet(Citations(found))
  <2>1. ASSUME NEW p \in found PROVE IsFiniteSet({<<p, no>> : no \in p.cites})
    <3>1. PICK f : f = [no \in p.cites |-> <<p, no>>]
      OBVIOUS
    <3>2. {<<p, no>> : no \in p.cites} = Values(f, p.cites)
      BY <3>1 DEF Values
    <3>. QED
      BY <3>2, ValuesFinite
  <2>2. PICK f : f = [p \in found |-> {<<p, no>> : no \in p.cites}]
    OBVIOUS
  <2>. PICK sets : sets = {{<<p, no>> : no \in p.cites} : p \in found}
    OBVIOUS
  <2>3. sets = Values(f, found)
    BY <2>2 DEF Values
  <2>4. IsFiniteSet(sets)
    BY <2>3, ValuesFinite
  <2>5. \A T \in sets : IsFiniteSet(T)
    BY <2>1
  <2>6. Citations(found) = UNION sets
    BY DEF Citations
  <2>. QED
    BY <2>4, <2>5, <2>6, FS_UNION
<1>4. IsFiniteSet(ReferredItems(found, pick))
  <2>1. IsFiniteSet(DOMAIN pick)
    BY <1>3, FS_Subset
  <2>2. PICK f : f = [c \in DOMAIN pick |->
                         [rank |-> 3, chunk |-> c[1].id, for |-> c[2], shown |-> pick[c].id, rows |-> None]]
    OBVIOUS
  <2>3. ReferredItems(found, pick) = Values(f, DOMAIN pick)
    BY <2>2 DEF ReferredItems, Values
  <2>. QED
    BY <2>1, <2>3, ValuesFinite
<1>. QED
  BY <1>1, <1>2, <1>4, FS_Union

\* One turn takes a step.
LEMMA OneSized ==
    ASSUME TypeInv, NEW t \in Turn, NEW q, turn' = [turn EXCEPT ![t] = q], Sized(q)
    PROVE  \A u \in Turn : Sized(turn[u])'
<1>1. \A u \in Turn : turn'[u] = IF u = t THEN q ELSE turn[u]
  BY DEF TypeInv, TurnsInv
<1>2. ASSUME NEW u \in Turn PROVE Sized(turn'[u])
  BY <1>1 DEF TypeInv
<1>. QED
  BY <1>2 DEF Sized

\* A turn has no more than its limits.
LEMMA TurnsSized == ASSUME TypeInv, [Next]_vars PROVE \A t \in Turn : Sized(turn[t])'
<1>1. CASE UNCHANGED turn
  BY <1>1 DEF TypeInv, Sized
<1>2. ASSUME NEW t \in Turn, NEW language, NEW relevant, NEW step,
             Begin(t, language, relevant, step), step \in {"wrong_jurisdiction", "embed"}
      PROVE  \A u \in Turn : Sized(turn[u])'
  <2>. PICK q : q = [language |-> language, relevant |-> relevant, step |-> step,
                     found |-> {}, cross |-> FALSE, context |-> {}]
    OBVIOUS
  <2>1. q.found = {} /\ q.context = {} /\ q.step = step
    OBVIOUS
  <2>2. Sized(q)
    BY <1>2, <2>1, FS_EmptySet, ExplainerAssumption DEF Sized, Generated
  <2>3. turn' = [turn EXCEPT ![t] = q]
    BY <1>2 DEF Begin
  <2>. QED
    BY <2>2, <2>3, OneSized
<1>3. ASSUME NEW t \in Turn, turn[t].step # "idle", NEW step,
             step \in {"search", "failed"} \/ (turn[t].step = "generate" /\ step \in Generated),
             Goes(t, [turn[t] EXCEPT !.step = step])
      PROVE  \A u \in Turn : Sized(turn[u])'
  <2>. PICK q : q = [turn[t] EXCEPT !.step = step]
    OBVIOUS
  <2>0. turn[t] # NoTurn /\ DOMAIN turn[t] = {"language", "relevant", "step", "found", "cross", "context"}
    BY <1>3, TurnOf DEF TypeInv
  <2>1. q.found = turn[t].found /\ q.context = turn[t].context /\ q.step = step
    BY <2>0
  <2>2. Sized(q)
    BY <1>3, <2>0, <2>1 DEF Sized, TypeInv, Generated
  <2>. QED
    BY <1>3, <2>2, OneSized DEF Goes
<1>4. ASSUME NEW t \in Turn, turn[t].step # "idle", NEW language, NEW found \in Best(Relevant(t, language)),
             NEW q, DOMAIN q = DOMAIN turn[t], q.found = found, q.context = turn[t].context,
             q.step \in {"search_any", "resolve", "nothing_found"}, q.step = "resolve" => found # {},
             Goes(t, q)
      PROVE  \A u \in Turn : Sized(turn[u])'
  <2>1. turn[t] # NoTurn
    BY <1>4, TurnOf DEF TypeInv
  <2>2. Sized(q)
    BY <1>4, <2>1, SearchSized DEF Sized, TypeInv, Generated
  <2>. QED
    BY <1>4, <2>2, OneSized DEF Goes
<1>5. ASSUME NEW t \in Turn, Search(t) PROVE \A u \in Turn : Sized(turn[u])'
  <2>1. /\ turn[t].step = "search"
        /\ \E found \in Best(Relevant(t, turn[t].language)) :
               Goes(t, [turn[t] EXCEPT !.found = found,
                                       !.step = IF found = {} THEN "search_any" ELSE "resolve"])
    BY <1>5 DEF Search, Awaits
  <2>2. PICK found \in Best(Relevant(t, turn[t].language)) :
               Goes(t, [turn[t] EXCEPT !.found = found,
                                       !.step = IF found = {} THEN "search_any" ELSE "resolve"])
    BY <2>1
  <2>. PICK step : step = IF found = {} THEN "search_any" ELSE "resolve"
    OBVIOUS
  <2>. PICK q : q = [turn[t] EXCEPT !.found = found, !.step = step]
    OBVIOUS
  <2>3. DOMAIN turn[t] = {"language", "relevant", "step", "found", "cross", "context"}
    BY <2>1, TurnOf DEF TypeInv
  <2>4. /\ DOMAIN q = DOMAIN turn[t] /\ q.found = found /\ q.context = turn[t].context
        /\ q.step \in {"search_any", "resolve", "nothing_found"}
        /\ q.step = "resolve" => found # {}
    BY <2>3
  <2>5. Goes(t, q)
    BY <2>2
  <2>. QED
    BY <1>4, <2>1, <2>4, <2>5
<1>6. ASSUME NEW t \in Turn, SearchAny(t) PROVE \A u \in Turn : Sized(turn[u])'
  <2>1. /\ turn[t].step = "search_any"
        /\ \E found \in Best(Relevant(t, None)) :
               Goes(t, [turn[t] EXCEPT !.found = found, !.cross = found # {},
                                       !.step = IF found = {} THEN "nothing_found" ELSE "resolve"])
    BY <1>6 DEF SearchAny, Awaits
  <2>2. PICK found \in Best(Relevant(t, None)) :
               Goes(t, [turn[t] EXCEPT !.found = found, !.cross = found # {},
                                       !.step = IF found = {} THEN "nothing_found" ELSE "resolve"])
    BY <2>1
  <2>. PICK step : step = IF found = {} THEN "nothing_found" ELSE "resolve"
    OBVIOUS
  <2>. PICK cross : cross = (found # {})
    OBVIOUS
  <2>. PICK q : q = [turn[t] EXCEPT !.found = found, !.cross = cross, !.step = step]
    OBVIOUS
  <2>3. DOMAIN turn[t] = {"language", "relevant", "step", "found", "cross", "context"}
    BY <2>1, TurnOf DEF TypeInv
  <2>4. /\ DOMAIN q = DOMAIN turn[t] /\ q.found = found /\ q.context = turn[t].context
        /\ q.step \in {"search_any", "resolve", "nothing_found"}
        /\ q.step = "resolve" => found # {}
    BY <2>3
  <2>5. Goes(t, q)
    BY <2>2
  <2>. QED
    BY <1>4, <2>1, <2>4, <2>5
<1>7. ASSUME NEW t \in Turn, Resolve(t) PROVE \A u \in Turn : Sized(turn[u])'
  <2>. PICK found : found = turn[t].found
    OBVIOUS
  <2>. PICK resolved : resolved = {c \in Citations(found) : FindByCompositeKey(c[1], c[2]) # {}}
    OBVIOUS
  <2>1. /\ turn[t].step = "resolve"
        /\ \E pick \in [resolved -> points] :
                 /\ \A c \in resolved : pick[c] \in FindByCompositeKey(c[1], c[2])
                 /\ \E kept \in Cap(TableItems(found) \cup TextItems(found)
                                        \cup ReferredItems(found, pick)) :
                        Goes(t, [turn[t] EXCEPT !.context = kept, !.step = "generate"])
    BY <1>7 DEF Resolve, Awaits
  <2>2. PICK pick \in [resolved -> points] :
                 \E kept \in Cap(TableItems(found) \cup TextItems(found) \cup ReferredItems(found, pick)) :
                        Goes(t, [turn[t] EXCEPT !.context = kept, !.step = "generate"])
    BY <2>1
  <2>3. PICK kept \in Cap(TableItems(found) \cup TextItems(found) \cup ReferredItems(found, pick)) :
            Goes(t, [turn[t] EXCEPT !.context = kept, !.step = "generate"])
    BY <2>2
  <2>. PICK q : q = [turn[t] EXCEPT !.context = kept, !.step = "generate"]
    OBVIOUS
  <2>4. turn[t] # NoTurn /\ DOMAIN turn[t] = {"language", "relevant", "step", "found", "cross", "context"}
    BY <2>1, TurnOf DEF TypeInv
  <2>5. q.found = found /\ q.context = kept /\ q.step = "generate"
    BY <2>4
  <2>6. IsFiniteSet(found) /\ Cardinality(found) <= SearchLimit /\ \A p \in found : IsFiniteSet(p.cites)
    BY <2>4 DEF TypeInv, Sized
  <2>7. DOMAIN pick \subseteq Citations(found)
    OBVIOUS
  <2>8. TableItems(found) \cup TextItems(found) # {}
    BY <2>1, <2>4, ItemsThere DEF TypeInv, Sized
  <2>9. Cardinality(kept) <= CONTEXT_CHUNK_CAP /\ kept # {}
    BY <2>6, <2>7, <2>8, ItemsFinite, CapSized
  <2>10. Sized(q)
    BY <2>5, <2>6, <2>9 DEF Sized, Generated
  <2>. QED
    BY <2>3, <2>10, OneSized DEF Goes
<1>8. ASSUME NEW t \in Turn, Ask(t) \/ AskElsewhere(t) PROVE \A u \in Turn : Sized(turn[u])'
  BY <1>2, <1>8 DEF Ask, AskElsewhere
<1>9. ASSUME NEW t \in Turn, Fail(t) \/ Embed(t) \/ Ends(t) PROVE \A u \in Turn : Sized(turn[u])'
  BY <1>3, <1>9 DEF Fail, Embed, Ends, Generate, GenerateFails, GenerateNothing, Generated, Awaits
<1>. QED
  BY <1>1, <1>5, <1>6, <1>7, <1>8, <1>9 DEF Next, vars, Answer, Ends

\* Types are kept.
THEOREM TypeInvariant == Spec => []TypeInv
<1>1. Init => TypeInv
  <2>. SUFFICES ASSUME Init PROVE TypeInv
    OBVIOUS
  <2>1. TurnsInv
    <3>1. points = {} /\ IsFiniteSet(points)
      BY FS_EmptySet DEF Init, CorpusInit
    <3>. QED
      BY <3>1, CorpusStarts DEF Init, TurnsInv, TurnOk
  <2>2. PointsDistinct /\ Bounded
    BY CorpusAssumption DEF Init, CorpusInit, PointsDistinct, Distinct, Bounded
  <2>3. \A t \in Turn : turn[t] = NoTurn
    BY DEF Init
  <2>. QED
    BY <2>1, <2>2, <2>3 DEF TypeInv, Sized
<1>2. TypeInv /\ [Next]_vars => TypeInv'
  <2>. SUFFICES ASSUME TypeInv, [Next]_vars PROVE TypeInv'
    OBVIOUS
  <2>1. TurnsInv'
    BY TurnsKept DEF TypeInv
  <2>2. PointsDistinct' /\ Bounded'
    BY StepOfCorpus, DistinctKept, CountersKept
  <2>3. \A t \in Turn : Sized(turn[t])'
    BY TurnsSized
  <2>. QED
    BY <2>1, <2>2, <2>3 DEF TypeInv
<1>. QED
  BY <1>1, <1>2, PTL DEF Spec

\* The stores hold what they may, one point for an id, and a turn takes no more
\* from them than its limits.
THEOREM ExplainerTypes == Spec => []TypeOK
<1>1. TypeInv => TypeOK
  <2>. SUFFICES ASSUME TypeInv PROVE TypeOK
    OBVIOUS
  <2>1. CorpusTypeOK
    BY DEF TypeInv, TurnsInv, CorpusInv, RowsOk, FilesOk, IngestedOk, JobOk, PointsDistinct, Distinct, Bounded, CorpusTypeOK
  <2>. QED
    BY <2>1 DEF TypeInv, Sized, Generated, TypeOK
<1>. QED
  BY <1>1, TypeInvariant, PTL

\* Nobody is told, with no source beside it, that nothing was found while a text
\* that answers was in the corpus all the time: the words come from a search
\* that found nothing relevant, or in place of an answer, and then the context
\* they are sent with is not empty.
THEOREM NothingOverlookedInvariant == Spec => []NothingOverlooked
<1>1. TypeInv => NothingOverlooked
  <2>. SUFFICES ASSUME TypeInv, NEW t \in Turn, turn[t] # NoTurn
                PROVE  /\ ToldNothing(t) /\ turn[t].context = {} =>
                              {p \in steady[t] : p.id \in turn[t].relevant} = {}
                       /\ turn[t].cross =>
                              \A p \in {p \in steady[t] : p.id \in turn[t].relevant} :
                                  LanguageOf(p) # turn[t].language
    BY DEF NothingOverlooked
  <2>1. Searched(turn[t], steady[t])
    BY DEF TypeInv, TurnsInv, TurnOk
  <2>2. ToldNothing(t) /\ turn[t].context = {} => turn[t].step = "nothing_found"
    BY DEF ToldNothing, TypeInv, Sized, Generated
  <2>. QED
    BY <2>1, <2>2 DEF Searched, Overlooks
<1>. QED
  BY <1>1, TypeInvariant, PTL

-----------------------------------------------------------------------------
(* Towards the reply *)

Rank(step) ==
    CASE step = "embed" -> 0 [] step = "search" -> 1 [] step = "search_any" -> 2
      [] step = "resolve" -> 3 [] step = "generate" -> 4 [] OTHER -> 5

\* A turn stays as it is or comes nearer to its reply, over one question.
Nearer(q, r) ==
    \/ r = q
    \/ /\ Rank(q.step) < Rank(r.step)
       /\ r.language = q.language /\ r.relevant = q.relevant
       /\ q.step # "search_any" => r.cross = q.cross
       /\ r.found # q.found => q.step \in {"search", "search_any"}
       /\ r.context # q.context => q.step = "resolve"
Settled ==
    \A t \in Turn : turn[t] # NoTurn => Nearer(turn[t], turn'[t]) /\ steady'[t] \subseteq steady[t]

\* A turn that goes on leaves the others alone.
LEMMA GoesNearer ==
    ASSUME TurnsInv, NEW t \in Turn, NEW q, Goes(t, q), Nearer(turn[t], q)
    PROVE  Settled
<1>1. /\ turn' = [turn EXCEPT ![t] = q] /\ steady' = steady
      /\ turn'[t] = q /\ \A u \in Turn \ {t} : turn'[u] = turn[u]
  BY DEF Goes, TurnsInv
<1>. QED
  BY <1>1 DEF Settled, Nearer

\* Each step of a turn is one nearer.
LEMMA StepNearer ==
    ASSUME TurnsInv, NEW t \in Turn, turn[t].step \in {"embed", "search", "search_any", "resolve", "generate"},
           NEW step, Rank(turn[t].step) < Rank(step), Goes(t, [turn[t] EXCEPT !.step = step])
    PROVE  Settled
<1>. PICK q : q = [turn[t] EXCEPT !.step = step]
  OBVIOUS
<1>1. /\ q.step = step /\ q.language = turn[t].language /\ q.relevant = turn[t].relevant
      /\ q.found = turn[t].found /\ q.cross = turn[t].cross /\ q.context = turn[t].context
  BY TurnOf
<1>. QED
  BY <1>1, GoesNearer DEF Nearer

LEMMA SearchNearer ==
    ASSUME TurnsInv, NEW t \in Turn, Search(t)
    PROVE  Settled
<1>1. /\ turn[t].step = "search"
      /\ \E found \in Best(Relevant(t, turn[t].language)) :
             Goes(t, [turn[t] EXCEPT !.found = found,
                                     !.step = IF found = {} THEN "search_any" ELSE "resolve"])
  BY DEF Search, Awaits
<1>2. PICK found \in Best(Relevant(t, turn[t].language)) :
             Goes(t, [turn[t] EXCEPT !.found = found,
                                     !.step = IF found = {} THEN "search_any" ELSE "resolve"])
  BY <1>1
<1>. PICK step : step = IF found = {} THEN "search_any" ELSE "resolve"
  OBVIOUS
<1>. PICK q : q = [turn[t] EXCEPT !.found = found, !.step = step]
  OBVIOUS
<1>3. /\ q.step = step /\ q.language = turn[t].language /\ q.relevant = turn[t].relevant
      /\ q.cross = turn[t].cross /\ q.context = turn[t].context
  BY <1>1, TurnOf
<1>4. Rank(turn[t].step) < Rank(step)
  BY <1>1 DEF Rank
<1>. QED
  BY <1>1, <1>2, <1>3, <1>4, GoesNearer DEF Nearer

LEMMA SearchAnyNearer ==
    ASSUME TurnsInv, NEW t \in Turn, SearchAny(t)
    PROVE  Settled
<1>1. /\ turn[t].step = "search_any"
      /\ \E found \in Best(Relevant(t, None)) :
             Goes(t, [turn[t] EXCEPT !.found = found, !.cross = found # {},
                                     !.step = IF found = {} THEN "nothing_found" ELSE "resolve"])
  BY DEF SearchAny, Awaits
<1>2. PICK found \in Best(Relevant(t, None)) :
             Goes(t, [turn[t] EXCEPT !.found = found, !.cross = found # {},
                                     !.step = IF found = {} THEN "nothing_found" ELSE "resolve"])
  BY <1>1
<1>. PICK step : step = IF found = {} THEN "nothing_found" ELSE "resolve"
  OBVIOUS
<1>. PICK cross : cross = (found # {})
  OBVIOUS
<1>. PICK q : q = [turn[t] EXCEPT !.found = found, !.cross = cross, !.step = step]
  OBVIOUS
<1>3. /\ q.step = step /\ q.language = turn[t].language /\ q.relevant = turn[t].relevant
      /\ q.context = turn[t].context
  BY <1>1, TurnOf
<1>4. Rank(turn[t].step) < Rank(step)
  BY <1>1 DEF Rank
<1>5. Goes(t, q)
  BY <1>2
<1>. QED
  BY <1>1, <1>3, <1>4, <1>5, GoesNearer DEF Nearer

LEMMA ResolveNearer ==
    ASSUME TurnsInv, NEW t \in Turn, Resolve(t)
    PROVE  Settled
<1>1. turn[t].step = "resolve"
  BY DEF Resolve, Awaits
<1>2. \E kept : Goes(t, [turn[t] EXCEPT !.context = kept, !.step = "generate"])
  BY DEF Resolve
<1>3. PICK kept : Goes(t, [turn[t] EXCEPT !.context = kept, !.step = "generate"])
  BY <1>2
<1>. PICK q : q = [turn[t] EXCEPT !.context = kept, !.step = "generate"]
  OBVIOUS
<1>4. /\ q.step = "generate" /\ q.language = turn[t].language /\ q.relevant = turn[t].relevant
      /\ q.found = turn[t].found /\ q.cross = turn[t].cross
  BY <1>1, TurnOf
<1>5. Rank(turn[t].step) < Rank("generate")
  BY <1>1 DEF Rank
<1>. QED
  BY <1>1, <1>3, <1>4, <1>5, GoesNearer DEF Nearer

\* Whatever the job does in between, a turn goes from step to step of its graph
\* and never back, with the question it was asked; what it found and what it
\* shows is written once; and its reply, failure or refusal is the last of it.
THEOREM TurnsSettle == Spec => [][Settled]_vars
<1>1. TurnsInv /\ [Next]_vars => Settled
  <2>. SUFFICES ASSUME TurnsInv, [Next]_vars PROVE Settled
    OBVIOUS
  <2>1. CASE JobStep \/ UNCHANGED vars
    BY <2>1 DEF JobStep, vars, Settled, Nearer, TurnsInv
  <2>2. ASSUME NEW t \in Turn, Ask(t) \/ AskElsewhere(t) PROVE Settled
    <3>1. turn[t].step = "idle"
      BY <2>2 DEF Ask, AskElsewhere, Begin
    <3>2. turn[t] = NoTurn
      BY <3>1 DEF TurnsInv, TurnOk
    <3>3. \A u \in Turn \ {t} : turn'[u] = turn[u] /\ steady'[u] = steady[u]
      BY <2>2 DEF Ask, AskElsewhere, Begin, TurnsInv
    <3>. QED
      BY <3>2, <3>3 DEF Settled, Nearer
  <2>3. ASSUME NEW t \in Turn, Fail(t) \/ Embed(t) \/ Ends(t) PROVE Settled
    BY <2>3, StepNearer DEF Fail, Embed, Ends, Generate, GenerateFails, GenerateNothing, Awaits, Rank
  <2>. QED
    BY <2>1, <2>2, <2>3, SearchNearer, SearchAnyNearer, ResolveNearer DEF Next, JobStep, Answer, Ends
<1>. QED
  BY <1>1, TurnsInvariant, PTL DEF Spec
=============================================================================
