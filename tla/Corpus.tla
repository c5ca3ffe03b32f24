------------------------------- MODULE Corpus -------------------------------
(***************************************************************************)
(* The knowledge base of the explainer and the job that fills it           *)
(* (features/explainer/offline/ingest.py): table rows in SQLite, texts and *)
(* pointers to tables in Qdrant.                                           *)
(*                                                                         *)
(* A document is a line of the manifest; its file holds one of `contents`, *)
(* by its number: text, unless it is a sheet, and a number of tables.  The *)
(* file may be replaced.  The job reads a file, stores its tables one by   *)
(* one, embeds, and upserts all points with one call.  Any of it may fail: *)
(* main() logs that and goes on with the next document.  The job may also  *)
(* die; it is run again by hand or now and then, from the first document   *)
(* on.                                                                     *)
(*                                                                         *)
(* The name of a table is made of the document's name and a number; the id *)
(* of a point is made of name, version, and article and piece, or table.   *)
(*                                                                         *)
(* History: ingested[d] is the content of d's last ingestion, 0 while      *)
(* there is none or a later one has broken off between the two stores.     *)
(***************************************************************************)
EXTENDS Chunking

CONSTANTS
    Manifest,   \* a sequence of [doc, version, language, contents]
    MaxChanges, \* bound: replacements of a file
    MaxFaults   \* bound: failures and deaths of the job

Document == DOMAIN Manifest
Content(d) == DOMAIN Manifest[d].contents
Holds(d, c) == Manifest[d].contents[c]

\* Whose rows a table has.
Rows == [from : Document, content : Nat]
\* How far the job is, and with which document.
Job == [on : Document \cup {0}, step : {"idle", "extract", "tables", "upsert"},
        content : Nat, table : Nat]

ASSUME CorpusAssumption ==
    /\ MaxChanges \in Nat /\ MaxFaults \in Nat
    /\ Manifest \in Seq(Range(Manifest)) \ {<< >>} /\ None \notin Rows
    /\ \A d \in Document :
           /\ 1 \in Content(d) /\ Content(d) \subseteq Nat \ {0}
           /\ \A c \in Content(d) :
                  /\ Holds(d, c).prose \in BOOLEAN /\ Holds(d, c).tables \in Nat
                  /\ Holds(d, c).headings \in Seq(Heading)
                  /\ \A i \in DOMAIN Holds(d, c).headings : IsFiniteSet(Holds(d, c).headings[i].cites)
    /\ \A d, e \in Document :
           Manifest[d].doc = Manifest[e].doc /\ Manifest[d].version = Manifest[e].version => d = e

VARIABLES
    file,      \* the content of each document's file
    rows,      \* table_rows: whose rows each table has, and of which content
    points,    \* the points in Qdrant
    job,       \* the run of the job
    ingested,
    changes, faults

corpusVars == <<file, rows, points, job, ingested, changes, faults>>

TableRef(d, i) == [doc |-> Manifest[d].doc, no |-> i]
Tables(d, content) == {TableRef(d, i) : i \in 0 .. Holds(d, content).tables - 1}
TableRefs == UNION {UNION {Tables(d, c) : c \in Content(d)} : d \in Document}

Id(d, kind, no, part) ==
    [doc |-> Manifest[d].doc, version |-> Manifest[d].version,
     kind |-> kind, no |-> no, part |-> part]
Point(d, content, chunk) ==
    [id |-> Id(d, chunk.kind, chunk.no, chunk.part), from |-> d, content |-> content,
     at |-> chunk.at, cites |-> chunk.cites]
Pointer(d, content, i) ==
    [id |-> Id(d, "table", i, 0), from |-> d, content |-> content, at |-> i, cites |-> {}]

\* What ingest_document makes of a content; of two chunks with one id in a call
\* the later one stays.
PointsOf ==
    [d \in Document |-> [c \in Content(d) |->
        LET held == Holds(d, c)
            prose == IF held.prose
                     THEN {Point(d, c, k) : k \in Chunks(held.headings, Manifest[d].language)}
                     ELSE {}
        IN  {p \in prose : \A q \in prose : q.id = p.id => q.at <= p.at}
                \cup {Pointer(d, c, i) : i \in 0 .. held.tables - 1}]]

\* (mistaken) a point that is there is left as it is
InsertMissing(stored, new) ==
    stored \cup {p \in new : \A q \in stored : q.id # p.id}

\* upsert_chunks
Upserted(stored, new) == {p \in stored : \A q \in new : q.id # p.id} \cup new

-----------------------------------------------------------------------------
(* The job *)

Idle == [on |-> 0, step |-> "idle", content |-> 0, table |-> 0]
At(d) == [on |-> d, step |-> "extract", content |-> 0, table |-> 0]
Running == job.on # 0

\* (mistaken) a document that cannot be ingested ends the run
Stopping == Idle
\* main: the next document, or the end of the run; a failure is logged only.
Forward == IF job.on < Len(Manifest) THEN At(job.on + 1) ELSE Idle

StartRun ==
    /\ ~Running
    /\ job' = At(1)
    /\ UNCHANGED <<file, rows, points, ingested, changes, faults>>

Extract ==
    /\ job.step = "extract"
    /\ job' = [job EXCEPT !.content = file[job.on], !.step = "tables"]
    /\ UNCHANGED <<file, rows, points, ingested, changes, faults>>

Stored == job.table = Holds(job.on, job.content).tables
Ref == TableRef(job.on, job.table)

\* (mistaken) rows of a table that is known are not replaced
InsertOnce ==
    /\ job.step = "tables" /\ ~Stored
    /\ rows' = IF rows[Ref] # None THEN rows
               ELSE [rows EXCEPT ![Ref] = [from |-> job.on, content |-> job.content]]
    /\ job' = [job EXCEPT !.table = @ + 1]
    /\ ingested' = [ingested EXCEPT ![job.on] = 0]
    /\ UNCHANGED <<file, points, changes, faults>>

\* insert_table_rows deletes and inserts in one transaction; what
\* register_table and set_table_description store about the table is read by
\* nobody.
InsertTableRows ==
    /\ job.step = "tables" /\ ~Stored
    /\ rows' = [rows EXCEPT ![Ref] = [from |-> job.on, content |-> job.content]]
    /\ job' = [job EXCEPT !.table = @ + 1]
    /\ ingested' = [ingested EXCEPT ![job.on] = 0]
    /\ UNCHANGED <<file, points, changes, faults>>

RunEmbedding ==
    /\ job.step = "tables" /\ Stored
    /\ job' = [job EXCEPT !.step = "upsert"]
    /\ UNCHANGED <<file, rows, points, ingested, changes, faults>>

UpsertChunks ==
    /\ job.step = "upsert"
    /\ points' = Upserted(points, PointsOf[job.on][job.content])
    /\ ingested' = [ingested EXCEPT ![job.on] = job.content]
    /\ job' = Forward
    /\ UNCHANGED <<file, rows, changes, faults>>

\* A step raises: the document is skipped.
SkipDocument ==
    /\ Running /\ faults < MaxFaults
    /\ job' = Forward
    /\ faults' = faults + 1
    /\ UNCHANGED <<file, rows, points, ingested, changes>>

\* The job dies.
Die ==
    /\ Running /\ faults < MaxFaults
    /\ job' = Idle
    /\ faults' = faults + 1
    /\ UNCHANGED <<file, rows, points, ingested, changes>>

ReplaceFile(d) ==
    /\ changes < MaxChanges
    /\ \E c \in Content(d) \ {file[d]} : file' = [file EXCEPT ![d] = c]
    /\ changes' = changes + 1
    /\ UNCHANGED <<rows, points, job, ingested, faults>>

CorpusInit ==
    /\ file = [d \in Document |-> 1]
    /\ rows = [r \in TableRefs |-> None]
    /\ points = {}
    /\ job = Idle
    /\ ingested = [d \in Document |-> 0]
    /\ changes = 0 /\ faults = 0

Ingest == Extract \/ InsertTableRows \/ RunEmbedding \/ UpsertChunks

-----------------------------------------------------------------------------
(* Correctness *)

\* What the stores and the job hold.
CorpusTypeOK ==
    /\ \A d \in Document : file[d] \in Content(d)
    /\ rows \in [TableRefs -> {None} \cup Rows]
    /\ \A p, q \in points : p.id = q.id => p = q
    /\ \A d \in Document : ingested[d] \in Content(d) \cup {0}
    /\ changes \in 0 .. MaxChanges /\ faults \in 0 .. MaxFaults
    /\ job \in Job

\* Another version of the document has a table of that number: the rows of both
\* are stored under one name.
Shared(d, i) ==
    \E e \in Document \ {d} : TableRef(d, i) \in UNION {Tables(e, c) : c \in Content(e)}

\* Both stores have a content of a document: all of it can be found, nothing of
\* another content is left under its ids, and its tables have its rows, unless
\* versions share them.
InStores(d, content) ==
    /\ PointsOf[d][content] \subseteq points
    /\ \A i \in 0 .. Holds(d, content).tables - 1 :
           ~Shared(d, i) => rows[TableRef(d, i)] = [from |-> d, content |-> content]

\* The two stores agree on every document whose last ingestion came to its end,
\* whatever failed, died or was replaced before, since or elsewhere.
Indexed == \A d \in Document : ingested[d] # 0 => InStores(d, ingested[d])

\* However often the job failed or died in between: once files stay as they are
\* and faults have ended, running it again brings every document up to date.
EventuallyCurrent == <>[](\A d \in Document : InStores(d, file[d]))
=============================================================================
