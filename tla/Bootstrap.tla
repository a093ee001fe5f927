------------------------------ MODULE Bootstrap ------------------------------
(***************************************************************************)
(* The bootstrap run (scripts/ingest.py, index_chunks of                   *)
(* backend/app/ingestion/pipeline.py, ensure_collection and upsert of      *)
(* backend/app/retrieval/store.py), what the readiness probe says of the   *)
(* corpus (api/v1/health.py), and the forms library (api/v1/forms.py).     *)
(*                                                                         *)
(* Several runs may be under way: the operator starts them by hand, each   *)
(* with its own PDF, embedding model and forms directory.  A PDF may be    *)
(* replaced and a store may be lost while they run, a run may be killed    *)
(* between any two steps, and each call to a store may fail.               *)
(***************************************************************************)
EXTENDS Integers, Sequences, FiniteSets

CONSTANTS
    Runs,          \* runs that may be under way together
    Paths,         \* of PDFs: what --pdf names
    Pdfs, Models,  \* editions of the act, embedding models
    InitialPdf,    \* of each path: the edition that is there at first
    Dim,           \* dimension of the vectors of a model
    Ids,           \* chunk ids
    Batches,       \* of each edition: the batches of chunk ids, in order
    IndexCount,    \* number of payload indexes (KEYWORD_INDEXES)
    Numbers,       \* numbers of forms
    Names,         \* file names of forms
    FormsOf,       \* of each edition: the records, in order
    None,          \* no row, no point, no file, no edition, no options
    Offered,       \* the options runs are started with
    MaxFaults,     \* bound on kills and failed calls
    MaxChanges     \* bound on PDFs replaced and stores lost

\* The arguments of a run, the model of its settings, and whether its
\* --forms-dir is the directory that the API serves forms from (FORMS_DIR).
Options == [path : Paths, model : Models, statute : BOOLEAN, forms : BOOLEAN,
            force : BOOLEAN, served : BOOLEAN]

ASSUME BootstrapAssumption ==
    /\ InitialPdf \in [Paths -> Pdfs]
    /\ Batches \in [Pdfs -> Seq(Seq(Ids))]
    /\ FormsOf \in [Pdfs -> Seq([number : Numbers, name : Names])]
    /\ IndexCount \in Nat /\ MaxFaults \in Nat /\ MaxChanges \in Nat
    /\ None \notin Pdfs \X Models /\ None \notin Pdfs
    /\ Offered \subseteq Options

\* The name of a form's file begins with its number (extractor.py:269).
ASSUME NameAssumption ==
    \A p, q \in Pdfs : \A k \in DOMAIN FormsOf[p], l \in DOMAIN FormsOf[q] :
        FormsOf[p][k].name = FormsOf[q][l].name =>
            FormsOf[p][k].number = FormsOf[q][l].number

\* What one run indexes: the edition and the model (settings.embed_model).
Builds == Pdfs \X Models

VARIABLES
    pdf,           \* of each path: the edition there
    schema,        \* the tables exist
    collection,    \* the statute collection exists
    indexes,       \* its payload indexes
    dim,           \* its dimension
    points,        \* of each id: the build of the stored point
    row,           \* the build that ingested_acts names: digest and model
    formRows,      \* of each number: name and edition in the forms table
    formFiles,     \* of each name in the served directory: edition of the file
    pc, options, at,     \* of each run
    digest,        \* of each run: the edition it took the digest of
    edition,       \* of each run: the edition it has parsed
    overlaid,      \* history, of each run: ids or files that it wrote and that
                   \* another run wrote over, or that were lost, since
    touched,       \* history: the same of the ids of the run that saved the row
    mislabelled,   \* history: that run parsed another edition than the row names
    unsettled,     \* history: files that are not those of a row: written or lost
                   \* since it was saved, or written to another directory
    cutShort,      \* history: a run ended between creating the collection and its indexes
    faults, changes

stores  == <<schema, collection, indexes, dim, points, row, formRows, formFiles>>
running == <<pc, options, at, digest, edition>>
history == <<touched, mislabelled, unsettled, cutShort>>
vars    == <<pdf, stores, running, overlaid, history, faults, changes>>

Init ==
    /\ pdf = InitialPdf
    /\ schema = FALSE /\ collection = FALSE /\ indexes = {} /\ dim = 0
    /\ points = [i \in Ids |-> None] /\ row = None
    /\ formRows = [n \in Numbers |-> None] /\ formFiles = [f \in Names |-> None]
    /\ pc = [r \in Runs |-> "idle"] /\ options = [r \in Runs |-> None]
    /\ at = [r \in Runs |-> 1]
    /\ digest = [r \in Runs |-> None] /\ edition = [r \in Runs |-> None]
    /\ overlaid = [r \in Runs |-> {}]
    /\ touched = {} /\ mislabelled = FALSE /\ unsettled = {} /\ cutShort = FALSE
    /\ faults = 0 /\ changes = 0

-----------------------------------------------------------------------------

Edition(b) == b[1]
Model(b) == b[2]
IdsOf(batch) == {batch[k] : k \in DOMAIN batch}
IdsOfEdition(p) == UNION {IdsOf(Batches[p][k]) : k \in DOMAIN Batches[p]}
NamesOf(p) == {FormsOf[p][k].name : k \in DOMAIN FormsOf[p]}

\* The build that run r writes, and the one that the row it saves names.
Written(r) == <<edition[r], options[r].model>>
Claimed(r) == <<digest[r], options[r].model>>

\* What is at the path that run r was given.
Source(r) == pdf[options[r].path]

\* Run r goes on at step to.  The PDF is read three times: for its digest
\* before the check, for the chunks after it, and for the forms.
Proceed(r, to) ==
    /\ pc' = [pc EXCEPT ![r] = to]
    /\ at' = [at EXCEPT ![r] = 1]
    /\ options' = [options EXCEPT ![r] = IF to = "idle" THEN None ELSE @]
    /\ digest' = [digest EXCEPT ![r] =
           IF to = "check" THEN Source(r)
           ELSE IF to \in {"files", "rows", "idle"} THEN None ELSE @]
    /\ edition' = [edition EXCEPT ![r] =
           IF to \in {"ensure", "files"} THEN Source(r)
           ELSE IF to = "idle" THEN None ELSE @]
    /\ overlaid' = [overlaid EXCEPT ![r] = IF to \in {"save", "rows"} THEN @ ELSE {}]

Goto(r, from, to) ==
    /\ pc[r] = from /\ Proceed(r, to)
    /\ UNCHANGED <<pdf, faults, changes>>

Faulty == faults < MaxFaults /\ faults' = faults + 1

\* main: the statute and then the forms, unless they are skipped.
AfterStatute(r) == IF options[r].forms THEN "files" ELSE "idle"
AfterSchema(r) == IF options[r].statute THEN "check" ELSE AfterStatute(r)

\* main: the arguments and the settings are those of the run.
Start(r, o) ==
    /\ pc[r] = "idle"
    /\ pc' = [pc EXCEPT ![r] = "schema"]
    /\ options' = [options EXCEPT ![r] = o]
    /\ UNCHANGED <<pdf, stores, at, digest, edition, overlaid, history, faults, changes>>

EnsureSchema(r) ==
    /\ Goto(r, "schema", AfterSchema(r))
    /\ schema' = TRUE
    /\ UNCHANGED <<collection, indexes, dim, points, row, formRows, formFiles, history>>

\* A call to postgres that fails is answered with a warning only.
PostgresFails(r) ==
    /\ \/ pc[r] = "schema" /\ Proceed(r, AfterSchema(r))
       \/ pc[r] = "check"  /\ Proceed(r, "ensure")
       \/ pc[r] = "save"   /\ Proceed(r, AfterStatute(r))
    /\ Faulty
    /\ UNCHANGED <<pdf, stores, history, changes>>

\* Mutated form: the digest is not compared.
AlreadyIndexedByModel(r) ==
    schema /\ row # None /\ Model(row) = options[r].model /\ ~options[r].force

\* ingest_statute: the digest and the model are those of the recorded run.
AlreadyIndexed(r) == schema /\ row # None /\ row = Claimed(r) /\ ~options[r].force

Check(r) ==
    /\ Goto(r, "check", IF AlreadyIndexed(r) THEN AfterStatute(r) ELSE "ensure")
    /\ UNCHANGED <<stores, history>>

\* ensure_collection: a collection that exists is left as it is.
CollectionExists(r) ==
    /\ Goto(r, "ensure", IF collection THEN "upsert" ELSE "create")
    /\ UNCHANGED <<stores, history>>

\* Mutated form: the indexes are forgotten.
CreateWithoutIndexes(r) ==
    /\ ~collection
    /\ Goto(r, "create", "upsert")
    /\ collection' = TRUE /\ dim' = Dim[options[r].model] /\ cutShort' = FALSE
    /\ UNCHANGED <<schema, indexes, points, row, formRows, formFiles,
                   touched, mislabelled, unsettled>>

CreateCollection(r) ==
    /\ ~collection
    /\ Goto(r, "create", "index")
    /\ collection' = TRUE /\ dim' = Dim[options[r].model] /\ cutShort' = FALSE
    /\ UNCHANGED <<schema, indexes, points, row, formRows, formFiles,
                   touched, mislabelled, unsettled>>

\* ensure_collection: one payload index.
CreateIndex(r) ==
    /\ pc[r] = "index" /\ at[r] <= IndexCount /\ collection
    /\ indexes' = indexes \cup {at[r]}
    /\ at' = [at EXCEPT ![r] = @ + 1]
    /\ UNCHANGED <<pdf, schema, collection, dim, points, row, formRows, formFiles, pc,
                   options, digest, edition, overlaid, history, faults, changes>>

Indexed(r) ==
    /\ at[r] > IndexCount
    /\ Goto(r, "index", "upsert")
    /\ UNCHANGED <<stores, history>>

\* The history of things that are written or lost under the runs at those steps.
Overlay(things, where) ==
    [q \in Runs |-> IF pc[q] \in where THEN overlaid[q] \cup things ELSE overlaid[q]]

\* index_chunks: one batch; equal ids overwrite each other.
Upsert(r) ==
    /\ pc[r] = "upsert" /\ at[r] \in DOMAIN Batches[edition[r]]
    /\ collection /\ dim = Dim[options[r].model]
    /\ LET batch == IdsOf(Batches[edition[r]][at[r]])
       IN  /\ points' = [i \in Ids |-> IF i \in batch THEN Written(r) ELSE points[i]]
           /\ touched' = touched \cup batch
           /\ overlaid' = [Overlay(batch, {"upsert", "save"}) EXCEPT ![r] = overlaid[r] \ batch]
    /\ at' = [at EXCEPT ![r] = @ + 1]
    /\ UNCHANGED <<pdf, schema, collection, indexes, dim, row, formRows, formFiles, pc, options,
                   digest, edition, mislabelled, unsettled, cutShort, faults, changes>>

\* Mutated form: the last batch is left out.
UpsertedShort(r) ==
    /\ pc[r] = "upsert" /\ at[r] >= Len(Batches[edition[r]])
    /\ Goto(r, "upsert", "save")
    /\ UNCHANGED <<stores, history>>

Upserted(r) ==
    /\ pc[r] = "upsert" /\ at[r] > Len(Batches[edition[r]])
    /\ Goto(r, "upsert", "save")
    /\ UNCHANGED <<stores, history>>

\* Mutated form: without tables the row is saved all the same.
SaveRowAnyway(r) ==
    /\ Goto(r, "save", AfterStatute(r))
    /\ row' = Claimed(r)
    /\ touched' = overlaid[r] \cap Ids /\ mislabelled' = (digest[r] # edition[r])
    /\ UNCHANGED <<schema, collection, indexes, dim, points, formRows, formFiles,
                   unsettled, cutShort>>

\* ingest_statute: the row of the act, new or updated.
SaveRow(r) ==
    /\ schema
    /\ Goto(r, "save", AfterStatute(r))
    /\ row' = Claimed(r)
    /\ touched' = overlaid[r] \cap Ids /\ mislabelled' = (digest[r] # edition[r])
    /\ UNCHANGED <<schema, collection, indexes, dim, points, formRows, formFiles,
                   unsettled, cutShort>>

\* Without tables the save fails, which is a warning.
SkipSave(r) ==
    /\ ~schema
    /\ Goto(r, "save", AfterStatute(r))
    /\ UNCHANGED <<stores, history>>

\* extract_forms: one file, in the directory of the run.
WriteForm(r) ==
    /\ pc[r] = "files" /\ at[r] \in DOMAIN FormsOf[edition[r]]
    /\ LET name == FormsOf[edition[r]][at[r]].name
       IN  IF options[r].served
           THEN /\ formFiles' = [formFiles EXCEPT ![name] = edition[r]]
                /\ unsettled' = unsettled \cup {name}
                /\ overlaid' = [Overlay({name}, {"files", "rows"}) EXCEPT ![r] = overlaid[r] \ {name}]
           ELSE UNCHANGED <<formFiles, unsettled, overlaid>>
    /\ at' = [at EXCEPT ![r] = @ + 1]
    /\ UNCHANGED <<pdf, schema, collection, indexes, dim, points, row, formRows, pc, options,
                   digest, edition, touched, mislabelled, cutShort, faults, changes>>

FormsWritten(r) ==
    /\ pc[r] = "files" /\ at[r] > Len(FormsOf[edition[r]])
    /\ Goto(r, "files", "rows")
    /\ UNCHANGED <<stores, history>>

\* The files that the rows saved by run r now speak of.
Settle(r) ==
    unsettled' = IF options[r].served
                 THEN (unsettled \ NamesOf(edition[r])) \cup (overlaid[r] \cap NamesOf(edition[r]))
                 ELSE unsettled \cup NamesOf(edition[r])

\* The records of a number: of two the last one stays.
LastRecord(p, n) ==
    {k \in DOMAIN FormsOf[p] : FormsOf[p][k].number = n
        /\ \A l \in DOMAIN FormsOf[p] : FormsOf[p][l].number = n => l <= k}

\* Mutated form: a row that is there is not updated.
SaveNewForms(r) ==
    /\ schema
    /\ Goto(r, "rows", "idle")
    /\ formRows' = [n \in Numbers |->
           IF LastRecord(edition[r], n) = {} \/ formRows[n] # None THEN formRows[n]
           ELSE [name |-> FormsOf[edition[r]][CHOOSE k \in LastRecord(edition[r], n) : TRUE].name,
                 edition |-> edition[r]]]
    /\ Settle(r)
    /\ UNCHANGED <<schema, collection, indexes, dim, points, row, formFiles,
                   touched, mislabelled, cutShort>>

\* ingest_forms: one transaction; rows of other numbers are kept.
SaveForms(r) ==
    /\ schema
    /\ Goto(r, "rows", "idle")
    /\ formRows' = [n \in Numbers |->
           IF LastRecord(edition[r], n) = {} THEN formRows[n]
           ELSE [name |-> FormsOf[edition[r]][CHOOSE k \in LastRecord(edition[r], n) : TRUE].name,
                 edition |-> edition[r]]]
    /\ Settle(r)
    /\ UNCHANGED <<schema, collection, indexes, dim, points, row, formFiles,
                   touched, mislabelled, cutShort>>

\* What raises: the collection was created by another run meanwhile, is lost,
\* or has another dimension, or there are no tables for the forms.
Refused(r) ==
    \/ pc[r] = "create" /\ collection
    \/ pc[r] = "index" /\ at[r] <= IndexCount /\ ~collection
    \/ /\ pc[r] = "upsert" /\ at[r] \in DOMAIN Batches[edition[r]]
       /\ ~collection \/ dim # Dim[options[r].model]
    \/ pc[r] = "rows" /\ ~schema

GiveUp(r) ==
    /\ Refused(r)
    /\ Goto(r, pc[r], "idle")
    /\ UNCHANGED <<stores, history>>

\* The run is killed, or a call to Qdrant, a file or the forms table fails.
Interrupt(r) ==
    /\ pc[r] # "idle"
    /\ Proceed(r, "idle")
    /\ cutShort' = (cutShort \/ (pc[r] = "index" /\ collection))
    /\ Faulty
    /\ UNCHANGED <<pdf, stores, touched, mislabelled, unsettled, changes>>

Step(r) ==
    \/ EnsureSchema(r) \/ Check(r) \/ CollectionExists(r) \/ CreateCollection(r)
    \/ CreateIndex(r) \/ Indexed(r) \/ Upsert(r) \/ Upserted(r) \/ SaveRow(r) \/ SkipSave(r)
    \/ WriteForm(r) \/ FormsWritten(r) \/ SaveForms(r) \/ GiveUp(r)

-----------------------------------------------------------------------------

\* At any moment a PDF is replaced, or a store is lost.
Changing == changes < MaxChanges /\ changes' = changes + 1

ReplacePdf(path) ==
    /\ Changing
    /\ \E p \in Pdfs \ {pdf[path]} : pdf' = [pdf EXCEPT ![path] = p]
    /\ UNCHANGED <<stores, running, overlaid, history, faults>>

LoseCollection ==
    /\ Changing /\ collection
    /\ collection' = FALSE /\ indexes' = {} /\ points' = [i \in Ids |-> None]
    /\ touched' = Ids /\ overlaid' = Overlay(Ids, {"upsert", "save"}) /\ cutShort' = FALSE
    /\ UNCHANGED <<pdf, schema, dim, row, formRows, formFiles, running, mislabelled,
                   unsettled, faults>>

LoseTables ==
    /\ Changing /\ schema
    /\ schema' = FALSE /\ row' = None /\ formRows' = [n \in Numbers |-> None]
    /\ touched' = {} /\ mislabelled' = FALSE
    /\ UNCHANGED <<pdf, collection, indexes, dim, points, formFiles, running, overlaid,
                   unsettled, cutShort, faults>>

LoseFiles ==
    /\ Changing
    /\ formFiles' = [f \in Names |-> None]
    /\ unsettled' = Names /\ overlaid' = Overlay(Names, {"files", "rows"})
    /\ UNCHANGED <<pdf, schema, collection, indexes, dim, points, row, formRows, running,
                   touched, mislabelled, cutShort, faults>>

Next ==
    \/ \E r \in Runs : Step(r) \/ PostgresFails(r) \/ Interrupt(r)
    \/ \E r \in Runs, o \in Offered : Start(r, o)
    \/ \E path \in Paths : ReplacePdf(path)
    \/ LoseCollection \/ LoseTables \/ LoseFiles

\* A run that is not killed goes on to its end.
Spec == Init /\ [][Next]_vars /\ \A r \in Runs : WF_vars(Step(r))

-----------------------------------------------------------------------------

\* GET /health/ready: the corpus counts as indexed when there is a point.
CorpusReady == collection /\ \E i \in Ids : points[i] # None

\* GET /forms/{n}/download: the row, and then the file it names.
Download(n) ==
    CASE formRows[n] = None -> "no form"
      [] formRows[n] # None /\ formFiles[formRows[n].name] = None -> "file missing"
      [] formRows[n] # None /\ formFiles[formRows[n].name] # None -> "file"

PointsOf(b) == \A i \in IdsOfEdition(Edition(b)) : points[i] = b

-----------------------------------------------------------------------------

Steps == {"idle", "schema", "check", "ensure", "create", "index", "upsert", "save",
          "files", "rows"}

Hashed == {"check", "ensure", "create", "index", "upsert", "save"}
Parsed == {"ensure", "create", "index", "upsert", "save", "files", "rows"}

\* Types, and: points and indexes only in a collection, a row only in a table.
TypeOK ==
    /\ pdf \in [Paths -> Pdfs]
    /\ schema \in BOOLEAN /\ collection \in BOOLEAN /\ indexes \subseteq 1 .. IndexCount
    /\ points \in [Ids -> Builds \cup {None}]
    /\ row \in Builds \cup {None}
    /\ formRows \in [Numbers -> [name : Names, edition : Pdfs] \cup {None}]
    /\ formFiles \in [Names -> Pdfs \cup {None}]
    /\ pc \in [Runs -> Steps] /\ options \in [Runs -> Options \cup {None}]
    /\ at \in [Runs -> Nat \ {0}]
    /\ digest \in [Runs -> Pdfs \cup {None}] /\ edition \in [Runs -> Pdfs \cup {None}]
    /\ \A r \in Runs : pc[r] # "idle" => options[r] \in Options
    /\ \A r \in Runs : pc[r] \in Hashed => digest[r] \in Pdfs
    /\ \A r \in Runs : pc[r] \in Parsed => edition[r] \in Pdfs
    /\ overlaid \in [Runs -> SUBSET (Ids \cup Names)]
    /\ touched \subseteq Ids /\ mislabelled \in BOOLEAN
    /\ unsettled \subseteq Names /\ cutShort \in BOOLEAN
    /\ faults \in 0 .. MaxFaults /\ changes \in 0 .. MaxChanges
    /\ ~collection => indexes = {} /\ \A i \in Ids : points[i] = None
    /\ ~schema => row = None /\ \A n \in Numbers : formRows[n] = None

\* The row that makes the next run skip the statute is true: every chunk of
\* the build it names is stored as that build wrote it, but for points that
\* another run wrote over or that were lost after the run that saved the row
\* had written them; and unless the PDF was replaced between the digest and
\* the parse (ingest.py:64-86, :131-144).
SkipIsSound ==
    row # None /\ ~mislabelled =>
        \A i \in IdsOfEdition(Edition(row)) \ touched : points[i] = row

\* A collection without all its payload indexes is being given them, by a run
\* that has not left one out, or a run was ended in between; nothing else
\* makes one, however runs and losses interleave (store.py:118).
UnindexedNeedsFault ==
    collection /\ indexes # 1 .. IndexCount =>
        cutShort \/ \E r \in Runs : pc[r] = "index" /\ 1 .. (at[r] - 1) \subseteq indexes

\* The file a row of the forms table names is there, and is the one whose size
\* and hash the row holds, but for files that were written over or lost after
\* the run that saved the row had written them, and for rows of a run that
\* wrote its files to a directory that is not served (ingest.py:152, :198,
\* forms.py:66).
ListedFormIsServed ==
    \A n \in Numbers :
        formRows[n] # None /\ formRows[n].name \notin unsettled =>
            Download(n) = "file" /\ formFiles[formRows[n].name] = formRows[n].edition

\* Two ways in which running again does not help: the row is that of the
\* build, whose points were overwritten or lost, or never written; and the
\* collection was made for vectors of another dimension.
SkipIsFooled(b) == row = b /\ ~PointsOf(b)
OtherDimension(b) == collection /\ dim # Dim[Model(b)]

PlainRun(b) == \E r \in Runs : pc[r] = "check" /\ Claimed(r) = b /\ ~options[r].force

\* The runs under way that index the statute are to index b.
Settled(b) ==
    \A r \in Runs : pc[r] # "idle" /\ options[r].statute =>
        Source(r) = Edition(b) /\ options[r].model = Model(b)

\* When in the end only runs of one PDF and model are made, and plain ones are
\* repeated, the corpus becomes that of this build and stays so, but for these
\* two cases (ingest.py:4-6 "safe to run repeatedly").
CorpusHeals ==
    \A b \in Builds :
        []<>PlainRun(b) /\ <>[]Settled(b) =>
            <>[](PointsOf(b) \/ SkipIsFooled(b) \/ OtherDimension(b))

\* What a run skips is indexed: so says the run, "statute already indexed
\* ({existing.chunk_count} chunks)" (ingest.py:78), and the row it believes,
\* "What the bootstrap actually indexed" (models.py:210).
SkippedIsIndexed ==
    \A r \in Runs : pc[r] = "check" /\ AlreadyIndexed(r) => CorpusReady

=============================================================================
