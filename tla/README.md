# Nyaya: specifications, model checking and proofs

Nyaya answers questions about Indian criminal procedure from indexed statutes
and from documents the user uploads. This directory holds TLA+ specifications
of the program, the TLC configurations that check them on small instances and
the TLAPS proofs of what they claim in general. Paths below are relative to
`src/`.

## The system

| Component | State it keeps | Operations | Talks to | Hard behaviour | Must hold |
|---|---|---|---|---|---|
| Document upload and delete (`backend/app/api/v1/documents.py`) | upload directory (files named by sha256), rows `documents` and `ingest_jobs` | upload, list, status, delete | arq queue, Qdrant | enqueue before commit, commit after the response, three stores without a transaction, files shared by digest | no vectors outlive their row, no deleted document returns, no file lost without a delete |
| Ingest worker (`backend/app/workers/tasks.py`, arq) | status and progress of a job | parse, chunk, embed, index, publish, fail | Postgres, Qdrant, upload directory | redelivery after a crash, cancellation at `job_timeout`, failures while recording a failure | a status is published after the vectors, every job ends in a terminal status unless a named fault happened |
| Chat stream (`backend/app/api/v1/chat.py`) | one generator per request | retrieve, refuse, generate, validate, store, done | retrieval, model provider, guard, page | failures mid-stream, clients that leave | the validated answer is the last text of a turn |
| Citation guard (`backend/app/llm/guards.py`) | none | upgrade, verify, refuse | chat | order of upgrade and verification, tolerant recognition against exact removal | nothing unsupported is shown |
| Chat page (`frontend/app/page.tsx`, `frontend/lib/api.ts`) | turns, busy flag, abort controller | send, stop, reset, regenerate, event handlers | chat stream | events patch the last turn, whatever it is | a turn shows its own answer and the page is never busy for ever |
| Retrieval service and router (`backend/app/retrieval/service.py`, `query.py`) | none | plan, execute a route, grade, corrective retry | vector store, models | a retry may change the route | low confidence refuses |
| Vector store (`backend/app/retrieval/store.py`) | collections, payload indexes | ensure, upsert, search, delete | Qdrant | check-then-create, crash between create and index | a collection that exists is complete |
| Models (`backend/app/retrieval/embeddings.py`) | lazily loaded models | warm, embed, rerank | fastembed | double-checked locking | loaded once |
| Session cookie (`backend/app/api/deps.py`, `core/security.py`) | signed cookie | current_session | browser | two first contacts, an invalid cookie | documents of one session stay with it |
| Statute parser (`backend/app/ingestion/statute.py`, `layout.py`, `pipeline.py`) | none | lines and margin titles of a page, walk, split, gate | bootstrap | titles paired by nearness, false and missed headings, cuts of long sections | no text is lost or filed under another section unseen |
| Bootstrap (`scripts/ingest.py`) | statute collection, row `ingested_acts`, files and rows of forms | create tables, check, ensure, upsert, save | Qdrant, Postgres, forms directory | killed or refused at any step, run again, run twice at once, changed input | a run that is skipped was not needed |
| Document parser (`backend/app/ingestion/documents.py`) | none | pages to chunks | OCR | chunk boundaries, overlap, short remainders | no paragraph is lost |
| Forms (`backend/app/forms/extractor.py`, `api/v1/forms.py`) | extracted forms | detect, score, name, write, list, download | files, Postgres | headers that are missed or printed again | each form is its own file, and the file its row describes |
| Documents page (`frontend/app/documents/page.tsx`) | list, poll timer | upload, poll, delete | API | polls only what it lists | polling ends |
| Search, feedback, health, configuration, providers, prompts | none | reads, counters, HTTP clients | all | none of their own | not modelled |

## Modules

| Module | What it is |
|---|---|
| `DocumentLifecycle` | upload_document, ingest_document (with what arq does to it) and delete_document as one concurrent system |
| `DocumentCatalog` | what the document list promises, without queue, worker or stages; implemented by `DocumentLifecycle` |
| `DocumentLifecycleProofs` | the proofs about it |
| `MCDocumentLifecycle` | its instances for TLC |
| `AnswerGuard` | upgrade_bare_citations and verify_answer on answers made of spans |
| `ChatTurn` | the chat stream, the events on the wire and the page's handlers; uses `AnswerGuard` |
| `ChatBoard` | what the page promises, without a server; implemented by `ChatTurn` |
| `ChatTurnProofs`, `ChatScreenProofs` | the proofs about them: the guard and the conversation; what is left on the screen |
| `MCChatTurn` | its instances for TLC |
| `QueryPlan` | plan_query and rewrite_query: what a question asks for, its route, its rewriting |
| `Retrieval` | one call of RetrievalService.retrieve: routes, searches, grades, the corrective retry; uses `QueryPlan` |
| `RetrievalProofs`, `MCRetrieval` | the proofs about it, its instances for TLC |
| `PageLayout` | what the statute parser sees of a PDF: page kinds, body lines, margin titles, the pairing of titles |
| `StatuteWalk` | StatuteParser.walk, the split of long sections, the gate of parse_bare_act; uses `PageLayout` |
| `FormWalk` | detect_forms, the scoring and naming of forms, their files |
| `UploadChunks` | parse_document and _chunk_pages |
| `Readers`, `MCReading` | the three readers side by side, and on small documents |
| `Bootstrap`, `MCBootstrap` | the bootstrap run over its stores, the readiness of the corpus, the download of forms; its instances |
| `StatuteWalkProofs`, `FormWalkProofs`, `UploadChunksProofs`, `BootstrapProofs` | the proofs about them |

A definition named as a *mutated form* is the definition that follows it with
one plausible mistake. No specification uses it; replacing the original by it
makes one named property fail, which shows that the property depends on the
code it is about.

### DocumentLifecycle

One variable per place: `upload[d]` and `delete[d]` are the stage of the two
requests, `files` the upload directory, `row[d]` the committed status,
`job[d]` the next step of `ingest_document`, `tries[d]` arq's delivery count,
`collection` and `vectors` the Qdrant collection. `purge[d]` is history: it
says whether the last purge of d's vectors met a pending job. An action is the
stretch of a handler between two awaits at which another handler can see it:

* `UploadStore`, `UploadFlush`, `UploadEnqueue`, `UploadCommit`: the order of
  `upload_document`. The commit belongs to the `get_session` dependency, whose
  code after `yield` runs when the response has been sent; so the job is in
  the queue before the row is in the table.
* `JobStart` ... `JobFinish`: the steps of `ingest_document`, each ended by the
  commit of its `session_scope`. A status is written only to a row that is
  there (`WriteStatus`).
* `DeleteBegin`, `DeletePurge`, `DeleteUnlink`, `DeleteCommit`: the order of
  `delete_document`. The unlink takes every file named after the digest,
  whichever document stored it. A purge before the first ingest raises
  (`DeleteRefused`), because `count` on a missing collection does.
* Faults are actions of their own, each spending one unit of `budget` of its
  kind: an interrupted request (`api`), a refused call to Postgres or Redis
  (`outage`), an exception in the pipeline (`error`), `job_timeout` (`timeout`),
  a worker that dies (`crash`). An outage that hits a failing job is taken to
  cover every attempt of that job to record the failure.

`vectors` holds the documents with points in the collection. An upsert that
fails part-way is an `Upsert` followed by a `StepFails`.

### AnswerGuard and ChatTurn

An answer is a sequence of spans: prose, a bare reference ("Section 35"), a
bracketed citation, other digits. A span keeps the Act, the
section and whether its text is what `Citation.render` would print, because
the guard recognises citations by a tolerant pattern and removes them by their
canonical text. Any span may stand in quotation marks, and the upgrade and the
strip edit it there as anywhere else; `quote` is what `_quote_is_supported` says
of the quotation around it, as the model wrote it and once this span is edited:
supported either way (short quotations, elisions and near matches included),
never, only as written (`fragile`), or only once edited. Left out: a quotation
with two references in it, and the space a stripped citation leaves before a
comma. `Within` says which section numbers are substrings of others,
because the last escape of guard 3 looks for a substring.

`ChatTurn` gives every question its own generator (`server`), event queue
(`wire`) and read loop (`reader`). The page's `turns` are patched at the last
position only, as `patchLast` does; `request` in a turn is history the page
does not read. `Stop` and `Reset` abort the controller; the rejected read ends
in `AbortSettles`, a later step, and until then the page stays busy. HTTP
errors before the stream are the same to the page as `RetrieveFails`. The
insert into `messages` has no effect on anything (see below) and is the step
`Store`.

### QueryPlan and Retrieval

A question is the set of things a pattern recognises in it: cues, Acts named,
numbers written with an Act ("BNS 103") and numbers written "section n". The
cues separate what the routes separate; where a word is in two patterns
("bailable" is an offence word and a term that can be defined) or a rewriting
removes only part of a pattern ("the notice" loses its article, "this" stays)
there are two cues. `Rewrite` removes cues and names each section again. Not
modelled: a pattern that begins to match because the words between two others
were removed.

`Retrieval` is one call of `retrieve`. `Plan` plans the text at hand, the
search actions make the searches of the route, `Correct` rewrites, `Finish`
chooses between the two results and notes the ambiguity. What the search engine
and the reranker return is a free choice of passages within the filters and of
a score; a passage of the statutes is its section, one of a document its
session. The scores of the two searches are history: a result has only the
better one. `deps.py` gives the service no offence table and there is no search
of forms, so both routes search the statute. The chat passes a session on every
call; a call without one returns an empty result for documents.

The chat takes this result as its context: `ShouldAnswer` is what lets a
`ChatTurn` generate (`Contexts` there), and an answer without statute passages
is the one for which the guard requires no citation.

### PageLayout and StatuteWalk

An act is a sequence of rows, one per baseline; `cluster_baselines` puts a
row below the one before it (`ReadDownwards`). A row keeps what a decision of
the parser depends on: its page, whether it lies in the content frame, which
marker its text starts with, the number of a section start, whether a margin
note stands on it and whether that ends with a full stop, and its length. A
page keeps what its profile depends on; on a page set in small type no margin
column is found and notes stay in the body lines (`Spliced`). Which marker a
line matches is given by the row; `LineKind` is what remains of it on a page
of noise or with a note spliced in.

The walk takes one row at a time (`TakeChapterHead` ... `DropLine`), the
splitter one line at a time (`ExtendGroup`, `CutGroup`), `Gate` writes the
report. A title is named by the row of its last fragment; a chapter, a part
and a line of a section by its row, so that where a text went can be compared
with where it was printed. `headings` and `dropped` are history.

What the act prints and what the parser takes it for are apart: `printed` says
of a row that a section begins there, which no action reads. A line that
matches SECTION_START without being `printed` (a wrapped line that begins with
"1. ") is a false start (`FalseStarts`), and a printed section that is no first
line of the walk is lost (`LostSections`). The properties about the gate are
stated over `printed`. A false start is seen by the gate because it leaves
a section without a title: its own line has none, or it takes that of a
neighbour. `Trusted` excludes the two ways in which it gets one that nobody
misses: the margins hold a title to spare, or a section was lost. It does not
exclude false starts.

### FormWalk and UploadChunks

`FormWalk` reads a schedule of pages: which forms begin on a page, which header
the extractor finds there (none, that of the first or second form, one printed
again) and what the scoring looks at. `NewForm`, `ContinueForm`, `SkipPage` are the
branches of the loop of `detect_forms`; `Extract` scores, names and writes one
candidate.

`UploadChunks` reads an upload page by page, OCR included, and paragraph by
paragraph. Text is measured, not spelled: the whole document is one line of
characters, the buffer an interval of it, and a chunk the interval that was
flushed; the overlap is an interval that begins before the last cut. `Kept` is
what `normalise` leaves of the buffer, one space for each gap. Page
furniture is removed from the first and last lines before: a paragraph is named
by its page and its place in the text of the page, and `Following` passes over
the places of furniture. `TuningAssumption` says how the three constants of
`documents.py:31` are tuned to each other, which 200, 1600 and 150 are.

### Bootstrap

`Bootstrap` has several runs at once, because nothing keeps an operator from
starting two. A run is a program counter over the calls it makes: tables,
check, collection, each payload index, one upsert per batch, the row of the act,
the files of the forms, their rows. Every run has `options` of its own: its
`--pdf`, the model of its settings, `--skip-statute`, `--skip-forms`, `--force`, and
whether its `--forms-dir` is the directory that the API serves. What a store
holds is named by the build (edition of the PDF and model) that wrote it.

A PDF may be replaced at any moment, also while runs are under way, and any of
the three volumes lost. A run reads the file at its path three times, and each
reading is a step: for the digest (`ingest.py:64`), for the chunks (86; the First
Schedule, read again at 96, is taken as one reading with it) and for the forms
(155). So `digest`, which goes into the row, and `edition`, which goes into the
points, may differ. A run is killed (`Interrupt`) or a call to Postgres fails with
a warning only (`PostgresFails`); both spend `MaxFaults`, losses and replacements
spend `MaxChanges`.

The history says what the promises of the stores have to except. `overlaid` is,
for each run, what it wrote and another run has written over or a lost store
took; when the run saves its rows this becomes `touched` (points) and part of
`unsettled` (files, also those written to a directory that is not served).
`mislabelled` says that the row in the table was saved by a run that had parsed
another edition than it had taken the digest of, `cutShort` that a run was ended
while it was creating indexes. No guard reads any of them.

The Qdrant collection appears in `DocumentLifecycle` and in `Bootstrap`: the
worker and the bootstrap call the same `ensure_collection` for two collections.
`Retrieval` searches what `Bootstrap` has stored; a corpus that is not
`CorpusReady` is one in which its searches find nothing or fail.

## Runs

| Run | Instance | Shows |
|---|---|---|
| `LifecycleSafety` | 2 documents with the same bytes, 2 job slots, 2 tries, one fault of each kind and 2 crashes; symmetric | types, the safety properties, both action properties, the inductive invariant and the refinement of `DocumentCatalog` |
| `LifecycleSettles` | 2 documents, 1 job slot, 2 tries, one `api` fault, one error, one crash | jobs drain, documents settle, deletes complete |
| `ChatGuards` | every answer of up to 2 spans from 31 kinds, eight of them in quotation marks besides quoted prose, every set of retrieved sections of 2 Acts and 2 numbers | what a validated answer on the screen may contain |
| `ChatPage` | 2 questions, answers of 1 span, with and without confidence | own answers, no silent or stuck turn, refinement of `ChatBoard` |
| `Retrieval` | 117 questions (13 combinations of cues, 9 ways to mention sections), 3 Acts of which 1 or 2 are indexed, 3 sections, 2 sessions, 4 scores around the four thresholds | what a returned result may contain, and when it refuses |
| `Reading` | acts of up to 4 rows of 12 kinds on one page, of 4 rows over two pages with 6 kinds of second page, and one section of up to 5 long lines; schedules of up to 4 pages of 13 kinds; uploads of up to 3 pages with up to 2 paragraphs of 4 lengths, with and without OCR | which text reaches a chunk or a file, and which losses are flagged |
| `Bootstrap` | 2 runs at once with any of 3 sets of options, 2 paths, 2 editions, 2 models of two dimensions, 2 indexes, 3 chunk ids in 2 batches, 2 forms, one fault, one change | what the stores hold relative to each other, and that repeated runs mend the corpus |
| `QueuedForever`, `OrphanedVectors`, `AdoptedCitation`, `SpoiledQuotation`, `SkippedStatute` | smallest instances | expected violations, see below |

Why the bounds are enough. The handlers of two documents meet only in the
shared file, the job slots and the creation of the collection; two documents
with one digest exercise all three, and `MaxJobs` 1 (`LifecycleSettles`) makes
one wait for the other. Two tries and two crashes reach a job that is dropped.
Every fault kind occurs, and faults of different kinds occur in one behaviour.
The guard's rules relate at most two spans (a valid citation and an invented
one; a stripped number and another), so answers of two spans show each rule
and each pair; one number occurs in the other. A quotation is judged by itself.
Two questions are enough for a late event of one to meet the turn of the other. The combinations of cues reach
every route, before and after rewriting; section 103 is in two Acts and one Act
that can be named is not indexed; the four scores are below every low
threshold, between the two low ones, between low and high, and above both.

"BNS 103" names the Act and the section; "BNS103" only the section of that Act,
because the pattern of the Act asks for the end of the word (`ActsOf` is what the
question names, `Mentions` also what is written that way); both occur among the
nine ways.

Four rows hold a chapter head, its title, a section and what goes wrong with
it, and every pair of neighbouring sections with every arrangement of their
notes; section starts that are printed in the margin or outside the frame occur,
and false starts with the number of the section above or of the next, with a
note beside them and without. Sizes of lines are chosen around `max_chars` and
`min_split_chars` (2048 and 320, as in the code), so that a cut is due at a
boundary, at a proviso, and too early. Sizes of paragraphs are chosen around the
200, 1600 and 150 characters of `documents.py`.

Two bootstrap runs reach every order of a check, a batch, a file and a save of one
run against the other; both may be plain, or differ in PDF, model, dimension, force
and directory. Two plain runs have different editions when the PDF is replaced
between their readings, and then overwrite each other's points and files. The
second edition lacks a chunk and a form of the first and splits a section
differently. One kill and one change reach a row that is saved after a
loss, a PDF replaced between its digest and its parse, and a lost volume of each
kind. Larger instances (three models, two of one dimension; a third change) are
left to the theorems about the four invariants.

`CHECK_DEADLOCK FALSE` in all runs but those of `Bootstrap`: the systems stop when
the bounded requests are over. Another bootstrap run can always be started.

### Fairness

Handlers that have begun, the worker's steps, the generator and the read loop
are weakly fair: they wait for nothing but calls that return, and a call that
does not return is a fault. `JobStart` is strongly fair because arq polls its
queue in order of enqueueing whenever a slot is free. New requests, clicks and
faults are not fair. The parser's verdict (`ParseFails`) is a free choice.
A bootstrap run that is not killed goes on to its end (`WF` of its steps). That
somebody starts it again is no fairness of the code and is the premise of
`CorpusHeals`: if plain runs of one build keep reaching the check, and in the end
runs of the statute are to index that build only, the corpus becomes that of the
build, except in the two cases it names.
That a provider's stream ends is assumed (`MaxSpans` bounds it); the HTTP
clients set a timeout.

### Disagreements between the code and what it says

Checked by a run that expects a violation:

* `QueuedForever`: the job is enqueued before its row is committed; a fast
  worker ends it, and the document stays queued.
* `OrphanedVectors`: a delete during the ingest of the same document leaves
  vectors without rows. `OrphanNeedsOverlap` is what does hold.
* `AdoptedCitation`: the upgrade matches inside brackets and turns
  `[BNS s.35]` into `[BNS [BNSS s.35]]`, a valid citation.
* `SpoiledQuotation`: the upgrade runs over the whole text (`guards.py:160`), also
  within quotation marks. A passage of the statute that is quoted word for word
  and contains "section 35" becomes one with "[BNSS s.35]" in it, the quotation
  guard does not find it in the sources, and the answer is withheld with the
  message that its wording "does not match the statute as written".
  `RefusedForQuotationOnly` is what does hold: the upgrade costs an answer in no
  other way.
* `SkippedStatute`: the row in Postgres decides that the statute is already
  indexed (`scripts/ingest.py:72`), and nothing looks at the collection. After
  the Qdrant volume is lost, every plain run skips the statute and the corpus
  stays empty; only `--force` helps.

Seen while modelling, visible in the modules, and not given a run:

* `documents.py:229` says rows before file; the code unlinks first.
* A job cancelled by `job_timeout` records nothing (`tasks.py:149`); see
  `StrandedNeedsFault`.
* A document that failed after its upsert is shown as failed and answers
  queries.
* An invented citation with other white space than `render` prints is
  reported as stripped and stays (`guards.py:237`); `CitationsRetrieved` and
  `GuardIsStable` are stated for exactly written citations for this reason.
* An answer all of whose citations were stripped is shown if a retrieved
  section number occurs in it as a substring (`guards.py:261`);
  `AnswersGrounded` is what does hold.
* `service.py:15` refuses "only if that also fails": a retry that passes its
  threshold with the lower score is dropped and the question refused, because
  the scores of two corpora are compared (`service.py:192`). `RefusalIsEarned`
  is what does hold.
* `service.py:366` says that documents have the lower thresholds. The default
  `confidence_low` is 0.05 (`core/config.py:83`), below the documents' 0.10.
* A compliance question about "the notice" whose correction loses the article
  is answered without the notice (`service.py:185`), against `service.py:266`.
* `query.py:211` answers offence questions from a table; no table is given to
  the service.
* With one Act indexed, a number in a question that names two other Acts is
  given to the default Act (`query.py:189`), which the comment at `query.py:154`
  calls worse than admitting the ambiguity, and `test_query.py:51` expects.
* The walk drops the second line of a chapter title: the branch meant
  for it (`statute.py:266`) cannot be reached, as `WalkTypes` proves. A part heading
  leaves the section before it open.
* Two sections with one number overwrite each other's chunks
  (`statute.py:459`), and the gate, which looks for gaps (`pipeline.py:194`),
  does not see that; it sees only that one of them has no title. Pages of noise
  are a warning and no reason for review.
* The PDF is read again after its digest was taken (`ingest.py:64`, 86): replaced
  in between, it is indexed under the digest of the old one, and the next run of
  the old one is skipped.
* Two runs of different PDFs share the points and the row of the act, and nothing
  keeps their order: the row can name one edition over the points of the other,
  with no fault at all (run 1 upserts, run 2 upserts and saves its row, run 1 saves
  its row), against `models.py:210`. `SkipIsSound` is what does hold: those points
  were written over after the run that saved the row had written them.
* The gate looks for gaps below the highest number found (`pipeline.py:192`): an act
  none of whose sections is found, or whose last ones are lost, is not flagged,
  against `pipeline.py:190`. `MisfiledTextIsFlagged` is what does hold.
* `chat.py:10` says that the final state a user can act on is the validated one.
  When the provider fails after some tokens, an error event is sent and no
  validation (`chat.py:262`), and the text stays with citations nobody checked;
  so it does after Stop. `UnvalidatedIsExplained` is what does hold.
* A failed enqueue leaves a queued row without a job, a failed flush a file
  without a row (`documents.py:139`, 142); both are answered with 202.
* The page profile decides what is reported, never which parser runs: scanned
  pages are counted as read by OCR, and no OCR is run for a statute.
* A margin title that runs over to the next page is not found; each chunk of a
  section is given the pages of the whole section.
* Points of an older edition are overwritten by id and never deleted
  (`pipeline.py:260`), so chunks that only it has are still found.
* A model of another dimension makes every later bootstrap run fail at its first
  upsert: `ensure_collection` leaves a collection that exists as it is.
* `models.py:210` says that the row of `ingested_acts` lets `/health/ready` prove
  what was indexed; `health.py` never reads it, and is content with one point
  (`health.py:70`).
* A second form on a page, or one whose header is illegible, becomes part of the
  form before it; only a gap in the numbers shows it, and none shows at the end
  of the schedule. `SwallowedFormIsFlagged` is what does hold.
* A chunk that is flushed when the next page begins is labelled with the method
  and confidence of that page (`documents.py:222`). A buffer too short to keep
  survives only in the overlap of the next chunk, under later pages, and what
  follows the last cut is dropped when it is short. `UploadTextKept` is what
  does hold, of paragraphs of two characters and more (see Proofs).
* No message is ever stored: nothing creates the conversation a message refers
  to (`chat.py:115` is not called) and the failed insert is swallowed.

## Proofs

`DocumentLifecycleProofs` assumes only `ConstantsAssumption` and proves, for
every set of documents, every digest and every fault budget, type
correctness, the inductive invariant `LifecycleInv`, the four safety
properties it implies, both action properties and the refinement of
`DocumentCatalog`.

The safety properties are not inductive. That vectors outlive a row only after
an overlapping purge depends on which steps a job may take before the row is
committed (`UploadOrder`) and on what a purge leaves (`DeleteOrder`); that a
ready document is queryable on the job being at `publish` only with its
vectors in place (`PublishOrder`); that a stranded document needs a fault on
the count of tries against the count of crashes (`TriesOrder`, `StrandOrder`).
`FileOrder` is the only part that relates documents to each other and is
carried apart. Every other part speaks of one document, and one lemma per
handler shows that a step of document d keeps it for every document e.

The first part of `ChatTurnProofs` assumes `GuardAssumption` and proves, for
drafts of any length over any set of retrieved sections, that what `Validate` returns has no
unsupported quotation in it, that its exactly written citations were
retrieved, that it mentions a retrieved section unless it is refused, that
the upgrade turns an acceptable draft into a refusal only by rewriting a
reference inside a quotation (`UpgradeHarmsOnlyQuotations`), and that what was
let through for a draft with exactly written citations would be let through
again. The arguments go span by span: what `UpgradeSpan` and `StripSpan` do to
one span, and which span of the draft is the witness that survives.

The rest of `ChatTurnProofs` carries these facts to the screen and assumes also
`ChatAssumption`. `PageInv` says that at most one stream is read or being
given up, that the composer is locked as long, and that the stream that is
read belongs to the last turn; from it follow the types, `ReaderOwnsLastTurn`
and the refinement of `ChatBoard`. `VerdictInv` follows a verdict from the
generator to the screen: until it is sent, none is under way and no turn of
its question has one; on the wire it is the guard's, with no text after it;
and a turn that shows it can be changed by nothing still under way. A property
of the guard alone would not do, because the page appends every token to the
last turn whatever it holds. With the theorems about the guard this gives
`CitationsRetrieved`, `NoMisquotation`, `AnswersGrounded`, `GuardIsStable` and
`RefusedForQuotationOnly` as invariants of the conversation.

`ChatScreenProofs` proves what is left on the screen when a question is over.
`NoSilentTurn` is inductive given `PageInv`, because only the finally block
clears the busy flag. `UnvalidatedIsExplained` needs `ExplainInv`: a generator that
has sent its last word to a stream that is read has sent an error or a verdict,
and it has arrived or is on the wire; and a stream being given up has its
turn last on the screen or the screen was cleared. `ShowsOwnAnswer` needs
`TextInv`: the text on the screen and the tokens on the wire, one after the other,
are a beginning of what the generator has said, all of it while it is still
speaking (`Under`), and nothing was said before retrieval answered (`Fresh`).

`RetrievalProofs` assumes `QueryAssumption` and `RetrievalAssumption` and proves
every safety property of `Retrieval`, for every set of Acts, corpus, question
and pair of thresholds. `RetrievalInv` adds what a result carries with it:
confidence above low comes with passages of a search that passed its own
threshold, low confidence with a score below the full one, document passages
with a question that may refer to documents. `ExactIsExact` needs the last
two and `RewriteKeepsMentions`: the first result cannot win with a full score,
and the second plan mentions the sections of the first.

`StatuteWalkProofs` assumes `NumbersAssumption` and `WalkAssumption` and proves,
for acts of any length and any two chunk sizes, the types, that provisos travel
(`ApparatusTravels`) and that no text is lost (`NoTextLost`). `WalkInv` says that
the open group is the stretch of lines just before the one that is read, that
closed groups and chunks are stretches of their section, and that no stretch
begins with a proviso, because a section begins with its heading and a cut is
made before a boundary. `SplitInv` follows a line: behind the walk it is a
heading, or in a section, or was dropped while no section was open; in a
section it stands once; behind the splitter it is in one group, and behind a
closed section in one chunk. The rest is that chunks of one section differ in
their index, so that only another section with the same number can overwrite
them. That a title is found needs least elements, for which the
well-foundedness of the natural numbers is cited.

The same module proves what the gate is for. `MisfiledTextIsFlagged` needs these
facts about a walk that is over (`ReportInv`): a section bears the number of the
line that opened it (`Labelled`), the lines of a section lie between its first
line and that of the next (`InOrder`), the report is flagged exactly when a
number below the last is missing or a section has no title (`Judged`), and no
title is given twice. If nothing is flagged every section found has a title of its
own, so there are at most as many as assembled titles, and by `NoSpareTitle` at
most as many as printed sections. With no section lost, the first lines found
contain the printed ones and are no more: there is no false start. A line under a
wrong section then shows a printed start that was not found, and since nothing
below the last number is missing its number is above all that were. What is
excepted is real: the gate sees no section lost at the end of an act. The same count keeps two sections
of a trusted parse from bearing one number, on which `NoTextLost` rests.
`TitlesAreOwn`, which allows false starts of any kind and number, has to
exclude that titles change places. Each title has one owner, the section beside
which it ends, and a section is given a title of its page or of the page before.
No title is given twice and every section has one, so up to each page as many
titles are given as there are sections: every section owns a title, and it is
given on its own page. This is a count of finite sets. Then, section by section: the own title begins on the baseline of the
section, it is left when the sections above took theirs, and no other begins
there, because rows are read downwards; so it is the nearest. `NotesWellSet` says
what is assumed of the notes: each is in the frame, beside one section, and
ends with its last row.

`FormWalkProofs` assumes `FormAssumption` and proves the types and
`SwallowedFormIsFlagged`, for schedules of any length with any number of forms
on a page. `FormInv` says that the candidates are consecutive stretches of pages,
each of which begins at the header that gave it its number (`Stretches`), and
that a record that is not flagged has the number of its position, and a file no
other record has (`Filed`). If no record is flagged, the headers they begin at
are numbered 1, 2, 3, ...; since the forms are printed in that order, the place
of a header among all of them is its number (a cardinality), and no form
begins between two of them.

`UploadChunksProofs` assumes `UploadAssumption` and `TuningAssumption` and proves
the types, and `UploadTextKept` for documents of any length. `Buffer` speaks of
the mark, the end of the buffer when it was cut last. What was laid down since is
on the pages the next chunk will name (`NewPlace`). What lies before is in a
chunk, or pending: whole in the overlap, and then the buffer is long enough to
be kept (`OldPlace`). So a buffer that is dropped has nothing pending, and what
it has behind the mark must be whole in the next overlap. That is arithmetic
about gaps: a gap is two characters of the buffer and one of the chunk, so an
overlap of 150 that is kept short of 200 leaves room for less than 150
characters behind the mark (`ShortBuffer`, `Dense`); and the paragraph that did not
fit behind it is so long that the next buffer is kept. The theorem has a
hypothesis, `TwoCharacters`: no paragraph is a single character. It is needed.
Take a buffer of 533 of them (one of two characters near its end), which the
next paragraph, of two characters, makes overflow; 49 single ones behind that,
and then one of 1500. What `normalise` leaves of the second buffer is below 200,
so it is dropped, yet it holds more than 150 characters behind the mark: the
paragraph of two characters is in no chunk. No court writes such a document,
and the runs have none.

`ReadersTypeCorrect` puts the types of the three readers together.

`BootstrapProofs` assumes `BootstrapAssumption` and `NameAssumption` and proves
the four invariants of the run `Bootstrap` for every set of runs, editions,
models, chunk ids and faults. What the row promises is not inductive by itself:
`BootstrapInv` adds, of every run by itself, that at batch k, or about to save the
row, the batches before k are stored as it wrote them, but for what is `overlaid`;
that its files before the one it is at are in the served directory, but for the
same and unless it writes elsewhere; and that a row of the forms table names a
file of its own number (`Numbered`). Nothing is assumed of two runs that overlap:
they may have different PDFs, models and directories, and the PDF of one may change
under it. When the run saves its row, what was overlaid becomes what the row does
not promise (`touched`, `unsettled`), and only later writes of any run add to it.
The exceptions are needed: two overlapping runs of different PDFs reach them
without a fault.

Only model-checked: all liveness properties (temporal reasoning under fairness
is out of the prover's reach), and that the five expected violations occur. Every
other property that a run checks is a theorem. What `MapThenSumSet` sums up in
`EndDocument` (the mean confidence that decides on a review) is in the model and in
no property.

## Not modelled, and the plan

Next:

1. The documents page over `DocumentCatalog`: whether its list, read after an
   upload was answered and before its row is committed, ever shows it.
2. The session cookie of two first requests.

Left out for good: how glyphs become lines (fonts, page geometry), OCR,
embeddings and ranking as numerical computations, the tables of the First
Schedule and the cross references of a chunk (no decision of the parse depends
on them), the bytes of extracted PDFs, HTTP clients of model providers, logging,
metrics, rendering, the evaluation harness. The models are loaded once behind
a double-checked lock whose last statement is the assignment; with one lock and
one assignment there is nothing to interleave.
