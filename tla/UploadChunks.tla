----------------------------- MODULE UploadChunks -----------------------------
(***************************************************************************)
(* parse_document and _chunk_pages (backend/app/ingestion/documents.py):   *)
(* the text of an uploaded document, page by page, in overlapping chunks   *)
(* of whole paragraphs.  The text is laid out on one line: a paragraph has *)
(* a position on it, and the buffer and the chunks are stretches of it.    *)
(***************************************************************************)
EXTENDS Integers, Sequences, FiniteSets, FiniteSetsExt

CONSTANTS
    Paragraphs,      \* texts of paragraphs
    Length,          \* their lengths
    MinChunkChars, MaxChunkChars, OverlapChars

ASSUME UploadAssumption ==
    /\ Length \in [Paragraphs -> Nat \ {0}]
    /\ MinChunkChars \in Nat /\ MaxChunkChars \in Nat /\ OverlapChars \in Nat

\* How the three constants are tuned to each other, which 200, 1600 and 150
\* are: the overlap is not quite a chunk, but three quarters of one and more,
\* and the paragraph before which a buffer too short to keep is cut is long
\* enough for a chunk of its own.
ASSUME TuningAssumption ==
    /\ OverlapChars < MinChunkChars
    /\ 20 * MinChunkChars + 36 < 27 * OverlapChars
    /\ 8 * MinChunkChars + 9 <= 3 * MaxChunkChars

\* A page: its paragraphs, whether the text layer is unusable, what OCR makes
\* of it then (nothing, or one paragraph) and its confidence in hundredths.
UploadPages == [text : Seq(Paragraphs), garbled : BOOLEAN, ocr : Seq(Paragraphs),
                confidence : 0 .. 100]

VARIABLES
    upload,          \* the pages
    uploadStep,      \* "chunk" or "done"
    at,              \* the page and the paragraph that are read next
    where,           \* history: the position of each paragraph read so far
    lo, hi,          \* the buffer is the stretch from lo to hi
    startPage, endPage, label,   \* what the next chunk is labelled with
    pieces,          \* the chunks
    result           \* DocumentParseResult

uploadVars == <<upload, uploadStep, at, where, lo, hi, startPage, endPage, label,
                pieces, result>>

-----------------------------------------------------------------------------

\* parse_document: OCR replaces the text of a page without a usable text
\* layer when it yields any; otherwise the text stays, with confidence 0.
Recovered(page) == page.garbled /\ page.ocr # <<>>
TextOf(page) == IF Recovered(page) THEN page.ocr ELSE page.text
LabelOf(page) ==
    [method     |-> IF Recovered(page) THEN "ocr" ELSE "text",
     confidence |-> CASE ~page.garbled -> 100
                      [] page.garbled /\ Recovered(page) -> page.confidence
                      [] page.garbled /\ ~Recovered(page) -> 0]

\* _repeated_furniture: a short line among the first or last three of most
\* pages, of a document of three pages or more.  A paragraph too long to be
\* furniture fills the three lines.
Short(t) == Length[t] < 120
AtEdge(text, k) ==
    \/ k <= 3 /\ \A j \in 1 .. k - 1 : Short(text[j])
    \/ k > Len(text) - 3 /\ \A j \in k + 1 .. Len(text) : Short(text[j])

Cutoff == Max({2, (6 * Len(upload)) \div 10})

Furniture ==
    {t \in Paragraphs :
        /\ Len(upload) >= 3 /\ 3 < Length[t] /\ Short(t)
        /\ Cutoff <= Cardinality({p \in DOMAIN upload :
              \E k \in DOMAIN TextOf(upload[p]) :
                  TextOf(upload[p])[k] = t /\ AtEdge(TextOf(upload[p]), k)})}

\* The paragraphs that are left on page p, by their places in its text, and
\* the one that follows place k.
Body(p) ==
    {k \in DOMAIN TextOf(upload[p]) : TextOf(upload[p])[k] \notin Furniture}
Following(p, k) ==
    Min({j \in Body(p) : j > k} \cup {Len(TextOf(upload[p])) + 1})

Size(place) == Length[TextOf(upload[place[1]])[place[2]]]

-----------------------------------------------------------------------------

NoResult == [garbage |-> 0, ocr |-> 0, review |-> FALSE]

UploadStart ==
    /\ uploadStep = "chunk" /\ at = <<1, 0>>
    /\ where = <<>> /\ lo = 0 /\ hi = 0
    /\ startPage = 1 /\ endPage = 1
    /\ label = [method |-> "text", confidence |-> 100]
    /\ pieces = <<>> /\ result = NoResult

UploadInit == upload \in Seq(UploadPages) /\ UploadStart

\* normalise: of the buffer from x on, what is left when the gap behind a
\* paragraph has become one space and the front is stripped; the space that
\* ends it is stripped as well.
Kept(x) ==
    UNION {Max({x, where[place]}) .. where[place] + Size(place) :
              place \in {p \in DOMAIN where : where[p] + Size(p) > x}}
Normalised == IF Kept(lo) = {} THEN 0 ELSE Cardinality(Kept(lo)) - 1

\* flush: a short buffer is dropped unless it is the first.
Flushed(last) ==
    IF Normalised >= MinChunkChars \/ (Normalised > 0 /\ pieces = <<>>)
    THEN Append(pieces, [from |-> lo, to |-> hi, first |-> startPage, last |-> last,
                         method |-> label.method, confidence |-> label.confidence])
    ELSE pieces

\* _chunk_pages: the loop over pages and paragraphs.
ChunkingPages ==
    /\ uploadStep = "chunk" /\ at[1] \in DOMAIN upload
    /\ UNCHANGED <<upload, uploadStep, result>>

SkipBlankPage ==
    /\ ChunkingPages /\ at[2] = 0 /\ Body(at[1]) = {}
    /\ at' = <<at[1] + 1, 0>>
    /\ UNCHANGED <<where, lo, hi, startPage, endPage, label, pieces>>

BeginPage ==
    /\ ChunkingPages /\ at[2] = 0 /\ Body(at[1]) # {}
    /\ at' = <<at[1], Following(at[1], 0)>>
    /\ label' = LabelOf(upload[at[1]])
    /\ UNCHANGED <<where, lo, hi, startPage, endPage, pieces>>

TooLong == hi > lo /\ (hi - lo) + Size(at) > MaxChunkChars

\* The paragraph is laid down at a position, with an empty line behind it.
LayDown(begin) ==
    /\ where' = [place \in DOMAIN where \cup {at} |->
                    IF place = at THEN begin ELSE where[place]]
    /\ hi' = begin + Size(at) + 2
    /\ at' = <<at[1], Following(at[1], at[2])>>

ReadParagraph ==
    /\ ChunkingPages /\ at[2] \in Body(at[1]) /\ ~TooLong
    /\ LayDown(hi)
    /\ startPage' = IF hi = lo THEN at[1] ELSE startPage
    /\ UNCHANGED <<lo, endPage, label, pieces>>

\* Mutated form: nothing of the chunk before is carried over.
CutAndReadFresh ==
    /\ ChunkingPages /\ at[2] \in Body(at[1]) /\ TooLong
    /\ pieces' = Flushed(at[1])
    /\ endPage' = at[1] /\ startPage' = at[1]
    /\ lo' = hi
    /\ LayDown(hi)
    /\ UNCHANGED label

\* Before a paragraph that does not fit, the buffer is flushed; its end is
\* carried over, with a space behind it.
CutAndRead ==
    /\ ChunkingPages /\ at[2] \in Body(at[1]) /\ TooLong
    /\ pieces' = Flushed(at[1])
    /\ endPage' = at[1] /\ startPage' = at[1]
    /\ lo' = Max({lo, hi - OverlapChars})
    /\ LayDown(hi + 1)
    /\ UNCHANGED label

EndPage ==
    /\ ChunkingPages /\ at[2] > Len(TextOf(upload[at[1]]))
    /\ endPage' = at[1]
    /\ at' = <<at[1] + 1, 0>>
    /\ UNCHANGED <<where, lo, hi, startPage, label, pieces>>

\* The result: a document is to be reviewed when the mean confidence of its
\* chunks is low, a page had no usable text layer, or there is no chunk.
EndDocument ==
    /\ uploadStep = "chunk" /\ at[1] > Len(upload)
    /\ uploadStep' = "done"
    /\ pieces' = IF hi > lo THEN Flushed(endPage) ELSE pieces
    /\ LET garbage == {p \in DOMAIN upload : upload[p].garbled}
           sum == MapThenSumSet(LAMBDA c : pieces'[c].confidence, DOMAIN pieces')
       IN  result' =
             [garbage |-> Cardinality(garbage),
              ocr |-> Cardinality({p \in garbage : Recovered(upload[p])}),
              review |-> \/ sum < 75 * Len(pieces')
                         \/ garbage # {} \/ pieces' = <<>>]
    /\ UNCHANGED <<upload, at, where, lo, hi, startPage, endPage, label>>

UploadNext ==
    \/ SkipBlankPage \/ BeginPage \/ ReadParagraph \/ CutAndRead \/ EndPage
    \/ EndDocument

UploadSpec == UploadInit /\ [][UploadNext]_uploadVars

-----------------------------------------------------------------------------

Labels == [method : {"text", "ocr"}, confidence : 0 .. 100]

Pieces == [from : Nat, to : Nat, first : Nat, last : Nat,
           method : {"text", "ocr"}, confidence : 0 .. 100]

\* The variables keep their types; the buffer is never turned around, and a
\* chunk never ends before it begins, in the text or in its pages.
UploadTypeOK ==
    /\ upload \in Seq(UploadPages)
    /\ uploadStep \in {"chunk", "done"}
    /\ at \in Nat \X Nat
    /\ DOMAIN where \subseteq Nat \X Nat
    /\ lo \in Nat /\ hi \in Nat /\ lo <= hi
    /\ startPage \in Nat /\ endPage \in Nat
    /\ label \in Labels
    /\ pieces \in Seq(Pieces)
    /\ \A c \in DOMAIN pieces :
          pieces[c].from < pieces[c].to /\ pieces[c].first <= pieces[c].last

Whole(place, c) ==
    pieces[c].from <= where[place] /\ where[place] + Size(place) <= pieces[c].to

Lost(place) == \A c \in DOMAIN pieces : ~Whole(place, c)

\* In a chunk whose pages include the page of the paragraph; in the overlap of
\* a chunk that names later pages; or lost with all that follows.
InPages(place) ==
    \E c \in DOMAIN pieces :
        Whole(place, c) /\ place[1] \in pieces[c].first .. pieces[c].last
InOverlap(place) ==
    \E c \in DOMAIN pieces :
        /\ Whole(place, c) /\ place[1] < pieces[c].first
        /\ where[place] + Size(place) <= pieces[c].from + OverlapChars
LostAtTheEnd(place) ==
    /\ pieces # <<>> /\ hi - where[place] < MinChunkChars
    /\ \A later \in DOMAIN where : where[later] >= where[place] => Lost(later)

\* Every paragraph of an uploaded document, page furniture apart, is whole in
\* a chunk whose pages include its page, with two exceptions.  One that was in
\* a buffer too short to keep is found in the overlap of the next chunk only,
\* which names later pages.  What follows the last cut is lost when it is
\* shorter than what a chunk needs beside its overlap (documents.py:193
\* _chunk_pages, :207 flush).
UploadTextKept ==
    uploadStep = "done" =>
        \A p \in DOMAIN upload : \A k \in Body(p) :
            /\ <<p, k>> \in DOMAIN where
            /\ \/ InPages(<<p, k>>)
               \/ InOverlap(<<p, k>>)
               \/ LostAtTheEnd(<<p, k>>)

=============================================================================
