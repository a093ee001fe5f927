----------------------------- MODULE StatuteWalk -----------------------------
(***************************************************************************)
(* StatuteParser and the gate of parse_bare_act                            *)
(* (backend/app/ingestion/statute.py, pipeline.py): the walk over the      *)
(* lines of an act, the split of long sections, and the report.  One       *)
(* action is one turn of a loop.                                           *)
(***************************************************************************)
EXTENDS PageLayout, FiniteSets

CONSTANTS
    MaxChars,    \* max_chars: the size of a chunk
    MinSplit     \* min_split_chars: the least size a chunk is cut at

ASSUME WalkAssumption == MaxChars \in Nat /\ MinSplit \in Nat

VARIABLES
    act,           \* the document
    step,          \* "walk", "chunk", "gate" or "done"
    row,           \* the row the walk is at
    chapter, chapterTitle, part,   \* the rows they were read from, or 0
    expectTitle,   \* expect_chapter_title
    open,          \* current is not None; current is then the last section
    sections,      \* the sections, in order
    used,          \* the titles that are given out
    headings,      \* history: rows taken as chapter or part headings
    dropped,       \* history: body lines read while no section is open
    next, line,    \* the section that is chunked, and its line
    group, size,   \* the lines of the open group and their size
    groups,        \* the closed groups of the section
    chunks,        \* the chunks, in order
    report         \* the parse report

walkPosition == <<row, chapter, chapterTitle, part, expectTitle, open>>
walkResult   == <<sections, used, headings, dropped>>
splitting    == <<next, line, group, size, groups>>
walkVars     == <<act, step, walkPosition, walkResult, splitting, chunks, report>>

-----------------------------------------------------------------------------

\* Section: size is the length of its text, the lines joined by newlines.
NewSection(i, title) ==
    [number |-> act.rows[i].number, title |-> title, chapter |-> chapter,
     chapterTitle |-> chapterTitle, part |-> part, lines |-> <<i>>,
     size |-> act.rows[i].size,
     pageStart |-> act.rows[i].page, pageEnd |-> act.rows[i].page]

WithLine(section, i) ==
    [number |-> section.number, title |-> section.title, chapter |-> section.chapter,
     chapterTitle |-> section.chapterTitle, part |-> section.part,
     lines |-> Append(section.lines, i),
     size |-> section.size + 1 + act.rows[i].size,
     pageStart |-> section.pageStart, pageEnd |-> act.rows[i].page]

Kind(i) == LineKind(act, i)
LinesOf(chunk) == {chunk.lines[j] : j \in DOMAIN chunk.lines}

\* Chunk: its id is made of the number and the index.  The pages are those
\* of the whole section.
ChunkOf(section, lines, index, total) ==
    [number |-> sections[section].number, index |-> index, total |-> total,
     section |-> section, lines |-> lines,
     proviso |-> \E j \in DOMAIN lines : Kind(lines[j]) = "apparatus",
     pageStart |-> sections[section].pageStart,
     pageEnd |-> sections[section].pageEnd]

NoReport == [sections |-> 0, chunks |-> 0, missing |-> {}, untitled |-> {},
             text |-> 0, ocr |-> 0, garbage |-> 0, empty |-> 0, review |-> FALSE]

WalkStart ==
    /\ step = "walk" /\ row = 1
    /\ chapter = 0 /\ chapterTitle = 0 /\ part = 0
    /\ expectTitle = FALSE /\ open = FALSE
    /\ sections = <<>> /\ used = {} /\ headings = {} /\ dropped = {}
    /\ next = 1 /\ line = 1 /\ group = <<>> /\ size = 0 /\ groups = <<>>
    /\ chunks = <<>> /\ report = NoReport

\* A document of any length, whose rows are on its pages, in the order in
\* which they are read.
WalkInit ==
    /\ act \in Documents
    /\ \A i \in DOMAIN act.rows : act.rows[i].page \in DOMAIN act.pages
    /\ ReadDownwards(act)
    /\ WalkStart

-----------------------------------------------------------------------------

\* walk: the loop over pages and lines.
Walking ==
    /\ step = "walk" /\ row \in DOMAIN act.rows
    /\ row' = row + 1
    /\ UNCHANGED <<act, step, splitting, chunks, report>>

\* Rows that analyse_page gives no body line.
SkipRow ==
    /\ Walking /\ ~IsLine(act, row)
    /\ UNCHANGED <<chapter, chapterTitle, part, expectTitle, open, walkResult>>

\* The line after a chapter head is its title, whatever it says.  The branch
\* for a second line needs a title that is already there, and there is none
\* while one is expected (WalkTypeOK): it never runs.
TakeChapterTitle ==
    /\ Walking /\ IsLine(act, row) /\ expectTitle
    /\ chapterTitle' = row /\ expectTitle' = FALSE /\ part' = 0
    /\ headings' = headings \cup {row}
    /\ UNCHANGED <<chapter, open, sections, used, dropped>>

\* Mutated form: the title of the chapter before stays.
TakeChapterHeadKeepingTitle ==
    /\ Walking /\ IsLine(act, row) /\ ~expectTitle /\ Kind(row) = "chapter"
    /\ chapter' = row /\ expectTitle' = TRUE
    /\ open' = FALSE
    /\ headings' = headings \cup {row}
    /\ UNCHANGED <<chapterTitle, part, sections, used, dropped>>

TakeChapterHead ==
    /\ Walking /\ IsLine(act, row) /\ ~expectTitle /\ Kind(row) = "chapter"
    /\ chapter' = row /\ chapterTitle' = 0 /\ expectTitle' = TRUE
    /\ open' = FALSE
    /\ headings' = headings \cup {row}
    /\ UNCHANGED <<part, sections, used, dropped>>

\* A part heading leaves the section before it open.
TakePartHead ==
    /\ Walking /\ IsLine(act, row) /\ ~expectTitle /\ Kind(row) = "part"
    /\ part' = row
    /\ headings' = headings \cup {row}
    /\ UNCHANGED <<chapter, chapterTitle, expectTitle, open, sections, used, dropped>>

\* SECTION_START to the right of the section indent.
OpensSection(i) == Kind(i) = "start" /\ act.rows[i].deep

StartSection ==
    /\ Walking /\ IsLine(act, row) /\ ~expectTitle /\ OpensSection(row)
    /\ LET title == PairTitle(act, row, used)
       IN  /\ sections' = Append(sections, NewSection(row, title))
           /\ used' = used \cup ({title} \ {0})
    /\ open' = TRUE
    /\ UNCHANGED <<chapter, chapterTitle, part, expectTitle, headings, dropped>>

PlainLine ==
    /\ Walking /\ IsLine(act, row) /\ ~expectTitle
    /\ Kind(row) \notin {"chapter", "part"} /\ ~OpensSection(row)

AddLine ==
    /\ PlainLine /\ open
    /\ sections' = [sections EXCEPT ![Len(sections)] = WithLine(@, row)]
    /\ UNCHANGED <<chapter, chapterTitle, part, expectTitle, open, used, headings, dropped>>

\* A line while no section is open is dropped.
DropLine ==
    /\ PlainLine /\ ~open
    /\ dropped' = dropped \cup {row}
    /\ UNCHANGED <<chapter, chapterTitle, part, expectTitle, open, sections, used, headings>>

EndWalk ==
    /\ step = "walk" /\ row > Len(act.rows)
    /\ step' = "chunk"
    /\ UNCHANGED <<act, walkPosition, walkResult, splitting, chunks, report>>

-----------------------------------------------------------------------------

\* _chunk_section: the loop over the lines of section next.
Chunking ==
    /\ step = "chunk" /\ next \in DOMAIN sections
    /\ UNCHANGED <<act, step, walkPosition, walkResult, report>>

\* A section that fits is one chunk.
KeepWhole ==
    /\ Chunking /\ sections[next].size <= MaxChars
    /\ chunks' = Append(chunks, ChunkOf(next, sections[next].lines, 0, 1))
    /\ next' = next + 1
    /\ UNCHANGED <<line, group, size, groups>>

Splitting ==
    /\ Chunking /\ sections[next].size > MaxChars
    /\ line <= Len(sections[next].lines)

\* Mutated form: a proviso is a boundary as well.
CutsBeforeProviso(i) ==
    /\ group # <<>> /\ Kind(i) \in {"boundary", "apparatus"}
    /\ size + act.rows[i].size > MaxChars /\ size >= MinSplit

\* _split_at_boundaries: cut before a subsection or clause that would make
\* the group too long.
CutsBefore(i) ==
    /\ group # <<>> /\ Kind(i) = "boundary"
    /\ size + act.rows[i].size > MaxChars /\ size >= MinSplit

ExtendGroup ==
    /\ Splitting
    /\ LET i == sections[next].lines[line]
       IN  /\ ~CutsBefore(i)
           /\ group' = Append(group, i)
           /\ size' = size + act.rows[i].size + 1
    /\ line' = line + 1
    /\ UNCHANGED <<next, groups, chunks>>

CutGroup ==
    /\ Splitting
    /\ LET i == sections[next].lines[line]
       IN  /\ CutsBefore(i)
           /\ group' = <<i>>
           /\ size' = act.rows[i].size + 1
    /\ groups' = Append(groups, group)
    /\ line' = line + 1
    /\ UNCHANGED <<next, chunks>>

\* Mutated form: the last group is not added.
CloseSectionShort ==
    /\ Chunking /\ sections[next].size > MaxChars
    /\ line > Len(sections[next].lines)
    /\ chunks' = chunks \o
          [g \in DOMAIN groups |-> ChunkOf(next, groups[g], g - 1, Len(groups))]
    /\ next' = next + 1
    /\ line' = 1 /\ group' = <<>> /\ size' = 0 /\ groups' = <<>>

\* The chunks of a split section, with their index and their number.
CloseSection ==
    /\ Chunking /\ sections[next].size > MaxChars
    /\ line > Len(sections[next].lines)
    /\ LET all == Append(groups, group)
       IN  chunks' = chunks \o
              [g \in DOMAIN all |-> ChunkOf(next, all[g], g - 1, Len(all))]
    /\ next' = next + 1
    /\ line' = 1 /\ group' = <<>> /\ size' = 0 /\ groups' = <<>>

-----------------------------------------------------------------------------

Recognised == {sections[s].number : s \in DOMAIN sections}

\* parse_bare_act, the L6 gate: the numbers below the highest that no
\* section has.
Missing == (UNION {1 .. n : n \in Recognised}) \ Recognised

\* Mutated form: a section without a title is not looked for.
UntitledIgnored == {}

Untitled == {sections[s].number : s \in {t \in DOMAIN sections : sections[t].title = 0}}

EndChunk ==
    /\ step = "chunk" /\ next > Len(sections)
    /\ step' = "gate"
    /\ UNCHANGED <<act, walkPosition, walkResult, splitting, chunks, report>>

\* A page without a usable text layer is a warning and no reason for review.
Gate ==
    /\ step = "gate"
    /\ step' = "done"
    /\ report' =
          [sections |-> Len(sections), chunks |-> Len(chunks),
           missing |-> Missing, untitled |-> Untitled,
           text |-> Cardinality(DOMAIN act.pages) - Cardinality(
                      PagesOfKind(act, {"scanned", "garbage_text", "empty"})),
           ocr |-> Cardinality(PagesOfKind(act, {"scanned"})),
           garbage |-> Cardinality(PagesOfKind(act, {"garbage_text"})),
           empty |-> Cardinality(PagesOfKind(act, {"empty"})),
           review |-> Missing # {} \/ Untitled # {}]
    /\ UNCHANGED <<act, walkPosition, walkResult, splitting, chunks>>

WalkNext ==
    \/ SkipRow \/ TakeChapterTitle \/ TakeChapterHead \/ TakePartHead
    \/ StartSection \/ AddLine \/ DropLine \/ EndWalk
    \/ KeepWhole \/ ExtendGroup \/ CutGroup \/ CloseSection \/ EndChunk
    \/ Gate

WalkSpec == WalkInit /\ [][WalkNext]_walkVars

-----------------------------------------------------------------------------

Sections ==
    [number : Numbers, title : Nat, chapter : Nat, chapterTitle : Nat, part : Nat,
     lines : Seq(Nat), size : Nat, pageStart : Nat, pageEnd : Nat]

Chunks ==
    [number : Numbers, index : Nat, total : Nat, section : Nat, lines : Seq(Nat),
     proviso : BOOLEAN, pageStart : Nat, pageEnd : Nat]

\* The variables of the walk keep their types; no chapter title is known
\* while one is expected, which is why the branch of walk for a second title
\* line is never taken.
WalkTypeOK ==
    /\ act \in Documents
    /\ step \in {"walk", "chunk", "gate", "done"}
    /\ row \in Nat
    /\ chapter \in Nat /\ chapterTitle \in Nat /\ part \in Nat
    /\ expectTitle \in BOOLEAN /\ open \in BOOLEAN
    /\ sections \in Seq(Sections)
    /\ used \subseteq Nat /\ headings \subseteq Nat /\ dropped \subseteq Nat
    /\ next \in Nat /\ line \in Nat /\ size \in Nat
    /\ group \in Seq(Nat) /\ groups \in Seq(Seq(Nat))
    /\ chunks \in Seq(Chunks)
    /\ open => sections # <<>>
    /\ expectTitle => chapterTitle = 0 /\ ~open

-----------------------------------------------------------------------------

Stored ==
    {c \in DOMAIN chunks :
        \A d \in DOMAIN chunks :
            chunks[d].number = chunks[c].number /\ chunks[d].index = chunks[c].index
            => d <= c}

Repeated(number) ==
    \E s, t \in DOMAIN sections :
        s # t /\ sections[s].number = number /\ sections[t].number = number

\* Between the last section and row i a chapter began.
NoSectionOpen(i) ==
    \A s \in DOMAIN sections :
        sections[s].lines[1] < i =>
            \E h \in headings : sections[s].lines[1] < h /\ h < i /\ Kind(h) = "chapter"

\* The sections of the act, whether the parser finds them or not.
Printed == {i \in DOMAIN act.rows : act.rows[i].printed}

PrintedInOrder ==
    \A i \in Printed :
        act.rows[i].number = Cardinality({j \in Printed : j <= i})

\* Section number a line is printed under; 0 before the first.
PrintedUnder(i) ==
    LET above == {j \in Printed : j <= i}
    IN  IF above = {} THEN 0
        ELSE act.rows[CHOOSE j \in above : \A h \in above : h <= j].number

\* Lines taken for the start of a section that are none, and printed sections
\* that were not found.
FirstLines   == {sections[s].lines[1] : s \in DOMAIN sections}
FalseStarts  == FirstLines \ Printed
LostSections == Printed \ FirstLines

\* The margins have no more titles than the act has sections.
AssembledTitles == {e \in DOMAIN act.rows : e \in TitleEnds(act, act.rows[e].page)}
NoSpareTitle == Cardinality(AssembledTitles) <= Cardinality(Printed)

\* A parse that is not flagged, of an act printed in order, in which no false
\* start has found a title for itself: one to spare, or that of a section
\* that was lost.
Trusted ==
    /\ ~report.review
    /\ PrintedInOrder
    /\ NoSpareTitle
    /\ FalseStarts = {} \/ LostSections = {}

\* Every line of an act is a heading, or precedes the first section of its
\* chapter, or is in exactly one of the chunks that are stored under their
\* ids; two sections bear one number, and overwrite each other's chunks, only
\* in a parse that is not to be trusted (statute.py:246 walk, :346
\* _chunk_section, :458 _chunk_id: equal ids overwrite each other).
NoTextLost ==
    step = "done" =>
        \A i \in DOMAIN act.rows : IsLine(act, i) =>
            \/ i \in headings
            \/ i \in dropped /\ NoSectionOpen(i)
            \/ Cardinality({c \in Stored : i \in LinesOf(chunks[c])}) = 1
            \/ /\ ~Trusted
               /\ \E s \in DOMAIN sections :
                     i \in LinesOf(sections[s]) /\ Repeated(sections[s].number)

\* A proviso, Explanation, Illustration or Exception is in the chunk of the
\* line it follows in its section: a proviso without the clause above it says
\* the opposite of the law (statute.py:396).
ApparatusTravels ==
    \A c \in DOMAIN chunks : \A j \in DOMAIN chunks[c].lines :
        Kind(chunks[c].lines[j]) = "apparatus" =>
            LET lines == sections[chunks[c].section].lines
            IN  /\ j > 1
                /\ \E m \in DOMAIN lines :
                      /\ m > 1 /\ lines[m] = chunks[c].lines[j]
                      /\ lines[m - 1] = chunks[c].lines[j - 1]

\* A parse that is to be trusted has put no line under another section than
\* it is printed under, but for the lines of sections lost at the end of the
\* act, which the last section it found has swallowed.  A false start is
\* flagged, because it leaves some section without a title, or some number
\* missing (statute.py:285, pipeline.py:191-201).
MisfiledTextIsFlagged ==
    step = "done" /\ Trusted =>
        \A c \in DOMAIN chunks : \A i \in LinesOf(chunks[c]) :
            \/ PrintedUnder(i) = chunks[c].number
            \/ /\ PrintedUnder(i) > chunks[c].number
               /\ \A n \in Recognised : n <= chunks[c].number

\* The note printed beside the section that starts at row a: the fragments
\* down to the next section of the page.
OwnNote(a) ==
    {i \in DOMAIN act.rows :
        /\ i >= a /\ act.rows[i].page = act.rows[a].page /\ act.rows[i].note # "none"
        /\ \A j \in Printed : ~(a < j /\ j <= i)}

\* Each note begins beside its section, on its page and inside the frame,
\* with no full stop inside.
NotesWellSet ==
    \A i \in DOMAIN act.rows : act.rows[i].note # "none" =>
        /\ act.rows[i].framed
        /\ \E a \in Printed :
            /\ i \in OwnNote(a) /\ act.rows[a].note # "none"
            /\ \A j \in OwnNote(a) : act.rows[j].note = "end" => \A h \in OwnNote(a) : h <= j

\* When every section is found and the parse is not flagged, each section has
\* the title printed beside it: a title that is lost, merged with the next or
\* taken by a neighbour leaves some section without one (layout.py:179
\* assemble_titles, statute.py:309 _pair_title).
TitlesAreOwn ==
    step = "done" /\ ~report.review /\ NotesWellSet /\ LostSections = {} =>
        \A s \in DOMAIN sections :
            TitleRows(act, sections[s].title) = OwnNote(sections[s].lines[1])

=============================================================================
