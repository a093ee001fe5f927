----------------------------- MODULE PageLayout -----------------------------
(***************************************************************************)
(* What the statute parser sees of a PDF (backend/app/ingestion/layout.py  *)
(* and the page profile of pipeline.py): visual lines, each with a body    *)
(* part and a note in the outer margin.  Characters, fonts and positions   *)
(* are abstracted to what the parser decides from them.                    *)
(***************************************************************************)
EXTENDS Integers, Sequences

CONSTANTS
    Numbers      \* section numbers

ASSUME NumbersAssumption == Numbers \subseteq Nat \ {0}

\* One page.  median is the median glyph size in tenths of a point; verso
\* pages have their margin on the left.
Pages == [chars : BOOLEAN, garbled : BOOLEAN, imaged : BOOLEAN,
          ruled : BOOLEAN, scattered : BOOLEAN, median : Nat, verso : BOOLEAN]

\* What the text of a body line starts with.  A boundary is "(1) " or
\* "(i) "; apparatus is a proviso, an Explanation, an Illustration or an
\* Exception; "none" is a line without body text, a rule or a page number.
BodyKinds == {"none", "chapter", "part", "start", "boundary", "apparatus", "text"}

\* One baseline.  y is its position on the page; framed: inside the content
\* frame; deep: to the right of the section indent; an "end" note is a
\* fragment with a full stop; number is read only of a section start.
\* printed: the act prints a section at this row.  The parser does not see it:
\* a wrapped line that begins with "1. " is a "start" that is not printed.
Rows == [page : Nat, y : Nat, framed : BOOLEAN, note : {"none", "fragment", "end"},
         actref : BOOLEAN, body : BodyKinds, number : Numbers, deep : BOOLEAN,
         printed : BOOLEAN, size : Nat]

Documents == [pages : Seq(Pages), rows : Seq(Rows)]

\* cluster_baselines: the rows of a page are read from its top, the pages in
\* their order.
ReadDownwards(doc) ==
    \A i, j \in DOMAIN doc.rows : i < j =>
        \/ doc.rows[i].page < doc.rows[j].page
        \/ doc.rows[i].page = doc.rows[j].page /\ doc.rows[i].y < doc.rows[j].y

-----------------------------------------------------------------------------

\* profile_page: the kind decides what is reported, never which parser runs.
PageKind(page) ==
    CASE ~page.chars                         -> "empty"
      [] page.chars /\ page.garbled          ->
            IF page.imaged THEN "scanned" ELSE "garbage_text"
      [] page.chars /\ ~page.garbled         ->
            IF page.ruled THEN "text_table_ruled"
            ELSE IF page.median < 90 /\ page.scattered
                 THEN "text_table_unruled" ELSE "text_prose"

PagesOfKind(doc, kinds) ==
    {p \in DOMAIN doc.pages : PageKind(doc.pages[p]) \in kinds}

\* parse_statute: small type on the whole page means there is no margin column.
HasColumn(doc, i) == doc.pages[doc.rows[i].page].median >= 95

\* Without a margin column the note stays in the body line it shares.
Spliced(doc, i) ==
    /\ ~HasColumn(doc, i)
    /\ doc.rows[i].note # "none" \/ doc.rows[i].actref

\* What the walk matches of a body line: noise does not match a marker, nor
\* does a line that begins with a margin note, nor a chapter head that ends
\* with one.
LineKind(doc, i) ==
    LET row == doc.rows[i]
        page == doc.pages[row.page]
    IN  IF page.garbled THEN "text"
        ELSE IF Spliced(doc, i) /\ (page.verso \/ row.body \in {"none", "chapter"})
        THEN "text"
        ELSE row.body

\* analyse_page: the body lines are the framed rows with body text.
IsLine(doc, i) ==
    /\ doc.rows[i].framed
    /\ doc.rows[i].body # "none" \/ Spliced(doc, i)

\* The fragments assemble_titles joins: margin notes but for Act references.
IsFragment(doc, i) ==
    /\ doc.rows[i].framed
    /\ HasColumn(doc, i)
    /\ doc.rows[i].note # "none"

\* assemble_titles: a title ends at a full stop; the unterminated tail of a
\* page is kept.  A title is named by the row of its last fragment.
TitleEnds(doc, p) ==
    {i \in DOMAIN doc.rows :
        /\ doc.rows[i].page = p /\ IsFragment(doc, i)
        /\ \/ doc.rows[i].note = "end"
           \/ \A j \in DOMAIN doc.rows :
                 doc.rows[j].page = p /\ IsFragment(doc, j) => j <= i}

\* The fragments of the title that ends at row e.
TitleRows(doc, e) ==
    {i \in DOMAIN doc.rows :
        /\ i <= e /\ doc.rows[i].page = doc.rows[e].page /\ IsFragment(doc, i)
        /\ \A j \in i .. e - 1 :
              ~(doc.rows[j].page = doc.rows[e].page /\ IsFragment(doc, j)
                /\ doc.rows[j].note = "end")}

\* The baseline of the first fragment.
TitleY(doc, e) ==
    LET first == CHOOSE i \in TitleRows(doc, e) :
                    \A j \in TitleRows(doc, e) : i <= j
    IN  doc.rows[first].y

Distance(a, b) == IF a >= b THEN a - b ELSE b - a

Nearest(doc, i, pool) ==
    LET away(e) == Distance(TitleY(doc, e), doc.rows[i].y)
    IN  CHOOSE e \in pool : \A f \in pool :
            away(e) < away(f) \/ (away(e) = away(f) /\ e <= f)

\* Mutated form: a title is given out more than once.
PairTitleAgain(doc, i, used) ==
    LET here == TitleEnds(doc, doc.rows[i].page)
    IN  IF here # {} THEN Nearest(doc, i, here) ELSE 0

\* _pair_title: the nearest free title of the page, else of the page before;
\* 0 is no title.
PairTitle(doc, i, used) ==
    LET here == TitleEnds(doc, doc.rows[i].page) \ used
        before == TitleEnds(doc, doc.rows[i].page - 1) \ used
    IN  IF here # {} THEN Nearest(doc, i, here)
        ELSE IF before # {} THEN Nearest(doc, i, before)
        ELSE 0

=============================================================================
