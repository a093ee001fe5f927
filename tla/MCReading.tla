------------------------------ MODULE MCReading ------------------------------
(***************************************************************************)
(* The three readers on small documents: each behaviour reads one act, one *)
(* schedule of forms or one upload.                                        *)
(***************************************************************************)
EXTENDS Readers

Prose == [chars |-> TRUE, garbled |-> FALSE, imaged |-> FALSE, ruled |-> FALSE,
          scattered |-> FALSE, median |-> 100, verso |-> FALSE]
Narrow  == [Prose EXCEPT !.median = 90, !.verso = TRUE]
NarrowRecto == [Prose EXCEPT !.median = 80, !.scattered = TRUE]
Garbled == [Prose EXCEPT !.garbled = TRUE]
ScannedPage == [Garbled EXCEPT !.imaged = TRUE]
Ruled == [Prose EXCEPT !.ruled = TRUE, !.verso = TRUE]
Blank == [Prose EXCEPT !.chars = FALSE]

\* What a row shows.  A false start has the number of the section above it,
\* or the one that comes next.
Shown(body, note) ==
    [body |-> body, note |-> note, actref |-> FALSE, deep |-> TRUE, framed |-> TRUE,
     printed |-> body = "start", ahead |-> 0, size |-> 100]
FalseStart(note, ahead) ==
    [Shown("start", note) EXCEPT !.printed = FALSE, !.ahead = ahead]

HeadingRows ==
    {Shown("chapter", "none"), Shown("part", "none"), Shown("text", "none"),
     Shown("text", "end"), Shown("start", "none"), Shown("start", "fragment"),
     Shown("start", "end"),
     [Shown("start", "end") EXCEPT !.deep = FALSE],
     FalseStart("end", 0), FalseStart("none", 1),
     [Shown("start", "none") EXCEPT !.framed = FALSE],
     [Shown("text", "none") EXCEPT !.actref = TRUE]}

BodyRows ==
    {[Shown("boundary", "none") EXCEPT !.size = 400],
     [Shown("boundary", "none") EXCEPT !.size = 1700],
     [Shown("apparatus", "none") EXCEPT !.size = 400],
     Shown("text", "none"),
     [Shown("text", "none") EXCEPT !.size = 900]}

NumberAt(shown, i) ==
    LET printed(s) == s.printed
        n == Len(SelectSeq(SubSeq(shown, 1, i), printed)) + shown[i].ahead
    IN  IF n = 0 THEN 1 ELSE n

\* The document that shows these rows, the second page from row b on.
Printing(shown, pages, b) ==
    [pages |-> pages,
     rows |-> [i \in DOMAIN shown |->
        [page |-> IF i >= b THEN 2 ELSE 1,
         y |-> IF i >= b THEN i - b + 1 ELSE i,
         framed |-> shown[i].framed, note |-> shown[i].note, actref |-> shown[i].actref,
         body |-> shown[i].body, number |-> NumberAt(shown, i),
         deep |-> shown[i].deep, printed |-> shown[i].printed,
         size |-> shown[i].size]]]

CONSTANTS
    MaxRows, MaxBody,     \* rows of an act, lines of a section
    MaxFormPages,         \* pages of the schedule
    MaxPages, MaxOnPage   \* pages of an upload, paragraphs on one

OneColumnAct ==
    \E n \in 1 .. MaxRows : \E shown \in [1 .. n -> HeadingRows] :
        act = Printing(shown, <<Prose, Blank>>, MaxRows + 1)
TwoPageAct ==
    \E shown \in [1 .. MaxRows -> HeadingRows] :
        \E second \in {Prose, Narrow, NarrowRecto, Garbled, ScannedPage, Ruled} :
            act = Printing(shown, <<Prose, second>>, 3)
LongSection ==
    \E n \in 1 .. MaxBody : \E shown \in [1 .. n -> BodyRows] :
        act = Printing(<<Shown("start", "end")>> \o shown, <<Prose>>, MaxBody + 2)

NoAct == [pages |-> <<>>, rows |-> <<>>]

-----------------------------------------------------------------------------

\* How many forms begin on a page, and which header is found: 3 is that of
\* the form that began last, printed again.
PageShown(begin, found, title, cited, garbled) ==
    [begin |-> begin, found |-> found, title |-> title, cited |-> cited,
     garbled |-> garbled]

PagesShown ==
    {PageShown(0, 0, NoTitle, FALSE, FALSE), PageShown(0, 0, NoTitle, FALSE, TRUE),
     PageShown(1, 0, NoTitle, FALSE, TRUE), PageShown(2, 0, NoTitle, FALSE, TRUE),
     PageShown(1, 1, NoTitle, TRUE, FALSE), PageShown(1, 1, "Bond", FALSE, FALSE),
     PageShown(1, 1, "Bond", TRUE, TRUE)}
    \cup {PageShown(1, 1, title, TRUE, FALSE) : title \in Titles}
    \cup {PageShown(2, found, "Warrant", TRUE, FALSE) : found \in 1 .. 2}
    \cup {PageShown(0, 3, title, TRUE, FALSE) : title \in Titles}

RECURSIVE Begun(_, _)
Begun(shown, p) == IF p = 0 THEN 0 ELSE Begun(shown, p - 1) + shown[p].begin

ScheduleOf(shown) ==
    [p \in DOMAIN shown |->
        LET before == Begun(shown, p - 1)
        IN  [starts |-> [k \in 1 .. shown[p].begin |-> before + k],
             head |-> CASE shown[p].found = 0 -> 0
                        [] shown[p].found \in 1 .. 2 -> before + shown[p].found
                        [] shown[p].found = 3 -> before,
             title |-> shown[p].title, cited |-> shown[p].cited,
             garbled |-> shown[p].garbled]]

SomeSchedule ==
    \E n \in 1 .. MaxFormPages : \E shown \in [1 .. n -> PagesShown] :
        schedule = ScheduleOf(shown)

-----------------------------------------------------------------------------

PageOf(text, garbled, ocr, confidence) ==
    [text |-> text, garbled |-> garbled, ocr |-> ocr, confidence |-> confidence]

UploadedPages ==
    {PageOf(text, FALSE, <<>>, 0) :
        text \in UNION {[1 .. n -> Paragraphs] : n \in 1 .. MaxOnPage}}
    \cup {PageOf(<<>>, TRUE, <<"long">>, 60), PageOf(<<>>, TRUE, <<"line">>, 90),
          PageOf(<<"line">>, TRUE, <<>>, 0), PageOf(<<>>, TRUE, <<>>, 0)}

SomeUpload ==
    \E n \in 1 .. MaxPages : \E pages \in [1 .. n -> UploadedPages] : upload = pages

-----------------------------------------------------------------------------

Init ==
    /\ \/ (OneColumnAct \/ TwoPageAct \/ LongSection) /\ schedule = <<>> /\ upload = <<>>
       \/ act = NoAct /\ SomeSchedule /\ upload = <<>>
       \/ act = NoAct /\ schedule = <<>> /\ SomeUpload
    /\ WalkStart /\ FormStart /\ UploadStart

Next ==
    \/ act # NoAct /\ WalkNext /\ UNCHANGED <<formVars, uploadVars>>
    \/ schedule # <<>> /\ FormNext /\ UNCHANGED <<walkVars, uploadVars>>
    \/ upload # <<>> /\ UploadNext /\ UNCHANGED <<walkVars, formVars>>

Spec == Init /\ [][Next]_<<walkVars, formVars, uploadVars>>

MCNumbers == 1 .. 5
MCSlug == [title \in Titles \cup {NoTitle} |-> title]
MCLength == [t \in Paragraphs |-> CASE t = "head" -> 20 [] t = "line" -> 60
                                    [] t = "block" -> 1500 [] t = "long" -> 1700]
=============================================================================
