------------------------------- MODULE FormWalk -------------------------------
(***************************************************************************)
(* detect_forms, score_candidate and extract_forms                         *)
(* (backend/app/forms/extractor.py): the forms of the Second Schedule, one *)
(* page after the other, and their files.                                  *)
(***************************************************************************)
EXTENDS Integers, Sequences, FiniteSets

CONSTANTS
    Titles,      \* titles of forms
    NoTitle,     \* no line between the header and the citation
    Slug         \* the part of a file name that is made of a title

ASSUME FormAssumption ==
    /\ NoTitle \notin Titles
    /\ DOMAIN Slug = Titles \cup {NoTitle}

TypicalMaxPages == 3

\* One page.  starts are the numbers of the forms that begin on it; head is
\* the number in the first header that FORM_HEADER matches, 0 if none does.
\* title and cited (a "See section" line closes the title) are read below it.
FormPages == [starts : Seq(Nat \ {0}), head : Nat, title : Titles \cup {NoTitle},
              cited : BOOLEAN, garbled : BOOLEAN]

VARIABLES
    schedule,    \* the pages
    formStep,    \* "detect", "extract" or "done"
    page,        \* the page that is looked at
    candidates,  \* the forms found so far
    position,    \* the candidate that is extracted
    records,     \* the manifest
    formFiles    \* the files written: their names and page spans

formVars == <<schedule, formStep, page, candidates, position, records, formFiles>>

FormStart ==
    /\ formStep = "detect" /\ page = 1 /\ candidates = <<>>
    /\ position = 1 /\ records = <<>> /\ formFiles = {}

\* A header that is matched is that of a form that begins on the page, or is
\* repeated on a later page.
FormInit ==
    /\ schedule \in Seq(FormPages)
    /\ \A p \in DOMAIN schedule :
          schedule[p].head # 0 =>
              \E q \in 1 .. p : \E k \in DOMAIN schedule[q].starts :
                  schedule[q].starts[k] = schedule[p].head
    /\ FormStart

-----------------------------------------------------------------------------

Detecting ==
    /\ formStep = "detect" /\ page \in DOMAIN schedule
    /\ page' = page + 1
    /\ UNCHANGED <<schedule, formStep, position, records, formFiles>>

\* Only the first header of a page is looked for.
NewForm ==
    /\ Detecting /\ schedule[page].head # 0
    /\ candidates' = Append(candidates,
          [number |-> schedule[page].head, first |-> page, last |-> page,
           title |-> schedule[page].title, cited |-> schedule[page].cited,
           ocr |-> schedule[page].garbled])

\* A page without header continues the form above it.
ContinueForm ==
    /\ Detecting /\ schedule[page].head = 0 /\ candidates # <<>>
    /\ candidates' = [candidates EXCEPT ![Len(candidates)].last = page]

\* Pages before the first header belong to no form.
SkipPage ==
    /\ Detecting /\ schedule[page].head = 0 /\ candidates = <<>>
    /\ UNCHANGED candidates

EndDetect ==
    /\ formStep = "detect" /\ page > Len(schedule)
    /\ formStep' = "extract"
    /\ UNCHANGED <<schedule, page, candidates, position, records, formFiles>>

-----------------------------------------------------------------------------

Span(candidate) == candidate.last - candidate.first + 1

Shared(title) ==
    \E k, l \in DOMAIN candidates :
        k # l /\ candidates[k].title = title /\ candidates[l].title = title

\* Mutated form: the sequence of the numbers is not looked at.
ReasonsWithoutSequence(candidate, expected) ==
    {reason \in {"title", "citation", "span", "ocr", "shared"} :
        CASE reason = "title"    -> candidate.title = NoTitle
          [] reason = "citation" -> ~candidate.cited
          [] reason = "span"     -> Span(candidate) > TypicalMaxPages
          [] reason = "ocr"      -> candidate.ocr
          [] reason = "shared"   -> candidate.title # NoTitle /\ Shared(candidate.title)}

\* score_candidate: why a form should be looked at by a person.
Reasons(candidate, expected) ==
    {reason \in {"title", "citation", "span", "ocr", "sequence", "shared"} :
        CASE reason = "title"    -> candidate.title = NoTitle
          [] reason = "citation" -> ~candidate.cited
          [] reason = "span"     -> Span(candidate) > TypicalMaxPages
          [] reason = "ocr"      -> candidate.ocr
          [] reason = "sequence" -> candidate.number # expected
          [] reason = "shared"   -> candidate.title # NoTitle /\ Shared(candidate.title)}

\* score_candidate: the confidence in hundredths.
Score(reasons) ==
    (IF "title" \in reasons THEN 0 ELSE 30)
    + (IF "citation" \in reasons THEN 0 ELSE 20)
    + (IF "span" \in reasons THEN 0 ELSE 20)
    + (IF "ocr" \in reasons THEN 0 ELSE 20)
    + (IF "sequence" \in reasons THEN 0 ELSE 10)

\* File names: the number, the slug, and a position when both are taken.
FileName(number, slug, suffix) == [number |-> number, slug |-> slug, suffix |-> suffix]

Taken(name) == \E k \in DOMAIN records : records[k].filename = name

Extract ==
    /\ formStep = "extract" /\ position \in DOMAIN candidates
    /\ LET candidate == candidates[position]
           reasons == Reasons(candidate, position)
           plain == FileName(candidate.number, Slug[candidate.title], 0)
           name == IF Taken(plain)
                   THEN FileName(candidate.number, Slug[candidate.title], position)
                   ELSE plain
           all == IF Taken(plain) THEN reasons \cup {"collision"} ELSE reasons
       IN  /\ records' = Append(records,
                 [number |-> candidate.number, title |-> candidate.title,
                  filename |-> name, first |-> candidate.first,
                  last |-> candidate.last, confidence |-> Score(reasons),
                  review |-> all # {}])
           /\ formFiles' = {f \in formFiles : f.name # name}
                 \cup {[name |-> name, first |-> candidate.first, last |-> candidate.last]}
    /\ position' = position + 1
    /\ UNCHANGED <<schedule, formStep, page, candidates>>

EndExtract ==
    /\ formStep = "extract" /\ position > Len(candidates)
    /\ formStep' = "done"
    /\ UNCHANGED <<schedule, page, candidates, position, records, formFiles>>

FormNext ==
    \/ NewForm \/ ContinueForm \/ SkipPage \/ EndDetect \/ Extract \/ EndExtract

FormSpec == FormInit /\ [][FormNext]_formVars

-----------------------------------------------------------------------------

Candidates == [number : Nat, first : Nat, last : Nat, title : Titles \cup {NoTitle},
               cited : BOOLEAN, ocr : BOOLEAN]

FileNames == [number : Nat, slug : {Slug[t] : t \in DOMAIN Slug}, suffix : Nat]

Records == [number : Nat, title : Titles \cup {NoTitle}, filename : FileNames,
            first : Nat, last : Nat, confidence : 0 .. 100, review : BOOLEAN]

\* The candidates, the records and the files keep their types; there is a
\* record for each candidate that has been extracted.
FormTypeOK ==
    /\ schedule \in Seq(FormPages)
    /\ formStep \in {"detect", "extract", "done"}
    /\ page \in Nat /\ position \in Nat
    /\ candidates \in Seq(Candidates)
    /\ records \in Seq(Records)
    /\ formFiles \subseteq [name : FileNames, first : Nat, last : Nat]
    /\ Len(records) = position - 1
    /\ position <= Len(candidates) + 1

Begins(n) == {p \in DOMAIN schedule :
                 \E k \in DOMAIN schedule[p].starts : schedule[p].starts[k] = n}

\* The places at which forms begin, and how many begin up to a place.
Beginnings == UNION {{p} \X DOMAIN schedule[p].starts : p \in DOMAIN schedule}

Earlier(b) == {c \in Beginnings : c[1] < b[1] \/ (c[1] = b[1] /\ c[2] <= b[2])}

\* The forms are printed 1, 2, 3, ..., and no header is printed again.
FormsInOrder ==
    /\ \A b \in Beginnings : schedule[b[1]].starts[b[2]] = Cardinality(Earlier(b))
    /\ \A p \in DOMAIN schedule :
          schedule[p].head # 0 => p \in Begins(schedule[p].head)

\* Pages that hold nothing but the rest of form n.
Continues(n) ==
    {q \in DOMAIN schedule : \E p \in Begins(n) :
        /\ p < q /\ schedule[p].starts[Len(schedule[p].starts)] = n
        /\ \A r \in p + 1 .. q : schedule[r].starts = <<>>}

\* A form whose header is not found -- illegible, or second on its page -- is
\* swallowed by the form before it.  Unless a record is flagged, that happens
\* to forms at the end of the schedule only: of the others each has its own
\* file, which begins where the form begins, holds the pages that continue it,
\* and holds no page on which another of them begins
\* (extractor.py:138 detect_forms, :165 score_candidate).
SwallowedFormIsFlagged ==
    formStep = "done" /\ FormsInOrder /\ (\A k \in DOMAIN records : ~records[k].review) =>
        \A k \in DOMAIN records : \A n \in 1 .. records[k].number :
            \E l \in DOMAIN records :
                LET pages == records[l].first .. records[l].last
                IN  /\ records[l].number = n
                    /\ Begins(n) = {records[l].first}
                    /\ Continues(n) \subseteq pages
                    /\ \A m \in 1 .. records[k].number :
                          Begins(m) \cap pages # {} => m = n
                    /\ [name |-> records[l].filename, first |-> records[l].first,
                        last |-> records[l].last] \in formFiles

=============================================================================
