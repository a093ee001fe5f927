---------------------------- MODULE FormWalkProofs ----------------------------
(***************************************************************************)
(* Proofs about FormWalk, for schedules of any length with any number of   *)
(* forms on a page.  The candidates are consecutive stretches of pages,    *)
(* each of which begins at the header that gave it its number; so a form   *)
(* that was swallowed leaves a hole in the numbers, and the record that is *)
(* out of sequence is flagged.                                             *)
(***************************************************************************)
EXTENDS FormWalk, FiniteSetTheorems, TLAPS

-----------------------------------------------------------------------------
(* How the forms are printed.                                              *)

\* A place is a page and a position on it.
LEMMA BeginningType ==
    ASSUME schedule \in Seq(FormPages), NEW b
    PROVE  b \in Beginnings <=>
              /\ b = <<b[1], b[2]>>
              /\ b[1] \in DOMAIN schedule /\ b[2] \in DOMAIN schedule[b[1]].starts
  BY DEF Beginnings

LEMMA PlaceType ==
    ASSUME schedule \in Seq(FormPages), NEW b \in Beginnings
    PROVE  b = <<b[1], b[2]>> /\ b[1] \in Nat /\ b[2] \in Nat
<1>1. /\ b = <<b[1], b[2]>>
      /\ b[1] \in DOMAIN schedule /\ b[2] \in DOMAIN schedule[b[1]].starts
  BY BeginningType
<1>2. schedule[b[1]] \in FormPages
  BY <1>1
<1>3. schedule[b[1]].starts \in Seq(Nat \ {0})
  BY <1>2 DEF FormPages
<1> QED BY <1>1, <1>3

\* A schedule has finitely many places.
LEMMA BeginningsFinite ==
    ASSUME schedule \in Seq(FormPages)
    PROVE  IsFiniteSet(Beginnings)
<1> DEFINE D == DOMAIN schedule
           f == [p \in D |-> {p} \X DOMAIN schedule[p].starts]
           R == {{p} \X DOMAIN schedule[p].starts : p \in D}
<1>1. IsFiniteSet(D)
  <2>1. D = 1 .. Len(schedule) /\ Len(schedule) \in Nat
    OBVIOUS
  <2> QED BY <2>1, FS_Interval
<1>2. f \in Surjection(D, R)
  BY DEF Surjection
<1>3. IsFiniteSet(R)
  BY <1>1, <1>2, FS_Surjection
<1>4. ASSUME NEW T \in R PROVE IsFiniteSet(T)
  <2>1. PICK p \in D : T = {p} \X DOMAIN schedule[p].starts
    OBVIOUS
  <2>2. schedule[p] \in FormPages
    BY <2>1
  <2>3. schedule[p].starts \in Seq(Nat \ {0})
    BY <2>2 DEF FormPages
  <2>4. IsFiniteSet(1 .. Len(schedule[p].starts))
    BY <2>3, FS_Interval
  <2>5. IsFiniteSet(DOMAIN schedule[p].starts)
    BY <2>3, <2>4
  <2>6. IsFiniteSet({p})
    BY FS_Singleton
  <2> QED BY <2>1, <2>5, <2>6, FS_Product
<1>5. IsFiniteSet(UNION R)
  BY <1>3, <1>4, FS_UNION
<1> QED BY <1>5 DEF Beginnings

\* Two places have different numbers of places before them.
LEMMA RanksDiffer ==
    ASSUME schedule \in Seq(FormPages), NEW b \in Beginnings, NEW c \in Beginnings,
           Cardinality(Earlier(b)) = Cardinality(Earlier(c))
    PROVE  b = c
<1>1. ASSUME NEW x \in Beginnings, NEW y \in Beginnings, x # y,
             x[1] < y[1] \/ (x[1] = y[1] /\ x[2] <= y[2])
      PROVE  Cardinality(Earlier(x)) # Cardinality(Earlier(y))
  <2>1. /\ x = <<x[1], x[2]>> /\ x[1] \in Nat /\ x[2] \in Nat
        /\ y = <<y[1], y[2]>> /\ y[1] \in Nat /\ y[2] \in Nat
    BY PlaceType
  <2>2. x[1] < y[1] \/ (x[1] = y[1] /\ x[2] < y[2])
    BY <1>1, <2>1
  <2>3. y \in Earlier(y) /\ y \notin Earlier(x)
    BY <2>1, <2>2 DEF Earlier
  <2>4. ASSUME NEW z \in Earlier(x) PROVE z \in Earlier(y)
    <3>1. z \in Beginnings /\ (z[1] < x[1] \/ (z[1] = x[1] /\ z[2] <= x[2]))
      BY <2>4 DEF Earlier
    <3>2. z[1] \in Nat /\ z[2] \in Nat
      BY <3>1, PlaceType
    <3>3. z[1] < y[1] \/ (z[1] = y[1] /\ z[2] <= y[2])
      BY <2>1, <2>2, <3>1, <3>2
    <3> QED BY <3>1, <3>3 DEF Earlier
  <2>5. IsFiniteSet(Earlier(y))
    <3>1. Earlier(y) \in SUBSET Beginnings
      BY DEF Earlier
    <3> QED BY <3>1, BeginningsFinite, FS_Subset
  <2>6. Earlier(x) \in SUBSET Earlier(y) /\ Earlier(x) # Earlier(y)
    BY <2>3, <2>4
  <2> QED BY <2>5, <2>6, FS_Subset
<1>2. /\ b[1] \in Nat /\ b[2] \in Nat /\ c[1] \in Nat /\ c[2] \in Nat
  BY PlaceType
<1>3. \/ b[1] < c[1] \/ (b[1] = c[1] /\ b[2] <= c[2])
      \/ c[1] < b[1] \/ (c[1] = b[1] /\ c[2] <= b[2])
  BY <1>2
<1> QED BY <1>1, <1>3

\* In a schedule that is in order every form begins on one page.
LEMMA BeginsOnce ==
    ASSUME schedule \in Seq(FormPages), FormsInOrder, NEW n,
           NEW p \in Begins(n), NEW q \in Begins(n)
    PROVE  p = q
<1>1. PICK k : p \in DOMAIN schedule /\ k \in DOMAIN schedule[p].starts
               /\ schedule[p].starts[k] = n
  BY DEF Begins
<1>2. PICK l : q \in DOMAIN schedule /\ l \in DOMAIN schedule[q].starts
               /\ schedule[q].starts[l] = n
  BY DEF Begins
<1>3. <<p, k>> \in Beginnings /\ <<q, l>> \in Beginnings
  BY <1>1, <1>2 DEF Beginnings
<1>4. /\ schedule[<<p, k>>[1]].starts[<<p, k>>[2]] = Cardinality(Earlier(<<p, k>>))
      /\ schedule[<<q, l>>[1]].starts[<<q, l>>[2]] = Cardinality(Earlier(<<q, l>>))
  BY <1>3 DEF FormsInOrder
<1>5. Cardinality(Earlier(<<p, k>>)) = Cardinality(Earlier(<<q, l>>))
  BY <1>1, <1>2, <1>4
<1>6. <<p, k>> = <<q, l>>
  BY <1>3, <1>5, RanksDiffer
<1> QED BY <1>6

-----------------------------------------------------------------------------
(* Types.                                                                  *)

LEMMA PageType ==
    ASSUME schedule \in Seq(FormPages), NEW p \in DOMAIN schedule
    PROVE  /\ schedule[p].head \in Nat /\ schedule[p].title \in Titles \cup {NoTitle}
           /\ schedule[p].cited \in BOOLEAN /\ schedule[p].garbled \in BOOLEAN
           /\ schedule[p].starts \in Seq(Nat \ {0})
<1>1. schedule[p] \in FormPages
  OBVIOUS
<1> QED BY <1>1 DEF FormPages

LEMMA CandidateType ==
    ASSUME candidates \in Seq(Candidates), NEW k \in DOMAIN candidates
    PROVE  /\ candidates[k].number \in Nat
           /\ candidates[k].first \in Nat /\ candidates[k].last \in Nat
<1>1. candidates[k] \in Candidates
  OBVIOUS
<1> QED BY <1>1 DEF Candidates

LEMMA ScoreType ==
    ASSUME NEW reasons
    PROVE  Score(reasons) \in 0 .. 100
  BY DEF Score

\* What Extract appends and writes.
Extracted(k) ==
    LET candidate == candidates[k]
        reasons == Reasons(candidate, k)
        plain == FileName(candidate.number, Slug[candidate.title], 0)
        name == IF Taken(plain)
                THEN FileName(candidate.number, Slug[candidate.title], k)
                ELSE plain
        all == IF Taken(plain) THEN reasons \cup {"collision"} ELSE reasons
    IN  [number |-> candidate.number, title |-> candidate.title,
         filename |-> name, first |-> candidate.first, last |-> candidate.last,
         confidence |-> Score(reasons), review |-> all # {}]

FileOf(record) == [name |-> record.filename, first |-> record.first, last |-> record.last]

LEMMA ExtractStep ==
    ASSUME Extract
    PROVE  /\ records' = Append(records, Extracted(position))
           /\ formFiles' = {f \in formFiles : f.name # Extracted(position).filename}
                               \cup {FileOf(Extracted(position))}
  BY DEF Extract, Extracted, FileOf

LEMMA ExtractedFacts ==
    ASSUME FormTypeOK, NEW k \in DOMAIN candidates
    PROVE  /\ Extracted(k) \in Records
           /\ Extracted(k).number = candidates[k].number
           /\ Extracted(k).first = candidates[k].first
           /\ Extracted(k).last = candidates[k].last
           /\ ~Extracted(k).review => candidates[k].number = k
           /\ \/ /\ Extracted(k).filename.suffix = 0
                 /\ ~Taken(Extracted(k).filename)
              \/ Extracted(k).filename.suffix = k
<1> DEFINE candidate == candidates[k]
           reasons == Reasons(candidate, k)
           plain == FileName(candidate.number, Slug[candidate.title], 0)
           name == Extracted(k).filename
<1>1. candidate \in Candidates /\ k \in Nat
  BY DEF FormTypeOK
<1>2. /\ candidate.number \in Nat /\ candidate.first \in Nat /\ candidate.last \in Nat
      /\ candidate.title \in Titles \cup {NoTitle}
  BY <1>1 DEF Candidates
<1>3. /\ Extracted(k).number = candidate.number /\ Extracted(k).title = candidate.title
      /\ Extracted(k).first = candidate.first /\ Extracted(k).last = candidate.last
      /\ Extracted(k).confidence = Score(reasons)
      /\ Extracted(k).review \in BOOLEAN
  BY DEF Extracted
<1>4. /\ Taken(plain) => name = FileName(candidate.number, Slug[candidate.title], k)
      /\ ~Taken(plain) => name = plain
  BY DEF Extracted
<1>5. name \in FileNames
  BY <1>1, <1>2, <1>4, FormAssumption DEF FileNames, FileName
<1>6. Extracted(k) \in Records
  <2>1. Extracted(k) = [number |-> candidate.number, title |-> candidate.title,
           filename |-> name, first |-> candidate.first, last |-> candidate.last,
           confidence |-> Score(reasons), review |-> Extracted(k).review]
    BY DEF Extracted
  <2>2. Score(reasons) \in 0 .. 100
    BY ScoreType
  <2> QED BY <1>2, <1>3, <1>5, <2>1, <2>2 DEF Records
<1>7. ASSUME ~Extracted(k).review PROVE candidate.number = k
  <2>1. reasons = {}
    BY <1>7 DEF Extracted
  <2>2. "sequence" \notin Reasons(candidate, k)
    BY <2>1
  <2> QED BY <2>2 DEF Reasons
<1>8. \/ /\ name.suffix = 0 /\ ~Taken(name)
      \/ name.suffix = k
  BY <1>4 DEF FileName
<1> QED BY <1>3, <1>6, <1>7, <1>8

\* Every reachable state of the form walk is well typed.
THEOREM FormTypeCorrect == FormSpec => []FormTypeOK
<1>1. FormInit => FormTypeOK
  BY DEF FormInit, FormStart, FormTypeOK
<1>2. FormTypeOK /\ [FormNext]_formVars => FormTypeOK'
  <2> SUFFICES ASSUME FormTypeOK, [FormNext]_formVars PROVE FormTypeOK'
    OBVIOUS
  <2> USE DEF FormTypeOK
  <2>1. CASE NewForm
    <3>1. page \in DOMAIN schedule /\ position' = position
      BY <2>1 DEF NewForm, Detecting
    <3>2. [number |-> schedule[page].head, first |-> page, last |-> page,
           title |-> schedule[page].title, cited |-> schedule[page].cited,
           ocr |-> schedule[page].garbled] \in Candidates
      BY <3>1, PageType DEF Candidates
    <3>3. candidates' \in Seq(Candidates) /\ Len(candidates') = Len(candidates) + 1
      BY <2>1, <3>2 DEF NewForm
    <3> QED BY <2>1, <3>3 DEF NewForm, Detecting
  <2>2. CASE ContinueForm
    <3> DEFINE n == Len(candidates)
               c == candidates[n]
    <3>1. n \in DOMAIN candidates /\ c \in Candidates
      BY <2>2 DEF ContinueForm
    <3>2. [c EXCEPT !.last = page] \in Candidates
      BY <3>1 DEF Candidates
    <3>3. candidates' = [candidates EXCEPT ![n] = [c EXCEPT !.last = page]]
      BY <2>2 DEF ContinueForm
    <3>4. candidates' \in Seq(Candidates) /\ Len(candidates') = n
      BY <3>1, <3>2, <3>3
    <3> QED BY <2>2, <3>4 DEF ContinueForm, Detecting
  <2>3. CASE SkipPage
    BY <2>3 DEF SkipPage, Detecting
  <2>4. CASE EndDetect
    BY <2>4 DEF EndDetect
  <2>5. CASE Extract
    <3>1. position \in DOMAIN candidates
      BY <2>5 DEF Extract
    <3>2. Extracted(position) \in Records
      BY <3>1, ExtractedFacts
    <3> DEFINE record == Extracted(position)
    <3>31. record \in Records /\ records' = Append(records, record)
      BY <2>5, <3>2, ExtractStep
    <3>32. records \in Seq(Records)
      OBVIOUS
    <3> HIDE DEF record
    <3>3. records' \in Seq(Records) /\ Len(records') = Len(records) + 1
      BY ONLY <3>31, <3>32
    <3> USE DEF record
    <3>4. FileOf(Extracted(position)) \in [name : FileNames, first : Nat, last : Nat]
      BY <3>2 DEF FileOf, Records
    <3>5. formFiles' \subseteq [name : FileNames, first : Nat, last : Nat]
      BY <2>5, <3>4, ExtractStep
    <3>6. /\ position' = position + 1 /\ position <= Len(candidates)
          /\ UNCHANGED <<schedule, formStep, page, candidates>>
      BY <2>5, <3>1 DEF Extract
    <3> QED BY <3>3, <3>5, <3>6
  <2>6. CASE EndExtract
    BY <2>6 DEF EndExtract
  <2>7. CASE UNCHANGED formVars
    BY <2>7 DEF formVars
  <2> QED BY <2>1, <2>2, <2>3, <2>4, <2>5, <2>6, <2>7 DEF FormNext
<1> QED BY <1>1, <1>2, PTL DEF FormSpec

-----------------------------------------------------------------------------
(* The candidates and their files.                                         *)

Stage ==
    /\ page >= 1 /\ position >= 1 /\ page <= Len(schedule) + 1
    /\ formStep = "detect" => position = 1
    /\ formStep # "detect" => page = Len(schedule) + 1
    /\ formStep = "done" => position = Len(candidates) + 1

\* A candidate begins at the header that gave it its number, and ends on the
\* page before the next one.
Stretches ==
    /\ \A k \in DOMAIN candidates :
          /\ candidates[k].first \in DOMAIN schedule
          /\ schedule[candidates[k].first].head = candidates[k].number
          /\ candidates[k].number # 0
          /\ candidates[k].first <= candidates[k].last
          /\ candidates[k].last = IF k = Len(candidates) THEN page - 1
                                  ELSE candidates[k + 1].first - 1
    /\ \A k, l \in DOMAIN candidates :
          k < l => candidates[k].last < candidates[l].first

\* A record speaks of its candidate and of no other's file.
Filed ==
    /\ \A k \in DOMAIN records :
          /\ records[k].number = candidates[k].number
          /\ records[k].first = candidates[k].first
          /\ records[k].last = candidates[k].last
          /\ ~records[k].review => records[k].number = k
          /\ records[k].filename.suffix \in {0, k}
          /\ FileOf(records[k]) \in formFiles
    /\ \A k, l \in DOMAIN records :
          k # l => records[k].filename # records[l].filename

FormInv == FormTypeOK /\ Stage /\ Stretches /\ Filed

\* A header opens a stretch behind the last one.
LEMMA NewFormStretches ==
    ASSUME FormInv, NewForm
    PROVE  Stretches'
<1> DEFINE n == Len(candidates)
           new == [number |-> schedule[page].head, first |-> page, last |-> page,
                   title |-> schedule[page].title, cited |-> schedule[page].cited,
                   ocr |-> schedule[page].garbled]
<1>1. /\ page \in DOMAIN schedule /\ page' = page + 1 /\ schedule' = schedule
      /\ schedule[page].head # 0 /\ page \in Nat /\ n \in Nat
      /\ candidates' = Append(candidates, new)
  BY DEF FormInv, FormTypeOK, NewForm, Detecting
<1>2. candidates \in Seq(Candidates)
  BY DEF FormInv, FormTypeOK
<1>3. /\ DOMAIN candidates' = 1 .. n + 1 /\ Len(candidates') = n + 1
      /\ DOMAIN candidates = 1 .. n
      /\ \A k \in 1 .. n : candidates'[k] = candidates[k]
      /\ candidates'[n + 1] = new
  BY <1>1, <1>2
<1>4. \A k \in 1 .. n : candidates[k].first \in Nat /\ candidates[k].last \in Nat
  BY <1>2, <1>3, CandidateType
<1>5. \A k \in 1 .. n : candidates[k].last <= page - 1
  <2>1. \A k \in 1 .. n :
           candidates[k].last = IF k = n THEN page - 1 ELSE candidates[k + 1].first - 1
    BY <1>3 DEF FormInv, Stretches
  <2>2. \A k \in 1 .. n : k # n => candidates[k].last < candidates[n].first
    BY <1>3 DEF FormInv, Stretches
  <2>3. \A k \in 1 .. n : candidates[k].first <= candidates[k].last
    BY <1>3 DEF FormInv, Stretches
  <2> QED BY <1>1, <1>4, <2>1, <2>2, <2>3
<1>6. ASSUME NEW k \in DOMAIN candidates'
      PROVE  /\ candidates'[k].first \in DOMAIN schedule'
             /\ schedule'[candidates'[k].first].head = candidates'[k].number
             /\ candidates'[k].number # 0
             /\ candidates'[k].first <= candidates'[k].last
             /\ candidates'[k].last = IF k = Len(candidates') THEN page' - 1
                                      ELSE candidates'[k + 1].first - 1
  <2>1. CASE k = n + 1
    BY <1>1, <1>3, <2>1
  <2>2. CASE k # n + 1
    <3>1. k \in 1 .. n /\ candidates'[k] = candidates[k]
      BY <1>1, <1>3, <2>2
    <3>2. /\ candidates[k].first \in DOMAIN schedule
          /\ schedule[candidates[k].first].head = candidates[k].number
          /\ candidates[k].number # 0
          /\ candidates[k].first <= candidates[k].last
          /\ candidates[k].last = IF k = n THEN page - 1
                                  ELSE candidates[k + 1].first - 1
      BY <1>3, <3>1 DEF FormInv, Stretches
    <3>3. candidates[k].last = candidates'[k + 1].first - 1
      BY <1>1, <1>3, <3>1, <3>2
    <3> QED BY <1>1, <1>3, <2>2, <3>1, <3>2, <3>3
  <2> QED BY <2>1, <2>2
<1>7. ASSUME NEW k \in DOMAIN candidates', NEW l \in DOMAIN candidates', k < l
      PROVE  candidates'[k].last < candidates'[l].first
  <2>1. k \in 1 .. n /\ candidates'[k] = candidates[k]
    BY <1>1, <1>3, <1>7
  <2>2. CASE l = n + 1
    BY <1>1, <1>3, <1>4, <1>5, <2>1, <2>2
  <2>3. CASE l # n + 1
    <3>1. l \in 1 .. n /\ candidates'[l] = candidates[l]
      BY <1>1, <1>3, <2>3
    <3> QED BY <1>3, <1>7, <2>1, <3>1 DEF FormInv, Stretches
  <2> QED BY <2>2, <2>3
<1> QED BY <1>6, <1>7 DEF Stretches

\* A page without header lengthens the last stretch.
LEMMA ContinueFormStretches ==
    ASSUME FormInv, ContinueForm
    PROVE  Stretches'
<1> DEFINE n == Len(candidates)
<1>1. /\ page \in DOMAIN schedule /\ page' = page + 1 /\ schedule' = schedule
      /\ page \in Nat /\ n \in Nat
      /\ candidates' = [candidates EXCEPT ![n].last = page]
  BY DEF FormInv, FormTypeOK, ContinueForm, Detecting
<1>2. candidates \in Seq(Candidates) /\ n \in DOMAIN candidates
  BY DEF FormInv, FormTypeOK, ContinueForm
<1>3. /\ DOMAIN candidates' = DOMAIN candidates /\ Len(candidates') = n
      /\ DOMAIN candidates = 1 .. n
      /\ \A k \in 1 .. n : k # n => candidates'[k] = candidates[k]
      /\ candidates'[n].number = candidates[n].number
      /\ candidates'[n].first = candidates[n].first
      /\ candidates'[n].last = page
  <2>1. candidates[n] \in Candidates
    BY <1>2
  <2>2. candidates' = [candidates EXCEPT ![n] = [candidates[n] EXCEPT !.last = page]]
    BY <1>1
  <2>3. DOMAIN candidates' = DOMAIN candidates /\ DOMAIN candidates = 1 .. n
    BY <1>2, <2>2
  <2>4. /\ \A k \in 1 .. n : k # n => candidates'[k] = candidates[k]
        /\ candidates'[n] = [candidates[n] EXCEPT !.last = page]
    BY <1>2, <2>2, <2>3
  <2>5. Len(candidates') = n
    <3>1. [candidates[n] EXCEPT !.last = page] \in Candidates
      BY <1>1, <2>1 DEF Candidates
    <3> QED BY <1>2, <2>2, <3>1
  <2>6. [candidates[n] EXCEPT !.last = page].last = page
    BY <2>1 DEF Candidates
  <2> QED BY <2>3, <2>4, <2>5, <2>6
<1>4. \A k \in 1 .. n : candidates[k].first \in Nat /\ candidates[k].last \in Nat
  BY <1>2, <1>3, CandidateType
<1>5. \A k \in 1 .. n : candidates'[k].first = candidates[k].first
  BY <1>3
<1>6. ASSUME NEW k \in DOMAIN candidates'
      PROVE  /\ candidates'[k].first \in DOMAIN schedule'
             /\ schedule'[candidates'[k].first].head = candidates'[k].number
             /\ candidates'[k].number # 0
             /\ candidates'[k].first <= candidates'[k].last
             /\ candidates'[k].last = IF k = Len(candidates') THEN page' - 1
                                      ELSE candidates'[k + 1].first - 1
  <2>1. /\ candidates[k].first \in DOMAIN schedule
        /\ schedule[candidates[k].first].head = candidates[k].number
        /\ candidates[k].number # 0
        /\ candidates[k].first <= candidates[k].last
        /\ candidates[k].last = IF k = n THEN page - 1
                                ELSE candidates[k + 1].first - 1
    BY <1>3 DEF FormInv, Stretches
  <2>2. CASE k = n
    BY <1>1, <1>2, <1>3, <1>4, <2>1, <2>2
  <2>3. CASE k # n
    BY <1>1, <1>3, <1>4, <1>5, <2>1, <2>3
  <2> QED BY <2>2, <2>3
<1>7. ASSUME NEW k \in DOMAIN candidates', NEW l \in DOMAIN candidates', k < l
      PROVE  candidates'[k].last < candidates'[l].first
  <2>1. candidates'[k] = candidates[k]
    BY <1>1, <1>3, <1>7
  <2> QED BY <1>3, <1>5, <1>7, <2>1 DEF FormInv, Stretches
<1> QED BY <1>6, <1>7 DEF Stretches

\* The file that is written is new: a plain name is not taken yet, and a
\* position is that of one candidate.
LEMMA ExtractFiled ==
    ASSUME FormInv, Extract
    PROVE  Filed'
<1> DEFINE n == Len(records)
           new == Extracted(position)
<1>1. /\ records \in Seq(Records) /\ n \in Nat /\ position = n + 1
      /\ position \in DOMAIN candidates /\ candidates' = candidates
  BY DEF FormInv, FormTypeOK, Extract
<1>2. /\ new \in Records
      /\ new.number = candidates[position].number
      /\ new.first = candidates[position].first
      /\ new.last = candidates[position].last
      /\ ~new.review => candidates[position].number = position
      /\ \/ new.filename.suffix = 0 /\ ~Taken(new.filename)
         \/ new.filename.suffix = position
  BY <1>1, ExtractedFacts DEF FormInv
<1>3. /\ records' = Append(records, new)
      /\ formFiles' = {f \in formFiles : f.name # new.filename} \cup {FileOf(new)}
  BY ExtractStep
<1> HIDE DEF new
<1>4. /\ DOMAIN records' = 1 .. n + 1 /\ DOMAIN records = 1 .. n
      /\ \A k \in 1 .. n : records'[k] = records[k]
      /\ records'[n + 1] = new
  BY <1>1, <1>2, <1>3
<1>5. \A k \in 1 .. n : records[k].filename # new.filename
  <2>1. CASE new.filename.suffix = 0 /\ ~Taken(new.filename)
    BY <1>4, <2>1 DEF Taken
  <2>2. CASE new.filename.suffix = position
    <3>1. \A k \in 1 .. n : records[k].filename.suffix \in {0, k}
      BY <1>4 DEF FormInv, Filed
    <3>2. \A k \in 1 .. n : records[k].filename.suffix # position
      BY <1>1, <3>1
    <3> QED BY <2>2, <3>2
  <2> QED BY <1>2, <2>1, <2>2
<1>6. ASSUME NEW k \in DOMAIN records'
      PROVE  /\ records'[k].number = candidates'[k].number
             /\ records'[k].first = candidates'[k].first
             /\ records'[k].last = candidates'[k].last
             /\ ~records'[k].review => records'[k].number = k
             /\ records'[k].filename.suffix \in {0, k}
             /\ FileOf(records'[k]) \in formFiles'
  <2>1. CASE k = n + 1
    BY <1>1, <1>2, <1>3, <1>4, <2>1
  <2>2. CASE k # n + 1
    <3>1. k \in 1 .. n /\ records'[k] = records[k]
      BY <1>1, <1>4, <2>2
    <3>2. /\ records[k].number = candidates[k].number
          /\ records[k].first = candidates[k].first
          /\ records[k].last = candidates[k].last
          /\ ~records[k].review => records[k].number = k
          /\ records[k].filename.suffix \in {0, k}
          /\ FileOf(records[k]) \in formFiles
      BY <1>4, <3>1 DEF FormInv, Filed
    <3>3. FileOf(records[k]).name # new.filename
      BY <1>5, <3>1 DEF FileOf
    <3>4. FileOf(records[k]) \in formFiles'
      BY <1>3, <3>2, <3>3
    <3> QED BY <1>1, <3>1, <3>2, <3>4
  <2> QED BY <2>1, <2>2
<1>7. ASSUME NEW k \in DOMAIN records', NEW l \in DOMAIN records', k # l
      PROVE  records'[k].filename # records'[l].filename
  <2>1. CASE k \in 1 .. n /\ l \in 1 .. n
    BY <1>4, <1>7, <2>1 DEF FormInv, Filed
  <2>2. CASE k \in 1 .. n /\ l = n + 1
    BY <1>4, <1>5, <2>2
  <2>3. CASE k = n + 1 /\ l \in 1 .. n
    BY <1>4, <1>5, <2>3
  <2> QED BY <1>1, <1>4, <1>7, <2>1, <2>2, <2>3
<1>8. /\ \A k \in DOMAIN records' :
          /\ records'[k].number = candidates'[k].number
          /\ records'[k].first = candidates'[k].first
          /\ records'[k].last = candidates'[k].last
          /\ ~records'[k].review => records'[k].number = k
          /\ records'[k].filename.suffix \in {0, k}
          /\ FileOf(records'[k]) \in formFiles'
  BY <1>6
<1> QED BY <1>7, <1>8 DEF Filed, FileOf

\* While headers are looked for there is no record.
LEMMA NothingFiled ==
    ASSUME FormInv, formStep = "detect", UNCHANGED <<records, formFiles>>
    PROVE  Filed'
<1>1. DOMAIN records = {}
  BY DEF FormInv, FormTypeOK, Stage
<1> QED BY <1>1 DEF Filed

THEOREM FormInvariant == FormSpec => []FormInv
<1>1. FormInit => FormInv
  <2> SUFFICES ASSUME FormInit PROVE FormInv
    OBVIOUS
  <2>1. FormTypeOK
    BY DEF FormInit, FormStart, FormTypeOK
  <2>2. Stage
    BY DEF FormInit, FormStart, Stage
  <2>3. Stretches /\ Filed
    BY DEF FormInit, FormStart, Stretches, Filed
  <2> QED BY <2>1, <2>2, <2>3 DEF FormInv
<1>2. FormInv /\ FormTypeOK' /\ [FormNext]_formVars => FormInv'
  <2> SUFFICES ASSUME FormInv, FormTypeOK', [FormNext]_formVars PROVE FormInv'
    OBVIOUS
  <2>1. Stage'
    <3>1. FormTypeOK /\ Stage
      BY DEF FormInv
    <3>2. CASE NewForm
      BY <3>1, <3>2 DEF NewForm, Detecting, Stage, FormTypeOK
    <3>3. CASE ContinueForm
      BY <3>1, <3>3 DEF ContinueForm, Detecting, Stage, FormTypeOK
    <3>4. CASE SkipPage
      BY <3>1, <3>4 DEF SkipPage, Detecting, Stage, FormTypeOK
    <3>5. CASE EndDetect
      BY <3>1, <3>5 DEF EndDetect, Stage, FormTypeOK
    <3>6. CASE Extract
      BY <3>1, <3>6 DEF Extract, Stage, FormTypeOK
    <3>7. CASE EndExtract
      BY <3>1, <3>7 DEF EndExtract, Stage, FormTypeOK
    <3>8. CASE UNCHANGED formVars
      BY <3>1, <3>8 DEF formVars, Stage
    <3> QED BY <3>2, <3>3, <3>4, <3>5, <3>6, <3>7, <3>8 DEF FormNext
  <2>2. Stretches'
    <3>1. CASE NewForm
      BY <3>1, NewFormStretches
    <3>2. CASE ContinueForm
      BY <3>2, ContinueFormStretches
    <3>3. CASE SkipPage
      <4>1. candidates' = <<>>
        BY <3>3 DEF SkipPage
      <4> QED BY <4>1 DEF Stretches
    <3>4. CASE EndDetect
      BY <3>4 DEF EndDetect, FormInv, Stretches
    <3>5. CASE Extract
      BY <3>5 DEF Extract, FormInv, Stretches
    <3>6. CASE EndExtract
      BY <3>6 DEF EndExtract, FormInv, Stretches
    <3>7. CASE UNCHANGED formVars
      BY <3>7 DEF formVars, FormInv, Stretches
    <3> QED BY <3>1, <3>2, <3>3, <3>4, <3>5, <3>6, <3>7 DEF FormNext
  <2>3. Filed'
    <3>1. CASE NewForm \/ ContinueForm \/ SkipPage
      BY <3>1, NothingFiled DEF NewForm, ContinueForm, SkipPage, Detecting
    <3>2. CASE EndDetect
      BY <3>2 DEF EndDetect, FormInv, Filed
    <3>3. CASE Extract
      BY <3>3, ExtractFiled
    <3>4. CASE EndExtract
      BY <3>4 DEF EndExtract, FormInv, Filed
    <3>5. CASE UNCHANGED formVars
      BY <3>5 DEF formVars, FormInv, Filed
    <3> QED BY <3>1, <3>2, <3>3, <3>4, <3>5 DEF FormNext
  <2> QED BY <2>1, <2>2, <2>3 DEF FormInv
<1> QED BY <1>1, <1>2, FormTypeCorrect, PTL DEF FormSpec

-----------------------------------------------------------------------------
(* Swallowed forms.                                                        *)

\* A page that only continues a form has no header.
LEMMA NoHeaderInside ==
    ASSUME FormInv, FormsInOrder, NEW q \in DOMAIN schedule, schedule[q].starts = <<>>
    PROVE  schedule[q].head = 0
<1> SUFFICES ASSUME schedule[q].head # 0 PROVE FALSE
  OBVIOUS
<1>1. q \in Begins(schedule[q].head)
  BY DEF FormsInOrder
<1> QED BY <1>1 DEF Begins

LEMMA ShownWhole ==
    ASSUME FormInv, formStep = "done", FormsInOrder,
           \A k \in DOMAIN records : ~records[k].review
    PROVE  SwallowedFormIsFlagged
<1>1. /\ candidates \in Seq(Candidates) /\ schedule \in Seq(FormPages)
      /\ DOMAIN records = DOMAIN candidates /\ DOMAIN records = 1 .. Len(candidates)
      /\ page = Len(schedule) + 1
  BY DEF FormInv, FormTypeOK, Stage
<1>2. \A k \in DOMAIN records :
         /\ records[k].number = k /\ candidates[k].number = k
         /\ records[k].first = candidates[k].first
         /\ records[k].last = candidates[k].last
         /\ FileOf(records[k]) \in formFiles
  BY DEF FormInv, Filed
<1>3. \A k \in DOMAIN records : candidates[k].first \in Nat /\ candidates[k].last \in Nat
  BY <1>1, CandidateType
<1>4. ASSUME NEW k \in DOMAIN records
      PROVE  Begins(k) = {candidates[k].first}
  <2>1. /\ candidates[k].first \in DOMAIN schedule
        /\ schedule[candidates[k].first].head = k /\ k # 0
    BY <1>1, <1>2 DEF FormInv, Stretches
  <2>2. candidates[k].first \in Begins(k)
    BY <2>1 DEF FormsInOrder
  <2> QED BY <1>1, <2>2, BeginsOnce
<1>5. ASSUME NEW n \in DOMAIN records, NEW q \in Continues(n)
      PROVE  q \in candidates[n].first .. candidates[n].last
  <2> DEFINE p == candidates[n].first
  <2>1. /\ q \in DOMAIN schedule /\ p < q
        /\ \A r \in p + 1 .. q : schedule[r].starts = <<>>
    BY <1>4 DEF Continues
  <2>2. /\ p \in DOMAIN schedule /\ p <= candidates[n].last
        /\ candidates[n].last = IF n = Len(candidates) THEN page - 1
                                ELSE candidates[n + 1].first - 1
    BY <1>1 DEF FormInv, Stretches
  <2>3. p \in Nat /\ q \in Nat /\ q <= Len(schedule) /\ Len(schedule) \in Nat
    BY <1>1, <2>1, <2>2
  <2>4. CASE n = Len(candidates)
    BY <1>1, <2>1, <2>2, <2>3, <2>4
  <2>5. CASE n # Len(candidates)
    <3> DEFINE f == candidates[n + 1].first
    <3>1. n + 1 \in DOMAIN records /\ n < n + 1
      BY <1>1, <2>5
    <3>2. /\ f \in DOMAIN schedule /\ schedule[f].head # 0
          /\ candidates[n].last < f /\ f \in Nat
      BY <1>1, <1>3, <3>1 DEF FormInv, Stretches
    <3>3. schedule[f].starts # <<>>
      BY <3>2, NoHeaderInside
    <3>4. f \notin p + 1 .. q
      BY <2>1, <3>3
    <3>5. candidates[n].last = f - 1 /\ candidates[n].last \in Nat
      BY <1>3, <2>2, <2>5
    <3>6. f > q
      BY <2>2, <2>3, <3>2, <3>4, <3>5
    <3> QED BY <2>1, <2>3, <3>2, <3>5, <3>6
  <2> QED BY <2>4, <2>5
<1>6. ASSUME NEW n \in DOMAIN records, NEW m \in DOMAIN records,
             Begins(m) \cap (candidates[n].first .. candidates[n].last) # {}
      PROVE  m = n
  <2>1. /\ candidates[m].first >= candidates[n].first
        /\ candidates[m].first <= candidates[n].last
    BY <1>3, <1>4, <1>6
  <2>2. m \in Nat /\ n \in Nat /\ m \in DOMAIN candidates /\ n \in DOMAIN candidates
    BY <1>1
  <2>3. CASE m < n
    <3>1. candidates[m].last < candidates[n].first /\ candidates[m].first <= candidates[m].last
      BY <2>2, <2>3 DEF FormInv, Stretches
    <3> QED BY <1>3, <2>1, <3>1
  <2>4. CASE n < m
    <3>1. candidates[n].last < candidates[m].first
      BY <2>2, <2>4 DEF FormInv, Stretches
    <3> QED BY <1>3, <2>1, <3>1
  <2> QED BY <2>2, <2>3, <2>4
<1>7. ASSUME NEW k \in DOMAIN records, NEW n \in 1 .. records[k].number
      PROVE  \E l \in DOMAIN records :
                LET pages == records[l].first .. records[l].last
                IN  /\ records[l].number = n
                    /\ Begins(n) = {records[l].first}
                    /\ Continues(n) \subseteq pages
                    /\ \A m \in 1 .. records[k].number :
                          Begins(m) \cap pages # {} => m = n
                    /\ [name |-> records[l].filename, first |-> records[l].first,
                        last |-> records[l].last] \in formFiles
  <2>1. n \in DOMAIN records /\ 1 .. records[k].number \subseteq DOMAIN records
    BY <1>1, <1>2
  <2>2. FileOf(records[n]) = [name |-> records[n].filename, first |-> records[n].first,
                              last |-> records[n].last]
    BY DEF FileOf
  <2>3. Continues(n) \subseteq records[n].first .. records[n].last
    BY <1>2, <1>5, <2>1
  <2>4. \A m \in 1 .. records[k].number :
           Begins(m) \cap (records[n].first .. records[n].last) # {} => m = n
    BY <1>2, <1>6, <2>1
  <2> QED BY <1>2, <1>4, <2>1, <2>2, <2>3, <2>4
<1> QED BY <1>7 DEF SwallowedFormIsFlagged

\* When no record is flagged, forms are swallowed at the end of the schedule
\* only: each of the others has a file of its own, with all of its pages and
\* no page of another.
THEOREM SwallowedFormsAreFlagged == FormSpec => []SwallowedFormIsFlagged
<1>1. FormInv => SwallowedFormIsFlagged
  <2> SUFFICES ASSUME FormInv, ~SwallowedFormIsFlagged PROVE FALSE
    OBVIOUS
  <2>1. /\ formStep = "done" /\ FormsInOrder
        /\ \A k \in DOMAIN records : ~records[k].review
    BY DEF SwallowedFormIsFlagged
  <2> QED BY <2>1, ShownWhole
<1> QED BY <1>1, FormInvariant, PTL

=============================================================================
