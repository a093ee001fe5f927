--------------------------- MODULE StatuteWalkProofs ---------------------------
(***************************************************************************)
(* Proofs about StatuteWalk, for acts of any length: types, that provisos  *)
(* travel with the clause above them, that no line of an act is lost, that *)
(* text under a wrong section number is flagged, and that every section    *)
(* has its own title unless the report says otherwise.                     *)
(***************************************************************************)
EXTENDS StatuteWalk, FiniteSetTheorems, SequenceTheorems, WellFoundedInduction, TLAPS

-----------------------------------------------------------------------------
(* Least and last elements.                                                *)

\* A nonempty set of natural numbers has a least element.
LEMMA LeastNatural ==
    ASSUME NEW A \in SUBSET Nat, A # {}
    PROVE  \E a \in A : \A b \in A : a <= b
  <1>1. PICK a \in A : \A b \in A : <<b, a>> \notin OpToRel(<, Nat)
    BY NatLessThanWellFounded, WFMin
  <1>2. ASSUME NEW b \in A PROVE a <= b
    <2>1. <<b, a>> \notin {ss \in Nat \X Nat : ss[1] < ss[2]}
      BY <1>1 DEF OpToRel
    <2>2. a \in Nat /\ b \in Nat /\ ~(b < a)
      BY <2>1
    <2> QED
      BY <2>2
  <1> QED
    BY <1>2

\* A nonempty set of positions of a sequence has a last one.
LEMMA LastPosition ==
    ASSUME NEW s, NEW S, s \in Seq(S), NEW K \in SUBSET DOMAIN s, K # {}
    PROVE  \E k \in K : \A l \in K : l <= k
  <1> DEFINE Away == {Len(s) - k : k \in K}
  <1>1. Len(s) \in Nat /\ \A k \in K : k \in 1 .. Len(s)
    OBVIOUS
  <1>2. Away \in SUBSET Nat /\ Away # {}
    BY <1>1
  <1>3. PICK a \in Away : \A b \in Away : a <= b
    <2> HIDE DEF Away
    <2> QED
      BY <1>2, LeastNatural
  <1>4. PICK k \in K : a = Len(s) - k
    BY <1>3
  <1>5. ASSUME NEW l \in K PROVE l <= k
    <2>1. a <= Len(s) - l
      BY <1>3
    <2> QED
      BY <1>1, <1>4, <2>1
  <1> QED
    BY <1>4, <1>5

-----------------------------------------------------------------------------
(* What the walk takes from the layout of a page. *)

LEMMA RowType ==
    ASSUME act \in Documents, NEW i \in DOMAIN act.rows
    PROVE  /\ act.rows[i] \in Rows
           /\ i \in Nat /\ i >= 1 /\ i <= Len(act.rows)
  <1>1. act.rows \in Seq(Rows)
    BY DEF Documents
  <1> QED
    BY <1>1

\* Titles are named by rows.
LEMMA EndsAreRows ==
    ASSUME act \in Documents, NEW p
    PROVE  /\ TitleEnds(act, p) \subseteq DOMAIN act.rows
           /\ TitleEnds(act, p) \subseteq Nat
  <1>1. TitleEnds(act, p) \subseteq DOMAIN act.rows
    BY DEF TitleEnds
  <1> QED
    BY <1>1, RowType

\* The baseline of a title is that of one of its rows.
LEMMA TitleYType ==
    ASSUME act \in Documents, NEW p, NEW e \in TitleEnds(act, p)
    PROVE  TitleY(act, e) \in Nat
  <1>1. e \in DOMAIN act.rows /\ IsFragment(act, e) /\ e \in Nat
    BY RowType DEF TitleEnds
  <1>2. e \in TitleRows(act, e)
    BY <1>1 DEF TitleRows
  <1>3. TitleRows(act, e) \subseteq DOMAIN act.rows
    BY DEF TitleRows
  <1>4. TitleRows(act, e) \in SUBSET Nat /\ TitleRows(act, e) # {}
    BY <1>2, <1>3, RowType
  <1>5. \E a \in TitleRows(act, e) : \A b \in TitleRows(act, e) : a <= b
    <2> DEFINE A == TitleRows(act, e)
    <2>1. A \in SUBSET Nat /\ A # {}
      BY <1>4
    <2> HIDE DEF A
    <2>2. \E a \in A : \A b \in A : a <= b
      BY <2>1, LeastNatural
    <2> QED
      BY <2>2 DEF A
  <1> DEFINE first == CHOOSE i \in TitleRows(act, e) :
                         \A j \in TitleRows(act, e) : i <= j
  <1>6. first \in DOMAIN act.rows
    BY <1>3, <1>5
  <1>7. act.rows[first].y \in Nat
    BY <1>6, RowType DEF Rows
  <1> QED
    BY <1>7 DEF TitleY

LEMMA DistanceType ==
    ASSUME NEW a \in Nat, NEW b \in Nat
    PROVE  Distance(a, b) \in Nat
  BY DEF Distance

\* There is a nearest title, and it is one of the pool.
LEMMA NearestInPool ==
    ASSUME act \in Documents, NEW i \in DOMAIN act.rows, NEW p,
           NEW pool \in SUBSET TitleEnds(act, p), pool # {}
    PROVE  /\ Nearest(act, i, pool) \in pool
           /\ \A f \in pool :
                 Distance(TitleY(act, Nearest(act, i, pool)), act.rows[i].y)
                    <= Distance(TitleY(act, f), act.rows[i].y)
  <1> DEFINE away(e) == Distance(TitleY(act, e), act.rows[i].y)
             Aways == {away(e) : e \in pool}
  <1>1. \A e \in pool : away(e) \in Nat
    <2>1. act.rows[i].y \in Nat
      BY RowType DEF Rows
    <2> QED
      BY <2>1, TitleYType, DistanceType
  <1>2. pool \in SUBSET Nat
    BY EndsAreRows
  <1>3. PICK least \in Aways : \A b \in Aways : least <= b
    <2>1. Aways \in SUBSET Nat /\ Aways # {}
      BY <1>1
    <2> HIDE DEF Aways
    <2> QED
      BY <2>1, LeastNatural
  <1> DEFINE Closest == {e \in pool : away(e) = least}
  <1>4. PICK e \in Closest : \A f \in Closest : e <= f
    <2>1. Closest \in SUBSET Nat /\ Closest # {}
      BY <1>2, <1>3
    <2> HIDE DEF Closest
    <2> QED
      BY <2>1, LeastNatural
  <1>5. \A f \in pool : away(e) < away(f) \/ (away(e) = away(f) /\ e <= f)
    <2> TAKE f \in pool
    <2>1. away(e) = least /\ least <= away(f) /\ least \in Nat /\ away(f) \in Nat
      BY <1>1, <1>3
    <2>2. CASE away(f) = least
      BY <1>4, <2>1, <2>2
    <2>3. CASE away(f) # least
      BY <2>1, <2>3
    <2> QED
      BY <2>2, <2>3
  <1>6. \E g \in pool : \A f \in pool :
            away(g) < away(f) \/ (away(g) = away(f) /\ g <= f)
    BY <1>4, <1>5
  <1> DEFINE nearest == Nearest(act, i, pool)
  <1>7. /\ nearest \in pool
        /\ \A f \in pool : away(nearest) < away(f) \/ (away(nearest) = away(f) /\ nearest <= f)
    BY <1>6 DEF Nearest
  <1>8. \A f \in pool : away(nearest) <= away(f)
    BY <1>1, <1>7
  <1> QED
    BY <1>7, <1>8

LEMMA PairTitleType ==
    ASSUME act \in Documents, NEW i \in DOMAIN act.rows, NEW taken
    PROVE  PairTitle(act, i, taken) \in Nat
  <1> DEFINE here == TitleEnds(act, act.rows[i].page) \ taken
             before == TitleEnds(act, act.rows[i].page - 1) \ taken
  <1>1. CASE here # {}
    <2>1. Nearest(act, i, here) \in here
      BY <1>1, NearestInPool
    <2> QED
      BY <1>1, <2>1, EndsAreRows DEF PairTitle
  <1>2. CASE here = {} /\ before # {}
    <2>1. Nearest(act, i, before) \in before
      BY <1>2, NearestInPool
    <2> QED
      BY <1>2, <2>1, EndsAreRows DEF PairTitle
  <1>3. CASE here = {} /\ before = {}
    BY <1>3 DEF PairTitle
  <1> QED
    BY <1>1, <1>2, <1>3

-----------------------------------------------------------------------------
(* Types. *)

\* The part of the types that is not about flags.
Typed ==
    /\ act \in Documents
    /\ step \in {"walk", "chunk", "gate", "done"}
    /\ row \in Nat
    /\ chapter \in Nat /\ chapterTitle \in Nat /\ part \in Nat
    /\ sections \in Seq(Sections)
    /\ used \subseteq Nat /\ headings \subseteq Nat /\ dropped \subseteq Nat
    /\ next \in Nat /\ line \in Nat /\ size \in Nat
    /\ group \in Seq(Nat) /\ groups \in Seq(Seq(Nat))
    /\ chunks \in Seq(Chunks)

Flags ==
    /\ expectTitle \in BOOLEAN /\ open \in BOOLEAN
    /\ open => sections # <<>>
    /\ expectTitle => chapterTitle = 0 /\ ~open

LEMMA TypesSplit == WalkTypeOK <=> Typed /\ Flags
  BY DEF WalkTypeOK, Typed, Flags

\* A section begins with the line that opened it, and its lines are rows of
\* the act.
Opened ==
    \A s \in DOMAIN sections :
        /\ sections[s].lines # <<>>
        /\ Kind(sections[s].lines[1]) = "start"
        /\ \A j \in DOMAIN sections[s].lines : sections[s].lines[j] \in DOMAIN act.rows

LEMMA WalkingTypes ==
    ASSUME Typed, Walking
    PROVE  /\ row \in DOMAIN act.rows /\ row \in Nat /\ row' = row + 1
           /\ act.rows[row] \in Rows /\ step = "walk"
           /\ act' = act /\ step' = step
           /\ next' = next /\ line' = line /\ group' = group /\ size' = size
           /\ groups' = groups /\ chunks' = chunks /\ report' = report
  BY RowType DEF Typed, Walking, splitting

LEMMA ChunkingTypes ==
    ASSUME Typed, Chunking
    PROVE  /\ next \in DOMAIN sections /\ next \in Nat /\ step = "chunk"
           /\ sections[next] \in Sections /\ sections[next].lines \in Seq(Nat)
           /\ act' = act /\ step' = step
           /\ UNCHANGED <<row, chapter, chapterTitle, part, expectTitle, open>>
           /\ UNCHANGED <<sections, used, headings, dropped>>
           /\ report' = report
  <1>1. /\ next \in DOMAIN sections /\ next \in Nat /\ step = "chunk"
        /\ act' = act /\ step' = step
        /\ UNCHANGED <<row, chapter, chapterTitle, part, expectTitle, open>>
        /\ UNCHANGED <<sections, used, headings, dropped>>
        /\ report' = report
    BY DEF Typed, Chunking, walkPosition, walkResult
  <1>2. sections[next] \in Sections
    BY <1>1 DEF Typed
  <1>3. sections[next].lines \in Seq(Nat)
    BY <1>2 DEF Sections
  <1> QED
    BY <1>1, <1>2, <1>3

LEMMA SectionType ==
    ASSUME Typed, NEW i \in DOMAIN act.rows, NEW title \in Nat
    PROVE  /\ NewSection(i, title) \in Sections
           /\ NewSection(i, title).lines = <<i>>
           /\ NewSection(i, title).number = act.rows[i].number
  <1>1. act.rows[i] \in Rows /\ i \in Nat
    BY RowType DEF Typed
  <1>2. /\ act.rows[i].number \in Numbers /\ act.rows[i].size \in Nat
        /\ act.rows[i].page \in Nat
    BY <1>1 DEF Rows
  <1>3. chapter \in Nat /\ chapterTitle \in Nat /\ part \in Nat /\ <<i>> \in Seq(Nat)
    BY <1>1 DEF Typed
  <1> QED
    BY <1>2, <1>3 DEF NewSection, Sections

LEMMA GrownSectionType ==
    ASSUME Typed, NEW i \in DOMAIN act.rows, NEW section \in Sections
    PROVE  /\ WithLine(section, i) \in Sections
           /\ WithLine(section, i).lines = Append(section.lines, i)
           /\ WithLine(section, i).number = section.number
  <1>1. act.rows[i] \in Rows /\ i \in Nat
    BY RowType DEF Typed
  <1>2. Append(section.lines, i) \in Seq(Nat)
    BY <1>1 DEF Sections
  <1>3. act.rows[i].size \in Nat /\ act.rows[i].page \in Nat
    BY <1>1 DEF Rows
  <1>4. /\ section.number \in Numbers /\ section.title \in Nat /\ section.chapter \in Nat
        /\ section.chapterTitle \in Nat /\ section.part \in Nat /\ section.size \in Nat
        /\ section.pageStart \in Nat
    BY DEF Sections
  <1>5. section.size + 1 + act.rows[i].size \in Nat
    BY <1>3, <1>4
  <1>6. WithLine(section, i) \in Sections
    BY <1>2, <1>3, <1>4, <1>5 DEF WithLine, Sections
  <1> QED
    BY <1>6 DEF WithLine

LEMMA ChunkType ==
    ASSUME sections \in Seq(Sections), NEW s \in DOMAIN sections,
           NEW lines \in Seq(Nat), NEW i \in Nat, NEW n \in Nat
    PROVE  ChunkOf(s, lines, i, n) \in Chunks
  <1>1. sections[s] \in Sections /\ s \in Nat
    OBVIOUS
  <1> QED
    BY <1>1 DEF ChunkOf, Chunks, Sections

LEMMA TypesInit == WalkInit => WalkTypeOK /\ Opened
  <1> SUFFICES ASSUME WalkInit PROVE WalkTypeOK /\ Opened
    OBVIOUS
  <1>1. /\ act \in Documents /\ step = "walk" /\ row = 1
        /\ chapter = 0 /\ chapterTitle = 0 /\ part = 0
        /\ expectTitle = FALSE /\ open = FALSE
        /\ sections = <<>> /\ used = {} /\ headings = {} /\ dropped = {}
        /\ next = 1 /\ line = 1 /\ group = <<>> /\ size = 0 /\ groups = <<>>
        /\ chunks = <<>>
    BY DEF WalkInit, WalkStart
  <1>2. Typed
    <2>1. /\ sections \in Seq(Sections) /\ chunks \in Seq(Chunks)
          /\ group \in Seq(Nat) /\ groups \in Seq(Seq(Nat))
      BY <1>1
    <2> QED
      BY <1>1, <2>1 DEF Typed
  <1>3. Flags
    BY <1>1 DEF Flags
  <1> QED
    BY <1>1, <1>2, <1>3, TypesSplit DEF Opened

\* The three ways in which a turn of the walk treats the sections.
LEMMA SectionStarted ==
    ASSUME Typed, StartSection
    PROVE  /\ sections' \in Seq(Sections) /\ used' \subseteq Nat
           /\ Len(sections') = Len(sections) + 1
           /\ \A s \in DOMAIN sections : sections'[s] = sections[s]
           /\ sections'[Len(sections')].lines = <<row>>
           /\ sections'[Len(sections')].number = act.rows[row].number
           /\ Kind(row) = "start"
  <1> DEFINE title == PairTitle(act, row, used)
             new == NewSection(row, title)
  <1>1. Walking /\ Kind(row) = "start"
    BY DEF StartSection, OpensSection
  <1>2. row \in DOMAIN act.rows
    BY <1>1, WalkingTypes
  <1>3. title \in Nat
    BY <1>2, PairTitleType DEF Typed
  <1>4. new \in Sections /\ new.lines = <<row>> /\ new.number = act.rows[row].number
    BY <1>2, <1>3, SectionType
  <1>5. sections' = Append(sections, new) /\ used' = used \cup ({title} \ {0})
    BY DEF StartSection
  <1>6. sections \in Seq(Sections) /\ used \subseteq Nat
    BY DEF Typed
  <1> HIDE DEF title, new
  <1> QED
    BY <1>1, <1>3, <1>4, <1>5, <1>6

LEMMA SectionGrown ==
    ASSUME Typed, Flags, AddLine
    PROVE  /\ sections' \in Seq(Sections)
           /\ Len(sections') = Len(sections) /\ sections # <<>>
           /\ \A s \in DOMAIN sections :
                 /\ sections'[s].number = sections[s].number
                 /\ sections'[s].lines =
                       IF s = Len(sections) THEN Append(sections[s].lines, row)
                       ELSE sections[s].lines
  <1>1. /\ Walking /\ sections # <<>> /\ sections \in Seq(Sections)
        /\ sections' = [sections EXCEPT ![Len(sections)] = WithLine(@, row)]
    BY DEF AddLine, PlainLine, Flags, Typed
  <1>2. Len(sections) \in DOMAIN sections /\ sections[Len(sections)] \in Sections
    BY <1>1
  <1> DEFINE old == sections[Len(sections)]
             new == WithLine(old, row)
  <1>3. new \in Sections /\ new.lines = Append(old.lines, row) /\ new.number = old.number
    BY <1>1, <1>2, WalkingTypes, GrownSectionType
  <1>4. sections' = [sections EXCEPT ![Len(sections)] = new]
    BY <1>1
  <1> HIDE DEF new
  <1>5. sections' \in Seq(Sections) /\ Len(sections') = Len(sections)
    BY <1>1, <1>2, <1>3, <1>4
  <1>6. ASSUME NEW s \in DOMAIN sections
        PROVE  /\ sections'[s].number = sections[s].number
               /\ sections'[s].lines =
                     IF s = Len(sections) THEN Append(sections[s].lines, row)
                     ELSE sections[s].lines
    <2>1. CASE s = Len(sections)
      <3>1. sections'[s] = new
        BY <1>4, <2>1
      <3> QED
        BY <1>3, <2>1, <3>1
    <2>2. CASE s # Len(sections)
      <3>1. sections'[s] = sections[s]
        BY <1>4, <2>2
      <3> QED
        BY <2>2, <3>1
    <2> QED
      BY <2>1, <2>2
  <1> QED
    BY <1>1, <1>5, <1>6

LEMMA WalkingKeepsTypes ==
    ASSUME Typed, Flags, SkipRow \/ TakeChapterTitle \/ TakeChapterHead \/ TakePartHead
                         \/ StartSection \/ AddLine \/ DropLine
    PROVE  Typed' /\ Flags'
  <1>1. Walking
    BY DEF SkipRow, TakeChapterTitle, TakeChapterHead, TakePartHead, StartSection,
           AddLine, DropLine, PlainLine
  <1>2. /\ row \in DOMAIN act.rows /\ row \in Nat /\ row' = row + 1
        /\ act' = act /\ step' = step
        /\ next' = next /\ line' = line /\ group' = group /\ size' = size
        /\ groups' = groups /\ chunks' = chunks
    BY <1>1, WalkingTypes
  <1>3. CASE SkipRow
    <2>1. UNCHANGED <<chapter, chapterTitle, part, expectTitle, open, sections, used,
                      headings, dropped>>
      BY <1>3 DEF SkipRow, walkResult
    <2> QED
      BY <1>2, <2>1 DEF Typed, Flags
  <1>4. CASE TakeChapterTitle
    <2>1. /\ chapterTitle' = row /\ ~expectTitle' /\ expectTitle' \in BOOLEAN
          /\ part' = 0 /\ headings' = headings \cup {row}
          /\ UNCHANGED <<chapter, open, sections, used, dropped>>
      BY <1>4 DEF TakeChapterTitle
    <2>2. Typed'
      BY <1>2, <2>1 DEF Typed
    <2>3. Flags'
      BY <2>1 DEF Flags
    <2> QED
      BY <2>2, <2>3
  <1>5. CASE TakeChapterHead
    <2>1. /\ chapter' = row /\ chapterTitle' = 0 /\ expectTitle' \in BOOLEAN
          /\ ~open' /\ open' \in BOOLEAN /\ headings' = headings \cup {row}
          /\ UNCHANGED <<part, sections, used, dropped>>
      BY <1>5 DEF TakeChapterHead
    <2>2. Typed'
      BY <1>2, <2>1 DEF Typed
    <2>3. Flags'
      BY <2>1 DEF Flags
    <2> QED
      BY <2>2, <2>3
  <1>6. CASE TakePartHead
    <2>1. /\ part' = row /\ headings' = headings \cup {row}
          /\ UNCHANGED <<chapter, chapterTitle, expectTitle, open, sections, used, dropped>>
      BY <1>6 DEF TakePartHead
    <2> QED
      BY <1>2, <2>1 DEF Typed, Flags
  <1>7. CASE StartSection
    <2>1. /\ sections' \in Seq(Sections) /\ used' \subseteq Nat
          /\ Len(sections') = Len(sections) + 1
      BY <1>7, SectionStarted
    <2>2. /\ open' \in BOOLEAN /\ ~expectTitle
          /\ UNCHANGED <<chapter, chapterTitle, part, expectTitle, headings, dropped>>
      BY <1>7 DEF StartSection
    <2>3. Typed'
      BY <1>2, <2>1, <2>2 DEF Typed
    <2>4. sections' # <<>>
      <3>1. Len(sections) \in Nat
        BY DEF Typed
      <3> QED
        BY <2>1, <3>1
    <2>5. Flags'
      BY <2>2, <2>4 DEF Flags
    <2> QED
      BY <2>3, <2>5
  <1>8. CASE AddLine
    <2>1. /\ sections' \in Seq(Sections) /\ Len(sections') = Len(sections)
          /\ sections # <<>>
      BY <1>8, SectionGrown
    <2>2. UNCHANGED <<chapter, chapterTitle, part, expectTitle, open, used, headings,
                      dropped>>
      BY <1>8 DEF AddLine
    <2>3. Typed'
      BY <1>2, <2>1, <2>2 DEF Typed
    <2>4. sections' # <<>>
      <3>1. sections \in Seq(Sections)
        BY DEF Typed
      <3> QED
        BY <2>1, <3>1
    <2>5. Flags'
      BY <2>2, <2>4 DEF Flags
    <2> QED
      BY <2>3, <2>5
  <1>9. CASE DropLine
    <2>1. /\ dropped' = dropped \cup {row}
          /\ UNCHANGED <<chapter, chapterTitle, part, expectTitle, open, sections, used,
                         headings>>
      BY <1>9 DEF DropLine
    <2> QED
      BY <1>2, <2>1 DEF Typed, Flags
  <1> QED
    BY <1>3, <1>4, <1>5, <1>6, <1>7, <1>8, <1>9

LEMMA WalkingKeepsOpened ==
    ASSUME Typed, Flags, Opened,
           SkipRow \/ TakeChapterTitle \/ TakeChapterHead \/ TakePartHead
           \/ StartSection \/ AddLine \/ DropLine
    PROVE  Opened'
  <1>1. Walking
    BY DEF SkipRow, TakeChapterTitle, TakeChapterHead, TakePartHead, StartSection,
           AddLine, DropLine, PlainLine
  <1>2. row \in DOMAIN act.rows /\ act' = act
    BY <1>1, WalkingTypes
  <1>3. sections \in Seq(Sections)
    BY DEF Typed
  <1>4. CASE sections' = sections
    BY <1>2, <1>4 DEF Opened, Kind
  <1>5. CASE StartSection
    <2>1. /\ sections' \in Seq(Sections) /\ Len(sections') = Len(sections) + 1
          /\ \A s \in DOMAIN sections : sections'[s] = sections[s]
          /\ sections'[Len(sections')].lines = <<row>> /\ Kind(row) = "start"
      BY <1>5, SectionStarted
    <2>2. ASSUME NEW s \in DOMAIN sections'
          PROVE  /\ sections'[s].lines # <<>>
                 /\ LineKind(act, sections'[s].lines[1]) = "start"
                 /\ \A j \in DOMAIN sections'[s].lines :
                       sections'[s].lines[j] \in DOMAIN act.rows
      <3>1. CASE s \in DOMAIN sections
        BY <2>1, <3>1 DEF Opened, Kind
      <3>2. CASE s = Len(sections')
        BY <1>2, <2>1, <3>2 DEF Kind
      <3> QED
        BY <1>3, <2>1, <3>1, <3>2
    <2> QED
      BY <1>2, <2>2 DEF Opened, Kind
  <1>6. CASE AddLine
    <2>1. /\ sections' \in Seq(Sections) /\ Len(sections') = Len(sections)
          /\ \A s \in DOMAIN sections :
                sections'[s].lines =
                   IF s = Len(sections) THEN Append(sections[s].lines, row)
                   ELSE sections[s].lines
      BY <1>6, SectionGrown
    <2>2. ASSUME NEW s \in DOMAIN sections'
          PROVE  /\ sections'[s].lines # <<>>
                 /\ LineKind(act, sections'[s].lines[1]) = "start"
                 /\ \A j \in DOMAIN sections'[s].lines :
                       sections'[s].lines[j] \in DOMAIN act.rows
      <3> DEFINE lines == sections[s].lines
      <3>1. s \in DOMAIN sections
        BY <1>3, <2>1
      <3>2. lines \in Seq(Nat)
        <4>1. sections[s] \in Sections
          BY <1>3, <3>1
        <4> QED
          BY <4>1 DEF Sections
      <3>3. /\ lines # <<>> /\ LineKind(act, lines[1]) = "start"
            /\ \A j \in DOMAIN lines : lines[j] \in DOMAIN act.rows
        BY <3>1 DEF Opened, Kind
      <3>4. sections'[s].lines = IF s = Len(sections) THEN Append(lines, row) ELSE lines
        BY <2>1, <3>1
      <3> HIDE DEF lines
      <3>5. row \in Nat
        BY DEF Typed
      <3>6. /\ Append(lines, row) # <<>> /\ Append(lines, row)[1] = lines[1]
            /\ \A j \in DOMAIN Append(lines, row) :
                  Append(lines, row)[j] \in DOMAIN act.rows
        BY <1>2, <3>2, <3>3, <3>5
      <3> QED
        BY <3>3, <3>4, <3>6
    <2> QED
      BY <1>2, <2>2 DEF Opened, Kind
  <1> QED
    BY <1>4, <1>5, <1>6
    DEF SkipRow, TakeChapterTitle, TakeChapterHead, TakePartHead, DropLine, walkResult

-----------------------------------------------------------------------------
(* The split of a section. *)

\* The chunks of the groups of the section that is closed.
NewChunks(all) == [g \in DOMAIN all |-> ChunkOf(next, all[g], g - 1, Len(all))]

LEMMA NewChunksType ==
    ASSUME Typed, next \in DOMAIN sections, NEW all \in Seq(Seq(Nat))
    PROVE  NewChunks(all) \in Seq(Chunks) /\ Len(NewChunks(all)) = Len(all)
  <1>1. \A g \in DOMAIN all : g - 1 \in Nat /\ all[g] \in Seq(Nat)
    OBVIOUS
  <1>2. \A g \in DOMAIN all : ChunkOf(next, all[g], g - 1, Len(all)) \in Chunks
    BY <1>1, ChunkType DEF Typed
  <1>3. DOMAIN all = 1 .. Len(all) /\ Len(all) \in Nat
    OBVIOUS
  <1> QED
    BY <1>2, <1>3 DEF NewChunks

\* The line that is read, and the two ways to take it.
LEMMA LineRead ==
    ASSUME Typed, Opened, Splitting, line \in DOMAIN sections[next].lines
    PROVE  /\ sections[next].lines[line] \in Nat
           /\ act.rows[sections[next].lines[line]].size \in Nat
  <1>1. next \in DOMAIN sections
    BY ChunkingTypes DEF Splitting
  <1>2. sections[next].lines[line] \in DOMAIN act.rows
    BY <1>1 DEF Opened
  <1> QED
    BY <1>2, RowType DEF Typed, Rows

LEMMA ChunkingKeepsTypes ==
    ASSUME Typed, Flags, Opened,
           next \in DOMAIN sections => line >= 1,
           KeepWhole \/ ExtendGroup \/ CutGroup \/ CloseSection
    PROVE  Typed' /\ Flags' /\ Opened'
  <1>1. Chunking
    BY DEF KeepWhole, ExtendGroup, CutGroup, CloseSection, Splitting
  <1>2. /\ next \in DOMAIN sections /\ next \in Nat
        /\ sections[next].lines \in Seq(Nat)
        /\ act' = act /\ step' = step
        /\ UNCHANGED <<row, chapter, chapterTitle, part, expectTitle, open>>
        /\ UNCHANGED <<sections, used, headings, dropped>>
    BY <1>1, ChunkingTypes
  <1>3. Flags' /\ Opened'
    BY <1>2 DEF Flags, Opened, Kind
  <1>4. CASE KeepWhole
    <2>1. ChunkOf(next, sections[next].lines, 0, 1) \in Chunks
      BY <1>2, ChunkType DEF Typed
    <2>2. chunks' \in Seq(Chunks)
      BY <1>4, <2>1 DEF KeepWhole, Typed
    <2>3. next' \in Nat /\ UNCHANGED <<line, group, size, groups>>
      BY <1>2, <1>4 DEF KeepWhole
    <2>4. Typed'
      BY <1>2, <2>2, <2>3 DEF Typed
    <2> QED
      BY <1>3, <2>4
  <1>5. CASE ExtendGroup
    <2> DEFINE i == sections[next].lines[line]
    <2>1. Splitting /\ line \in DOMAIN sections[next].lines
      BY <1>2, <1>5 DEF ExtendGroup, Splitting, Typed
    <2>2. i \in Nat /\ act.rows[i].size \in Nat
      BY <2>1, LineRead
    <2>3. /\ group' = Append(group, i) /\ size' = size + act.rows[i].size + 1
          /\ line' = line + 1 /\ UNCHANGED <<next, groups, chunks>>
      BY <1>5 DEF ExtendGroup
    <2> HIDE DEF i
    <2>4. group' \in Seq(Nat) /\ size' \in Nat /\ line' \in Nat
      BY SMTT(60), <2>2, <2>3 DEF Typed
    <2>5. Typed'
      BY <1>2, <2>3, <2>4 DEF Typed
    <2> QED
      BY <1>3, <2>5
  <1>6. CASE CutGroup
    <2> DEFINE i == sections[next].lines[line]
    <2>1. Splitting /\ line \in DOMAIN sections[next].lines
      BY <1>2, <1>6 DEF CutGroup, Splitting, Typed
    <2>2. i \in Nat /\ act.rows[i].size \in Nat
      BY <2>1, LineRead
    <2>3. /\ group' = <<i>> /\ size' = act.rows[i].size + 1
          /\ groups' = Append(groups, group)
          /\ line' = line + 1 /\ UNCHANGED <<next, chunks>>
      BY <1>6 DEF CutGroup
    <2> HIDE DEF i
    <2>4. group' \in Seq(Nat) /\ size' \in Nat /\ line' \in Nat
      BY <2>2, <2>3 DEF Typed
    <2>5. groups' \in Seq(Seq(Nat))
      BY <2>3 DEF Typed
    <2>6. Typed'
      BY <1>2, <2>3, <2>4, <2>5 DEF Typed
    <2> QED
      BY <1>3, <2>6
  <1>7. CASE CloseSection
    <2> DEFINE all == Append(groups, group)
    <2>1. all \in Seq(Seq(Nat))
      BY DEF Typed
    <2>2. chunks' = chunks \o NewChunks(all)
      BY <1>7 DEF CloseSection, NewChunks
    <2>3. NewChunks(all) \in Seq(Chunks)
      BY <1>2, <2>1, NewChunksType
    <2> HIDE DEF all
    <2>4. chunks' \in Seq(Chunks)
      BY <2>2, <2>3 DEF Typed
    <2>5. /\ next' \in Nat /\ line' = 1 /\ group' = <<>> /\ size' = 0 /\ groups' = <<>>
      BY <1>2, <1>7 DEF CloseSection
    <2>6. group' \in Seq(Nat) /\ groups' \in Seq(Seq(Nat))
      BY <2>5
    <2>7. Typed'
      BY <1>2, <2>4, <2>5, <2>6 DEF Typed
    <2> QED
      BY <1>3, <2>7
  <1> QED
    BY <1>4, <1>5, <1>6, <1>7

-----------------------------------------------------------------------------
(* Groups and chunks are stretches of the lines of a section. *)

\* g is lines b+1, b+2, ... of section s.
At(s, g, b) ==
    \A j \in DOMAIN g : /\ b + j \in DOMAIN sections[s].lines
                        /\ g[j] = sections[s].lines[b + j]

\* g is a stretch of the first last lines, and begins no text in the middle.
Stretch(s, g, last) ==
    /\ g # <<>> /\ Kind(g[1]) # "apparatus"
    /\ \E b \in Nat : b + Len(g) <= last /\ At(s, g, b)

\* Nothing is split before the walk is over, and between two sections.
Unsplit ==
    /\ step = "walk" => next = 1 /\ chunks = <<>>
    /\ step = "walk" \/ next \notin DOMAIN sections \/ sections[next].size <= MaxChars
          => line = 1
    /\ line = 1 => group = <<>> /\ groups = <<>>
    /\ line >= 1
    /\ next >= 1

\* The open group ends at the line before the one that is read.
OpenGroup ==
    line > 1 =>
        /\ line <= Len(sections[next].lines) + 1
        /\ group # <<>> /\ Len(group) < line
        /\ Kind(group[1]) # "apparatus"
        /\ At(next, group, line - 1 - Len(group))

\* The closed groups are before it.
ClosedGroups ==
    line > 1 =>
        \A k \in DOMAIN groups : Stretch(next, groups[k], line - 1 - Len(group))

Chunked ==
    \A c \in DOMAIN chunks :
        /\ chunks[c].section \in DOMAIN sections
        /\ chunks[c].section < next
        /\ Stretch(chunks[c].section, chunks[c].lines,
                   Len(sections[chunks[c].section].lines))

WalkInv ==
    /\ Typed /\ Flags /\ Opened
    /\ Unsplit /\ OpenGroup /\ ClosedGroups /\ Chunked

\* What a stretch is does not depend on how far it may reach.
LEMMA StretchFurther ==
    ASSUME NEW s, NEW g \in Seq(Nat), NEW a \in Int, NEW b \in Int, a <= b,
           Stretch(s, g, a)
    PROVE  Stretch(s, g, b)
  <1>1. PICK d \in Nat : d + Len(g) <= a /\ At(s, g, d)
    BY DEF Stretch
  <1>2. d + Len(g) <= b
    BY <1>1
  <1> QED
    BY <1>1, <1>2 DEF Stretch

\* Where the splitter stands when it reads a line.
LEMMA Standing ==
    ASSUME WalkInv, Splitting
    PROVE  /\ next \in DOMAIN sections /\ line \in DOMAIN sections[next].lines
           /\ sections[next].lines \in Seq(Nat) /\ sections[next].lines # <<>>
           /\ Kind(sections[next].lines[1]) = "start"
           /\ line \in Nat /\ line >= 1
           /\ act' = act /\ step' = step /\ sections' = sections /\ step = "chunk"
           /\ line = 1 => group = <<>> /\ groups = <<>>
  <1>1. /\ next \in DOMAIN sections /\ sections[next].lines \in Seq(Nat)
        /\ act' = act /\ step' = step /\ sections' = sections /\ step = "chunk"
    BY ChunkingTypes DEF WalkInv, Splitting
  <1>2. line \in Nat /\ line >= 1 /\ line <= Len(sections[next].lines)
    BY DEF WalkInv, Unsplit, Typed, Splitting
  <1> QED
    BY <1>1, <1>2 DEF WalkInv, Unsplit, Opened

LEMMA ExtendKeepsGroups ==
    ASSUME WalkInv, ExtendGroup
    PROVE  OpenGroup' /\ ClosedGroups'
  <1> DEFINE lines == sections[next].lines
             i == lines[line]
  <1>1. Splitting
    BY DEF ExtendGroup
  <1>2. /\ line \in DOMAIN lines /\ lines \in Seq(Nat) /\ line \in Nat /\ line >= 1
        /\ Kind(lines[1]) = "start" /\ act' = act /\ sections' = sections
        /\ line = 1 => group = <<>> /\ groups = <<>>
    BY <1>1, Standing
  <1>3. group' = Append(group, i) /\ line' = line + 1 /\ next' = next /\ groups' = groups
    BY DEF ExtendGroup
  <1>4. group \in Seq(Nat) /\ groups \in Seq(Seq(Nat)) /\ i \in Nat
    BY SMTT(60), <1>2 DEF WalkInv, Typed
  <1>5. /\ line > 1 => /\ group # <<>> /\ Len(group) < line
                       /\ Kind(group[1]) # "apparatus"
                       /\ \A j \in DOMAIN group :
                             /\ line - 1 - Len(group) + j \in DOMAIN lines
                             /\ group[j] = lines[line - 1 - Len(group) + j]
    BY DEF WalkInv, OpenGroup, At
  <1>6. /\ group' # <<>> /\ Len(group') < line' /\ line' <= Len(lines) + 1 /\ line' > 1
        /\ line' - 1 - Len(group') = line - 1 - Len(group)
        /\ LineKind(act, group'[1]) # "apparatus"
    <2>1. CASE line = 1
      <3>1. group' = <<i>> /\ i = lines[1] /\ group = <<>>
        BY <1>2, <1>3, <2>1
      <3> HIDE DEF i, lines
      <3> QED
        BY <1>2, <1>3, <1>4, <2>1, <3>1 DEF Kind
    <2>2. CASE line > 1
      <3> HIDE DEF i
      <3>1. group'[1] = group[1]
        BY <1>3, <1>4, <1>5, <2>2
      <3>2. LineKind(act, group'[1]) # "apparatus"
        BY <1>5, <2>2, <3>1 DEF Kind
      <3>3. Len(lines) \in Nat /\ line <= Len(lines)
        BY <1>2
      <3> HIDE DEF lines
      <3>4. group' # <<>> /\ Len(group') = Len(group) + 1
        BY <1>3, <1>4
      <3>5. Len(group) \in Nat /\ Len(group) < line
        BY <1>4, <1>5, <2>2
      <3>6. line \in Nat /\ line' = line + 1
        BY <1>2, <1>3
      <3>7. /\ Len(group') < line' /\ line' <= Len(lines) + 1 /\ line' > 1
            /\ line' - 1 - Len(group') = line - 1 - Len(group)
        BY <2>2, <3>3, <3>4, <3>5, <3>6
      <3> QED
        BY <3>2, <3>4, <3>7
    <2> QED
      BY <1>2, <2>1, <2>2
  <1>7. ASSUME NEW j \in DOMAIN group'
        PROVE  /\ line - 1 - Len(group) + j \in DOMAIN lines
               /\ group'[j] = lines[line - 1 - Len(group) + j]
    <2>1. CASE j \in DOMAIN group
      <3>1. line > 1
        BY <1>2, <2>1
      <3>2. group'[j] = group[j]
        BY <1>3, <1>4, <2>1
      <3> QED
        BY <1>5, <2>1, <3>1, <3>2
    <2>2. CASE j = Len(group) + 1
      <3>1. group'[j] = i /\ line - 1 - Len(group) + j = line
        BY <1>2, <1>3, <1>4, <2>2
      <3> QED
        BY <1>2, <3>1
    <2> QED
      BY <1>3, <1>4, <2>1, <2>2
  <1>8. OpenGroup'
    BY <1>2, <1>3, <1>6, <1>7 DEF OpenGroup, At, Kind
  <1>9. ClosedGroups'
    <2>1. ASSUME NEW k \in DOMAIN groups PROVE Stretch(next, groups[k], line - 1 - Len(group))
      <3>1. line > 1
        BY <1>2
      <3> QED
        BY <3>1 DEF WalkInv, ClosedGroups
    <2> QED
      BY <1>2, <1>3, <1>6, <2>1 DEF ClosedGroups, Stretch, At, Kind
  <1> QED
    BY <1>8, <1>9

LEMMA CutKeepsGroups ==
    ASSUME WalkInv, CutGroup
    PROVE  OpenGroup' /\ ClosedGroups'
  <1> DEFINE lines == sections[next].lines
             i == lines[line]
  <1>1. Splitting /\ CutsBefore(i)
    BY DEF CutGroup
  <1>2. /\ line \in DOMAIN lines /\ lines \in Seq(Nat) /\ line \in Nat
        /\ act' = act /\ sections' = sections
        /\ line = 1 => group = <<>> /\ groups = <<>>
    BY <1>1, Standing
  <1>3. group' = <<i>> /\ line' = line + 1 /\ next' = next /\ groups' = Append(groups, group)
    BY DEF CutGroup
  <1>4. group \in Seq(Nat) /\ groups \in Seq(Seq(Nat)) /\ line > 1
    BY <1>1, <1>2 DEF WalkInv, Typed, Unsplit, CutsBefore
  <1>5. /\ group # <<>> /\ Len(group) < line /\ Kind(group[1]) # "apparatus"
        /\ At(next, group, line - 1 - Len(group))
    BY <1>4 DEF WalkInv, OpenGroup
  <1>6. OpenGroup'
    <2>1. LineKind(act, i) # "apparatus"
      BY <1>1 DEF CutsBefore, Kind
    <2>2. group'[1] = i /\ Len(group') = 1 /\ group' # <<>> /\ DOMAIN group' = {1}
      <3> HIDE DEF i
      <3> QED
        BY <1>3
    <2>3. line' - 1 - Len(group') + 1 = line /\ line' <= Len(lines) + 1 /\ Len(group') < line'
      BY <1>2, <1>3, <1>4, <2>2
    <2> QED
      BY <1>2, <1>3, <2>1, <2>2, <2>3 DEF OpenGroup, At, Kind
  <1>7. ASSUME NEW k \in DOMAIN groups'
        PROVE  Stretch(next, groups'[k], line - 1)
    <2>1. CASE k \in DOMAIN groups
      <3>1. groups'[k] = groups[k] /\ groups[k] \in Seq(Nat)
        BY <1>3, <1>4, <2>1
      <3>2. Stretch(next, groups[k], line - 1 - Len(group))
        BY <1>4, <2>1 DEF WalkInv, ClosedGroups
      <3>3. Len(group) \in Nat
        BY <1>4
      <3> QED
        BY <1>2, <3>1, <3>2, <3>3, StretchFurther
    <2>2. CASE k = Len(groups) + 1
      <3>1. groups'[k] = group
        BY <1>3, <1>4, <2>2
      <3>2. line - 1 - Len(group) \in Nat /\ line - 1 - Len(group) + Len(group) <= line - 1
        BY <1>2, <1>4, <1>5
      <3> QED
        BY <1>5, <3>1, <3>2 DEF Stretch
    <2> QED
      BY <1>3, <1>4, <2>1, <2>2
  <1>8. ClosedGroups'
    <2>1. line' - 1 - Len(group') = line - 1
      <3>1. Len(group') = 1
        <4> HIDE DEF i
        <4> QED
          BY <1>3
      <3> QED
        BY <1>2, <1>3, <3>1
    <2> QED
      BY <1>2, <1>3, <1>7, <2>1 DEF ClosedGroups, Stretch, At, Kind
  <1> QED
    BY <1>6, <1>8

\* When a section is closed each of its groups is a stretch of it.
LEMMA ClosedStretches ==
    ASSUME WalkInv, CloseSection
    PROVE  /\ next \in DOMAIN sections /\ line > 1
           /\ Append(groups, group) \in Seq(Seq(Nat))
           /\ \A k \in DOMAIN Append(groups, group) :
                 Stretch(next, Append(groups, group)[k], Len(sections[next].lines))
  <1> DEFINE lines == sections[next].lines
             all == Append(groups, group)
  <1>1. next \in DOMAIN sections /\ lines \in Seq(Nat)
    BY ChunkingTypes DEF CloseSection, WalkInv
  <1>2. lines # <<>> /\ line \in Nat /\ line > Len(lines) /\ Len(lines) \in Nat
    BY <1>1 DEF WalkInv, Opened, CloseSection, Typed
  <1>3. line > 1
    BY <1>1, <1>2
  <1>4. /\ group \in Seq(Nat) /\ groups \in Seq(Seq(Nat)) /\ all \in Seq(Seq(Nat))
    BY DEF WalkInv, Typed
  <1>5. /\ line <= Len(lines) + 1 /\ group # <<>> /\ Len(group) < line
        /\ Kind(group[1]) # "apparatus" /\ At(next, group, line - 1 - Len(group))
    BY <1>3 DEF WalkInv, OpenGroup
  <1>6. ASSUME NEW k \in DOMAIN all
        PROVE  Stretch(next, all[k], Len(lines))
    <2>1. CASE k \in DOMAIN groups
      <3>1. all[k] = groups[k] /\ groups[k] \in Seq(Nat)
        BY <1>4, <2>1
      <3>2. Stretch(next, groups[k], line - 1 - Len(group))
        BY <1>3, <2>1 DEF WalkInv, ClosedGroups
      <3>3. Len(group) \in Nat
        BY <1>4
      <3>4. line - 1 - Len(group) <= Len(lines)
        BY <1>2, <1>5, <3>3
      <3> QED
        BY <1>2, <3>1, <3>2, <3>3, <3>4, StretchFurther
    <2>2. CASE k = Len(groups) + 1
      <3>1. all[k] = group
        BY <1>4, <2>2
      <3>2. line - 1 - Len(group) \in Nat /\ line - 1 - Len(group) + Len(group) <= Len(lines)
        BY <1>2, <1>4, <1>5
      <3> QED
        BY <1>5, <3>1, <3>2 DEF Stretch
    <2> QED
      BY <1>4, <2>1, <2>2
  <1> QED
    BY <1>1, <1>3, <1>4, <1>6

LEMMA ClosedGroupsAreChunks ==
    ASSUME WalkInv, CloseSection
    PROVE  Chunked'
  <1> DEFINE all == Append(groups, group)
             new == NewChunks(all)
             Fine(c) == /\ c.section \in DOMAIN sections /\ c.section < next + 1
                        /\ Stretch(c.section, c.lines, Len(sections[c.section].lines))
  <1>1. /\ next \in DOMAIN sections /\ next \in Nat /\ sections' = sections /\ act' = act
        /\ next' = next + 1
    BY ChunkingTypes DEF CloseSection, WalkInv
  <1>2. chunks' = chunks \o new
    BY DEF CloseSection, NewChunks
  <1>3. all \in Seq(Seq(Nat)) /\ chunks \in Seq(Chunks)
    BY ClosedStretches DEF WalkInv, Typed
  <1>4. new \in Seq(Chunks) /\ Len(new) = Len(all)
    BY <1>1, <1>3, NewChunksType DEF WalkInv
  <1>5. ASSUME NEW c \in DOMAIN chunks PROVE Fine(chunks[c])
    <2>1. /\ chunks[c].section \in DOMAIN sections /\ chunks[c].section < next
          /\ Stretch(chunks[c].section, chunks[c].lines,
                     Len(sections[chunks[c].section].lines))
      BY DEF WalkInv, Chunked
    <2>2. chunks[c].section \in Nat
      BY <2>1 DEF WalkInv, Typed
    <2> QED
      BY <1>1, <2>1, <2>2
  <1>6. ASSUME NEW g \in DOMAIN new PROVE Fine(new[g])
    <2>1. g \in DOMAIN all
      BY DEF NewChunks
    <2>2. new[g].section = next /\ new[g].lines = all[g]
      BY <2>1 DEF NewChunks, ChunkOf
    <2> HIDE DEF new
    <2> QED
      BY <1>1, <2>1, <2>2, ClosedStretches
  <1> HIDE DEF all, new, Fine
  <1>7. ASSUME NEW c \in DOMAIN chunks' PROVE Fine(chunks'[c])
    <2>1. CASE c \in DOMAIN chunks
      BY <1>2, <1>3, <1>4, <1>5, <2>1
    <2>2. CASE c \notin DOMAIN chunks
      <3>1. c - Len(chunks) \in DOMAIN new /\ chunks'[c] = new[c - Len(chunks)]
        BY <1>2, <1>3, <1>4, <2>2
      <3> QED
        BY <1>6, <3>1
    <2> QED
      BY <2>1, <2>2
  <1> QED
    BY <1>1, <1>7 DEF Fine, Chunked, Stretch, At, Kind

LEMMA WholeSectionIsChunk ==
    ASSUME WalkInv, KeepWhole
    PROVE  Chunked'
  <1> DEFINE lines == sections[next].lines
             new == ChunkOf(next, lines, 0, 1)
  <1>1. /\ next \in DOMAIN sections /\ next \in Nat /\ sections' = sections /\ act' = act
        /\ next' = next + 1 /\ lines \in Seq(Nat)
    BY ChunkingTypes DEF KeepWhole, WalkInv
  <1>2. chunks' = Append(chunks, new) /\ chunks \in Seq(Chunks)
    BY DEF KeepWhole, WalkInv, Typed
  <1>3. new.section = next /\ new.lines = lines
    BY DEF ChunkOf
  <1>4. Stretch(next, lines, Len(lines))
    <2>1. lines # <<>> /\ Kind(lines[1]) = "start"
      BY <1>1 DEF WalkInv, Opened
    <2>2. At(next, lines, 0)
      BY <1>1 DEF At
    <2>3. 0 \in Nat /\ 0 + Len(lines) <= Len(lines)
      BY <1>1
    <2> QED
      BY <2>1, <2>2, <2>3 DEF Stretch
  <1>5. ASSUME NEW c \in DOMAIN chunks'
        PROVE  /\ chunks'[c].section \in DOMAIN sections /\ chunks'[c].section < next + 1
               /\ Stretch(chunks'[c].section, chunks'[c].lines,
                          Len(sections[chunks'[c].section].lines))
    <2> HIDE DEF new
    <2>1. CASE c \in DOMAIN chunks
      <3>1. chunks'[c] = chunks[c]
        BY <1>2, <2>1
      <3>2. /\ chunks[c].section \in DOMAIN sections /\ chunks[c].section < next
            /\ Stretch(chunks[c].section, chunks[c].lines,
                       Len(sections[chunks[c].section].lines))
        BY <2>1 DEF WalkInv, Chunked
      <3>3. chunks[c].section \in Nat
        BY <3>2 DEF WalkInv, Typed
      <3> QED
        BY <1>1, <3>1, <3>2, <3>3
    <2>2. CASE c = Len(chunks) + 1
      <3>1. chunks'[c] = new
        BY <1>2, <2>2
      <3> QED
        BY <1>1, <1>3, <1>4, <3>1
    <2> QED
      BY <1>2, <2>1, <2>2
  <1> HIDE DEF lines
  <1> QED
    BY <1>1, <1>5 DEF Chunked, Stretch, At, Kind

LEMMA ChunkingKeepsSplit ==
    ASSUME WalkInv, KeepWhole \/ ExtendGroup \/ CutGroup \/ CloseSection
    PROVE  Unsplit' /\ OpenGroup' /\ ClosedGroups' /\ Chunked'
  <1>1. Chunking
    BY DEF KeepWhole, ExtendGroup, CutGroup, CloseSection, Splitting
  <1>2. /\ next \in DOMAIN sections /\ next \in Nat /\ step = "chunk" /\ step' = step
        /\ sections' = sections /\ act' = act
    BY <1>1, ChunkingTypes DEF WalkInv
  <1>3. line \in Nat /\ line >= 1 /\ next >= 1 /\ (line = 1 => group = <<>> /\ groups = <<>>)
    BY DEF WalkInv, Typed, Unsplit
  <1>4. CASE KeepWhole
    <2>1. sections[next].size <= MaxChars /\ next' = next + 1
          /\ UNCHANGED <<line, group, groups>>
      BY <1>4 DEF KeepWhole
    <2>2. line = 1
      BY <2>1 DEF WalkInv, Unsplit
    <2>3. Unsplit'
      BY <1>2, <1>3, <2>1, <2>2 DEF Unsplit
    <2> QED
      BY <1>4, <2>1, <2>2, <2>3, WholeSectionIsChunk DEF OpenGroup, ClosedGroups
  <1>5. CASE ExtendGroup \/ CutGroup
    <2>1. /\ line' = line + 1 /\ next' = next /\ chunks' = chunks
          /\ sections[next].size > MaxChars
      BY <1>5 DEF ExtendGroup, CutGroup, Splitting
    <2>2. sections[next].size \in Nat
      <3>1. sections[next] \in Sections
        BY <1>2 DEF WalkInv, Typed
      <3> QED
        BY <3>1 DEF Sections
    <2>3. Unsplit'
      BY <1>2, <1>3, <2>1, <2>2, WalkAssumption DEF Unsplit
    <2>4. Chunked'
      BY <1>2, <2>1 DEF WalkInv, Chunked, Stretch, At, Kind
    <2> QED
      BY <1>5, <2>3, <2>4, ExtendKeepsGroups, CutKeepsGroups
  <1>6. CASE CloseSection
    <2>1. line' = 1 /\ group' = <<>> /\ groups' = <<>> /\ next' = next + 1
      BY <1>6 DEF CloseSection
    <2>2. Unsplit' /\ OpenGroup' /\ ClosedGroups'
      BY <1>2, <1>3, <2>1 DEF Unsplit, OpenGroup, ClosedGroups
    <2> QED
      BY <1>6, <2>2, ClosedGroupsAreChunks
  <1> QED
    BY <1>4, <1>5, <1>6

LEMMA WalkingKeepsSplit ==
    ASSUME WalkInv, Walking
    PROVE  Unsplit' /\ OpenGroup' /\ ClosedGroups' /\ Chunked'
  <1>1. /\ step = "walk" /\ step' = step /\ next' = next /\ line' = line /\ group' = group
        /\ groups' = groups /\ chunks' = chunks
    BY WalkingTypes DEF WalkInv
  <1>2. next = 1 /\ line = 1 /\ group = <<>> /\ groups = <<>> /\ chunks = <<>>
    BY <1>1 DEF WalkInv, Unsplit
  <1> QED
    BY <1>1, <1>2 DEF Unsplit, OpenGroup, ClosedGroups, Chunked

\* Between the loops only the step and the report change.
LEMMA TurningKeepsInv ==
    ASSUME WalkInv, EndWalk \/ EndChunk \/ Gate \/ UNCHANGED walkVars
    PROVE  WalkInv'
  <1>1. /\ UNCHANGED <<act, row, chapter, chapterTitle, part, expectTitle, open>>
        /\ UNCHANGED <<sections, used, headings, dropped, next, line, group, size, groups>>
        /\ chunks' = chunks
        /\ step' = step \/ (step' = "chunk" /\ step = "walk")
           \/ (step' = "gate" /\ step = "chunk") \/ step' = "done"
    BY DEF EndWalk, EndChunk, Gate, walkVars, walkPosition, walkResult, splitting
  <1>2. Typed' /\ Flags' /\ Opened'
    BY <1>1 DEF WalkInv, Typed, Flags, Opened, Kind
  <1>3. Unsplit'
    BY <1>1 DEF WalkInv, Unsplit
  <1>4. OpenGroup' /\ ClosedGroups' /\ Chunked'
    BY <1>1 DEF WalkInv, OpenGroup, ClosedGroups, Chunked, Stretch, At, Kind
  <1> QED
    BY <1>2, <1>3, <1>4 DEF WalkInv

LEMMA WalkInvInit == WalkInit => WalkInv
  <1> SUFFICES ASSUME WalkInit PROVE WalkInv
    OBVIOUS
  <1>1. Typed /\ Flags /\ Opened
    BY TypesInit, TypesSplit
  <1>2. next = 1 /\ line = 1 /\ group = <<>> /\ groups = <<>> /\ chunks = <<>>
    BY DEF WalkInit, WalkStart
  <1>3. Unsplit /\ OpenGroup /\ ClosedGroups /\ Chunked
    BY <1>2 DEF Unsplit, OpenGroup, ClosedGroups, Chunked
  <1> QED
    BY <1>1, <1>3 DEF WalkInv

LEMMA WalkInvNext == WalkInv /\ [WalkNext]_walkVars => WalkInv'
  <1> SUFFICES ASSUME WalkInv, [WalkNext]_walkVars PROVE WalkInv'
    OBVIOUS
  <1>1. CASE \/ SkipRow \/ TakeChapterTitle \/ TakeChapterHead \/ TakePartHead
             \/ StartSection \/ AddLine \/ DropLine
    <2>1. Walking
      BY <1>1 DEF SkipRow, TakeChapterTitle, TakeChapterHead, TakePartHead,
         StartSection, AddLine, DropLine, PlainLine
    <2>2. Typed' /\ Flags' /\ Opened'
      BY <1>1, WalkingKeepsTypes, WalkingKeepsOpened DEF WalkInv
    <2> QED
      BY <2>1, <2>2, WalkingKeepsSplit DEF WalkInv
  <1>2. CASE KeepWhole \/ ExtendGroup \/ CutGroup \/ CloseSection
    <2>1. Typed' /\ Flags' /\ Opened'
      BY <1>2, ChunkingKeepsTypes DEF WalkInv, Unsplit
    <2> QED
      BY <1>2, <2>1, ChunkingKeepsSplit DEF WalkInv
  <1>3. CASE EndWalk \/ EndChunk \/ Gate \/ UNCHANGED walkVars
    BY <1>3, TurningKeepsInv
  <1> QED
    BY <1>1, <1>2, <1>3 DEF WalkNext

\* The walk keeps its types, in every act: the branch for a second line of a
\* chapter title never runs.
THEOREM WalkTypes == WalkSpec => []WalkTypeOK
  <1>1. WalkInv => WalkTypeOK
    BY TypesSplit DEF WalkInv
  <1> QED
    BY <1>1, WalkInvInit, WalkInvNext, PTL DEF WalkSpec

LEMMA StretchesTravel == WalkInv => ApparatusTravels
  <1> SUFFICES ASSUME WalkInv, NEW c \in DOMAIN chunks, NEW j \in DOMAIN chunks[c].lines,
                      Kind(chunks[c].lines[j]) = "apparatus"
               PROVE  LET lines == sections[chunks[c].section].lines
                      IN  /\ j > 1
                          /\ \E m \in DOMAIN lines :
                                /\ m > 1 /\ lines[m] = chunks[c].lines[j]
                                /\ lines[m - 1] = chunks[c].lines[j - 1]
    BY DEF ApparatusTravels
  <1> DEFINE g == chunks[c].lines
             lines == sections[chunks[c].section].lines
  <1>1. g \in Seq(Nat)
    <2>1. chunks[c] \in Chunks
      BY DEF WalkInv, Typed
    <2> QED
      BY <2>1 DEF Chunks
  <1>2. Kind(g[1]) # "apparatus"
    BY DEF WalkInv, Chunked, Stretch
  <1>3. PICK b \in Nat : \A k \in DOMAIN g : b + k \in DOMAIN lines /\ g[k] = lines[b + k]
    BY DEF WalkInv, Chunked, Stretch, At
  <1>4. j \in Nat /\ j > 1 /\ j - 1 \in DOMAIN g
    BY <1>1, <1>2
  <1>5. /\ b + j \in DOMAIN lines /\ lines[b + j] = g[j]
        /\ lines[b + (j - 1)] = g[j - 1]
    BY <1>3, <1>4
  <1>6. b + j > 1 /\ b + j - 1 = b + (j - 1)
    BY <1>4
  <1> QED
    BY <1>4, <1>5, <1>6

\* A proviso is in the chunk of the line above it, however long the sections
\* are and wherever they are cut.
THEOREM ProvisosTravel == WalkSpec => []ApparatusTravels
  BY StretchesTravel, WalkInvInit, WalkInvNext, PTL DEF WalkSpec

-----------------------------------------------------------------------------
(* Where the walk has put the lines it has read. *)

\* What is behind the walk.
Behind ==
    /\ \A h \in headings : h < row
    /\ \A s \in DOMAIN sections : \A j \in DOMAIN sections[s].lines :
          sections[s].lines[j] < row

Accounted ==
    \A i \in DOMAIN act.rows : i < row /\ IsLine(act, i) =>
        \/ i \in headings
        \/ i \in dropped /\ NoSectionOpen(i)
        \/ \E s \in DOMAIN sections : i \in LinesOf(sections[s])

\* When no section is open a chapter has begun after the last one.
Closed ==
    ~open => \A s \in DOMAIN sections :
                \E h \in headings : sections[s].lines[1] < h /\ Kind(h) = "chapter"

\* No line is in two sections or twice in one.
Once ==
    \A s, t \in DOMAIN sections :
        \A j \in DOMAIN sections[s].lines, k \in DOMAIN sections[t].lines :
            sections[s].lines[j] = sections[t].lines[k] => s = t /\ j = k

WalkedOver == step # "walk" => row > Len(act.rows)

PlaceInv == WalkInv /\ Behind /\ Accounted /\ Closed /\ Once /\ WalkedOver

\* A turn of the walk puts its row in one place at most, at the end of the
\* sections.
LEMMA SectionsGrow ==
    ASSUME Typed, Flags, Opened,
           \/ SkipRow \/ TakeChapterTitle \/ TakeChapterHead \/ TakePartHead
           \/ StartSection \/ AddLine \/ DropLine
    PROVE  /\ \A s \in DOMAIN sections :
                 /\ s \in DOMAIN sections'
                 /\ sections'[s].lines[1] = sections[s].lines[1]
                 /\ LinesOf(sections[s]) \subseteq LinesOf(sections'[s])
           /\ \A s \in DOMAIN sections' :
                 s \notin DOMAIN sections => sections'[s].lines[1] = row
           /\ \E t, k : \A s \in DOMAIN sections' : \A j \in DOMAIN sections'[s].lines :
                 \/ /\ s \in DOMAIN sections /\ j \in DOMAIN sections[s].lines
                    /\ sections'[s].lines[j] = sections[s].lines[j]
                 \/ sections'[s].lines[j] = row /\ s = t /\ j = k
           /\ StartSection \/ AddLine =>
                 \E s \in DOMAIN sections' : row \in LinesOf(sections'[s])
  <1>1. sections \in Seq(Sections) /\ row \in Nat
    BY DEF Typed
  <1>2. CASE ~StartSection /\ ~AddLine
    <2>1. sections' = sections
      BY <1>2 DEF SkipRow, TakeChapterTitle, TakeChapterHead, TakePartHead, DropLine,
         walkResult
    <2> QED
      BY <1>2, <2>1
  <1>3. CASE StartSection
    <2>1. /\ sections' \in Seq(Sections) /\ Len(sections') = Len(sections) + 1
          /\ \A s \in DOMAIN sections : sections'[s] = sections[s]
          /\ sections'[Len(sections')].lines = <<row>>
      BY <1>3, SectionStarted
    <2>2. /\ \A s \in DOMAIN sections : s \in DOMAIN sections'
          /\ \A s \in DOMAIN sections' : s \notin DOMAIN sections => s = Len(sections')
          /\ Len(sections') \in DOMAIN sections'
      BY <1>1, <2>1
    <2>3. \A s \in DOMAIN sections' : \A j \in DOMAIN sections'[s].lines :
             \/ /\ s \in DOMAIN sections /\ j \in DOMAIN sections[s].lines
                /\ sections'[s].lines[j] = sections[s].lines[j]
             \/ sections'[s].lines[j] = row /\ s = Len(sections') /\ j = 1
      BY <2>1, <2>2
    <2>4. row \in LinesOf(sections'[Len(sections')])
      BY <2>1 DEF LinesOf
    <2>5. /\ \A s \in DOMAIN sections :
                /\ s \in DOMAIN sections'
                /\ sections'[s].lines[1] = sections[s].lines[1]
                /\ LinesOf(sections[s]) \subseteq LinesOf(sections'[s])
          /\ \A s \in DOMAIN sections' :
                s \notin DOMAIN sections => sections'[s].lines[1] = row
      BY <2>1, <2>2
    <2> QED
      BY SMTT(60), <2>2, <2>3, <2>4, <2>5
  <1>4. CASE AddLine
    <2> DEFINE n == Len(sections)
               old == sections[n].lines
    <2>1. /\ sections' \in Seq(Sections) /\ Len(sections') = n /\ sections # <<>>
          /\ \A s \in DOMAIN sections :
                sections'[s].lines =
                   IF s = n THEN Append(sections[s].lines, row) ELSE sections[s].lines
      BY <1>4, SectionGrown
    <2>2. n \in DOMAIN sections /\ DOMAIN sections' = DOMAIN sections
      BY <1>1, <2>1
    <2>3. old \in Seq(Nat) /\ old # <<>>
      <3>1. sections[n] \in Sections
        BY <1>1, <2>2
      <3> QED
        BY <2>2, <3>1 DEF Sections, Opened
    <2>4. sections'[n].lines = Append(old, row)
      BY <2>1, <2>2
    <2> HIDE DEF old
    <2>5. /\ Append(old, row)[1] = old[1]
          /\ \A j \in DOMAIN old : j \in DOMAIN Append(old, row) /\ Append(old, row)[j] = old[j]
          /\ \A j \in DOMAIN Append(old, row) :
                j \in DOMAIN old \/ (j = Len(old) + 1 /\ Append(old, row)[j] = row)
          /\ Len(old) + 1 \in DOMAIN Append(old, row)
          /\ Append(old, row)[Len(old) + 1] = row
      BY <1>1, <2>3
    <2>6. ASSUME NEW s \in DOMAIN sections
          PROVE  /\ s \in DOMAIN sections'
                 /\ sections'[s].lines[1] = sections[s].lines[1]
                 /\ LinesOf(sections[s]) \subseteq LinesOf(sections'[s])
      <3>1. CASE s = n
        BY <2>2, <2>4, <2>5, <3>1 DEF LinesOf, old
      <3>2. CASE s # n
        BY <2>1, <2>2, <3>2 DEF LinesOf
      <3> QED
        BY <3>1, <3>2
    <2>7. ASSUME NEW s \in DOMAIN sections', NEW j \in DOMAIN sections'[s].lines
          PROVE  \/ /\ s \in DOMAIN sections /\ j \in DOMAIN sections[s].lines
                    /\ sections'[s].lines[j] = sections[s].lines[j]
                 \/ sections'[s].lines[j] = row /\ s = n /\ j = Len(old) + 1
      <3>1. CASE s = n
        BY <2>2, <2>4, <2>5, <3>1 DEF old
      <3>2. CASE s # n
        BY <2>1, <2>2, <3>2
      <3> QED
        BY <3>1, <3>2
    <2>8. row \in LinesOf(sections'[n])
      BY <2>4, <2>5 DEF LinesOf
    <2> DEFINE end == Len(old) + 1
    <2>9. \A s \in DOMAIN sections' : \A j \in DOMAIN sections'[s].lines :
             \/ /\ s \in DOMAIN sections /\ j \in DOMAIN sections[s].lines
                /\ sections'[s].lines[j] = sections[s].lines[j]
             \/ sections'[s].lines[j] = row /\ s = n /\ j = end
      BY <2>7
    <2>10. \A s \in DOMAIN sections' :
              s \notin DOMAIN sections => sections'[s].lines[1] = row
      BY <2>2
    <2>11. n \in DOMAIN sections'
      BY <2>2
    <2> HIDE DEF n, end
    <2> QED
      BY <2>6, <2>8, <2>9, <2>10, <2>11
  <1> QED
    BY <1>2, <1>3, <1>4

\* The first line of a section is one of its lines.
LEMMA FirstLine ==
    ASSUME Typed, Opened, NEW s \in DOMAIN sections
    PROVE  /\ sections[s].lines \in Seq(Nat)
           /\ 1 \in DOMAIN sections[s].lines /\ sections[s].lines[1] \in Nat
  <1>1. sections[s] \in Sections
    BY DEF Typed
  <1>2. sections[s].lines \in Seq(Nat) /\ sections[s].lines # <<>>
    BY <1>1 DEF Sections, Opened
  <1> QED
    BY <1>2

LEMMA WalkingKeepsPlaces ==
    ASSUME PlaceInv,
           \/ SkipRow \/ TakeChapterTitle \/ TakeChapterHead \/ TakePartHead
           \/ StartSection \/ AddLine \/ DropLine
    PROVE  Behind' /\ Accounted' /\ Closed' /\ Once' /\ WalkedOver'
  <1>1. Walking
    BY DEF SkipRow, TakeChapterTitle, TakeChapterHead, TakePartHead, StartSection,
           AddLine, DropLine, PlainLine
  <1>2. /\ row \in Nat /\ row' = row + 1 /\ act' = act /\ step' = step /\ step = "walk"
        /\ row \in DOMAIN act.rows
    BY <1>1, WalkingTypes DEF PlaceInv, WalkInv
  <1>3. Typed /\ Flags /\ Opened /\ headings \subseteq Nat
    BY DEF PlaceInv, WalkInv, Typed
  <1>4. /\ \A s \in DOMAIN sections :
              /\ s \in DOMAIN sections'
              /\ sections'[s].lines[1] = sections[s].lines[1]
              /\ LinesOf(sections[s]) \subseteq LinesOf(sections'[s])
        /\ \A s \in DOMAIN sections' :
              s \notin DOMAIN sections => sections'[s].lines[1] = row
        /\ StartSection \/ AddLine =>
              \E s \in DOMAIN sections' : row \in LinesOf(sections'[s])
    BY <1>3, SectionsGrow
  <1>5. PICK t, k : \A s \in DOMAIN sections' : \A j \in DOMAIN sections'[s].lines :
            \/ /\ s \in DOMAIN sections /\ j \in DOMAIN sections[s].lines
               /\ sections'[s].lines[j] = sections[s].lines[j]
            \/ sections'[s].lines[j] = row /\ s = t /\ j = k
    BY <1>3, SectionsGrow
  <1>6. headings \subseteq headings' /\ dropped \subseteq dropped'
        /\ headings' \subseteq headings \cup {row}
    BY DEF SkipRow, TakeChapterTitle, TakeChapterHead, TakePartHead, StartSection,
           AddLine, DropLine, walkResult
  <1>7. \A s \in DOMAIN sections :
           /\ sections[s].lines \in Seq(Nat)
           /\ 1 \in DOMAIN sections[s].lines /\ sections[s].lines[1] \in Nat
           /\ sections[s].lines[1] < row
    BY <1>3, FirstLine DEF PlaceInv, Behind
  <1>8. Behind'
    <2>1. \A h \in headings' : h < row + 1
      BY <1>2, <1>3, <1>6 DEF PlaceInv, Behind
    <2>2. ASSUME NEW s \in DOMAIN sections', NEW j \in DOMAIN sections'[s].lines
          PROVE  sections'[s].lines[j] < row + 1
      <3>1. CASE /\ s \in DOMAIN sections /\ j \in DOMAIN sections[s].lines
                 /\ sections'[s].lines[j] = sections[s].lines[j]
        <4>1. sections[s].lines[j] < row /\ sections[s].lines[j] \in Nat
          BY <1>7, <3>1 DEF PlaceInv, Behind
        <4> QED
          BY <1>2, <3>1, <4>1
      <3>2. CASE sections'[s].lines[j] = row
        BY <1>2, <3>2
      <3> QED
        BY <1>5, <3>1, <3>2
    <2> QED
      BY <1>2, <2>1, <2>2 DEF Behind
  <1>9. Once'
    <2>1. \A s \in DOMAIN sections : \A j \in DOMAIN sections[s].lines :
             sections[s].lines[j] # row
      <3> SUFFICES ASSUME NEW s \in DOMAIN sections, NEW j \in DOMAIN sections[s].lines
                   PROVE  sections[s].lines[j] # row
        OBVIOUS
      <3>1. sections[s].lines[j] < row
        BY DEF PlaceInv, Behind
      <3> QED
        BY <1>2, <3>1
    <2>2. ASSUME NEW s \in DOMAIN sections', NEW u \in DOMAIN sections',
                 NEW j \in DOMAIN sections'[s].lines, NEW l \in DOMAIN sections'[u].lines,
                 sections'[s].lines[j] = sections'[u].lines[l]
          PROVE  s = u /\ j = l
      <3>1. \/ /\ s \in DOMAIN sections /\ j \in DOMAIN sections[s].lines
               /\ sections'[s].lines[j] = sections[s].lines[j]
            \/ sections'[s].lines[j] = row /\ s = t /\ j = k
        BY <1>5
      <3>2. \/ /\ u \in DOMAIN sections /\ l \in DOMAIN sections[u].lines
               /\ sections'[u].lines[l] = sections[u].lines[l]
            \/ sections'[u].lines[l] = row /\ u = t /\ l = k
        BY <1>5
      <3> QED
        BY <2>1, <2>2, <3>1, <3>2 DEF PlaceInv, Once
    <2> QED
      BY <2>2 DEF Once
  <1>10. ASSUME NEW i \in DOMAIN act.rows, i < row, NoSectionOpen(i)
         PROVE  NoSectionOpen(i)'
    <2>1. ASSUME NEW s \in DOMAIN sections', sections'[s].lines[1] < i
          PROVE  \E h \in headings' :
                    sections'[s].lines[1] < h /\ h < i /\ LineKind(act, h) = "chapter"
      <3>1. i \in Nat
        BY <1>3, RowType DEF Typed
      <3>2. s \in DOMAIN sections
        BY <1>2, <1>4, <1>10, <2>1, <3>1
      <3>3. \E h \in headings : sections[s].lines[1] < h /\ h < i /\ Kind(h) = "chapter"
        BY <1>4, <1>10, <2>1, <3>2 DEF NoSectionOpen
      <3> QED
        BY <1>4, <1>6, <3>2, <3>3 DEF Kind
    <2> QED
      BY <1>2, <2>1 DEF NoSectionOpen, Kind
  <1>11. ASSUME NEW i \in DOMAIN act.rows, i < row + 1, IsLine(act, i)
         PROVE  \/ i \in headings'
                \/ i \in dropped' /\ NoSectionOpen(i)'
                \/ \E s \in DOMAIN sections' : i \in LinesOf(sections'[s])
    <2>1. i \in Nat
      BY <1>3, RowType DEF Typed
    <2>2. CASE i < row
      <3>1. \/ i \in headings
            \/ i \in dropped /\ NoSectionOpen(i)
            \/ \E s \in DOMAIN sections : i \in LinesOf(sections[s])
        BY <1>11, <2>2 DEF PlaceInv, Accounted
      <3> QED
        BY <1>4, <1>6, <1>10, <2>2, <3>1
    <2>3. CASE i = row
      <3>1. CASE StartSection \/ AddLine
        BY <1>4, <2>3, <3>1
      <3>2. CASE TakeChapterTitle \/ TakeChapterHead \/ TakePartHead
        BY <2>3, <3>2 DEF TakeChapterTitle, TakeChapterHead, TakePartHead
      <3>3. CASE DropLine
        <4>1. ~open /\ row \in dropped' /\ sections' = sections /\ headings' = headings
          BY <3>3 DEF DropLine
        <4>2. ASSUME NEW s \in DOMAIN sections
              PROVE  \E h \in headings :
                        /\ sections[s].lines[1] < h /\ h < row
                        /\ LineKind(act, h) = "chapter"
          BY <4>1 DEF PlaceInv, Closed, Behind, Kind
        <4>3. NoSectionOpen(i)'
          BY <1>2, <2>3, <4>1, <4>2 DEF NoSectionOpen, Kind
        <4> QED
          BY <2>3, <4>1, <4>3
      <3>4. CASE SkipRow
        BY <1>11, <2>3, <3>4 DEF SkipRow
      <3> QED
        BY <3>1, <3>2, <3>3, <3>4
    <2> QED
      BY <1>2, <1>11, <2>1, <2>2, <2>3
  <1>12. Accounted'
    BY <1>2, <1>11 DEF Accounted, NoSectionOpen, Kind, LinesOf
  <1>13. Closed'
    <2>1. CASE open' = open /\ sections' = sections
      BY <1>2, <1>6, <2>1 DEF PlaceInv, Closed, Kind
    <2>2. CASE TakeChapterHead
      <3>1. sections' = sections /\ row \in headings' /\ LineKind(act, row) = "chapter"
        BY <2>2 DEF TakeChapterHead, Kind
      <3> QED
        BY <1>2, <1>7, <3>1 DEF Closed, Kind
    <2>3. CASE StartSection
      BY <2>3 DEF StartSection, Closed
    <2>4. CASE AddLine
      BY <2>4 DEF AddLine, Closed
    <2> QED
      BY <2>1, <2>2, <2>3, <2>4
      DEF SkipRow, TakeChapterTitle, TakePartHead, DropLine, walkResult
  <1>14. WalkedOver'
    BY <1>2 DEF WalkedOver
  <1> QED
    BY <1>8, <1>9, <1>12, <1>13, <1>14

-----------------------------------------------------------------------------
(* Where the splitter has put the lines of the sections. *)

LinesIn(g) == {g[j] : j \in DOMAIN g}

\* The lines of the section that were read are in a group.
Grouped ==
    line > 1 =>
        \A j \in DOMAIN sections[next].lines : j < line =>
            \/ sections[next].lines[j] \in LinesIn(group)
            \/ \E k \in DOMAIN groups : sections[next].lines[j] \in LinesIn(groups[k])

\* No line is in two groups.
GroupsApart ==
    line > 1 =>
        /\ \A k, l \in DOMAIN groups :
              k # l => LinesIn(groups[k]) \cap LinesIn(groups[l]) = {}
        /\ \A k \in DOMAIN groups : LinesIn(groups[k]) \cap LinesIn(group) = {}

\* The lines of a section that is done are in its chunks.
Covered ==
    \A s \in DOMAIN sections : s < next =>
        \A j \in DOMAIN sections[s].lines :
            \E c \in DOMAIN chunks :
                chunks[c].section = s /\ sections[s].lines[j] \in LinesOf(chunks[c])

\* Chunks of one section differ in their index and share no line.
ChunksApart ==
    \A c, d \in DOMAIN chunks :
        /\ chunks[c].section = chunks[d].section
        /\ \/ chunks[c].index = chunks[d].index
           \/ LinesOf(chunks[c]) \cap LinesOf(chunks[d]) # {}
        => c = d

Named == \A c \in DOMAIN chunks : chunks[c].number = sections[chunks[c].section].number

AllChunked == step \in {"gate", "done"} => next > Len(sections)

SplitInv == PlaceInv /\ Grouped /\ GroupsApart /\ Covered /\ ChunksApart /\ Named /\ AllChunked

\* The open group holds the lines after the closed groups.
LEMMA GroupsBefore ==
    ASSUME WalkInv, Once, line > 1, next \in DOMAIN sections, NEW k \in DOMAIN groups
    PROVE  LinesIn(groups[k]) \cap LinesIn(group) = {}
  <1> DEFINE lines == sections[next].lines
  <1>1. SUFFICES ASSUME NEW x \in DOMAIN groups[k], NEW y \in DOMAIN group,
                        groups[k][x] = group[y]
                 PROVE  FALSE
    BY DEF LinesIn
  <1>2. /\ line \in Nat /\ group \in Seq(Nat) /\ groups[k] \in Seq(Nat)
    BY DEF WalkInv, Typed
  <1>3. PICK b \in Nat : /\ b + Len(groups[k]) <= line - 1 - Len(group)
                         /\ b + x \in DOMAIN lines /\ groups[k][x] = lines[b + x]
    BY DEF WalkInv, ClosedGroups, Stretch, At
  <1>4. /\ line - 1 - Len(group) + y \in DOMAIN lines
        /\ group[y] = lines[line - 1 - Len(group) + y]
    BY DEF WalkInv, OpenGroup, At
  <1>5. \A p, q \in DOMAIN lines : lines[p] = lines[q] => p = q
    BY DEF Once
  <1>6. b + x = line - 1 - Len(group) + y
    BY <1>1, <1>3, <1>4, <1>5
  <1>7. x <= Len(groups[k]) /\ x \in Nat /\ y \in Nat /\ y >= 1 /\ Len(group) \in Nat
        /\ Len(groups[k]) \in Nat
    BY <1>2
  <1> QED
    BY <1>2, <1>3, <1>6, <1>7

LEMMA ReadingKeepsGroups ==
    ASSUME SplitInv, ExtendGroup \/ CutGroup
    PROVE  Grouped' /\ GroupsApart'
  <1> DEFINE lines == sections[next].lines
             i == lines[line]
  <1>1. Splitting /\ WalkInv /\ Once
    BY DEF ExtendGroup, CutGroup, SplitInv, PlaceInv
  <1>2. /\ next \in DOMAIN sections /\ line \in DOMAIN lines /\ lines \in Seq(Nat)
        /\ line \in Nat /\ line >= 1 /\ sections' = sections
        /\ line = 1 => group = <<>> /\ groups = <<>>
    BY <1>1, Standing
  <1>3. group \in Seq(Nat) /\ groups \in Seq(Seq(Nat)) /\ i \in Nat
    BY <1>1, <1>2 DEF WalkInv, Typed
  <1>4. line' = line + 1 /\ next' = next
    BY DEF ExtendGroup, CutGroup
  <1>5. /\ \A j \in DOMAIN lines : j < line =>
              \/ lines[j] \in LinesIn(group)
              \/ \E k \in DOMAIN groups : lines[j] \in LinesIn(groups[k])
        /\ \A k, l \in DOMAIN groups :
              k # l => LinesIn(groups[k]) \cap LinesIn(groups[l]) = {}
        /\ \A k \in DOMAIN groups : LinesIn(groups[k]) \cap LinesIn(group) = {}
    <2>1. CASE line = 1
      <3>1. \A j \in DOMAIN lines : ~(j < line)
        BY <1>2, <2>1
      <3> QED
        BY <1>2, <2>1, <3>1
    <2>2. CASE line > 1
      BY <2>2 DEF SplitInv, Grouped, GroupsApart
    <2> QED
      BY <1>2, <2>1, <2>2
  <1>6. \A j \in DOMAIN lines : j < line + 1 => j < line \/ j = line
    BY <1>2
  <1>7. CASE ExtendGroup
    <2>1. group' = Append(group, i) /\ groups' = groups
      BY <1>7 DEF ExtendGroup
    <2>2. LinesIn(group') = LinesIn(group) \cup {i}
      <3> HIDE DEF i
      <3>1. /\ \A j \in DOMAIN group : j \in DOMAIN group' /\ group'[j] = group[j]
            /\ Len(group) + 1 \in DOMAIN group' /\ group'[Len(group) + 1] = i
            /\ \A j \in DOMAIN group' : j \in DOMAIN group \/ j = Len(group) + 1
        BY <1>3, <2>1
      <3> QED
        BY <3>1 DEF LinesIn
    <2>3. Grouped'
      <3>1. ASSUME NEW j \in DOMAIN lines, j < line + 1
            PROVE  \/ lines[j] \in LinesIn(group')
                   \/ \E k \in DOMAIN groups : lines[j] \in LinesIn(groups[k])
        BY <1>5, <1>6, <2>2, <3>1
      <3> QED
        BY <1>2, <1>4, <2>1, <3>1 DEF Grouped, LinesIn
    <2>4. ASSUME NEW k \in DOMAIN groups PROVE i \notin LinesIn(groups[k])
      <3>1. SUFFICES ASSUME NEW x \in DOMAIN groups[k], groups[k][x] = i PROVE FALSE
        BY DEF LinesIn
      <3>2. line > 1
        BY <1>2
      <3>3. PICK b \in Nat : /\ b + Len(groups[k]) <= line - 1 - Len(group)
                             /\ b + x \in DOMAIN lines /\ groups[k][x] = lines[b + x]
        BY <1>1, <3>2 DEF WalkInv, ClosedGroups, Stretch, At
      <3>4. b + x = line
        <4>1. \A p, q \in DOMAIN lines : lines[p] = lines[q] => p = q
          BY <1>1, <1>2 DEF Once
        <4>2. lines[b + x] = lines[line]
          BY <3>1, <3>3
        <4> HIDE DEF lines
        <4> QED
          BY <1>2, <3>3, <4>1, <4>2
      <3>5. x <= Len(groups[k]) /\ x \in Nat /\ Len(group) \in Nat /\ Len(groups[k]) \in Nat
        <4>1. groups[k] \in Seq(Nat)
          BY <1>3
        <4>2. x \in DOMAIN groups[k]
          OBVIOUS
        <4> QED
          BY ONLY <1>3, <4>1, <4>2
      <3> QED
        BY <1>2, <3>3, <3>4, <3>5
    <2>5. \A k \in DOMAIN groups : LinesIn(groups[k]) \cap LinesIn(group') = {}
      BY <1>5, <2>2, <2>4
    <2>6. GroupsApart'
      <3>1. \A k, l \in DOMAIN groups' :
               k # l => LinesIn(groups'[k]) \cap LinesIn(groups'[l]) = {}
        BY <1>5, <2>1
      <3>2. \A k \in DOMAIN groups' : LinesIn(groups'[k]) \cap LinesIn(group') = {}
        BY <2>1, <2>5
      <3> QED
        BY <3>1, <3>2 DEF GroupsApart, LinesIn
    <2> QED
      BY <2>3, <2>6
  <1>8. CASE CutGroup
    <2>1. group' = <<i>> /\ groups' = Append(groups, group)
      BY <1>8 DEF CutGroup
    <2>2. LinesIn(group') = {i}
      <3> HIDE DEF i
      <3> QED
        BY <2>1 DEF LinesIn
    <2>3. /\ \A k \in DOMAIN groups : k \in DOMAIN groups' /\ groups'[k] = groups[k]
          /\ Len(groups) + 1 \in DOMAIN groups' /\ groups'[Len(groups) + 1] = group
          /\ \A k \in DOMAIN groups' : k \in DOMAIN groups \/ k = Len(groups) + 1
      BY <1>3, <2>1
    <2>4. Grouped'
      <3>1. ASSUME NEW j \in DOMAIN lines, j < line + 1
            PROVE  \/ lines[j] \in LinesIn(group')
                   \/ \E k \in DOMAIN groups' : lines[j] \in LinesIn(groups'[k])
        BY <1>5, <1>6, <2>2, <2>3, <3>1
      <3> QED
        BY <1>2, <1>4, <3>1 DEF Grouped, LinesIn
    <2>5. ASSUME NEW k \in DOMAIN groups' PROVE i \notin LinesIn(groups'[k])
      <3>1. line > 1
        BY <1>1, <1>2, <1>8 DEF CutGroup, CutsBefore
      <3>2. \E b \in Nat : \A j \in DOMAIN groups'[k] :
               /\ b + j < line /\ b + j \in DOMAIN lines
               /\ groups'[k][j] = lines[b + j]
        <4>1. CASE k \in DOMAIN groups
          <5>1. groups[k] \in Seq(Nat) /\ Len(group) \in Nat
            BY <1>3, <4>1
          <5>2. PICK b \in Nat : /\ b + Len(groups[k]) <= line - 1 - Len(group)
                                 /\ \A j \in DOMAIN groups[k] : b + j \in DOMAIN lines
                                       /\ groups[k][j] = lines[b + j]
            BY <1>1, <3>1, <4>1 DEF WalkInv, ClosedGroups, Stretch, At
          <5>3. \A j \in DOMAIN groups[k] : b + j < line
            BY <1>2, <5>1, <5>2
          <5> QED
            BY <2>3, <4>1, <5>2, <5>3
        <4>2. CASE k = Len(groups) + 1
          <5>1. /\ Len(group) < line
                /\ \A j \in DOMAIN group :
                      /\ line - 1 - Len(group) + j \in DOMAIN lines
                      /\ group[j] = lines[line - 1 - Len(group) + j]
            BY <1>1, <3>1 DEF WalkInv, OpenGroup, At
          <5> DEFINE b == line - 1 - Len(group)
          <5>2. b \in Nat /\ \A j \in DOMAIN group : b + j < line
            BY <1>2, <1>3, <5>1
          <5>3. \A j \in DOMAIN group : b + j \in DOMAIN lines /\ group[j] = lines[b + j]
            BY <5>1
          <5> HIDE DEF b
          <5> QED
            BY <2>3, <4>2, <5>2, <5>3
        <4> QED
          BY <2>3, <4>1, <4>2
      <3>3. SUFFICES ASSUME NEW j \in DOMAIN groups'[k], groups'[k][j] = i PROVE FALSE
        BY DEF LinesIn
      <3>4. PICK m \in DOMAIN lines : m < line /\ lines[m] = i
        BY <3>2, <3>3
      <3>5. m = line
        BY <1>1, <1>2, <3>4 DEF Once
      <3> QED
        BY <1>2, <3>4, <3>5
    <2>6. \A k, l \in DOMAIN groups' :
             k # l => LinesIn(groups'[k]) \cap LinesIn(groups'[l]) = {}
      BY <1>5, <2>3
    <2>7. GroupsApart'
      BY <2>2, <2>5, <2>6 DEF GroupsApart, LinesIn
    <2> QED
      BY <2>4, <2>7
  <1> QED
    BY <1>7, <1>8

\* What the chunks that are added to the others have to be.
LEMMA AddingChunks ==
    ASSUME SplitInv, next \in DOMAIN sections, sections' = sections, next' = next + 1,
           NEW new \in Seq(Chunks), chunks' = chunks \o new,
           \A g \in DOMAIN new : /\ new[g].section = next
                                 /\ new[g].number = sections[next].number,
           \A g, h \in DOMAIN new :
              new[g].index = new[h].index \/ LinesOf(new[g]) \cap LinesOf(new[h]) # {}
                 => g = h,
           \A j \in DOMAIN sections[next].lines :
              \E g \in DOMAIN new : sections[next].lines[j] \in LinesOf(new[g])
    PROVE  Covered' /\ ChunksApart' /\ Named'
  <1>1. chunks \in Seq(Chunks) /\ sections \in Seq(Sections) /\ next \in Nat
    BY DEF SplitInv, PlaceInv, WalkInv, Typed
  <1>2. /\ \A c \in DOMAIN chunks : c \in DOMAIN chunks' /\ chunks'[c] = chunks[c]
        /\ \A g \in DOMAIN new : Len(chunks) + g \in DOMAIN chunks'
                                 /\ chunks'[Len(chunks) + g] = new[g]
        /\ \A c \in DOMAIN chunks' : c \notin DOMAIN chunks =>
              \E g \in DOMAIN new : c = Len(chunks) + g
    <2>1. ASSUME NEW c \in DOMAIN chunks', c \notin DOMAIN chunks
          PROVE  \E g \in DOMAIN new : c = Len(chunks) + g
      <3>1. c - Len(chunks) \in DOMAIN new /\ c = Len(chunks) + (c - Len(chunks))
        BY <1>1, <2>1
      <3> QED
        BY <3>1
    <2>2. \A c \in DOMAIN chunks : c \in DOMAIN chunks' /\ chunks'[c] = chunks[c]
      BY <1>1
    <2>3. \A g \in DOMAIN new : Len(chunks) + g \in DOMAIN chunks'
                                /\ chunks'[Len(chunks) + g] = new[g]
      BY <1>1
    <2> QED
      BY <2>1, <2>2, <2>3
  <1>3. \A c \in DOMAIN chunks : chunks[c].section \in DOMAIN sections
                                 /\ chunks[c].section # next
    <2> SUFFICES ASSUME NEW c \in DOMAIN chunks
                 PROVE  chunks[c].section \in DOMAIN sections /\ chunks[c].section # next
      OBVIOUS
    <2>1. chunks[c].section \in DOMAIN sections /\ chunks[c].section < next
      BY DEF SplitInv, PlaceInv, WalkInv, Chunked
    <2> QED
      BY <1>1, <2>1
  <1>4. Named'
    <2>1. ASSUME NEW c \in DOMAIN chunks'
          PROVE  chunks'[c].number = sections[chunks'[c].section].number
      <3>1. CASE c \in DOMAIN chunks
        BY <1>2, <3>1 DEF SplitInv, Named
      <3>2. CASE c \notin DOMAIN chunks
        BY <1>2, <3>2
      <3> QED
        BY <3>1, <3>2
    <2> QED
      BY <2>1 DEF Named
  <1>5. Covered'
    <2>1. ASSUME NEW s \in DOMAIN sections, s < next + 1, NEW j \in DOMAIN sections[s].lines
          PROVE  \E c \in DOMAIN chunks' :
                    chunks'[c].section = s /\ sections[s].lines[j] \in LinesOf(chunks'[c])
      <3>1. CASE s < next
        <4>1. PICK c \in DOMAIN chunks :
                 chunks[c].section = s /\ sections[s].lines[j] \in LinesOf(chunks[c])
          BY <3>1 DEF SplitInv, Covered
        <4> QED
          BY <1>2, <4>1
      <3>2. CASE s = next
        <4>1. PICK g \in DOMAIN new : sections[s].lines[j] \in LinesOf(new[g])
          BY <3>2
        <4>2. new[g].section = s
          BY <3>2
        <4> QED
          BY <1>2, <4>1, <4>2
      <3>3. s \in Nat
        BY <1>1
      <3> QED
        BY <1>1, <2>1, <3>1, <3>2, <3>3
    <2> QED
      BY <2>1 DEF Covered, LinesOf
  <1>6. ChunksApart'
    <2>1. ASSUME NEW c \in DOMAIN chunks', NEW d \in DOMAIN chunks',
                 chunks'[c].section = chunks'[d].section,
                 \/ chunks'[c].index = chunks'[d].index
                 \/ LinesOf(chunks'[c]) \cap LinesOf(chunks'[d]) # {}
          PROVE  c = d
      <3>1. CASE c \in DOMAIN chunks /\ d \in DOMAIN chunks
        BY <1>2, <2>1, <3>1 DEF SplitInv, ChunksApart
      <3>2. CASE c \in DOMAIN chunks /\ d \notin DOMAIN chunks
        BY <1>2, <1>3, <2>1, <3>2
      <3>3. CASE c \notin DOMAIN chunks /\ d \in DOMAIN chunks
        BY <1>2, <1>3, <2>1, <3>3
      <3>4. CASE c \notin DOMAIN chunks /\ d \notin DOMAIN chunks
        <4>1. PICK g \in DOMAIN new : c = Len(chunks) + g
          BY <1>2, <3>4
        <4>2. PICK h \in DOMAIN new : d = Len(chunks) + h
          BY <1>2, <3>4
        <4>3. chunks'[c] = new[g] /\ chunks'[d] = new[h]
          BY <1>2, <4>1, <4>2
        <4>4. g = h
          BY <2>1, <4>3
        <4> QED
          BY <4>1, <4>2, <4>4
      <3> QED
        BY <3>1, <3>2, <3>3, <3>4
    <2>2. \A c, d \in DOMAIN chunks' :
             /\ chunks'[c].section = chunks'[d].section
             /\ \/ chunks'[c].index = chunks'[d].index
                \/ LinesOf(chunks'[c]) \cap LinesOf(chunks'[d]) # {}
             => c = d
      BY <2>1
    <2> QED
      BY <2>2 DEF ChunksApart, LinesOf
  <1> QED
    BY <1>4, <1>5, <1>6

LEMMA WholeSectionAdds ==
    ASSUME SplitInv, KeepWhole
    PROVE  Covered' /\ ChunksApart' /\ Named'
  <1> DEFINE lines == sections[next].lines
             chunk == ChunkOf(next, lines, 0, 1)
             new == <<chunk>>
  <1>1. WalkInv
    BY DEF SplitInv, PlaceInv
  <1>2. next \in DOMAIN sections /\ sections' = sections /\ lines \in Seq(Nat)
    BY <1>1, ChunkingTypes DEF KeepWhole, WalkInv
  <1>3. chunk \in Chunks
    BY <1>1, <1>2, ChunkType DEF WalkInv, Typed
  <1>4. /\ chunk.section = next /\ chunk.number = sections[next].number
        /\ chunk.lines = lines
    BY DEF ChunkOf
  <1>5. chunks' = Append(chunks, chunk) /\ next' = next + 1
    BY DEF KeepWhole
  <1>6. \A j \in DOMAIN lines : lines[j] \in LinesOf(chunk)
    BY <1>4 DEF LinesOf
  <1> HIDE DEF chunk
  <1>7. /\ new \in Seq(Chunks) /\ chunks' = chunks \o new
        /\ DOMAIN new = {1} /\ new[1] = chunk
    <2>1. chunks \in Seq(Chunks)
      BY <1>1 DEF WalkInv, Typed
    <2>2. Append(chunks, chunk) = chunks \o new
      BY <1>3, <2>1, AppendIsConcat
    <2>3. new \in Seq(Chunks) /\ DOMAIN new = {1} /\ new[1] = chunk
      BY <1>3
    <2> QED
      BY <1>5, <2>2, <2>3
  <1> HIDE DEF new
  <1>8. /\ \A g \in DOMAIN new : /\ new[g].section = next
                                 /\ new[g].number = sections[next].number
        /\ \A g, h \in DOMAIN new : g = h
        /\ \A j \in DOMAIN lines : \E g \in DOMAIN new : lines[j] \in LinesOf(new[g])
    BY <1>4, <1>6, <1>7
  <1> QED
    BY <1>2, <1>5, <1>7, <1>8, AddingChunks

LEMMA ClosedSectionAdds ==
    ASSUME SplitInv, CloseSection
    PROVE  Covered' /\ ChunksApart' /\ Named'
  <1> DEFINE lines == sections[next].lines
             all == Append(groups, group)
             new == NewChunks(all)
  <1>1. WalkInv
    BY DEF SplitInv, PlaceInv
  <1>2. /\ next \in DOMAIN sections /\ sections' = sections /\ lines \in Seq(Nat)
        /\ next' = next + 1 /\ chunks' = chunks \o new /\ line > Len(lines)
    BY <1>1, ChunkingTypes DEF CloseSection, WalkInv, NewChunks
  <1>3. line > 1 /\ all \in Seq(Seq(Nat)) /\ line \in Nat
    BY <1>1, ClosedStretches DEF WalkInv, Typed
  <1>4. new \in Seq(Chunks) /\ Len(new) = Len(all)
    BY <1>1, <1>2, <1>3, NewChunksType DEF WalkInv
  <1>5. \A g \in DOMAIN all :
           /\ g \in DOMAIN new
           /\ new[g].section = next /\ new[g].number = sections[next].number
           /\ new[g].index = g - 1 /\ LinesOf(new[g]) = LinesIn(all[g])
    BY DEF NewChunks, ChunkOf, LinesOf, LinesIn
  <1>6. DOMAIN new = DOMAIN all
    BY DEF NewChunks
  <1>7. groups \in Seq(Seq(Nat)) /\ group \in Seq(Nat)
    BY <1>1 DEF WalkInv, Typed
  <1>8. /\ \A k \in DOMAIN groups : k \in DOMAIN all /\ all[k] = groups[k]
        /\ Len(groups) + 1 \in DOMAIN all /\ all[Len(groups) + 1] = group
        /\ \A k \in DOMAIN all : k \in Nat /\ (k \in DOMAIN groups \/ k = Len(groups) + 1)
    BY <1>7
  <1>9. ASSUME NEW j \in DOMAIN lines
        PROVE  \E g \in DOMAIN all : lines[j] \in LinesIn(all[g])
    <2>1. j < line
      BY <1>2, <1>3
    <2>2. \/ lines[j] \in LinesIn(group)
          \/ \E k \in DOMAIN groups : lines[j] \in LinesIn(groups[k])
      BY <1>3, <2>1 DEF SplitInv, Grouped
    <2> QED
      BY <1>8, <2>2
  <1>10. ASSUME NEW g \in DOMAIN all, NEW h \in DOMAIN all,
                LinesIn(all[g]) \cap LinesIn(all[h]) # {}
         PROVE  g = h
    <2>1. /\ \A k, l \in DOMAIN groups :
                k # l => LinesIn(groups[k]) \cap LinesIn(groups[l]) = {}
          /\ \A k \in DOMAIN groups : LinesIn(groups[k]) \cap LinesIn(group) = {}
      BY <1>3 DEF SplitInv, GroupsApart
    <2> QED
      BY <1>8, <1>10, <2>1
  <1> HIDE DEF all, new
  <1>11. /\ \A g \in DOMAIN new : /\ new[g].section = next
                                  /\ new[g].number = sections[next].number
         /\ \A g, h \in DOMAIN new :
               new[g].index = new[h].index \/ LinesOf(new[g]) \cap LinesOf(new[h]) # {}
                  => g = h
         /\ \A j \in DOMAIN lines : \E g \in DOMAIN new : lines[j] \in LinesOf(new[g])
    <2>1. ASSUME NEW g \in DOMAIN new, NEW h \in DOMAIN new,
                 new[g].index = new[h].index
          PROVE  g = h
      <3>1. g \in Nat /\ h \in Nat /\ g - 1 = h - 1
        BY <1>5, <1>6, <1>8, <2>1
      <3> QED
        BY <3>1
    <2> QED
      BY <1>5, <1>6, <1>9, <1>10, <2>1
  <1> QED
    BY <1>2, <1>4, <1>11, AddingChunks

LEMMA PlacesKept ==
    ASSUME PlaceInv,
           UNCHANGED <<act, row, open, sections, headings, dropped>>,
           step' = "walk" => step = "walk",
           step # "walk" \/ step' = step \/ row > Len(act.rows)
    PROVE  Behind' /\ Accounted' /\ Closed' /\ Once' /\ WalkedOver'
  BY DEF PlaceInv, Behind, Accounted, Closed, Once, WalkedOver, NoSectionOpen, Kind, LinesOf

LEMMA ChunkingKeepsPlaces ==
    ASSUME SplitInv, KeepWhole \/ ExtendGroup \/ CutGroup \/ CloseSection
    PROVE  /\ Behind' /\ Accounted' /\ Closed' /\ Once' /\ WalkedOver'
           /\ Grouped' /\ GroupsApart' /\ Covered' /\ ChunksApart' /\ Named' /\ AllChunked'
  <1>1. Chunking /\ PlaceInv /\ WalkInv
    BY DEF KeepWhole, ExtendGroup, CutGroup, CloseSection, Splitting, SplitInv, PlaceInv
  <1>2. /\ next \in DOMAIN sections /\ step = "chunk" /\ step' = step
        /\ UNCHANGED <<act, row, open, sections, headings, dropped>>
    BY <1>1, ChunkingTypes DEF WalkInv
  <1>3. Behind' /\ Accounted' /\ Closed' /\ Once' /\ WalkedOver'
    BY <1>1, <1>2, PlacesKept
  <1>4. AllChunked'
    BY <1>2 DEF AllChunked
  <1>5. CASE KeepWhole
    <2>1. line' = line /\ sections[next].size <= MaxChars
      BY <1>5 DEF KeepWhole
    <2>2. line' = 1
      BY <1>1, <2>1 DEF WalkInv, Unsplit
    <2>3. Grouped' /\ GroupsApart'
      BY <2>2 DEF Grouped, GroupsApart
    <2> QED
      BY <1>3, <1>4, <1>5, <2>3, WholeSectionAdds
  <1>6. CASE ExtendGroup \/ CutGroup
    <2>1. next' = next /\ chunks' = chunks
      BY <1>6 DEF ExtendGroup, CutGroup
    <2>2. Covered' /\ ChunksApart' /\ Named'
      BY <1>2, <2>1 DEF SplitInv, Covered, ChunksApart, Named, LinesOf
    <2> QED
      BY <1>3, <1>4, <1>6, <2>2, ReadingKeepsGroups
  <1>7. CASE CloseSection
    <2>1. line' = 1
      BY <1>7 DEF CloseSection
    <2>2. Grouped' /\ GroupsApart'
      BY <2>1 DEF Grouped, GroupsApart
    <2> QED
      BY <1>3, <1>4, <1>7, <2>2, ClosedSectionAdds
  <1> QED
    BY <1>5, <1>6, <1>7

LEMMA WalkingKeepsChunks ==
    ASSUME SplitInv, Walking, Typed'
    PROVE  Grouped' /\ GroupsApart' /\ Covered' /\ ChunksApart' /\ Named' /\ AllChunked'
  <1>1. /\ step = "walk" /\ step' = step /\ next' = next /\ line' = line /\ chunks' = chunks
    BY WalkingTypes DEF SplitInv, PlaceInv, WalkInv
  <1>2. next = 1 /\ line = 1 /\ chunks = <<>>
    BY <1>1 DEF SplitInv, PlaceInv, WalkInv, Unsplit
  <1>3. Covered'
    <2>1. \A s \in DOMAIN sections' : ~(s < 1)
      <3>1. sections' \in Seq(Sections)
        BY DEF Typed
      <3> QED
        BY <3>1
    <2> QED
      BY <1>1, <1>2, <2>1 DEF Covered
  <1> QED
    BY <1>1, <1>2, <1>3 DEF Grouped, GroupsApart, ChunksApart, Named, AllChunked

LEMMA TurningKeepsPlaces ==
    ASSUME SplitInv, EndWalk \/ EndChunk \/ Gate \/ UNCHANGED walkVars
    PROVE  /\ Behind' /\ Accounted' /\ Closed' /\ Once' /\ WalkedOver'
           /\ Grouped' /\ GroupsApart' /\ Covered' /\ ChunksApart' /\ Named' /\ AllChunked'
  <1>1. /\ UNCHANGED <<act, row, open, sections, headings, dropped>>
        /\ UNCHANGED <<next, line, group, groups, chunks>>
        /\ \/ step' = step
           \/ step' = "chunk" /\ step = "walk" /\ row > Len(act.rows)
           \/ step' = "gate" /\ step = "chunk" /\ next > Len(sections)
           \/ step' = "done" /\ step = "gate"
    BY DEF EndWalk, EndChunk, Gate, walkVars, walkPosition, walkResult, splitting
  <1>2. Behind' /\ Accounted' /\ Closed' /\ Once' /\ WalkedOver'
    BY <1>1, PlacesKept DEF SplitInv
  <1>3. Grouped' /\ GroupsApart'
    <2>1. Grouped'
      BY <1>1 DEF SplitInv, Grouped, LinesIn
    <2>2. GroupsApart'
      BY SMTT(60), <1>1 DEF SplitInv, GroupsApart, LinesIn
    <2> QED
      BY <2>1, <2>2
  <1>4. Covered' /\ ChunksApart' /\ Named'
    <2>1. Covered'
      BY <1>1 DEF SplitInv, Covered, LinesOf
    <2>2. ChunksApart'
      <3>1. chunks' = chunks /\ ChunksApart
        BY <1>1 DEF SplitInv
      <3> QED
        BY <3>1 DEF ChunksApart, LinesOf
    <2>3. Named'
      BY <1>1 DEF SplitInv, Named
    <2> QED
      BY <2>1, <2>2, <2>3
  <1>5. AllChunked'
    BY <1>1 DEF SplitInv, AllChunked
  <1> QED
    BY <1>2, <1>3, <1>4, <1>5

LEMMA SplitInvInit == WalkInit => SplitInv
  <1> SUFFICES ASSUME WalkInit PROVE SplitInv
    OBVIOUS
  <1>1. WalkInv
    BY WalkInvInit
  <1>2. /\ row = 1 /\ sections = <<>> /\ headings = {} /\ step = "walk"
        /\ line = 1 /\ chunks = <<>> /\ act \in Documents
    BY DEF WalkInit, WalkStart
  <1>3. \A i \in DOMAIN act.rows : ~(i < row)
    BY <1>2, RowType
  <1>4. Behind /\ Accounted /\ Closed /\ Once /\ WalkedOver
    BY <1>2, <1>3 DEF Behind, Accounted, Closed, Once, WalkedOver
  <1>5. Grouped /\ GroupsApart /\ Covered /\ ChunksApart /\ Named /\ AllChunked
    BY <1>2 DEF Grouped, GroupsApart, Covered, ChunksApart, Named, AllChunked
  <1> QED
    BY <1>1, <1>4, <1>5 DEF SplitInv, PlaceInv

LEMMA SplitInvNext == SplitInv /\ [WalkNext]_walkVars => SplitInv'
  <1> SUFFICES ASSUME SplitInv, [WalkNext]_walkVars PROVE SplitInv'
    OBVIOUS
  <1>1. WalkInv' /\ Typed'
    BY WalkInvNext DEF SplitInv, PlaceInv, WalkInv
  <1>2. CASE \/ SkipRow \/ TakeChapterTitle \/ TakeChapterHead \/ TakePartHead
             \/ StartSection \/ AddLine \/ DropLine
    <2>1. Walking
      BY <1>2 DEF SkipRow, TakeChapterTitle, TakeChapterHead, TakePartHead,
         StartSection, AddLine, DropLine, PlainLine
    <2>2. Behind' /\ Accounted' /\ Closed' /\ Once' /\ WalkedOver'
      BY <1>2, WalkingKeepsPlaces DEF SplitInv
    <2> QED
      BY <1>1, <2>1, <2>2, WalkingKeepsChunks DEF SplitInv, PlaceInv
  <1>3. CASE KeepWhole \/ ExtendGroup \/ CutGroup \/ CloseSection
    BY <1>1, <1>3, ChunkingKeepsPlaces DEF SplitInv, PlaceInv
  <1>4. CASE EndWalk \/ EndChunk \/ Gate \/ UNCHANGED walkVars
    BY <1>1, <1>4, TurningKeepsPlaces DEF SplitInv, PlaceInv
  <1> QED
    BY <1>2, <1>3, <1>4 DEF WalkNext

\* Chunks are of the section whose lines they hold.
LEMMA ChunkOfItsLines ==
    ASSUME SplitInv, NEW c \in DOMAIN chunks, NEW i \in LinesOf(chunks[c]),
           NEW s \in DOMAIN sections, i \in LinesOf(sections[s])
    PROVE  chunks[c].section = s
  <1>1. PICK x \in DOMAIN chunks[c].lines : i = chunks[c].lines[x]
    BY DEF LinesOf
  <1>2. PICK y \in DOMAIN sections[s].lines : i = sections[s].lines[y]
    BY DEF LinesOf
  <1>3. /\ chunks[c].section \in DOMAIN sections
        /\ \E z \in DOMAIN sections[chunks[c].section].lines :
              sections[chunks[c].section].lines[z] = i
    BY <1>1 DEF SplitInv, PlaceInv, WalkInv, Chunked, Stretch, At
  <1> QED
    BY <1>2, <1>3 DEF SplitInv, PlaceInv, Once

\* A line of a section that alone has its number is in one stored chunk.
LEMMA StoredOnce ==
    ASSUME SplitInv, step = "done", NEW s \in DOMAIN sections,
           NEW i \in LinesOf(sections[s]), ~Repeated(sections[s].number)
    PROVE  Cardinality({c \in Stored : i \in LinesOf(chunks[c])}) = 1
  <1>1. PICK c \in DOMAIN chunks : chunks[c].section = s /\ i \in LinesOf(chunks[c])
    <2>1. s < next
      <3>1. sections \in Seq(Sections) /\ next \in Nat /\ next > Len(sections)
        BY DEF SplitInv, PlaceInv, WalkInv, Typed, AllChunked
      <3> QED
        BY <3>1
    <2>2. PICK j \in DOMAIN sections[s].lines : i = sections[s].lines[j]
      BY DEF LinesOf
    <2> QED
      BY <2>1, <2>2 DEF SplitInv, Covered
  <1>2. \A d \in DOMAIN chunks :
           chunks[d].number = chunks[c].number => chunks[d].section = s
    <2> SUFFICES ASSUME NEW d \in DOMAIN chunks, chunks[d].number = chunks[c].number
                 PROVE  chunks[d].section = s
      OBVIOUS
    <2>1. chunks[d].section \in DOMAIN sections
      BY DEF SplitInv, PlaceInv, WalkInv, Chunked
    <2>2. sections[chunks[d].section].number = sections[s].number
      BY <1>1 DEF SplitInv, Named
    <2> QED
      BY <2>1, <2>2 DEF Repeated
  <1>3. c \in Stored
    <2>1. c <= c
      <3>1. chunks \in Seq(Chunks)
        BY DEF SplitInv, PlaceInv, WalkInv, Typed
      <3> QED
        BY <3>1
    <2>2. \A d \in DOMAIN chunks :
             chunks[d].number = chunks[c].number /\ chunks[d].index = chunks[c].index
             => d = c
      BY <1>1, <1>2 DEF SplitInv, ChunksApart
    <2> QED
      BY <2>1, <2>2 DEF Stored
  <1>4. \A d \in Stored : i \in LinesOf(chunks[d]) => d = c
    <2> SUFFICES ASSUME NEW d \in Stored, i \in LinesOf(chunks[d]) PROVE d = c
      OBVIOUS
    <2>1. d \in DOMAIN chunks
      BY DEF Stored
    <2>2. chunks[d].section = s
      BY <2>1, ChunkOfItsLines
    <2> QED
      BY <1>1, <2>1, <2>2 DEF SplitInv, ChunksApart
  <1>5. {d \in Stored : i \in LinesOf(chunks[d])} = {c}
    BY <1>1, <1>3, <1>4
  <1> QED
    BY <1>5, FS_Singleton

\* Every line has a place, if only among the sections that share a number.
LEMMA PlacedText ==
    ASSUME SplitInv, step = "done", NEW i \in DOMAIN act.rows, IsLine(act, i)
    PROVE  \/ i \in headings
           \/ i \in dropped /\ NoSectionOpen(i)
           \/ Cardinality({c \in Stored : i \in LinesOf(chunks[c])}) = 1
           \/ \E s \in DOMAIN sections :
                 i \in LinesOf(sections[s]) /\ Repeated(sections[s].number)
  <1>1. i < row
    <2>1. row \in Nat /\ row > Len(act.rows) /\ i \in Nat /\ i <= Len(act.rows)
      BY RowType DEF SplitInv, PlaceInv, WalkInv, Typed, WalkedOver
    <2>2. Len(act.rows) \in Nat
      <3>1. act.rows \in Seq(Rows)
        BY DEF SplitInv, PlaceInv, WalkInv, Typed, Documents
      <3> QED
        BY <3>1
    <2> QED
      BY <2>1, <2>2
  <1>2. \/ i \in headings
        \/ i \in dropped /\ NoSectionOpen(i)
        \/ \E s \in DOMAIN sections : i \in LinesOf(sections[s])
    BY <1>1 DEF SplitInv, PlaceInv, Accounted
  <1> QED
    BY <1>2, StoredOnce

-----------------------------------------------------------------------------
(* What a parse that is not flagged guarantees, for acts of any length: no *)
(* text under a wrong section number, and every section under its own      *)
(* title.                                                                  *)

\* The titles that were given out before section s.
UsedBefore(s) == {sections[t].title : t \in 1 .. s - 1} \ {0}

\* A section has the number and the page of the line that opened it, and the
\* title that was paired with it when it was opened.
Labelled ==
    /\ \A s \in DOMAIN sections :
          /\ sections[s].number = act.rows[sections[s].lines[1]].number
          /\ sections[s].title = PairTitle(act, sections[s].lines[1], UsedBefore(s))
    /\ used = {sections[t].title : t \in DOMAIN sections} \ {0}

\* The lines of a section are between its first line and that of the next.
InOrder ==
    /\ \A s \in DOMAIN sections : \A j \in DOMAIN sections[s].lines :
          sections[s].lines[1] <= sections[s].lines[j]
    /\ \A s, t \in DOMAIN sections : s < t =>
          \A j \in DOMAIN sections[s].lines : sections[s].lines[j] < sections[t].lines[1]

\* The rows are those of WalkInit.
Fixed ==
    /\ \A i \in DOMAIN act.rows : act.rows[i].page \in DOMAIN act.pages
    /\ ReadDownwards(act)

Judged == step = "done" => report.review = (Missing # {} \/ Untitled # {})

ReportInv == SplitInv /\ Labelled /\ InOrder /\ Fixed /\ Judged

LEMMA StartsInOrder ==
    ASSUME PlaceInv, Labelled, InOrder, StartSection
    PROVE  Labelled' /\ InOrder'
  <1> DEFINE n == Len(sections)
             title == PairTitle(act, row, used)
  <1>1. Typed /\ Flags /\ Opened /\ Behind /\ sections \in Seq(Sections)
    BY DEF PlaceInv, WalkInv, Typed
  <1>2. /\ sections' \in Seq(Sections) /\ Len(sections') = n + 1
        /\ \A s \in DOMAIN sections : sections'[s] = sections[s]
        /\ sections'[n + 1].lines = <<row>>
        /\ sections'[n + 1].number = act.rows[row].number
    BY <1>1, SectionStarted
  <1>3. sections'[n + 1].title = title /\ used' = used \cup ({title} \ {0})
    BY <1>1 DEF StartSection, NewSection
  <1>4. /\ row \in DOMAIN act.rows /\ row \in Nat /\ act' = act
    BY <1>1, WalkingTypes DEF StartSection
  <1>5. n \in Nat /\ DOMAIN sections = 1 .. n /\ DOMAIN sections' = 1 .. n + 1
    BY <1>1, <1>2
  <1> HIDE DEF title
  <1>6. \A s \in 1 .. n + 1 : UsedBefore(s)' = UsedBefore(s)
    <2> TAKE s \in 1 .. n + 1
    <2>1. \A t \in 1 .. s - 1 : sections'[t] = sections[t]
      BY <1>2, <1>5
    <2> QED
      BY <2>1 DEF UsedBefore
  <1>7. UsedBefore(n + 1) = used
    BY <1>5 DEF UsedBefore, Labelled
  <1>8. ASSUME NEW s \in DOMAIN sections'
        PROVE  /\ sections'[s].number = act'.rows[sections'[s].lines[1]].number
               /\ sections'[s].title = PairTitle(act', sections'[s].lines[1], UsedBefore(s)')
    <2>1. CASE s = n + 1
      <3>1. sections'[s].lines[1] = row
        BY <1>2, <2>1
      <3>2. UsedBefore(s)' = used
        BY <1>5, <1>6, <1>7, <2>1
      <3> QED
        BY <1>2, <1>3, <1>4, <2>1, <3>1, <3>2 DEF title
    <2>2. CASE s # n + 1
      <3>1. s \in DOMAIN sections /\ sections'[s] = sections[s]
        BY <1>2, <1>5, <2>2
      <3> QED
        BY <1>4, <1>5, <1>6, <3>1 DEF Labelled
    <2> QED
      BY <2>1, <2>2
  <1>9. used' = {sections'[t].title : t \in DOMAIN sections'} \ {0}
    <2>1. {sections'[t].title : t \in DOMAIN sections'}
             = {sections[t].title : t \in DOMAIN sections} \cup {title}
      BY <1>2, <1>3, <1>5
    <2> QED
      BY <1>3, <2>1 DEF Labelled
  <1>10. ASSUME NEW s \in DOMAIN sections', NEW j \in DOMAIN sections'[s].lines
         PROVE  sections'[s].lines[1] <= sections'[s].lines[j]
    <2>1. CASE s = n + 1
      BY <1>2, <1>4, <2>1
    <2>2. CASE s # n + 1
      <3>1. s \in DOMAIN sections /\ sections'[s] = sections[s]
        BY <1>2, <1>5, <2>2
      <3> QED
        BY <3>1 DEF InOrder
    <2> QED
      BY <2>1, <2>2
  <1>11. ASSUME NEW s \in DOMAIN sections', NEW t \in DOMAIN sections', s < t,
                NEW j \in DOMAIN sections'[s].lines
         PROVE  sections'[s].lines[j] < sections'[t].lines[1]
    <2>1. s \in DOMAIN sections /\ sections'[s] = sections[s]
      BY <1>2, <1>5, <1>11
    <2>2. CASE t = n + 1
      BY <1>1, <1>2, <2>1, <2>2 DEF Behind
    <2>3. CASE t # n + 1
      <3>1. t \in DOMAIN sections /\ sections'[t] = sections[t]
        BY <1>2, <1>5, <2>3
      <3> QED
        BY <1>11, <2>1, <3>1 DEF InOrder
    <2> QED
      BY <2>2, <2>3
  <1>12. Labelled'
    BY <1>8, <1>9 DEF Labelled
  <1>13. InOrder'
    BY <1>10, <1>11 DEF InOrder
  <1> QED
    BY <1>12, <1>13

LEMMA GrowsInOrder ==
    ASSUME PlaceInv, Labelled, InOrder, AddLine
    PROVE  Labelled' /\ InOrder'
  <1> DEFINE n == Len(sections)
  <1>1. Typed /\ Flags /\ Opened /\ Behind /\ sections \in Seq(Sections)
    BY DEF PlaceInv, WalkInv, Typed
  <1>2. /\ sections' \in Seq(Sections) /\ Len(sections') = n /\ sections # <<>>
        /\ \A s \in DOMAIN sections :
              /\ sections'[s].number = sections[s].number
              /\ sections'[s].lines = IF s = n THEN Append(sections[s].lines, row)
                                      ELSE sections[s].lines
    BY <1>1, SectionGrown
  <1>3. /\ row \in DOMAIN act.rows /\ row \in Nat /\ act' = act /\ used' = used
    BY <1>1, WalkingTypes DEF AddLine, PlainLine
  <1>4. n \in Nat /\ DOMAIN sections = 1 .. n /\ DOMAIN sections' = 1 .. n
    BY <1>1, <1>2
  <1>5. \A s \in 1 .. n : sections'[s].title = sections[s].title
    <2>1. sections' = [sections EXCEPT ![n] = WithLine(@, row)]
      BY DEF AddLine
    <2>2. WithLine(sections[n], row).title = sections[n].title
      BY DEF WithLine
    <2> QED
      BY <1>4, <2>1, <2>2
  <1>6. \A s \in 1 .. n : UsedBefore(s)' = UsedBefore(s)
    <2> TAKE s \in 1 .. n
    <2>1. \A t \in 1 .. s - 1 : sections'[t].title = sections[t].title
      BY <1>4, <1>5
    <2> QED
      BY <2>1 DEF UsedBefore
  <1>7. ASSUME NEW s \in DOMAIN sections'
        PROVE  /\ sections'[s].lines[1] = sections[s].lines[1]
               /\ sections[s].lines \in Seq(Nat) /\ s \in DOMAIN sections
               /\ \A j \in DOMAIN sections'[s].lines :
                     \/ /\ j \in DOMAIN sections[s].lines
                        /\ sections'[s].lines[j] = sections[s].lines[j]
                     \/ sections'[s].lines[j] = row /\ s = n
    <2>1. s \in DOMAIN sections /\ sections[s].lines \in Seq(Nat) /\ 1 \in DOMAIN sections[s].lines
      BY <1>1, <1>4, FirstLine
    <2>2. CASE s = n
      <3>1. sections'[s].lines = Append(sections[s].lines, row)
        BY <1>2, <2>1, <2>2
      <3> QED
        BY <1>3, <2>1, <2>2, <3>1
    <2>3. CASE s # n
      <3>1. sections'[s].lines = sections[s].lines
        BY <1>2, <2>1, <2>3
      <3> QED
        BY <2>1, <3>1
    <2> QED
      BY <2>2, <2>3
  <1>8. ASSUME NEW s \in DOMAIN sections'
        PROVE  /\ sections'[s].number = act'.rows[sections'[s].lines[1]].number
               /\ sections'[s].title = PairTitle(act', sections'[s].lines[1], UsedBefore(s)')
    BY SMTT(60), <1>2, <1>3, <1>4, <1>5, <1>6, <1>7 DEF Labelled
  <1>9. used' = {sections'[t].title : t \in DOMAIN sections'} \ {0}
    BY <1>3, <1>4, <1>5 DEF Labelled
  <1>10. \A s \in DOMAIN sections : sections[s].lines[1] < row /\ sections[s].lines[1] \in Nat
    BY <1>1, FirstLine DEF Behind
  <1>11. ASSUME NEW s \in DOMAIN sections', NEW j \in DOMAIN sections'[s].lines
         PROVE  sections'[s].lines[1] <= sections'[s].lines[j]
    BY <1>3, <1>7, <1>10 DEF InOrder
  <1>12. ASSUME NEW s \in DOMAIN sections', NEW t \in DOMAIN sections', s < t,
                NEW j \in DOMAIN sections'[s].lines
         PROVE  sections'[s].lines[j] < sections'[t].lines[1]
    <2>1. s # n
      BY <1>4, <1>12
    <2> QED
      BY <1>7, <1>12, <2>1 DEF InOrder
  <1>13. Labelled'
    BY <1>8, <1>9 DEF Labelled
  <1>14. InOrder'
    BY <1>11, <1>12 DEF InOrder
  <1> QED
    BY <1>13, <1>14

LEMMA ReportInvNext == ReportInv /\ [WalkNext]_walkVars => ReportInv'
  <1> SUFFICES ASSUME ReportInv, [WalkNext]_walkVars PROVE ReportInv'
    OBVIOUS
  <1>1. SplitInv' /\ SplitInv /\ PlaceInv /\ Labelled /\ InOrder /\ Fixed /\ Judged
    BY SplitInvNext DEF ReportInv, SplitInv
  <1>2. CASE StartSection
    <2>1. Labelled' /\ InOrder'
      BY <1>1, <1>2, StartsInOrder
    <2>2. act' = act /\ step' # "done"
      BY <1>2 DEF StartSection, Walking
    <2>3. Fixed' /\ Judged'
      BY <1>1, <2>2 DEF Fixed, Judged
    <2> QED
      BY <1>1, <2>1, <2>3 DEF ReportInv
  <1>3. CASE AddLine
    <2>1. Labelled' /\ InOrder'
      BY <1>1, <1>3, GrowsInOrder
    <2>2. act' = act /\ step' # "done"
      BY <1>3 DEF AddLine, PlainLine, Walking
    <2>3. Fixed' /\ Judged'
      BY <1>1, <2>2 DEF Fixed, Judged
    <2> QED
      BY <1>1, <2>1, <2>3 DEF ReportInv
  <1>4. CASE UNCHANGED <<act, sections, used>> /\ Judged'
    <2>1. Labelled'
      <3>1. \A s : UsedBefore(s)' = UsedBefore(s)
        BY <1>4 DEF UsedBefore
      <3>2. ASSUME NEW s \in DOMAIN sections'
            PROVE  /\ sections'[s].number = act'.rows[sections'[s].lines[1]].number
                   /\ sections'[s].title = PairTitle(act', sections'[s].lines[1], UsedBefore(s)')
        BY <1>1, <1>4, <3>1 DEF Labelled
      <3>3. used' = {sections'[t].title : t \in DOMAIN sections'} \ {0}
        BY <1>1, <1>4 DEF Labelled
      <3> QED
        BY <3>2, <3>3 DEF Labelled
    <2>2. InOrder'
      BY <1>1, <1>4 DEF InOrder
    <2>3. Fixed'
      BY <1>1, <1>4 DEF Fixed
    <2> QED
      BY <1>1, <1>4, <2>1, <2>2, <2>3 DEF ReportInv
  <1>5. CASE SkipRow \/ TakeChapterTitle \/ TakeChapterHead \/ TakePartHead \/ DropLine
    <2>1. UNCHANGED <<act, sections, used>> /\ step' # "done"
      BY <1>5 DEF SkipRow, TakeChapterTitle, TakeChapterHead, TakePartHead, DropLine,
         PlainLine, Walking, walkResult
    <2> QED
      BY <1>4, <2>1 DEF Judged
  <1>6. CASE KeepWhole \/ ExtendGroup \/ CutGroup \/ CloseSection
    <2>1. UNCHANGED <<act, sections, used>> /\ step' # "done"
      BY <1>6 DEF KeepWhole, ExtendGroup, CutGroup, CloseSection, Splitting, Chunking,
         walkResult
    <2> QED
      BY <1>4, <2>1 DEF Judged
  <1>7. CASE EndWalk \/ EndChunk
    <2>1. UNCHANGED <<act, sections, used>> /\ step' # "done"
      BY <1>7 DEF EndWalk, EndChunk, walkResult
    <2> QED
      BY <1>4, <2>1 DEF Judged
  <1>8. CASE Gate
    <2>1. /\ UNCHANGED <<act, sections, used>>
          /\ report'.review = (Missing # {} \/ Untitled # {})
      BY <1>8 DEF Gate, walkResult
    <2>2. Judged'
      BY <2>1 DEF Judged, Missing, Untitled, Recognised
    <2> QED
      BY <1>4, <2>1, <2>2
  <1>9. CASE UNCHANGED walkVars
    <2>1. UNCHANGED <<act, sections, used, step, report>>
      BY <1>9 DEF walkVars, walkResult
    <2>2. Judged'
      BY <1>1, <2>1 DEF Judged, Missing, Untitled, Recognised
    <2> QED
      BY <1>4, <2>1, <2>2
  <1> QED
    BY <1>2, <1>3, <1>5, <1>6, <1>7, <1>8, <1>9 DEF WalkNext

LEMMA ReportInvInit == WalkInit => ReportInv
  <1> SUFFICES ASSUME WalkInit PROVE ReportInv
    OBVIOUS
  <1>1. /\ sections = <<>> /\ used = {} /\ step = "walk" /\ Fixed
    BY DEF WalkInit, WalkStart, Fixed
  <1>2. Labelled /\ InOrder /\ Judged
    BY <1>1 DEF Labelled, InOrder, Judged
  <1> QED
    BY <1>1, <1>2, SplitInvInit DEF ReportInv

-----------------------------------------------------------------------------
(* The title a section was given, and how many titles there are.           *)

\* The first line of a section is a row of the act.
LEMMA StartIsRow ==
    ASSUME ReportInv, NEW s \in DOMAIN sections
    PROVE  /\ sections[s].lines[1] \in DOMAIN act.rows
           /\ sections[s].lines[1] \in Nat
           /\ sections[s].lines \in Seq(Nat) /\ 1 \in DOMAIN sections[s].lines
           /\ act \in Documents
  <1>1. Typed /\ Opened
    BY DEF ReportInv, SplitInv, PlaceInv, WalkInv
  <1>2. sections[s].lines \in Seq(Nat) /\ 1 \in DOMAIN sections[s].lines
    BY <1>1, FirstLine
  <1> QED
    BY <1>1, <1>2 DEF Opened, Typed

LEMMA RowsFinite ==
    ASSUME act \in Documents
    PROVE  IsFiniteSet(DOMAIN act.rows) /\ DOMAIN act.rows \subseteq Nat
  <1>1. act.rows \in Seq(Rows)
    BY DEF Documents
  <1>2. DOMAIN act.rows = 1 .. Len(act.rows) /\ Len(act.rows) \in Nat
    BY <1>1
  <1> QED
    BY <1>2, FS_Interval

\* No section is without a title.
Titled == ReportInv /\ \A s \in DOMAIN sections : sections[s].title # 0

\* What the walk pairs with the section that starts at row a.
Given(a) == sections[CHOOSE s \in DOMAIN sections : sections[s].lines[1] = a].title

LEMMA GivenTitle ==
    ASSUME Titled, NEW s \in DOMAIN sections
    PROVE  Given(sections[s].lines[1]) = sections[s].title
  <1> DEFINE a == sections[s].lines[1]
             t == CHOOSE t \in DOMAIN sections : sections[t].lines[1] = a
  <1>1. t \in DOMAIN sections /\ sections[t].lines[1] = sections[s].lines[1]
    OBVIOUS
  <1>2. 1 \in DOMAIN sections[s].lines /\ 1 \in DOMAIN sections[t].lines
    BY <1>1, StartIsRow DEF Titled
  <1>3. t = s
    BY <1>1, <1>2 DEF Titled, ReportInv, SplitInv, PlaceInv, Once
  <1> QED
    BY <1>3 DEF Given

\* The title that is paired is one of the page or of the page before, it is
\* not given out twice, and on its page it is the nearest that is left.
LEMMA PairedTitle ==
    ASSUME Titled, NEW s \in DOMAIN sections
    PROVE  /\ sections[s].title \notin UsedBefore(s)
           /\ LET i == sections[s].lines[1]
                  here == TitleEnds(act, act.rows[i].page) \ UsedBefore(s)
              IN  \/ /\ sections[s].title \in here
                     /\ \A f \in here :
                           Distance(TitleY(act, sections[s].title), act.rows[i].y)
                              <= Distance(TitleY(act, f), act.rows[i].y)
                  \/ /\ here = {}
                     /\ sections[s].title \in TitleEnds(act, act.rows[i].page - 1)
  <1> DEFINE i == sections[s].lines[1]
             here == TitleEnds(act, act.rows[i].page) \ UsedBefore(s)
             before == TitleEnds(act, act.rows[i].page - 1) \ UsedBefore(s)
  <1>1. act \in Documents /\ i \in DOMAIN act.rows
    BY StartIsRow DEF Titled
  <1>2. sections[s].title = PairTitle(act, i, UsedBefore(s))
    BY DEF Titled, ReportInv, Labelled
  <1>3. CASE here # {}
    <2>1. sections[s].title = Nearest(act, i, here)
      BY <1>2, <1>3 DEF PairTitle
    <2>2. here \in SUBSET TitleEnds(act, act.rows[i].page)
      OBVIOUS
    <2> HIDE DEF here, i
    <2>3. /\ sections[s].title \in here
          /\ \A f \in here :
                Distance(TitleY(act, sections[s].title), act.rows[i].y)
                   <= Distance(TitleY(act, f), act.rows[i].y)
      BY <1>1, <1>3, <2>1, <2>2, NearestInPool
    <2> QED
      BY <2>3 DEF here, i
  <1>4. CASE here = {} /\ before # {}
    <2>1. sections[s].title = Nearest(act, i, before)
      BY <1>2, <1>4 DEF PairTitle
    <2>2. before \in SUBSET TitleEnds(act, act.rows[i].page - 1)
      OBVIOUS
    <2> HIDE DEF before, i
    <2>3. sections[s].title \in before
      BY <1>1, <1>4, <2>1, <2>2, NearestInPool
    <2> QED
      BY <1>4, <2>3 DEF before, i
  <1>5. ~(here = {} /\ before = {})
    BY <1>2 DEF PairTitle, Titled
  <1> QED
    BY <1>3, <1>4, <1>5

LEMMA TitlesDiffer ==
    ASSUME Titled, NEW s \in DOMAIN sections, NEW t \in DOMAIN sections,
           sections[s].title = sections[t].title
    PROVE  s = t
  <1>1. s \in Nat /\ t \in Nat /\ s >= 1 /\ t >= 1
    BY DEF Titled, ReportInv, SplitInv, PlaceInv, WalkInv, Typed
  <1>2. sections[s].title # 0
    BY DEF Titled
  <1>3. ~(s < t)
    <2>1. s < t => sections[t].title \in UsedBefore(t)
      BY <1>1, <1>2 DEF UsedBefore
    <2> QED
      BY <2>1, PairedTitle
  <1>4. ~(t < s)
    <2>1. t < s => sections[s].title \in UsedBefore(s)
      BY <1>1, <1>2 DEF UsedBefore
    <2> QED
      BY <2>1, PairedTitle
  <1> QED
    BY <1>1, <1>3, <1>4

\* A title is given out once: with no title to spare and no section lost, no
\* line that is not a section has been taken for one.
LEMMA NoFalseStart ==
    ASSUME Titled, NoSpareTitle, LostSections = {}
    PROVE  FalseStarts = {}
  <1> SUFFICES ASSUME FalseStarts # {} PROVE FALSE
    OBVIOUS
  <1>1. act \in Documents
    BY DEF Titled, ReportInv, SplitInv, PlaceInv, WalkInv, Typed
  <1>2. /\ FirstLines \in SUBSET DOMAIN act.rows
        /\ AssembledTitles \in SUBSET DOMAIN act.rows
        /\ Printed \in SUBSET FirstLines /\ Printed # FirstLines
    BY StartIsRow DEF Titled, FirstLines, AssembledTitles, LostSections, FalseStarts
  <1>3. /\ IsFiniteSet(FirstLines) /\ IsFiniteSet(AssembledTitles)
        /\ IsFiniteSet(Printed)
    BY <1>1, <1>2, RowsFinite, FS_Subset
  <1>4. Cardinality(Printed) < Cardinality(FirstLines)
    <2>1. /\ Cardinality(Printed) <= Cardinality(FirstLines)
          /\ Cardinality(Printed) # Cardinality(FirstLines)
      BY <1>2, <1>3, FS_Subset
    <2> QED
      BY <1>3, <2>1, FS_CardinalityType
  <1>5. Cardinality(AssembledTitles) < Cardinality(FirstLines)
    BY <1>3, <1>4, FS_CardinalityType DEF NoSpareTitle
  <1> DEFINE title == [a \in FirstLines |-> Given(a)]
  <1>6. title \in [FirstLines -> AssembledTitles]
    <2> SUFFICES ASSUME NEW a \in FirstLines PROVE Given(a) \in AssembledTitles
      OBVIOUS
    <2>1. PICK s \in DOMAIN sections : a = sections[s].lines[1]
      BY DEF FirstLines
    <2>2. PICK p : Given(a) \in TitleEnds(act, p)
      BY <2>1, GivenTitle, PairedTitle
    <2> QED
      BY <2>2 DEF TitleEnds, AssembledTitles
  <1>7. \E a, b \in FirstLines : a # b /\ title[a] = title[b]
    <2> HIDE DEF title
    <2> QED
      BY <1>3, <1>5, <1>6, FS_PigeonHole
  <1>8. PICK a, b \in FirstLines : a # b /\ Given(a) = Given(b)
    BY <1>7
  <1>9. PICK s, t \in DOMAIN sections : a = sections[s].lines[1] /\ b = sections[t].lines[1]
    BY <1>8 DEF FirstLines
  <1>10. sections[s].title = sections[t].title
    BY <1>8, <1>9, GivenTitle
  <1> QED
    BY <1>8, <1>9, <1>10, TitlesDiffer

-----------------------------------------------------------------------------
(* Text under a wrong number.                                              *)

\* How many sections are printed down to row i.
PrintedTo(i) == {j \in Printed : j <= i}
Rank(i) == Cardinality(PrintedTo(i))

LEMMA PrintedFinite ==
    ASSUME act \in Documents, NEW i
    PROVE  /\ IsFiniteSet(Printed) /\ Printed \subseteq Nat
           /\ IsFiniteSet(PrintedTo(i)) /\ Rank(i) \in Nat
  <1>1. Printed \in SUBSET DOMAIN act.rows /\ PrintedTo(i) \in SUBSET DOMAIN act.rows
    BY DEF Printed, PrintedTo
  <1> QED
    BY <1>1, RowsFinite, FS_Subset, FS_CardinalityType DEF Rank

LEMMA RankGrows ==
    ASSUME act \in Documents, NEW i \in Nat, NEW k \in Nat, i <= k
    PROVE  /\ Rank(i) <= Rank(k)
           /\ k \in Printed /\ i < k => Rank(i) < Rank(k)
  <1>1. IsFiniteSet(PrintedTo(k)) /\ Rank(i) \in Nat /\ Rank(k) \in Nat /\ Printed \subseteq Nat
    BY PrintedFinite
  <1>2. PrintedTo(i) \in SUBSET PrintedTo(k)
    <2>1. ASSUME NEW j \in Printed, j <= i PROVE j <= k
      <3>1. j \in Nat
        BY <1>1
      <3> QED
        BY <2>1, <3>1
    <2> QED
      BY <2>1 DEF PrintedTo
  <1>3. /\ Rank(i) <= Rank(k)
        /\ Rank(k) = Rank(i) => PrintedTo(k) = PrintedTo(i)
    BY <1>1, <1>2, FS_Subset DEF Rank
  <1>4. k \in Printed /\ i < k => k \in PrintedTo(k) /\ k \notin PrintedTo(i)
    BY DEF PrintedTo
  <1> QED
    BY <1>1, <1>3, <1>4

\* The section a line is printed under is the last one that is printed above.
LEMMA PrintedUnderRank ==
    ASSUME act \in Documents, PrintedInOrder, NEW i \in Nat, NEW a \in Printed, a <= i
    PROVE  PrintedUnder(i) = Rank(i)
  <1> DEFINE above == {j \in Printed : j <= i}
  <1>1. act.rows \in Seq(Rows) /\ above \in SUBSET DOMAIN act.rows /\ above # {}
    BY DEF Documents, Printed
  <1>2. \E k \in above : \A l \in above : l <= k
    <2> HIDE DEF above
    <2> QED
      BY <1>1, LastPosition
  <1> DEFINE last == CHOOSE j \in above : \A h \in above : h <= j
  <1>3. last \in above /\ \A h \in above : h <= last
    BY <1>2
  <1>4. PrintedUnder(i) = act.rows[last].number
    BY <1>1 DEF PrintedUnder
  <1>5. act.rows[last].number = Cardinality({j \in Printed : j <= last})
    BY <1>3 DEF PrintedInOrder
  <1>6. {j \in Printed : j <= last} = PrintedTo(i)
    <2>1. last \in Nat /\ last <= i /\ Printed \subseteq Nat
      BY <1>3, PrintedFinite
    <2> HIDE DEF last
    <2>2. ASSUME NEW j \in Printed PROVE j <= last <=> j <= i
      <3>1. j \in Nat
        BY <2>1
      <3>2. j <= i => j <= last
        BY <1>3
      <3> QED
        BY <2>1, <3>1, <3>2
    <2> QED
      BY <2>2 DEF PrintedTo
  <1> QED
    BY <1>4, <1>5, <1>6 DEF Rank

\* Without false starts the first line of a section is a printed section.
LEMMA StartIsPrinted ==
    ASSUME ReportInv, FalseStarts = {}, NEW s \in DOMAIN sections
    PROVE  /\ sections[s].lines[1] \in Printed /\ sections[s].lines[1] \in Nat
           /\ sections[s].lines \in Seq(Nat) /\ 1 \in DOMAIN sections[s].lines
           /\ act \in Documents
  <1>1. sections[s].lines[1] \in FirstLines
    BY DEF FirstLines
  <1> QED
    BY <1>1, StartIsRow DEF FalseStarts

LEMMA NumberIsRank ==
    ASSUME ReportInv, FalseStarts = {}, PrintedInOrder, NEW s \in DOMAIN sections
    PROVE  sections[s].number = Rank(sections[s].lines[1])
  <1>1. sections[s].lines[1] \in Printed
    BY StartIsPrinted
  <1>2. sections[s].number = act.rows[sections[s].lines[1]].number
    BY DEF ReportInv, Labelled
  <1> QED
    BY <1>1, <1>2 DEF PrintedInOrder, Rank, PrintedTo

\* When nothing is missing below a number that was recognised, the sections
\* that follow a line of section s are numbered from that of s on.
LEMMA NothingBetween ==
    ASSUME ReportInv, FalseStarts = {}, PrintedInOrder, Missing = {}, NEW s \in DOMAIN sections,
           NEW j \in DOMAIN sections[s].lines, NEW n \in Recognised, n > sections[s].number
    PROVE  Rank(sections[s].lines[j]) <= sections[s].number
  <1> DEFINE a == sections[s].lines[1]
             i == sections[s].lines[j]
  <1>1. /\ a \in Printed /\ a \in Nat /\ i \in Nat /\ act \in Documents
    BY StartIsPrinted
  <1>2. sections[s].number = Rank(a) /\ Rank(a) \in Nat
    BY <1>1, NumberIsRank, PrintedFinite
  <1>3. n \in Nat
    <2>1. PICK t \in DOMAIN sections : n = sections[t].number
      BY DEF Recognised
    <2> QED
      BY <1>1, <2>1, NumberIsRank, PrintedFinite
  <1>4. Rank(a) + 1 \in Recognised
    <2>1. Rank(a) + 1 \in 1 .. n
      BY <1>2, <1>3
    <2> DEFINE k == Rank(a) + 1
    <2> HIDE DEF k
    <2>2. \E S \in {1 .. m : m \in Recognised} : k \in S
      BY <2>1 DEF k
    <2>3. k \in UNION {1 .. m : m \in Recognised}
      BY <2>2
    <2> QED
      BY <2>3 DEF Missing, k
  <1>5. PICK t \in DOMAIN sections : sections[t].number = Rank(a) + 1
    BY <1>4 DEF Recognised
  <1> DEFINE b == sections[t].lines[1]
  <1>6. b \in Printed /\ b \in Nat /\ Rank(b) = Rank(a) + 1
    BY <1>5, StartIsPrinted, NumberIsRank
  <1>7. s < t
    <2>1. s \in Nat /\ t \in Nat
      <3>1. sections \in Seq(Sections)
        BY DEF ReportInv, SplitInv, PlaceInv, WalkInv, Typed
      <3> QED
        BY <3>1
    <2>2. CASE t < s
      <3>1. b < a
        BY <2>2, StartIsPrinted DEF ReportInv, InOrder
      <3>2. Rank(b) <= Rank(a)
        BY <1>1, <1>6, <3>1, RankGrows
      <3> QED
        BY <1>2, <1>6, <3>2
    <2>3. CASE t = s
      BY <1>2, <1>6, <2>3
    <2> QED
      BY <2>1, <2>2, <2>3
  <1>8. i < b
    BY <1>7 DEF ReportInv, InOrder
  <1>9. Rank(i) < Rank(b)
    BY <1>1, <1>6, <1>8, RankGrows
  <1>10. Rank(i) \in Nat
    BY <1>1, PrintedFinite
  <1> HIDE DEF a, i, b
  <1>11. Rank(i) <= Rank(a)
    BY <1>2, <1>6, <1>9, <1>10
  <1> QED
    BY <1>2, <1>11 DEF i, a

LEMMA UnderItsNumber ==
    ASSUME ReportInv, FalseStarts = {}, PrintedInOrder, Missing = {},
           NEW c \in DOMAIN chunks, NEW i \in LinesOf(chunks[c])
    PROVE  \/ PrintedUnder(i) = chunks[c].number
           \/ /\ PrintedUnder(i) > chunks[c].number
              /\ \A n \in Recognised : n <= chunks[c].number
  <1> DEFINE s == chunks[c].section
             a == sections[s].lines[1]
  <1>1. PICK j \in DOMAIN chunks[c].lines : i = chunks[c].lines[j]
    BY DEF LinesOf
  <1>2. /\ s \in DOMAIN sections
        /\ \E k \in DOMAIN sections[s].lines : sections[s].lines[k] = i
    BY <1>1 DEF ReportInv, SplitInv, PlaceInv, WalkInv, Chunked, Stretch, At
  <1>3. PICK k \in DOMAIN sections[s].lines : sections[s].lines[k] = i
    BY <1>2
  <1>4. chunks[c].number = sections[s].number
    BY DEF ReportInv, SplitInv, Named
  <1>5. a \in Printed /\ a \in Nat /\ i \in Nat /\ act \in Documents
    BY <1>2, <1>3, StartIsPrinted
  <1>6. a <= i
    BY <1>2, <1>3 DEF ReportInv, InOrder
  <1>7. PrintedUnder(i) = Rank(i) /\ sections[s].number = Rank(a)
    BY <1>2, <1>5, <1>6, PrintedUnderRank, NumberIsRank
  <1>8. Rank(a) <= Rank(i) /\ Rank(a) \in Nat /\ Rank(i) \in Nat
    BY <1>5, <1>6, RankGrows, PrintedFinite
  <1>9. \A n \in Recognised : n \in Nat
    BY <1>5, NumberIsRank, PrintedFinite, StartIsPrinted DEF Recognised
  <1>10. ASSUME NEW n \in Recognised, n > sections[s].number
         PROVE  Rank(i) <= sections[s].number
    BY <1>2, <1>3, <1>10, NothingBetween
  <1> QED
    BY <1>4, <1>7, <1>8, <1>9, <1>10

THEOREM ReportInvariant == WalkSpec => []ReportInv
  BY ReportInvInit, ReportInvNext, PTL DEF WalkSpec

\* A parse that is to be trusted has no false start, misses no number, and
\* has no number twice.
LEMMA TrustedNumbers ==
    ASSUME ReportInv, step = "done", Trusted
    PROVE  /\ FalseStarts = {} /\ Missing = {}
           /\ \A s \in DOMAIN sections : ~Repeated(sections[s].number)
  <1>1. Missing = {} /\ Untitled = {} /\ PrintedInOrder
    BY DEF ReportInv, Judged, Trusted
  <1>2. FalseStarts = {}
    <2>1. Titled
      BY <1>1 DEF Titled, Untitled
    <2> QED
      BY <2>1, NoFalseStart DEF Trusted
  <1>3. ASSUME NEW s \in DOMAIN sections, NEW t \in DOMAIN sections,
               sections[s].number = sections[t].number
        PROVE  s = t
    <2> DEFINE a == sections[s].lines[1]
               b == sections[t].lines[1]
    <2>1. /\ a \in Printed /\ b \in Printed /\ a \in Nat /\ b \in Nat
          /\ 1 \in DOMAIN sections[s].lines /\ 1 \in DOMAIN sections[t].lines
          /\ act \in Documents
      BY <1>2, StartIsPrinted
    <2>2. Rank(a) = Rank(b) /\ Rank(a) \in Nat
      BY <1>1, <1>2, <1>3, <2>1, NumberIsRank, PrintedFinite
    <2>3. ~(a < b) /\ ~(b < a)
      <3> HIDE DEF a, b
      <3>1. a < b => Rank(a) < Rank(b)
        BY <2>1, RankGrows
      <3>2. b < a => Rank(b) < Rank(a)
        BY <2>1, RankGrows
      <3> QED
        BY <2>2, <3>1, <3>2
    <2>4. a = b
      BY <2>1, <2>3
    <2> QED
      BY <2>1, <2>4 DEF ReportInv, SplitInv, PlaceInv, Once
  <1>4. \A s \in DOMAIN sections : ~Repeated(sections[s].number)
    BY <1>3 DEF Repeated
  <1> QED
    BY <1>1, <1>2, <1>4

\* Every line of every act is a heading, or stands before the first section
\* of its chapter, or is in exactly one stored chunk; two sections share a
\* number, and their chunks an id, only where the parse is not to be trusted.
THEOREM TextKept == WalkSpec => []NoTextLost
  <1>1. ReportInv => NoTextLost
    <2> SUFFICES ASSUME ReportInv, step = "done", NEW i \in DOMAIN act.rows, IsLine(act, i)
                 PROVE  \/ i \in headings
                        \/ i \in dropped /\ NoSectionOpen(i)
                        \/ Cardinality({c \in Stored : i \in LinesOf(chunks[c])}) = 1
                        \/ /\ ~Trusted
                           /\ \E s \in DOMAIN sections :
                                 i \in LinesOf(sections[s]) /\ Repeated(sections[s].number)
      BY DEF NoTextLost
    <2>1. SplitInv
      BY DEF ReportInv
    <2> QED
      BY <2>1, PlacedText, TrustedNumbers
  <1> QED
    BY <1>1, ReportInvariant, PTL

\* A parse that is to be trusted has put no line under another section than
\* it is printed under, but for the lines the last section found has
\* swallowed: no false start goes unnoticed.
THEOREM MisfiledTextFlagged == WalkSpec => []MisfiledTextIsFlagged
  <1>1. ReportInv => MisfiledTextIsFlagged
    <2> SUFFICES ASSUME ReportInv, step = "done", Trusted,
                        NEW c \in DOMAIN chunks, NEW i \in LinesOf(chunks[c])
                 PROVE  \/ PrintedUnder(i) = chunks[c].number
                        \/ /\ PrintedUnder(i) > chunks[c].number
                           /\ \A n \in Recognised : n <= chunks[c].number
      BY DEF MisfiledTextIsFlagged
    <2>1. FalseStarts = {} /\ Missing = {} /\ PrintedInOrder
      BY TrustedNumbers DEF Trusted
    <2> QED
      BY <2>1, UnderItsNumber
  <1> QED
    BY <1>1, ReportInvariant, PTL

-----------------------------------------------------------------------------
(* Titles.                                                                 *)

\* A title is that of a section when its last fragment is a note of it.
TitleOf(e, a) ==
    /\ a \in Printed /\ e \in OwnNote(a) /\ act.rows[a].note # "none"
    /\ e \in TitleEnds(act, act.rows[a].page)

\* What is assumed of the act.
WellSet == ReportInv /\ NotesWellSet

LEMMA WellSetTypes ==
    ASSUME WellSet
    PROVE  /\ act \in Documents /\ sections \in Seq(Sections)
           /\ Printed \subseteq DOMAIN act.rows /\ DOMAIN act.rows \subseteq Nat
           /\ \A i \in DOMAIN act.rows :
                 act.rows[i].page \in Nat /\ act.rows[i].y \in Nat
           /\ ReadDownwards(act)
  <1>1. act \in Documents /\ sections \in Seq(Sections) /\ ReadDownwards(act)
    BY DEF WellSet, ReportInv, Fixed, SplitInv, PlaceInv, WalkInv, Typed
  <1>2. \A i \in DOMAIN act.rows : act.rows[i] \in Rows /\ i \in Nat
    BY <1>1, RowType
  <1>3. Printed \subseteq DOMAIN act.rows
    BY DEF Printed
  <1>4. \A i \in DOMAIN act.rows : act.rows[i].page \in Nat /\ act.rows[i].y \in Nat
    BY <1>2 DEF Rows
  <1> QED
    BY <1>1, <1>2, <1>3, <1>4

\* A row is beside one section, and a title ends its notes.
LEMMA OneOwner ==
    ASSUME WellSet, NEW a \in Printed, NEW b \in Printed, NEW i \in OwnNote(a), i \in OwnNote(b)
    PROVE  a = b
  <1>1. a \in Nat /\ b \in Nat
    BY WellSetTypes
  <1>2. ~(a < b) /\ ~(b < a)
    BY DEF OwnNote
  <1> QED
    BY <1>1, <1>2

LEMMA TitleHasOwner ==
    ASSUME WellSet, NEW p, NEW e \in TitleEnds(act, p)
    PROVE  \E a : TitleOf(e, a) /\ act.rows[a].page = p
  <1>1. e \in DOMAIN act.rows /\ act.rows[e].note # "none" /\ act.rows[e].page = p
    BY DEF TitleEnds, IsFragment
  <1>2. PICK a \in Printed : e \in OwnNote(a) /\ act.rows[a].note # "none"
    BY <1>1 DEF WellSet, NotesWellSet
  <1>3. act.rows[a].page = p
    BY <1>1, <1>2 DEF OwnNote
  <1> QED
    BY <1>2, <1>3 DEF TitleOf

\* Notes of a page with a column are fragments.
LEMMA NotesAreFragments ==
    ASSUME WellSet, NEW e, NEW a, TitleOf(e, a), NEW i \in DOMAIN act.rows,
           act.rows[i].page = act.rows[a].page
    PROVE  IsFragment(act, i) <=> act.rows[i].note # "none"
  <1>1. HasColumn(act, e) /\ act.rows[e].page = act.rows[a].page
    BY DEF TitleOf, TitleEnds, IsFragment
  <1>2. HasColumn(act, i)
    BY <1>1 DEF HasColumn
  <1>3. act.rows[i].note # "none" => act.rows[i].framed
    BY DEF WellSet, NotesWellSet
  <1> QED
    BY <1>2, <1>3 DEF IsFragment

\* A title is the last note of its section.
LEMMA TitleIsLast ==
    ASSUME WellSet, NEW e, NEW a, TitleOf(e, a), NEW i \in OwnNote(a)
    PROVE  i <= e
  <1>1. /\ e \in DOMAIN act.rows /\ i \in DOMAIN act.rows /\ e \in Nat /\ i \in Nat
        /\ act.rows[i].page = act.rows[a].page /\ act.rows[i].note # "none"
    BY WellSetTypes DEF TitleOf, OwnNote
  <1>2. \/ act.rows[e].note = "end"
        \/ \A j \in DOMAIN act.rows :
              act.rows[j].page = act.rows[a].page /\ IsFragment(act, j) => j <= e
    BY DEF TitleOf, TitleEnds
  <1>3. CASE act.rows[e].note = "end"
    <2>1. act.rows[e].note # "none" /\ e \in OwnNote(a) /\ a \in Printed
      BY DEF TitleOf, OwnNote
    <2>2. PICK b \in Printed :
             /\ e \in OwnNote(b)
             /\ \A j \in OwnNote(b) : act.rows[j].note = "end" => \A h \in OwnNote(b) : h <= j
      BY <1>1, <2>1 DEF WellSet, NotesWellSet
    <2>3. a = b
      BY <2>1, <2>2, OneOwner
    <2> QED
      BY <1>3, <2>2, <2>3
  <1>4. CASE \A j \in DOMAIN act.rows :
               act.rows[j].page = act.rows[a].page /\ IsFragment(act, j) => j <= e
    <2>1. IsFragment(act, i)
      BY <1>1, NotesAreFragments
    <2> QED
      BY <1>1, <1>4, <2>1
  <1> QED
    BY <1>2, <1>3, <1>4

LEMMA OneTitle ==
    ASSUME WellSet, NEW a, NEW e, NEW f, TitleOf(e, a), TitleOf(f, a)
    PROVE  e = f
  <1>1. e \in OwnNote(a) /\ f \in OwnNote(a) /\ e \in Nat /\ f \in Nat
    BY WellSetTypes DEF TitleOf, OwnNote
  <1>2. e <= f /\ f <= e
    BY <1>1, TitleIsLast
  <1> QED
    BY <1>1, <1>2

\* A section has one title at most, so there are no more titles than sections.
LEMMA WellSetSpares ==
    ASSUME WellSet
    PROVE  NoSpareTitle
  <1> DEFINE beside == [e \in AssembledTitles |-> CHOOSE a : TitleOf(e, a)]
  <1>1. ASSUME NEW e \in AssembledTitles
        PROVE  beside[e] \in Printed /\ TitleOf(e, beside[e])
    <2>1. \E a : TitleOf(e, a)
      BY TitleHasOwner DEF AssembledTitles
    <2>2. TitleOf(e, CHOOSE a : TitleOf(e, a))
      BY <2>1
    <2> QED
      BY <2>2 DEF TitleOf
  <1>2. beside \in Injection(AssembledTitles, Printed)
    <2>1. beside \in [AssembledTitles -> Printed]
      BY <1>1
    <2>2. ASSUME NEW e \in AssembledTitles, NEW f \in AssembledTitles, beside[e] = beside[f]
          PROVE  e = f
      BY <1>1, <2>2, OneTitle
    <2> HIDE DEF beside
    <2>3. IsInjective(beside)
      BY <2>1, <2>2 DEF IsInjective
    <2> QED
      BY <2>1, <2>3 DEF Injection
  <1>3. IsFiniteSet(Printed)
    BY PrintedFinite, WellSetTypes
  <1> HIDE DEF beside
  <1> QED
    BY <1>2, <1>3, FS_Injection DEF NoSpareTitle

\* What is known of the parse.
Complete == FalseStarts = {} /\ LostSections = {}

LEMMA SectionOf ==
    ASSUME WellSet, Titled, Complete, NEW a \in Printed
    PROVE  \E s \in DOMAIN sections : sections[s].lines[1] = a /\ Given(a) = sections[s].title
  <1>1. PICK s \in DOMAIN sections : sections[s].lines[1] = a
    BY DEF Complete, LostSections, FirstLines
  <1> QED
    BY <1>1, GivenTitle

\* The section beside which the title ends that is given to section a.
Owner(e) == CHOOSE a : TitleOf(e, a)

UpToPage(p) == {a \in Printed : act.rows[a].page <= p}

LEMMA OwnerOfGiven ==
    ASSUME WellSet, Titled, Complete, NEW a \in Printed
    PROVE  /\ TitleOf(Given(a), Owner(Given(a)))
           /\ Owner(Given(a)) \in Printed
           /\ act.rows[Owner(Given(a))].page
                 \in {act.rows[a].page, act.rows[a].page - 1}
  <1>1. PICK s \in DOMAIN sections : sections[s].lines[1] = a /\ Given(a) = sections[s].title
    BY SectionOf
  <1>2. PICK p \in {act.rows[a].page, act.rows[a].page - 1} : Given(a) \in TitleEnds(act, p)
    BY <1>1, PairedTitle
  <1>3. PICK b : TitleOf(Given(a), b) /\ act.rows[b].page = p
    BY <1>2, TitleHasOwner
  <1>4. TitleOf(Given(a), Owner(Given(a)))
    BY <1>3 DEF Owner
  <1>5. Owner(Given(a)) = b
    BY <1>3, <1>4, OneOwner DEF TitleOf
  <1> QED
    BY <1>3, <1>4, <1>5 DEF TitleOf

\* No two sections are given titles of one section.
LEMMA OwnersDiffer ==
    ASSUME WellSet, Titled, Complete, NEW a \in Printed, NEW b \in Printed,
           Owner(Given(a)) = Owner(Given(b))
    PROVE  a = b
  <1>1. Given(a) = Given(b)
    BY OwnerOfGiven, OneTitle
  <1>2. PICK s \in DOMAIN sections : sections[s].lines[1] = a /\ Given(a) = sections[s].title
    BY SectionOf
  <1>3. PICK t \in DOMAIN sections : sections[t].lines[1] = b /\ Given(b) = sections[t].title
    BY SectionOf
  <1>4. s = t
    BY <1>1, <1>2, <1>3, TitlesDiffer
  <1> QED
    BY <1>2, <1>3, <1>4

\* As many titles as sections are given out up to every page: so each title
\* is given out, to a section of its own page.
LEMMA EveryTitleGiven ==
    ASSUME WellSet, Titled, Complete, NEW p \in Int, NEW b \in UpToPage(p)
    PROVE  \E a \in UpToPage(p) : Owner(Given(a)) = b
  <1> DEFINE S == UpToPage(p)
             f == [a \in S |-> Owner(Given(a))]
  <1>1. S \in SUBSET Printed /\ IsFiniteSet(Printed)
    BY PrintedFinite, WellSetTypes DEF UpToPage
  <1>2. IsFiniteSet(S)
    BY <1>1, FS_Subset
  <1>3. ASSUME NEW a \in S PROVE Owner(Given(a)) \in S
    <2>1. a \in Printed /\ act.rows[a].page <= p /\ act.rows[a].page \in Nat
      BY WellSetTypes DEF UpToPage
    <2>2. /\ Owner(Given(a)) \in Printed
          /\ act.rows[Owner(Given(a))].page \in {act.rows[a].page, act.rows[a].page - 1}
      BY <2>1, OwnerOfGiven
    <2>3. act.rows[Owner(Given(a))].page <= p
      BY <2>1, <2>2
    <2> QED
      BY <2>2, <2>3 DEF UpToPage
  <1>4. \A a, c \in S : Owner(Given(a)) = Owner(Given(c)) => a = c
    BY <1>1, OwnersDiffer
  <1>5. f \in Injection(S, S)
    <2> HIDE DEF S
    <2>1. f \in [S -> S]
      BY <1>3
    <2>2. IsInjective(f)
      BY <1>4 DEF IsInjective
    <2> QED
      BY <2>1, <2>2 DEF Injection
  <1>6. f \in Surjection(S, S)
    <2> HIDE DEF f, S
    <2> QED
      BY <1>2, <1>5, FS_Injection
  <1>7. \E a \in S : f[a] = b
    BY <1>6 DEF Surjection
  <1> QED
    BY <1>7

LEMMA GivenOnItsPage ==
    ASSUME WellSet, Titled, Complete, NEW a \in Printed
    PROVE  /\ act.rows[Owner(Given(a))].page = act.rows[a].page
           /\ \E e : TitleOf(e, a)
  <1> DEFINE b == Owner(Given(a))
             p == act.rows[a].page
  <1>1. p \in Nat
    BY WellSetTypes
  <1>2. b \in Printed /\ act.rows[b].page \in {p, p - 1}
    BY OwnerOfGiven
  <1> HIDE DEF b
  <1>3. ASSUME act.rows[b].page = p - 1 PROVE FALSE
    <2>1. b \in UpToPage(p - 1)
      BY <1>1, <1>2, <1>3 DEF UpToPage
    <2>2. PICK c \in UpToPage(p - 1) : Owner(Given(c)) = b
      BY <1>1, <2>1, EveryTitleGiven
    <2>3. c = a
      BY <2>2, OwnersDiffer DEF b, UpToPage
    <2> QED
      BY <1>1, <2>3 DEF UpToPage
  <1>4. \E e : TitleOf(e, a)
    <2>1. a \in UpToPage(p)
      BY <1>1 DEF UpToPage
    <2>2. PICK c \in UpToPage(p) : Owner(Given(c)) = a
      BY <1>1, <2>1, EveryTitleGiven
    <2>3. TitleOf(Given(c), a)
      BY <2>2, OwnerOfGiven DEF UpToPage
    <2> QED
      BY <2>3
  <1> QED
    BY <1>2, <1>3, <1>4 DEF b

\* Every section has a title of its own, whose fragments are its notes.
LEMMA OwnFragments ==
    ASSUME WellSet, Titled, Complete, NEW a, NEW e, TitleOf(e, a)
    PROVE  TitleRows(act, e) = OwnNote(a) /\ TitleY(act, e) = act.rows[a].y
  <1>1. /\ a \in Printed /\ a \in DOMAIN act.rows /\ a \in Nat
        /\ e \in OwnNote(a) /\ e \in DOMAIN act.rows /\ e \in Nat
        /\ act.rows[e].page = act.rows[a].page /\ act.rows[a].note # "none" /\ a <= e
        /\ IsFragment(act, e)
    BY WellSetTypes DEF TitleOf, TitleEnds, OwnNote
  <1>2. ASSUME NEW i \in OwnNote(a) PROVE i \in TitleRows(act, e)
    <2>1. /\ i \in DOMAIN act.rows /\ act.rows[i].page = act.rows[a].page /\ i \in Nat
          /\ act.rows[i].note # "none" /\ i >= a
      BY WellSetTypes DEF OwnNote
    <2>2. i <= e /\ IsFragment(act, i)
      BY <1>1, <2>1, TitleIsLast, NotesAreFragments
    <2>3. ASSUME NEW j \in i .. e - 1, act.rows[j].page = act.rows[e].page,
                 act.rows[j].note = "end"
          PROVE  FALSE
      <3>1. j \in Nat /\ j >= a /\ j < e /\ j \in DOMAIN act.rows
        <4>1. act.rows \in Seq(Rows)
          BY WellSetTypes DEF Documents
        <4> QED
          BY <1>1, <2>1, <4>1
      <3>2. \A k \in Printed : ~(a < k /\ k <= j)
        <4>1. \A k \in Printed : ~(a < k /\ k <= e) /\ k \in Nat
          BY <1>1, WellSetTypes DEF OwnNote
        <4> QED
          BY <1>1, <3>1, <4>1
      <3>3. j \in OwnNote(a)
        BY <1>1, <2>3, <3>1, <3>2 DEF OwnNote
      <3>4. PICK b \in Printed :
               /\ j \in OwnNote(b)
               /\ \A k \in OwnNote(b) : act.rows[k].note = "end" => \A h \in OwnNote(b) : h <= k
        BY <2>3, <3>1 DEF WellSet, NotesWellSet
      <3>5. b = a
        BY <1>1, <3>3, <3>4, OneOwner
      <3>6. e <= j
        BY <1>1, <2>3, <3>3, <3>4, <3>5
      <3> QED
        BY <1>1, <3>1, <3>6
    <2> QED
      BY <1>1, <2>1, <2>2, <2>3 DEF TitleRows
  <1>3. ASSUME NEW i \in TitleRows(act, e) PROVE i \in OwnNote(a)
    <2>1. /\ i \in DOMAIN act.rows /\ i \in Nat /\ i <= e
          /\ act.rows[i].page = act.rows[a].page /\ act.rows[i].note # "none"
          /\ \A j \in i .. e - 1 :
                ~(act.rows[j].page = act.rows[e].page /\ IsFragment(act, j)
                  /\ act.rows[j].note = "end")
      BY <1>1, WellSetTypes DEF TitleRows, IsFragment
    <2>2. PICK b \in Printed : i \in OwnNote(b)
      BY <2>1 DEF WellSet, NotesWellSet
    <2>3. b \in Nat /\ b <= i /\ act.rows[b].page = act.rows[a].page
      BY <2>1, <2>2, WellSetTypes DEF OwnNote
    <2>4. CASE b < a
      <3>1. PICK f : TitleOf(f, b)
        BY GivenOnItsPage
      <3>2. i <= f
        BY <2>2, <3>1, TitleIsLast
      <3>3. /\ f \in Nat /\ f \in DOMAIN act.rows /\ act.rows[f].page = act.rows[a].page
            /\ ~(b < a /\ a <= f) /\ act.rows[f].note # "none" /\ IsFragment(act, f)
        BY <1>1, <2>3, <3>1, WellSetTypes DEF TitleOf, OwnNote, TitleEnds
      <3>4. f < a /\ f < e
        BY <1>1, <2>4, <3>3
      <3>5. act.rows[f].note = "end"
        <4>1. \/ act.rows[f].note = "end"
              \/ \A j \in DOMAIN act.rows :
                    act.rows[j].page = act.rows[b].page /\ IsFragment(act, j) => j <= f
          BY <3>1 DEF TitleOf, TitleEnds
        <4>2. ~(e <= f)
          BY <1>1, <3>3, <3>4
        <4> QED
          BY <1>1, <2>3, <4>1, <4>2
      <3>6. f \in i .. e - 1
        BY <1>1, <2>1, <3>2, <3>3, <3>4
      <3> QED
        BY <1>1, <2>1, <3>3, <3>5, <3>6
    <2>5. CASE a < b
      <3>1. b <= e
        BY <1>1, <2>1, <2>3
      <3> QED
        BY <1>1, <2>5, <3>1 DEF OwnNote
    <2>6. a = b \/ a < b \/ b < a
      BY <1>1, <2>3
    <2> QED
      BY <2>2, <2>4, <2>5, <2>6
  <1>4. TitleRows(act, e) = OwnNote(a)
    BY <1>2, <1>3
  <1>5. TitleY(act, e) = act.rows[a].y
    <2>1. a \in OwnNote(a) /\ \A i \in OwnNote(a) : a <= i /\ i \in Nat
      BY <1>1, WellSetTypes DEF OwnNote
    <2> DEFINE first == CHOOSE i \in TitleRows(act, e) : \A j \in TitleRows(act, e) : i <= j
    <2>2. first \in OwnNote(a) /\ \A j \in OwnNote(a) : first <= j
      BY <1>4, <2>1
    <2>3. first = a
      <3> HIDE DEF first
      <3> QED
        BY <1>1, <2>1, <2>2
    <2> QED
      BY <2>3 DEF TitleY
  <1> QED
    BY <1>4, <1>5

\* Two rows of a page have different baselines.
LEMMA BaselinesDiffer ==
    ASSUME WellSet, Titled, Complete, NEW i \in DOMAIN act.rows, NEW j \in DOMAIN act.rows,
           act.rows[i].page = act.rows[j].page, act.rows[i].y = act.rows[j].y
    PROVE  i = j
  <1>1. /\ i \in Nat /\ j \in Nat
        /\ act.rows[i].page \in Nat /\ act.rows[j].page \in Nat
        /\ act.rows[i].y \in Nat /\ act.rows[j].y \in Nat
    BY WellSetTypes
  <1>2. ReadDownwards(act)
    BY WellSetTypes
  <1>3. ~(i < j)
    BY <1>1, <1>2 DEF ReadDownwards
  <1>4. ~(j < i)
    BY <1>1, <1>2 DEF ReadDownwards
  <1> QED
    BY <1>1, <1>3, <1>4

\* When the sections above have their own titles, so has this one: its own is
\* left, and begins on its baseline.
LEMMA NextHasOwn ==
    ASSUME WellSet, Titled, Complete, NEW s \in DOMAIN sections,
           \A t \in DOMAIN sections : t < s => TitleOf(sections[t].title, sections[t].lines[1])
    PROVE  TitleOf(sections[s].title, sections[s].lines[1])
  <1> DEFINE a == sections[s].lines[1]
             p == act.rows[a].page
             here == TitleEnds(act, p) \ UsedBefore(s)
             title == sections[s].title
  <1>1. a \in Printed /\ a \in DOMAIN act.rows /\ act.rows[a].y \in Nat
    BY StartIsPrinted, WellSetTypes DEF WellSet, Complete
  <1>2. PICK e : TitleOf(e, a)
    BY <1>1, GivenOnItsPage
  <1>3. e \in TitleEnds(act, p)
    BY <1>2 DEF TitleOf
  <1>4. e \notin UsedBefore(s)
    <2> SUFFICES ASSUME e \in UsedBefore(s) PROVE FALSE
      OBVIOUS
    <2>1. PICK t \in 1 .. s - 1 : e = sections[t].title
      BY DEF UsedBefore
    <2>2. t \in DOMAIN sections /\ t < s
      <3>1. sections \in Seq(Sections)
        BY WellSetTypes
      <3> QED
        BY <2>1, <3>1
    <2>3. TitleOf(e, sections[t].lines[1])
      BY <2>1, <2>2
    <2>4. sections[t].lines[1] = a
      BY <1>2, <2>3, OneOwner DEF TitleOf
    <2>5. Given(a) = sections[t].title /\ Given(a) = sections[s].title
      BY <2>2, <2>4, GivenTitle
    <2>6. t = s
      BY <2>2, <2>5, TitlesDiffer
    <2> QED
      BY <2>2, <2>6
  <1>5. e \in here
    BY <1>3, <1>4
  <1>6. /\ title \in here
        /\ Distance(TitleY(act, title), act.rows[a].y) <= Distance(TitleY(act, e), act.rows[a].y)
    BY <1>5, PairedTitle
  <1>7. Distance(TitleY(act, e), act.rows[a].y) = 0
    <2>1. TitleY(act, e) = act.rows[a].y
      BY <1>2, OwnFragments
    <2> QED
      BY <1>1, <2>1 DEF Distance
  <1>8. PICK b : TitleOf(title, b) /\ act.rows[b].page = p
    BY <1>6, TitleHasOwner
  <1>9. TitleY(act, title) = act.rows[b].y /\ b \in DOMAIN act.rows /\ act.rows[b].y \in Nat
    BY <1>8, OwnFragments, WellSetTypes DEF TitleOf
  <1>10. act.rows[b].y = act.rows[a].y
    BY <1>1, <1>6, <1>7, <1>9 DEF Distance
  <1>11. a = b
    BY <1>1, <1>8, <1>9, <1>10, BaselinesDiffer
  <1> QED
    BY <1>8, <1>11

LEMMA AllHaveOwn ==
    ASSUME WellSet, Titled, Complete
    PROVE  \A s \in DOMAIN sections : TitleOf(sections[s].title, sections[s].lines[1])
  <1> DEFINE Bad == {s \in DOMAIN sections : ~TitleOf(sections[s].title, sections[s].lines[1])}
  <1> SUFFICES ASSUME Bad # {} PROVE FALSE
    OBVIOUS
  <1>1. sections \in Seq(Sections)
    BY WellSetTypes
  <1>2. Bad \in SUBSET Nat
    BY <1>1
  <1>3. PICK s \in Bad : \A t \in Bad : s <= t
    <2> HIDE DEF Bad
    <2> QED
      BY <1>2, LeastNatural
  <1>4. \A t \in DOMAIN sections : t < s => t \notin Bad
    BY <1>1, <1>2, <1>3
  <1> QED
    BY <1>3, <1>4, NextHasOwn

\* When every section is found and the parse is not flagged, each section has
\* the title that is printed beside it.
THEOREM TitlesFound == WalkSpec => []TitlesAreOwn
  <1>1. ReportInv => TitlesAreOwn
    <2> SUFFICES ASSUME ReportInv, step = "done", ~report.review, NotesWellSet, LostSections = {},
                        NEW s \in DOMAIN sections
                 PROVE  TitleRows(act, sections[s].title) = OwnNote(sections[s].lines[1])
      BY DEF TitlesAreOwn
    <2>1. Untitled = {}
      BY DEF ReportInv, Judged
    <2>2. WellSet /\ Titled
      BY <2>1 DEF WellSet, Titled, Untitled
    <2>3. Complete
      BY <2>2, WellSetSpares, NoFalseStart DEF Complete
    <2> QED
      BY <2>2, <2>3, AllHaveOwn, OwnFragments
  <1> QED
    BY <1>1, ReportInvariant, PTL

================================================================================
