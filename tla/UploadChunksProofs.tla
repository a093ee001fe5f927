--------------------------- MODULE UploadChunksProofs ---------------------------
(***************************************************************************)
(* Proofs about the chunks of an uploaded document, for documents of any   *)
(* length, and that the three readers keep their types.                    *)
(*                                                                         *)
(* The invariant speaks of mark, the end of the buffer when it was cut     *)
(* last.  The paragraphs laid down since begin behind mark and are on the  *)
(* pages the next chunk will name.  Those before mark are accounted for,   *)
(* or pending: they lie whole in the overlap, and the buffer is then long  *)
(* enough to be kept.  A buffer that is dropped has therefore nothing      *)
(* pending, and what it has behind mark lies whole in the next overlap.    *)
(* The last of these is arithmetic: the gaps take so little of a buffer    *)
(* that one too short to keep reaches less than an overlap behind mark.    *)
(***************************************************************************)
EXTENDS Readers, StatuteWalkProofs, FormWalkProofs

\* The gaps between the paragraphs take two fifths of a text and no more.
TwoCharacters == \A t \in Paragraphs : Length[t] >= 2

\* What normalise leaves of a text from x on, its last space included, when
\* places of these widths lie where w says; and what it leaves of the buffer.
KeptIn(w, width, x) ==
    UNION {Max({x, w[q]}) .. w[q] + width[q] : q \in {p \in DOMAIN w : w[p] + width[p] > x}}
RestIn(w, width, x) == Cardinality(KeptIn(w, width, x))

Sizes == [q \in DOMAIN where |-> Size(q)]
Remains(x) == RestIn(where, Sizes, x)

IsRead(p, k) == p < at[1] \/ (p = at[1] /\ k < at[2])

\* The loop is inside a page only while that page is there.
ReadingOK ==
    /\ upload \in Seq(UploadPages) /\ uploadStep \in {"chunk", "done"}
    /\ at \in Nat \X Nat /\ at[1] >= 1
    /\ at[2] # 0 => at[1] \in DOMAIN upload
    /\ label \in Labels

\* The places read are the ones before at; each has a position before hi.
PlacesOK ==
    /\ DOMAIN where \subseteq Nat \X Nat
    /\ \A q \in DOMAIN where :
          /\ q[1] \in DOMAIN upload /\ q[2] \in Body(q[1]) /\ IsRead(q[1], q[2])
          /\ where[q] \in Nat /\ where[q] + Size(q) + 2 <= hi
    /\ \A p \in DOMAIN upload : \A k \in Body(p) :
          IsRead(p, k) => <<p, k>> \in DOMAIN where

\* The pages of the buffer, and those of the places read.
NumbersOK ==
    /\ lo \in Nat /\ hi \in Nat /\ lo <= hi
    /\ startPage \in Nat /\ endPage \in Nat
    /\ hi = lo => DOMAIN where = {}
    /\ hi > lo => startPage <= at[1]
    /\ hi > lo /\ at[2] = 0 => startPage <= endPage
    /\ at[2] = 0 => \A q \in DOMAIN where : q[1] <= endPage

PiecesOK ==
    /\ pieces \in Seq(Pieces)
    /\ \A c \in DOMAIN pieces :
          pieces[c].from < pieces[c].to /\ pieces[c].first <= pieces[c].last

Types == ReadingOK /\ PlacesOK /\ NumbersOK /\ PiecesOK

Pending(q) ==
    /\ lo <= where[q] /\ where[q] + Size(q) <= lo + OverlapChars
    /\ q[1] <= startPage /\ MinChunkChars < Remains(lo)

NewPlace(q, mark) == mark <= where[q] /\ startPage <= q[1]
OldPlace(q, mark) ==
    where[q] + Size(q) + 2 <= mark /\ (InPages(q) \/ InOverlap(q) \/ Pending(q))

\* Little of the buffer is gap; a nonempty one is not blank.
Dense ==
    /\ \A x \in lo .. hi : 3 * (hi - x) - 9 <= 5 * Remains(x)
    /\ hi > lo => 3 <= Remains(lo)

\* A buffer that may be dropped has an overlap before mark, and each of the
\* paragraphs behind mark counts for three quarters of its length at least.
ShortBuffer(mark) ==
    \/ pieces = <<>>
    \/ MinChunkChars < Remains(lo)
    \/ /\ mark - lo = OverlapChars
       /\ 12 * OverlapChars - 36 + 15 * (hi - mark - 1) <= 20 * Remains(lo)

MarkOK(mark) ==
    /\ lo <= mark /\ mark <= hi
    /\ \A c \in DOMAIN pieces : pieces[c].to <= mark
    /\ \A q \in DOMAIN where : NewPlace(q, mark) \/ OldPlace(q, mark)
    /\ ShortBuffer(mark)

Buffer == Dense /\ \E mark \in Nat : MarkOK(mark)

UploadInv == Types /\ (uploadStep = "chunk" => Buffer) /\ UploadTextKept

-----------------------------------------------------------------------------

\* Max and Min of two numbers.
LEMMA MaxOfTwo ==
    ASSUME NEW a \in Int, NEW b \in Int
    PROVE  Max({a, b}) = IF a >= b THEN a ELSE b
  <1>1. \E x \in {a, b} : \A y \in {a, b} : x >= y
    OBVIOUS
  <1>2. Max({a, b}) \in {a, b} /\ \A y \in {a, b} : Max({a, b}) >= y
    BY <1>1 DEF Max
  <1> QED
    BY <1>2

\* A paragraph has characters.
LEMMA SizeOfPlace ==
    ASSUME upload \in Seq(UploadPages), NEW q, q[1] \in DOMAIN upload, q[2] \in Body(q[1])
    PROVE  /\ Size(q) \in Nat /\ Size(q) >= 1
           /\ TwoCharacters => Size(q) >= 2
  <1>1. upload[q[1]] \in UploadPages
    OBVIOUS
  <1>2. TextOf(upload[q[1]]) \in Seq(Paragraphs)
    BY <1>1 DEF TextOf, UploadPages
  <1>3. TextOf(upload[q[1]])[q[2]] \in Paragraphs
    BY <1>2 DEF Body
  <1> QED
    BY <1>3, UploadAssumption DEF Size, TwoCharacters

\* The paragraph that follows is the least place of the page behind k, or the
\* end of the page.
LEMMA FollowingPlace ==
    ASSUME upload \in Seq(UploadPages), NEW p \in DOMAIN upload, NEW k \in Nat,
           k <= Len(TextOf(upload[p]))
    PROVE  /\ Following(p, k) \in Nat /\ Following(p, k) > k
           /\ \A j \in Body(p) : j > k => Following(p, k) <= j
  <1> DEFINE Beyond == {j \in Body(p) : j > k} \cup {Len(TextOf(upload[p])) + 1}
  <1>1. TextOf(upload[p]) \in Seq(Paragraphs)
    <2>1. upload[p] \in UploadPages
      OBVIOUS
    <2> QED
      BY <2>1 DEF TextOf, UploadPages
  <1>2. Beyond \in SUBSET Nat /\ Beyond # {} /\ \A j \in Beyond : j > k
    BY <1>1 DEF Body
  <1>3. Min(Beyond) \in Beyond /\ \A j \in Beyond : Min(Beyond) <= j
    <2> HIDE DEF Beyond
    <2>1. \E a \in Beyond : \A b \in Beyond : a <= b
      BY <1>2, LeastNatural
    <2> QED
      BY <2>1 DEF Min
  <1>4. Following(p, k) = Min(Beyond)
    BY DEF Following
  <1>5. \A j \in Body(p) : j > k => j \in Beyond
    OBVIOUS
  <1> HIDE DEF Beyond
  <1> QED
    BY <1>2, <1>3, <1>4, <1>5

\* The upload does not change, nor what is read of it.
LEMMA SameText ==
    ASSUME upload' = upload
    PROVE  \A p : Body(p)' = Body(p)
  BY DEF Body, Furniture, Cutoff

LEMMA SameSize ==
    ASSUME upload' = upload, NEW q
    PROVE  Size(q)' = Size(q)
  BY DEF Size

LEMMA LabelType ==
    ASSUME NEW shown \in UploadPages
    PROVE  LabelOf(shown) \in Labels
  BY DEF LabelOf, Labels, UploadPages, Recovered

-----------------------------------------------------------------------------

\* Where a step on the page leaves the loop.
LEMMA NextPlace ==
    ASSUME ReadingOK, at[1] \in DOMAIN upload, at[2] \in Body(at[1]) \cup {0},
           at' = <<at[1], Following(at[1], at[2])>>, upload' = upload,
           uploadStep' = uploadStep, label' \in Labels
    PROVE  /\ ReadingOK' /\ at'[1] = at[1] /\ at'[2] > at[2]
           /\ \A k \in Body(at[1]) : k > at[2] => at'[2] <= k
  <1>1. TextOf(upload[at[1]]) \in Seq(Paragraphs)
    <2>1. upload[at[1]] \in UploadPages
      BY DEF ReadingOK
    <2> QED
      BY <2>1 DEF TextOf, UploadPages
  <1>2. at[2] \in Nat /\ at[2] <= Len(TextOf(upload[at[1]]))
    BY <1>1 DEF Body, ReadingOK
  <1> DEFINE following == Following(at[1], at[2])
  <1>3. following \in Nat /\ following > at[2] /\ \A j \in Body(at[1]) : j > at[2] => following <= j
    BY <1>2, FollowingPlace DEF ReadingOK
  <1>4. at' = <<at[1], following>>
    OBVIOUS
  <1> HIDE DEF following
  <1>5. at'[1] = at[1] /\ at'[2] = following
    BY <1>4
  <1>6. at' \in Nat \X Nat /\ at'[1] >= 1 /\ at'[1] \in DOMAIN upload'
    BY <1>3, <1>4, <1>5 DEF ReadingOK
  <1>7. ReadingOK'
    BY <1>6 DEF ReadingOK
  <1> QED
    BY <1>3, <1>5, <1>7

\* A paragraph is laid down behind the ones read before.
LEMMA LayDownPlaces ==
    ASSUME ReadingOK, PlacesOK, hi \in Nat, ChunkingPages, at[2] \in Body(at[1]),
           at[2] # 0, label' = label, NEW begin \in Nat, begin >= hi, LayDown(begin)
    PROVE  /\ ReadingOK' /\ PlacesOK'
           /\ DOMAIN where' = DOMAIN where \cup {at} /\ at \notin DOMAIN where
           /\ where'[at] = begin /\ \A q \in DOMAIN where : where'[q] = where[q]
           /\ Size(at) \in Nat /\ Size(at) >= 1 /\ at'[1] = at[1] /\ at'[2] > at[2]
           /\ hi' = begin + Size(at) + 2
  <1>1. /\ ReadingOK' /\ at'[1] = at[1] /\ at'[2] > at[2]
        /\ \A k \in Body(at[1]) : k > at[2] => at'[2] <= k
    BY NextPlace DEF ChunkingPages, LayDown, ReadingOK
  <1>2. upload' = upload /\ at \in Nat \X Nat /\ at[1] \in DOMAIN upload
    BY DEF ChunkingPages, ReadingOK
  <1>3. at \notin DOMAIN where
    BY <1>2 DEF PlacesOK, IsRead
  <1>4. /\ DOMAIN where' = DOMAIN where \cup {at}
        /\ where'[at] = begin /\ \A q \in DOMAIN where : where'[q] = where[q]
    BY <1>3 DEF LayDown
  <1>5. Size(at) \in Nat /\ Size(at) >= 1
    BY <1>2, SizeOfPlace DEF ReadingOK
  <1>6. hi' = begin + Size(at) + 2
    BY DEF LayDown
  <1>7. DOMAIN where' \subseteq Nat \X Nat
    BY <1>2, <1>4 DEF PlacesOK
  <1>8. ASSUME NEW q \in DOMAIN where'
        PROVE  /\ q[1] \in DOMAIN upload' /\ q[2] \in Body(q[1])' /\ IsRead(q[1], q[2])'
               /\ where'[q] \in Nat /\ where'[q] + Size(q)' + 2 <= hi'
    <2>1. Size(q)' = Size(q) /\ Body(q[1])' = Body(q[1])
      BY <1>2, SameText, SameSize
    <2>2. CASE q = at
      <3>1. IsRead(q[1], q[2])'
        BY <1>1, <2>2 DEF IsRead
      <3> QED
        BY <1>2, <1>4, <1>5, <1>6, <2>1, <2>2, <3>1
    <2>3. CASE q \in DOMAIN where
      <3>1. /\ q[1] \in DOMAIN upload /\ q[2] \in Body(q[1]) /\ IsRead(q[1], q[2])
            /\ where[q] \in Nat /\ where[q] + Size(q) + 2 <= hi
        BY <2>3 DEF PlacesOK
      <3>2. Size(q) \in Nat
        BY <3>1, SizeOfPlace DEF ReadingOK
      <3>3. q[1] \in Nat /\ q[2] \in Nat /\ at[1] \in Nat /\ at[2] \in Nat /\ at'[2] \in Nat
        BY <1>1, <1>2, <2>3 DEF PlacesOK, ReadingOK
      <3>4. IsRead(q[1], q[2])'
        BY <1>1, <3>1, <3>3 DEF IsRead
      <3>5. hi <= hi' /\ hi' \in Nat
        BY <1>5, <1>6
      <3> QED
        BY <1>2, <1>4, <2>1, <2>3, <3>1, <3>2, <3>4, <3>5
    <2> QED
      BY <1>4, <2>2, <2>3
  <1>9. ASSUME NEW p \in DOMAIN upload', NEW k \in Body(p)', IsRead(p, k)'
        PROVE  <<p, k>> \in DOMAIN where'
    <2>1. p \in DOMAIN upload /\ k \in Body(p)
      BY <1>2, SameText
    <2>2. p \in Nat /\ k \in Nat /\ at = <<at[1], at[2]>> /\ at[1] \in Nat /\ at[2] \in Nat
          /\ at'[2] \in Nat
      <3>1. k \in DOMAIN TextOf(upload[p]) /\ upload[p] \in UploadPages
        BY <2>1 DEF Body, ReadingOK
      <3>2. TextOf(upload[p]) \in Seq(Paragraphs)
        BY <3>1 DEF TextOf, UploadPages
      <3>3. p \in Nat
        BY <2>1 DEF ReadingOK
      <3>4. k \in Nat
        BY <3>1, <3>2
      <3> QED
        BY <1>1, <1>2, <3>3, <3>4 DEF ReadingOK
    <2>3. p < at[1] \/ (p = at[1] /\ k < at'[2])
      BY <1>1, <1>9 DEF IsRead
    <2>4. CASE p = at[1] /\ k = at[2]
      BY <1>4, <2>2, <2>4
    <2>5. CASE ~(p = at[1] /\ k = at[2])
      <3>1. p = at[1] => ~(k > at[2])
        BY <1>1, <2>1, <2>2, <2>3
      <3>2. IsRead(p, k)
        BY <2>2, <2>3, <2>5, <3>1 DEF IsRead
      <3> QED
        BY <1>4, <2>1, <3>2 DEF PlacesOK
    <2> QED
      BY <2>4, <2>5
  <1>10. PlacesOK'
    BY <1>7, <1>8, <1>9 DEF PlacesOK
  <1> QED
    BY <1>1, <1>3, <1>4, <1>5, <1>6, <1>10

LEMMA PieceType ==
    ASSUME PiecesOK, NEW c \in DOMAIN pieces
    PROVE  pieces[c].to \in Nat
  <1>1. pieces[c] \in Pieces
    BY DEF PiecesOK
  <1> QED
    BY <1>1 DEF Pieces

\* The chunk that a flush adds.
Chunk(last) ==
    [from |-> lo, to |-> hi, first |-> startPage, last |-> last,
     method |-> label.method, confidence |-> label.confidence]

LEMMA FlushedPieces ==
    ASSUME PiecesOK, lo \in Nat, hi \in Nat, lo < hi, startPage \in Nat, label \in Labels,
           NEW last \in Nat, startPage <= last, pieces' = Flushed(last)
    PROVE  /\ PiecesOK'
           /\ \/ pieces' = pieces
              \/ /\ Len(pieces') = Len(pieces) + 1
                 /\ pieces'[Len(pieces) + 1] = Chunk(last)
                 /\ \A c \in DOMAIN pieces : pieces'[c] = pieces[c]
  <1>1. Chunk(last) \in Pieces
    BY DEF Chunk, Labels, Pieces
  <1>2. CASE pieces' = pieces
    BY <1>2 DEF PiecesOK
  <1>3. CASE pieces' = Append(pieces, Chunk(last))
    <2>1. /\ pieces' \in Seq(Pieces) /\ Len(pieces') = Len(pieces) + 1
          /\ pieces'[Len(pieces) + 1] = Chunk(last)
          /\ \A c \in DOMAIN pieces : pieces'[c] = pieces[c]
      BY <1>1, <1>3 DEF PiecesOK
    <2>2. ASSUME NEW c \in DOMAIN pieces'
          PROVE  pieces'[c].from < pieces'[c].to /\ pieces'[c].first <= pieces'[c].last
      <3>1. CASE c \in DOMAIN pieces
        BY <2>1, <3>1 DEF PiecesOK
      <3>2. CASE c = Len(pieces) + 1
        BY <2>1, <3>2 DEF Chunk
      <3>3. c \in DOMAIN pieces \/ c = Len(pieces) + 1
        BY <2>1 DEF PiecesOK
      <3> QED
        BY <3>1, <3>2, <3>3
    <2> QED
      BY <2>1, <2>2 DEF PiecesOK
  <1> QED
    BY <1>2, <1>3 DEF Flushed, Chunk

LEMMA UploadTypesInit ==
    ASSUME UploadInit
    PROVE  Types
  <1>1. at = <<1, 0>> /\ upload \in Seq(UploadPages) /\ DOMAIN where = {}
    BY DEF UploadInit, UploadStart
  <1>2. ReadingOK
    BY <1>1 DEF UploadInit, UploadStart, ReadingOK, Labels
  <1>3. \A p \in DOMAIN upload : \A k \in Body(p) : ~IsRead(p, k)
    <2>1. ASSUME NEW p \in DOMAIN upload, NEW k \in Body(p) PROVE ~IsRead(p, k)
      <3>1. k \in DOMAIN TextOf(upload[p]) /\ upload[p] \in UploadPages
        BY <1>1 DEF Body
      <3>2. TextOf(upload[p]) \in Seq(Paragraphs)
        BY <3>1 DEF TextOf, UploadPages
      <3>3. k \in Nat /\ k >= 1 /\ p \in Nat /\ p >= 1
        BY <1>1, <3>1, <3>2
      <3> QED
        BY <1>1, <3>3 DEF IsRead
    <2> QED
      BY <2>1
  <1>4. PlacesOK
    BY <1>1, <1>3 DEF PlacesOK
  <1>5. NumbersOK
    BY <1>1 DEF UploadInit, UploadStart, NumbersOK
  <1>6. PiecesOK
    BY DEF UploadInit, UploadStart, PiecesOK
  <1> QED
    BY <1>2, <1>4, <1>5, <1>6 DEF Types

\* Nothing is laid down when the loop goes on to a page or leaves one.
LEMMA PlacesStay ==
    ASSUME ReadingOK, PlacesOK, at' \in Nat \X Nat, UNCHANGED <<upload, where, hi>>,
           \A p \in DOMAIN upload : \A k \in Body(p) : IsRead(p, k)' => IsRead(p, k),
           \A q \in DOMAIN where : IsRead(q[1], q[2]) => IsRead(q[1], q[2])'
    PROVE  PlacesOK'
  <1>1. \A p : Body(p)' = Body(p)
    BY SameText
  <1>2. ASSUME NEW q \in DOMAIN where'
        PROVE  /\ q[1] \in DOMAIN upload' /\ q[2] \in Body(q[1])' /\ IsRead(q[1], q[2])'
               /\ where'[q] \in Nat /\ where'[q] + Size(q)' + 2 <= hi'
    <2>1. Size(q)' = Size(q)
      BY SameSize
    <2> QED
      BY <1>1, <2>1 DEF PlacesOK
  <1>3. ASSUME NEW p \in DOMAIN upload', NEW k \in Body(p)', IsRead(p, k)'
        PROVE  <<p, k>> \in DOMAIN where'
    BY <1>1, <1>3 DEF PlacesOK
  <1>4. DOMAIN where' \subseteq Nat \X Nat
    BY DEF PlacesOK
  <1> QED
    BY <1>2, <1>3, <1>4 DEF PlacesOK

LEMMA TypesSkip ==
    ASSUME Types, SkipBlankPage
    PROVE  Types'
  <1> USE DEF Types
  <1>1. /\ upload' = upload /\ at' = <<at[1] + 1, 0>> /\ at \in Nat \X Nat /\ at[2] = 0
        /\ Body(at[1]) = {} /\ UNCHANGED <<where, lo, hi, startPage, endPage, label, pieces>>
    BY DEF SkipBlankPage, ChunkingPages, ReadingOK
  <1>2. ReadingOK'
    BY <1>1 DEF ReadingOK, SkipBlankPage, ChunkingPages
  <1>3. ASSUME NEW p \in DOMAIN upload, NEW k \in Body(p), IsRead(p, k)'
        PROVE  IsRead(p, k)
    <2>1. k \in DOMAIN TextOf(upload[p]) /\ upload[p] \in UploadPages
      BY DEF Body, ReadingOK
    <2>2. TextOf(upload[p]) \in Seq(Paragraphs)
      BY <2>1 DEF TextOf, UploadPages
    <2>3. k \in Nat /\ p \in Nat /\ p # at[1]
      BY <1>1, <2>1, <2>2 DEF ReadingOK
    <2> QED
      BY <1>1, <1>3, <2>3 DEF IsRead
  <1>4. ASSUME NEW q \in DOMAIN where, IsRead(q[1], q[2])
        PROVE  IsRead(q[1], q[2])'
    <2>1. q[1] \in Nat /\ q[2] \in Nat
      BY DEF PlacesOK
    <2> QED
      BY <1>1, <1>4, <2>1 DEF IsRead
  <1>5. PlacesOK'
    BY <1>1, <1>3, <1>4, PlacesStay
  <1>6. NumbersOK'
    BY <1>1 DEF NumbersOK
  <1>7. PiecesOK'
    BY <1>1 DEF PiecesOK
  <1> QED
    BY <1>2, <1>5, <1>6, <1>7

LEMMA TypesBegin ==
    ASSUME Types, BeginPage
    PROVE  Types'
  <1> USE DEF Types
  <1>1. /\ upload' = upload /\ at' = <<at[1], Following(at[1], at[2])>>
        /\ at \in Nat \X Nat /\ at[2] = 0 /\ at[1] \in DOMAIN upload
        /\ UNCHANGED <<where, lo, hi, startPage, endPage, pieces>>
    BY DEF BeginPage, ChunkingPages, ReadingOK
  <1>2. label' \in Labels
    <2>1. upload[at[1]] \in UploadPages
      BY <1>1 DEF ReadingOK
    <2> QED
      BY <2>1, LabelType DEF BeginPage
  <1>3. /\ ReadingOK' /\ at'[1] = at[1] /\ at'[2] > at[2]
        /\ \A k \in Body(at[1]) : k > at[2] => at'[2] <= k
    BY <1>1, <1>2, NextPlace DEF BeginPage, ChunkingPages
  <1>4. at'[2] \in Nat /\ at[1] \in Nat
    BY <1>1, <1>3 DEF ReadingOK
  <1>5. ASSUME NEW p \in DOMAIN upload, NEW k \in Body(p), IsRead(p, k)'
        PROVE  IsRead(p, k)
    <2>1. k \in DOMAIN TextOf(upload[p]) /\ upload[p] \in UploadPages
      BY DEF Body, ReadingOK
    <2>2. TextOf(upload[p]) \in Seq(Paragraphs)
      BY <2>1 DEF TextOf, UploadPages
    <2>3. k \in Nat /\ k > 0 /\ p \in Nat
      BY <2>1, <2>2 DEF ReadingOK
    <2>4. p = at[1] => at'[2] <= k
      BY <1>1, <1>3, <2>3
    <2> QED
      BY <1>1, <1>3, <1>4, <1>5, <2>3, <2>4 DEF IsRead
  <1>6. ASSUME NEW q \in DOMAIN where, IsRead(q[1], q[2])
        PROVE  IsRead(q[1], q[2])'
    <2>1. q[1] \in Nat /\ q[2] \in Nat
      BY DEF PlacesOK
    <2> QED
      BY <1>1, <1>3, <1>4, <1>6, <2>1 DEF IsRead
  <1>7. PlacesOK'
    BY <1>1, <1>3, <1>5, <1>6, PlacesStay DEF ReadingOK
  <1>8. NumbersOK'
    BY <1>1, <1>3, <1>4 DEF NumbersOK
  <1>9. PiecesOK'
    BY <1>1 DEF PiecesOK
  <1> QED
    BY <1>3, <1>7, <1>8, <1>9

LEMMA TypesEndPage ==
    ASSUME Types, EndPage
    PROVE  Types'
  <1> USE DEF Types
  <1>1. /\ upload' = upload /\ at' = <<at[1] + 1, 0>> /\ at \in Nat \X Nat
        /\ at[1] \in DOMAIN upload /\ at[2] > Len(TextOf(upload[at[1]]))
        /\ UNCHANGED <<where, lo, hi, startPage, label, pieces>> /\ endPage' = at[1]
    BY DEF EndPage, ChunkingPages, ReadingOK
  <1>2. ReadingOK'
    BY <1>1 DEF ReadingOK, EndPage, ChunkingPages
  <1>3. ASSUME NEW p \in DOMAIN upload, NEW k \in Body(p), IsRead(p, k)'
        PROVE  IsRead(p, k)
    <2>1. k \in DOMAIN TextOf(upload[p]) /\ upload[p] \in UploadPages
      BY DEF Body, ReadingOK
    <2>2. TextOf(upload[p]) \in Seq(Paragraphs)
      BY <2>1 DEF TextOf, UploadPages
    <2>3. k \in Nat /\ p \in Nat /\ (p = at[1] => k < at[2])
      BY <1>1, <2>1, <2>2 DEF ReadingOK
    <2> QED
      BY <1>1, <1>3, <2>3 DEF IsRead
  <1>4. ASSUME NEW q \in DOMAIN where
        PROVE  IsRead(q[1], q[2])' /\ q[1] <= at[1]
    <2>1. q[1] \in Nat /\ q[2] \in Nat /\ IsRead(q[1], q[2])
      BY DEF PlacesOK
    <2> QED
      BY <1>1, <1>4, <2>1 DEF IsRead
  <1>5. PlacesOK'
    BY <1>1, <1>3, <1>4, PlacesStay
  <1>6. NumbersOK'
    BY <1>1, <1>4 DEF NumbersOK
  <1>7. PiecesOK'
    BY <1>1 DEF PiecesOK
  <1> QED
    BY <1>2, <1>5, <1>6, <1>7

LEMMA TypesRead ==
    ASSUME Types, ReadParagraph
    PROVE  Types'
  <1> USE DEF Types
  <1>1. /\ LayDown(hi) /\ ChunkingPages /\ at[2] \in Body(at[1]) /\ at[2] # 0
        /\ at \in Nat \X Nat /\ UNCHANGED <<lo, endPage, label, pieces>>
        /\ hi \in Nat /\ lo \in Nat /\ lo <= hi
        /\ startPage' = IF hi = lo THEN at[1] ELSE startPage
    <2>1. TextOf(upload[at[1]]) \in Seq(Paragraphs)
      <3>1. upload[at[1]] \in UploadPages
        BY DEF ReadParagraph, ChunkingPages, ReadingOK
      <3> QED
        BY <3>1 DEF TextOf, UploadPages
    <2> QED
      BY <2>1 DEF ReadParagraph, ReadingOK, NumbersOK, Body
  <1>2. /\ ReadingOK' /\ PlacesOK' /\ at'[1] = at[1] /\ at'[2] > at[2]
        /\ Size(at) \in Nat /\ hi' = hi + Size(at) + 2
    BY <1>1, LayDownPlaces
  <1>3. NumbersOK'
    <2>1. at'[2] # 0 /\ lo' = lo /\ endPage' = endPage /\ hi' > lo
      BY <1>1, <1>2
    <2> QED
      BY <1>1, <1>2, <2>1 DEF NumbersOK
  <1>4. PiecesOK'
    BY <1>1 DEF PiecesOK
  <1> QED
    BY <1>2, <1>3, <1>4

LEMMA TypesCut ==
    ASSUME Types, CutAndRead
    PROVE  Types'
  <1> USE DEF Types
  <1>1. /\ LayDown(hi + 1) /\ ChunkingPages /\ at[2] \in Body(at[1]) /\ at[2] # 0
        /\ at \in Nat \X Nat /\ label' = label
        /\ hi \in Nat /\ lo \in Nat /\ lo < hi /\ lo' = Max({lo, hi - OverlapChars})
        /\ startPage' = at[1] /\ endPage' = at[1] /\ pieces' = Flushed(at[1])
    <2>1. TextOf(upload[at[1]]) \in Seq(Paragraphs)
      <3>1. upload[at[1]] \in UploadPages
        BY DEF CutAndRead, ChunkingPages, ReadingOK
      <3> QED
        BY <3>1 DEF TextOf, UploadPages
    <2> QED
      BY <2>1 DEF CutAndRead, ReadingOK, NumbersOK, Body, TooLong
  <1>2. /\ ReadingOK' /\ PlacesOK' /\ at'[1] = at[1] /\ at'[2] > at[2]
        /\ Size(at) \in Nat /\ hi' = hi + 1 + Size(at) + 2
    BY <1>1, LayDownPlaces
  <1>3. lo' \in Nat /\ lo' <= hi
    BY <1>1, MaxOfTwo, UploadAssumption
  <1>4. NumbersOK'
    <2>1. at'[2] # 0 /\ hi' \in Nat /\ lo' < hi'
      BY <1>1, <1>2, <1>3
    <2> QED
      BY <1>1, <1>2, <1>3, <2>1 DEF NumbersOK
  <1>5. PiecesOK'
    BY <1>1, FlushedPieces DEF NumbersOK, ReadingOK
  <1> QED
    BY <1>2, <1>4, <1>5

LEMMA TypesEndDocument ==
    ASSUME Types, EndDocument
    PROVE  Types'
  <1> USE DEF Types
  <1>1. UNCHANGED <<upload, at, where, lo, hi, startPage, endPage, label>> /\ uploadStep' = "done"
    BY DEF EndDocument
  <1>2. at[2] = 0
    BY DEF EndDocument, ReadingOK
  <1>3. PiecesOK'
    <2>1. CASE hi > lo
      BY <1>1, <1>2, <2>1, FlushedPieces DEF NumbersOK, ReadingOK, EndDocument
    <2>2. CASE ~(hi > lo)
      BY <2>2 DEF EndDocument, PiecesOK
    <2> QED
      BY <2>1, <2>2
  <1>4. ReadingOK'
    BY <1>1 DEF ReadingOK
  <1>5. NumbersOK'
    BY <1>1 DEF NumbersOK
  <1>6. PlacesOK'
    <2>1. \A p, k : IsRead(p, k)' <=> IsRead(p, k)
      BY <1>1 DEF IsRead
    <2> QED
      BY <1>1, <1>4, <2>1, PlacesStay DEF ReadingOK
  <1> QED
    BY <1>3, <1>4, <1>5, <1>6

LEMMA TypesStep ==
    ASSUME Types, [UploadNext]_uploadVars
    PROVE  Types'
  <1>1. CASE UploadNext
    BY <1>1, TypesSkip, TypesBegin, TypesRead, TypesCut, TypesEndPage, TypesEndDocument
       DEF UploadNext
  <1>2. CASE UNCHANGED uploadVars
    <2>1. UNCHANGED <<upload, at, where, lo, hi, uploadStep, startPage, endPage, label, pieces>>
      BY <1>2 DEF uploadVars
    <2>2. \A p, k : IsRead(p, k)' <=> IsRead(p, k)
      BY <2>1 DEF IsRead
    <2>3. PlacesOK'
      BY <2>1, <2>2, PlacesStay DEF Types, ReadingOK
    <2> QED
      BY <2>1, <2>3 DEF Types, ReadingOK, NumbersOK, PiecesOK
  <1> QED
    BY <1>1, <1>2

\* The variables of the chunker keep their types; a chunk never ends before it
\* begins, in the text or in its pages.
THEOREM UploadTypeCorrect == UploadSpec => []UploadTypeOK
  <1>1. UploadInit => Types
    BY UploadTypesInit
  <1>2. Types /\ [UploadNext]_uploadVars => Types'
    BY TypesStep
  <1>3. Types => UploadTypeOK
    BY DEF Types, ReadingOK, PlacesOK, NumbersOK, PiecesOK, UploadTypeOK
  <1> QED
    BY <1>1, <1>2, <1>3, PTL DEF UploadSpec

-----------------------------------------------------------------------------

\* A text laid down before h.
Laid(w, width, h) ==
    \A q \in DOMAIN w :
        w[q] \in Nat /\ width[q] \in Nat /\ width[q] >= 1 /\ w[q] + width[q] + 2 <= h

LEMMA KeptMembers ==
    ASSUME NEW w, NEW width, NEW h \in Nat, Laid(w, width, h), NEW x \in Nat
    PROVE  \A y : y \in KeptIn(w, width, x) <=>
                 /\ y \in Nat /\ x <= y
                 /\ \E q \in DOMAIN w :
                       x < w[q] + width[q] /\ w[q] <= y /\ y <= w[q] + width[q]
  <1> DEFINE Beyond == {p \in DOMAIN w : w[p] + width[p] > x}
             Run(q) == Max({x, w[q]}) .. w[q] + width[q]
  <1>1. ASSUME NEW q \in Beyond, NEW y
        PROVE  y \in Run(q) <=> y \in Nat /\ x <= y /\ w[q] <= y /\ y <= w[q] + width[q]
    <2>1. w[q] \in Nat /\ width[q] \in Nat
      BY DEF Laid
    <2>2. Max({x, w[q]}) = IF x >= w[q] THEN x ELSE w[q]
      BY <2>1, MaxOfTwo
    <2> QED
      BY <2>1, <2>2
  <1>2. \A y : y \in KeptIn(w, width, x) <=> \E q \in Beyond : y \in Run(q)
    BY DEF KeptIn
  <1>3. ASSUME NEW q PROVE q \in Beyond <=> q \in DOMAIN w /\ x < w[q] + width[q]
    BY DEF Laid
  <1> HIDE DEF Beyond, Stretch
  <1> QED
    BY <1>1, <1>2, <1>3

LEMMA CountInterval ==
    ASSUME NEW a \in Int, NEW b \in Int
    PROVE  IsFiniteSet(a .. b) /\ (a <= b + 1 => Cardinality(a .. b) = b - a + 1)
  <1>1. IsFiniteSet(a .. b) /\ Cardinality(a .. b) = IF a > b THEN 0 ELSE b - a + 1
    BY FS_Interval, Zenon
  <1> QED
    BY <1>1

LEMMA CountUnion ==
    ASSUME NEW K, IsFiniteSet(K), NEW T, IsFiniteSet(T), K \cap T = {}
    PROVE  Cardinality(K \cup T) = Cardinality(K) + Cardinality(T)
  <1>1. Cardinality(K \cup T) = Cardinality(K) + Cardinality(T) - Cardinality(K \cap T)
    BY FS_Union, Zenon
  <1>2. Cardinality(K \cap T) = 0
    BY FS_EmptySet
  <1>3. Cardinality(K) \in Nat /\ Cardinality(T) \in Nat
    BY FS_CardinalityType
  <1> QED
    BY <1>1, <1>2, <1>3

LEMMA KeptFinite ==
    ASSUME NEW w, NEW width, NEW h \in Nat, Laid(w, width, h), NEW x \in Nat
    PROVE  /\ IsFiniteSet(KeptIn(w, width, x)) /\ RestIn(w, width, x) \in Nat
           /\ \A y \in KeptIn(w, width, x) : y + 2 <= h
  <1>1. \A y \in KeptIn(w, width, x) : y \in Nat /\ y + 2 <= h
    <2>1. ASSUME NEW y \in KeptIn(w, width, x) PROVE y \in Nat /\ y + 2 <= h
      <3>1. y \in Nat /\ \E q \in DOMAIN w : y <= w[q] + width[q]
        BY KeptMembers
      <3>2. PICK q \in DOMAIN w : y <= w[q] + width[q]
        BY <3>1
      <3>3. w[q] \in Nat /\ width[q] \in Nat /\ w[q] + width[q] + 2 <= h
        BY DEF Laid
      <3> QED
        BY <3>1, <3>2, <3>3
    <2> QED
      BY <2>1
  <1>2. KeptIn(w, width, x) \in SUBSET (0 .. h)
    BY <1>1
  <1>3. IsFiniteSet(KeptIn(w, width, x))
    <2>1. IsFiniteSet(0 .. h)
      BY CountInterval
    <2> QED
      BY <1>2, <2>1, FS_Subset, Zenon
  <1> QED
    BY <1>1, <1>3, FS_CardinalityType DEF RestIn

\* A paragraph laid down behind the rest adds itself and a space.
LEMMA KeptGrows ==
    ASSUME NEW w, NEW width, NEW h \in Nat, Laid(w, width, h),
           NEW a, a \notin DOMAIN w, NEW b \in Nat, h <= b, NEW z \in Nat, z >= 1,
           NEW v, NEW widths, DOMAIN v = DOMAIN w \cup {a}, v[a] = b, widths[a] = z,
           \A q \in DOMAIN w : v[q] = w[q] /\ widths[q] = width[q],
           NEW x \in Nat
    PROVE  /\ Laid(v, widths, b + z + 2)
           /\ x <= h => RestIn(v, widths, x) = RestIn(w, width, x) + z + 1
           /\ h < x /\ b <= h + 1 /\ x <= b + z + 2 =>
                 3 * (b + z + 2 - x) - 9 <= 5 * RestIn(v, widths, x)
  <1>1. Laid(v, widths, b + z + 2)
    <2>1. ASSUME NEW q \in DOMAIN v
          PROVE  /\ v[q] \in Nat /\ widths[q] \in Nat /\ widths[q] >= 1
                 /\ v[q] + widths[q] + 2 <= b + z + 2
      <3>1. CASE q = a
        BY <3>1
      <3>2. CASE q \in DOMAIN w
        <4>1. /\ w[q] \in Nat /\ width[q] \in Nat /\ width[q] >= 1
              /\ w[q] + width[q] + 2 <= h
          BY <3>2 DEF Laid
        <4> QED
          BY <3>2, <4>1
      <3> QED
        BY <3>1, <3>2
    <2> QED
      BY <2>1 DEF Laid
  <1> DEFINE g == b + z + 2
  <1>2. g \in Nat /\ Laid(v, widths, g)
    BY <1>1
  <1>3. \A y : y \in KeptIn(v, widths, x) <=>
                 /\ y \in Nat /\ x <= y
                 /\ \E q \in DOMAIN v :
                       x < v[q] + widths[q] /\ v[q] <= y /\ y <= v[q] + widths[q]
    BY <1>2, KeptMembers
  <1>4. IsFiniteSet(KeptIn(v, widths, x)) /\ RestIn(v, widths, x) \in Nat
    BY <1>2, KeptFinite
  <1>5. \A y : y \in KeptIn(w, width, x) <=>
                 /\ y \in Nat /\ x <= y
                 /\ \E q \in DOMAIN w :
                       x < w[q] + width[q] /\ w[q] <= y /\ y <= w[q] + width[q]
    BY KeptMembers
  <1>6. /\ IsFiniteSet(KeptIn(w, width, x)) /\ RestIn(w, width, x) \in Nat
        /\ \A y \in KeptIn(w, width, x) : y + 2 <= h
    BY KeptFinite
  <1> HIDE DEF g
  <1>7. ASSUME x <= h
        PROVE  RestIn(v, widths, x) = RestIn(w, width, x) + z + 1
    <2>1. ASSUME NEW y
          PROVE  y \in KeptIn(v, widths, x) <=> y \in KeptIn(w, width, x) \/ y \in b .. b + z
      <3>1. (\E q \in DOMAIN v : x < v[q] + widths[q] /\ v[q] <= y /\ y <= v[q] + widths[q])
              <=> \/ x < b + z /\ b <= y /\ y <= b + z
                  \/ \E q \in DOMAIN w :
                        x < w[q] + width[q] /\ w[q] <= y /\ y <= w[q] + width[q]
        OBVIOUS
      <3>2. x < b + z /\ (b <= y => x <= y \/ y \notin Nat)
        BY <1>7
      <3> QED
        BY <1>3, <1>5, <1>7, <3>1, <3>2
    <2>2. KeptIn(v, widths, x) = KeptIn(w, width, x) \cup (b .. b + z)
      BY <2>1
    <2>3. KeptIn(w, width, x) \cap (b .. b + z) = {}
      <3>1. ASSUME NEW y \in KeptIn(w, width, x) PROVE y \notin b .. b + z
        <4>1. y \in Nat /\ y + 2 <= h
          BY <1>5, <1>6
        <4> QED
          BY <4>1
      <3> QED
        BY <3>1
    <2>4. IsFiniteSet(b .. b + z) /\ Cardinality(b .. b + z) = z + 1
      <3>1. b \in Int /\ b + z \in Int /\ b <= b + z + 1 /\ (b + z) - b + 1 = z + 1
        OBVIOUS
      <3> QED
        BY <3>1, CountInterval
    <2>5. Cardinality(KeptIn(w, width, x) \cup (b .. b + z))
             = Cardinality(KeptIn(w, width, x)) + Cardinality(b .. b + z)
      BY <1>6, <2>3, <2>4, CountUnion
    <2>6. RestIn(v, widths, x) = RestIn(w, width, x) + (z + 1)
      BY <2>2, <2>4, <2>5 DEF RestIn
    <2> QED
      BY <1>6, <2>6
  <1>8. ASSUME h < x, b <= h + 1, x <= b + z + 2
        PROVE  3 * (b + z + 2 - x) - 9 <= 5 * RestIn(v, widths, x)
    <2>1. CASE x < b + z
      <3>1. \A y \in x .. b + z : y \in KeptIn(v, widths, x)
        <4>1. ASSUME NEW y \in x .. b + z PROVE y \in KeptIn(v, widths, x)
          <5>1. y \in Nat /\ x <= y /\ b <= y /\ y <= b + z
            BY <1>8
          <5>2. x < v[a] + widths[a] /\ v[a] <= y /\ y <= v[a] + widths[a]
            BY <2>1, <5>1
          <5> QED
            BY <1>3, <5>1, <5>2
        <4> QED
          BY <4>1
      <3>2. Cardinality(x .. b + z) = b + z - x + 1
        <4>1. b + z \in Int /\ x <= b + z + 1
          BY <2>1
        <4> QED
          BY <4>1, CountInterval
      <3>3. Cardinality(x .. b + z) <= RestIn(v, widths, x)
        BY <1>4, <3>1, FS_Subset DEF RestIn
      <3> QED
        BY <1>4, <1>8, <2>1, <3>2, <3>3
    <2>2. CASE ~(x < b + z)
      BY <1>4, <1>8, <2>2
    <2> QED
      BY <2>1, <2>2
  <1> QED
    BY <1>1, <1>7, <1>8

\* What the flush counts is what remains.
LEMMA NormalisedRemains ==
    ASSUME Types
    PROVE  /\ Laid(where, Sizes, hi) /\ DOMAIN Sizes = DOMAIN where
           /\ Remains(lo) \in Nat
           /\ Normalised = IF Remains(lo) = 0 THEN 0 ELSE Remains(lo) - 1
  <1>1. \A q \in DOMAIN where : Sizes[q] = Size(q)
    BY DEF Sizes
  <1>2. Laid(where, Sizes, hi) /\ DOMAIN Sizes = DOMAIN where
    <2>1. ASSUME NEW q \in DOMAIN where
          PROVE  /\ where[q] \in Nat /\ Size(q) \in Nat /\ Size(q) >= 1
                 /\ where[q] + Size(q) + 2 <= hi
      BY SizeOfPlace DEF Types, PlacesOK, ReadingOK
    <2> QED
      BY <1>1, <2>1 DEF Laid, Sizes
  <1>3. IsFiniteSet(KeptIn(where, Sizes, lo)) /\ Remains(lo) \in Nat
    BY <1>2, KeptFinite DEF Types, NumbersOK, Remains
  <1>4. Kept(lo) = KeptIn(where, Sizes, lo)
    <2>1. {p \in DOMAIN where : where[p] + Size(p) > lo}
            = {p \in DOMAIN where : where[p] + Sizes[p] > lo}
      BY <1>1
    <2> DEFINE Beyond == {p \in DOMAIN where : where[p] + Sizes[p] > lo}
    <2>2. \A q \in Beyond : q \in DOMAIN where
      OBVIOUS
    <2>3. Kept(lo) = UNION {Max({lo, where[q]}) .. where[q] + Size(q) : q \in Beyond}
      BY <2>1 DEF Kept
    <2>4. KeptIn(where, Sizes, lo)
            = UNION {Max({lo, where[q]}) .. where[q] + Sizes[q] : q \in Beyond}
      BY DEF KeptIn
    <2> HIDE DEF Beyond
    <2>5. \A q \in Beyond : Max({lo, where[q]}) .. where[q] + Size(q)
                               = Max({lo, where[q]}) .. where[q] + Sizes[q]
      BY <1>1, <2>2
    <2> QED
      BY <2>3, <2>4, <2>5
  <1>5. Remains(lo) = 0 <=> Kept(lo) = {}
    BY <1>3, <1>4, FS_EmptySet DEF Remains, RestIn
  <1>6. Remains(lo) = Cardinality(Kept(lo))
    BY <1>4 DEF Remains, RestIn
  <1> QED
    BY <1>2, <1>3, <1>5, <1>6 DEF Normalised

-----------------------------------------------------------------------------

LEMMA DenseArithmetic ==
    ASSUME NEW g \in Nat, NEW h \in Nat, NEW x \in Nat, NEW z \in Nat, NEW R \in Nat,
           z >= 2, g <= h + z + 3, 3 * (h - x) - 9 <= 5 * R
    PROVE  3 * (g - x) - 9 <= 5 * (R + z + 1)
  <1>1. 3 * (g - x) <= 3 * (h - x) + 3 * z + 9
    OBVIOUS
  <1>2. 3 * z + 9 <= 5 * z + 5
    OBVIOUS
  <1> QED
    BY <1>1, <1>2

\* A paragraph laid down at the end of the buffer, or a space behind it, leaves
\* the buffer dense.
LEMMA LayDownDense ==
    ASSUME TwoCharacters, Types, Types', Dense, ChunkingPages, label' = label,
           at[2] \in Body(at[1]), at[2] # 0,
           NEW begin \in Nat, begin \in {hi, hi + 1}, LayDown(begin),
           lo <= lo', lo' <= hi
    PROVE  /\ Dense'
           /\ \A x \in lo .. hi : /\ RestIn(where, Sizes, x) \in Nat
                                  /\ RestIn(where', Sizes', x)
                                       = RestIn(where, Sizes, x) + Size(at) + 1
  <1> DEFINE z == Size(at)
             w == where
             v == where'
             width == Sizes
             widths == Sizes'
             h == hi
  <1>1. /\ DOMAIN v = DOMAIN w \cup {at} /\ at \notin DOMAIN w
        /\ v[at] = begin /\ \A q \in DOMAIN w : v[q] = w[q]
        /\ hi' = begin + z + 2
    <2>1. hi \in Nat /\ begin >= hi /\ ReadingOK /\ PlacesOK
      BY DEF Types, NumbersOK
    <2> QED
      BY <2>1, LayDownPlaces
  <1>2. z \in Nat /\ z >= 2
    BY SizeOfPlace DEF Types, ReadingOK, ChunkingPages
  <1>3. widths[at] = z /\ \A q \in DOMAIN w : widths[q] = width[q]
    <2>1. \A q \in DOMAIN v : widths[q] = Size(q)'
      BY DEF Sizes
    <2>2. \A q \in DOMAIN w : width[q] = Size(q)
      BY DEF Sizes
    <2>3. upload' = upload
      BY DEF ChunkingPages
    <2>4. Size(at)' = Length[TextOf(upload[at'[1]])[at'[2]]]
      BY <2>3 DEF Size, TextOf, Recovered
    <2>5. ASSUME NEW q \in DOMAIN v PROVE widths[q] = Size(q)
      <3>1. Size(q)' = Size(q)
        BY <2>3, SameSize
      <3> QED
        BY <2>1, <3>1
    <2> QED
      BY <1>1, <2>2, <2>5
  <1>4. Laid(w, width, h) /\ h \in Nat /\ lo \in Nat /\ lo' \in Nat
    BY NormalisedRemains DEF Types, NumbersOK
  <1>5. h <= begin /\ begin <= h + 1 /\ hi' \in Nat
    BY <1>1, <1>2, <1>4
  <1> HIDE DEF z, w, v, width, widths, h
  <1>6. ASSUME NEW x \in Nat
        PROVE  /\ x <= h => RestIn(v, widths, x) = RestIn(w, width, x) + z + 1
               /\ h < x /\ x <= begin + z + 2 =>
                     3 * (begin + z + 2 - x) - 9 <= 5 * RestIn(v, widths, x)
               /\ RestIn(w, width, x) \in Nat /\ RestIn(v, widths, x) \in Nat
    <2>1. z >= 1
      BY <1>2
    <2>2. /\ Laid(v, widths, begin + z + 2)
          /\ x <= h => RestIn(v, widths, x) = RestIn(w, width, x) + z + 1
          /\ h < x /\ begin <= h + 1 /\ x <= begin + z + 2 =>
                3 * (begin + z + 2 - x) - 9 <= 5 * RestIn(v, widths, x)
      BY <1>1, <1>2, <1>3, <1>4, <1>5, <2>1, KeptGrows
    <2>3. begin + z + 2 \in Nat
      BY <1>2
    <2> QED
      BY <1>4, <1>5, <2>2, <2>3, KeptFinite
  <1>7. \A x \in lo .. h : 3 * (h - x) - 9 <= 5 * RestIn(w, width, x)
    BY DEF Dense, Remains, w, width, h
  <1>8. ASSUME NEW x \in lo' .. hi'
        PROVE  3 * (hi' - x) - 9 <= 5 * RestIn(v, widths, x)
    <2>1. x \in Nat /\ lo <= x /\ x <= begin + z + 2
      BY <1>1, <1>2, <1>4
    <2>2. CASE x <= h
      <3>1. 3 * (h - x) - 9 <= 5 * RestIn(w, width, x)
        BY <1>4, <1>7, <2>1, <2>2
      <3>2. RestIn(v, widths, x) = RestIn(w, width, x) + z + 1 /\ RestIn(w, width, x) \in Nat
        BY <1>6, <2>1, <2>2
      <3>3. hi' <= h + z + 3
        BY <1>1, <1>2, <1>4, <1>5
      <3> DEFINE R == RestIn(w, width, x)
      <3>4. R \in Nat /\ 3 * (h - x) - 9 <= 5 * R
        BY <3>1, <3>2
      <3> HIDE DEF R
      <3>5. 3 * (hi' - x) - 9 <= 5 * (R + z + 1)
        BY <1>2, <1>4, <1>5, <2>1, <3>3, <3>4, DenseArithmetic
      <3> QED
        BY <3>2, <3>5 DEF R
    <2>3. CASE h < x
      <3>1. 3 * (begin + z + 2 - x) - 9 <= 5 * RestIn(v, widths, x)
        BY <1>6, <2>1, <2>3
      <3>2. hi' = begin + z + 2
        BY <1>1
      <3> QED
        BY <1>2, <1>6, <2>1, <3>1, <3>2
    <2> QED
      BY <1>4, <2>1, <2>2, <2>3
  <1>9. 3 <= RestIn(v, widths, lo')
    BY <1>2, <1>4, <1>6 DEF h
  <1>10. Dense'
    BY <1>8, <1>9 DEF Dense, Remains, v, widths
  <1>11. \A x \in lo .. hi : /\ RestIn(where, Sizes, x) \in Nat
                             /\ RestIn(where', Sizes', x)
                                  = RestIn(where, Sizes, x) + Size(at) + 1
    BY <1>4, <1>6 DEF z, w, v, width, widths, h
  <1> QED
    BY <1>10, <1>11

\* A paragraph that a chunk accounts for stays accounted for.
LEMMA StaysWhole ==
    ASSUME upload' = upload, NEW q, where'[q] = where[q],
           \A c \in DOMAIN pieces : c \in DOMAIN pieces' /\ pieces'[c] = pieces[c]
    PROVE  (InPages(q) => InPages(q)') /\ (InOverlap(q) => InOverlap(q)')
  <1>1. Size(q)' = Size(q)
    BY SameSize
  <1>2. ASSUME NEW c \in DOMAIN pieces, Whole(q, c)
        PROVE  c \in DOMAIN pieces' /\ Whole(q, c)' /\ pieces'[c] = pieces[c]
    BY <1>1, <1>2 DEF Whole
  <1> QED
    BY <1>1, <1>2 DEF InPages, InOverlap

\* A flush accounts for every paragraph of the buffer, or drops the buffer: then
\* nothing was pending, and what lies behind mark is no longer than an overlap.
LEMMA FlushAccounts ==
    ASSUME Types, Dense, NEW mark \in Nat, MarkOK(mark), lo < hi, upload' = upload,
           NEW last \in Nat, startPage <= last, pieces' = Flushed(last),
           \A q \in DOMAIN where : q[1] <= last /\ where'[q] = where[q]
    PROVE  \/ /\ \A q \in DOMAIN where : InPages(q)' \/ InOverlap(q)'
              /\ Len(pieces') = Len(pieces) + 1
              /\ pieces'[Len(pieces) + 1] = Chunk(last)
           \/ /\ pieces' = pieces /\ pieces # <<>>
              /\ Remains(lo) <= MinChunkChars
              /\ mark - lo = OverlapChars /\ hi - mark <= OverlapChars
              /\ \A q \in DOMAIN where : NewPlace(q, mark) \/ InPages(q)' \/ InOverlap(q)'
  <1>1. /\ lo \in Nat /\ hi \in Nat /\ lo <= mark /\ mark <= hi /\ startPage \in Nat
        /\ pieces \in Seq(Pieces) /\ PiecesOK /\ label \in Labels
    BY DEF Types, NumbersOK, PiecesOK, MarkOK, ReadingOK
  <1>2. ASSUME NEW q \in DOMAIN where
        PROVE  /\ q[1] \in Nat /\ where[q] \in Nat /\ Size(q) \in Nat /\ Size(q)' = Size(q)
               /\ where[q] + Size(q) + 2 <= hi
    BY SizeOfPlace, SameSize DEF Types, PlacesOK, ReadingOK
  <1>3. /\ Remains(lo) \in Nat /\ 3 <= Remains(lo)
        /\ Normalised = IF Remains(lo) = 0 THEN 0 ELSE Remains(lo) - 1
    BY NormalisedRemains DEF Dense
  <1>4. MinChunkChars \in Nat /\ OverlapChars \in Nat
    BY UploadAssumption
  <1>5. CASE Normalised >= MinChunkChars \/ (Normalised > 0 /\ pieces = <<>>)
    <2> PICK n \in Nat : n = Len(pieces) + 1
      BY <1>1
    <2>1. pieces' = Append(pieces, Chunk(last))
      BY <1>5 DEF Flushed, Chunk
    <2>2. /\ Len(pieces') = n /\ n \in DOMAIN pieces' /\ pieces'[n] = Chunk(last)
          /\ \A c \in DOMAIN pieces : c \in DOMAIN pieces' /\ pieces'[c] = pieces[c]
      BY <1>1, <2>1
    <2>3. /\ pieces'[n].from = lo /\ pieces'[n].to = hi
          /\ pieces'[n].first = startPage /\ pieces'[n].last = last
      BY <2>2 DEF Chunk
    <2>4. ASSUME NEW q \in DOMAIN where
          PROVE  InPages(q)' \/ InOverlap(q)'
      <3>1. ASSUME lo <= where[q]
            PROVE  Whole(q, n)'
        BY <1>1, <1>2, <2>3, <3>1 DEF Whole
      <3>2. CASE NewPlace(q, mark)
        <4>1. Whole(q, n)'
          BY <1>1, <1>2, <3>1, <3>2 DEF NewPlace
        <4>2. q[1] \in pieces'[n].first .. pieces'[n].last
          BY <1>1, <1>2, <2>3, <3>2 DEF NewPlace
        <4> QED
          BY <2>2, <4>1, <4>2 DEF InPages
      <3>3. CASE Pending(q)
        <4>1. Whole(q, n)'
          BY <3>1, <3>3 DEF Pending
        <4>2. CASE q[1] = startPage
          <5>1. q[1] \in pieces'[n].first .. pieces'[n].last
            BY <1>1, <1>2, <2>3, <4>2
          <5> QED
            BY <2>2, <4>1, <5>1 DEF InPages
        <4>3. CASE q[1] < startPage
          <5>1. /\ q[1] < pieces'[n].first
                /\ where'[q] + Size(q)' <= pieces'[n].from + OverlapChars
            BY <1>2, <2>3, <3>3, <4>3 DEF Pending
          <5> QED
            BY <2>2, <4>1, <5>1 DEF InOverlap
        <4> QED
          BY <1>1, <1>2, <3>3, <4>2, <4>3 DEF Pending
      <3>4. CASE InPages(q) \/ InOverlap(q)
        BY <2>2, <3>4, StaysWhole
      <3> QED
        BY <3>2, <3>3, <3>4 DEF MarkOK, OldPlace
    <2> QED
      BY <2>2, <2>4
  <1>6. CASE ~(Normalised >= MinChunkChars \/ (Normalised > 0 /\ pieces = <<>>))
    <2>1. pieces' = pieces
      BY <1>6 DEF Flushed
    <2>2. pieces # <<>> /\ Remains(lo) <= MinChunkChars
      BY <1>3, <1>4, <1>6
    <2>3. /\ mark - lo = OverlapChars
          /\ 12 * OverlapChars - 36 + 15 * (hi - mark - 1) <= 20 * Remains(lo)
      BY <1>3, <1>4, <2>2 DEF MarkOK, ShortBuffer
    <2>4. hi - mark <= OverlapChars
      <3> DEFINE R == Remains(lo)
      <3>1. R \in Nat /\ R <= MinChunkChars
        BY <1>3, <2>2
      <3>2. 20 * R + 36 < 27 * OverlapChars
        <4>1. 20 * MinChunkChars + 36 < 27 * OverlapChars
          BY TuningAssumption
        <4> QED
          BY <1>4, <3>1, <4>1
      <3>3. 12 * OverlapChars - 36 + 15 * (hi - mark - 1) <= 20 * R
        BY <2>3
      <3> HIDE DEF R
      <3>4. 15 * (hi - mark - 1) < 15 * OverlapChars
        BY <1>1, <1>4, <3>1, <3>2, <3>3
      <3> QED
        BY <1>1, <1>4, <3>4
    <2>5. ASSUME NEW q \in DOMAIN where
          PROVE  NewPlace(q, mark) \/ InPages(q)' \/ InOverlap(q)'
      <3>1. ~Pending(q)
        BY <1>3, <1>4, <2>2 DEF Pending
      <3>2. InPages(q) \/ InOverlap(q) => InPages(q)' \/ InOverlap(q)'
        BY <2>1, StaysWhole
      <3> QED
        BY <3>1, <3>2 DEF MarkOK, OldPlace
    <2> QED
      BY <2>1, <2>2, <2>3, <2>4, <2>5
  <1> QED
    BY <1>5, <1>6

-----------------------------------------------------------------------------

LEMMA BufferInit ==
    ASSUME UploadInit
    PROVE  Buffer
  <1>1. lo = 0 /\ hi = 0 /\ DOMAIN where = {} /\ pieces = <<>>
    BY DEF UploadInit, UploadStart
  <1>2. Types
    BY UploadTypesInit
  <1>3. Laid(where, Sizes, hi)
    BY <1>2, NormalisedRemains
  <1>4. ASSUME NEW x \in lo .. hi PROVE 3 * (hi - x) - 9 <= 5 * Remains(x)
    <2>1. x = 0
      BY <1>1
    <2>2. RestIn(where, Sizes, x) \in Nat
      BY <1>1, <1>3, <2>1, KeptFinite
    <2> QED
      BY <1>1, <2>1, <2>2 DEF Remains
  <1>5. Dense
    BY <1>1, <1>4 DEF Dense
  <1>6. MarkOK(0)
    BY <1>1 DEF MarkOK, ShortBuffer
  <1> QED
    BY <1>5, <1>6 DEF Buffer

\* Going on to a page, or leaving one, does not touch the buffer.
LEMMA BufferKept ==
    ASSUME Types, Buffer, UNCHANGED <<upload, where, lo, hi, startPage, pieces>>
    PROVE  Buffer'
  <1>1. PICK mark \in Nat : MarkOK(mark)
    BY DEF Buffer
  <1>2. \A q : Size(q)' = Size(q)
    BY SameSize
  <1>3. Sizes' = Sizes
    BY <1>2 DEF Sizes
  <1>4. Dense'
    BY <1>3 DEF Buffer, Dense, Remains
  <1>5. ASSUME NEW q \in DOMAIN where
        PROVE  NewPlace(q, mark)' \/ OldPlace(q, mark)'
    <2>1. CASE NewPlace(q, mark)
      BY <2>1 DEF NewPlace
    <2>2. CASE OldPlace(q, mark)
      <3>1. InPages(q) \/ InOverlap(q) => InPages(q)' \/ InOverlap(q)'
        BY StaysWhole
      <3>2. Pending(q) => Pending(q)'
        BY <1>2, <1>3 DEF Pending, Remains
      <3> QED
        BY <1>2, <2>2, <3>1, <3>2 DEF OldPlace
    <2> QED
      BY <1>1, <2>1, <2>2 DEF MarkOK
  <1>6. ShortBuffer(mark)'
    BY <1>1, <1>3 DEF MarkOK, ShortBuffer, Remains
  <1>7. MarkOK(mark)'
    BY <1>1, <1>5, <1>6 DEF MarkOK
  <1> QED
    BY <1>4, <1>7 DEF Buffer

\* A paragraph read is behind mark.
LEMMA BufferRead ==
    ASSUME TwoCharacters, Types, Types', Buffer, ReadParagraph
    PROVE  Buffer'
  <1>1. PICK mark \in Nat : MarkOK(mark)
    BY DEF Buffer
  <1>2. /\ ChunkingPages /\ LayDown(hi) /\ at[2] \in Body(at[1]) /\ upload' = upload
        /\ lo' = lo /\ label' = label /\ pieces' = pieces
        /\ startPage' = IF hi = lo THEN at[1] ELSE startPage
    BY DEF ReadParagraph, ChunkingPages
  <1>3. /\ hi \in Nat /\ lo \in Nat /\ lo <= hi /\ startPage \in Nat
        /\ (hi = lo => DOMAIN where = {}) /\ (hi > lo => startPage <= at[1])
        /\ at[1] \in Nat /\ mark <= hi /\ lo <= mark
    BY <1>1 DEF Types, NumbersOK, ReadingOK, MarkOK
  <1>4. at[2] # 0
    <2>1. upload[at[1]] \in UploadPages
      BY <1>2 DEF ChunkingPages, Types, ReadingOK
    <2>2. TextOf(upload[at[1]]) \in Seq(Paragraphs)
      BY <2>1 DEF TextOf, UploadPages
    <2> QED
      BY <1>2, <2>2 DEF Body
  <1> DEFINE z == Size(at)
  <1>5. /\ DOMAIN where' = DOMAIN where \cup {at} /\ at \notin DOMAIN where
        /\ where'[at] = hi /\ \A q \in DOMAIN where : where'[q] = where[q]
        /\ hi' = hi + z + 2
    <2>1. hi >= hi /\ ReadingOK /\ PlacesOK
      BY <1>3 DEF Types
    <2> QED
      BY <1>2, <1>3, <1>4, <2>1, LayDownPlaces
  <1>6. z \in Nat /\ z >= 2
    BY <1>2, SizeOfPlace DEF Types, ReadingOK, ChunkingPages
  <1>7. /\ Dense'
        /\ \A x \in lo .. hi : /\ RestIn(where, Sizes, x) \in Nat
                               /\ RestIn(where', Sizes', x) = RestIn(where, Sizes, x) + z + 1
    BY <1>2, <1>3, <1>4, LayDownDense DEF Buffer
  <1>8. Remains(lo) \in Nat /\ Remains(lo)' = Remains(lo) + z + 1
    BY <1>2, <1>3, <1>7 DEF Remains
  <1> HIDE DEF z
  <1>9. ASSUME NEW q \in DOMAIN where'
        PROVE  NewPlace(q, mark)' \/ OldPlace(q, mark)'
    <2>1. CASE q = at
      BY <1>2, <1>3, <1>5, <2>1 DEF NewPlace
    <2>2. CASE q \in DOMAIN where
      <3>1. startPage' = startPage /\ where'[q] = where[q] /\ Size(q)' = Size(q)
        BY <1>2, <1>3, <1>5, <2>2, SameSize
      <3>2. CASE NewPlace(q, mark)
        BY <3>1, <3>2 DEF NewPlace
      <3>3. CASE OldPlace(q, mark)
        <4>1. InPages(q) \/ InOverlap(q) => InPages(q)' \/ InOverlap(q)'
          BY <1>2, <3>1, StaysWhole
        <4>2. MinChunkChars < Remains(lo) => MinChunkChars < Remains(lo)'
          BY <1>6, <1>8, UploadAssumption
        <4>3. Pending(q) => Pending(q)'
          BY <1>2, <3>1, <4>2 DEF Pending
        <4> QED
          BY <3>1, <3>3, <4>1, <4>3 DEF OldPlace
      <3> QED
        BY <1>1, <2>2, <3>2, <3>3 DEF MarkOK
    <2> QED
      BY <1>5, <2>1, <2>2
  <1>10. ShortBuffer(mark)'
    <2> DEFINE R == Remains(lo)
    <2>1. CASE pieces = <<>>
      BY <1>2, <2>1 DEF ShortBuffer
    <2>2. CASE MinChunkChars < Remains(lo)
      <3>1. MinChunkChars < Remains(lo)'
        BY <1>6, <1>8, <2>2, UploadAssumption
      <3> QED
        BY <3>1 DEF ShortBuffer
    <2>3. CASE /\ mark - lo = OverlapChars
               /\ 12 * OverlapChars - 36 + 15 * (hi - mark - 1) <= 20 * R
      <3>1. R \in Nat /\ OverlapChars \in Nat
        BY <1>8, UploadAssumption
      <3> HIDE DEF R
      <3>2. 15 * (hi' - mark - 1) = 15 * (hi - mark - 1) + 15 * z + 30
        BY <1>3, <1>5, <1>6
      <3>3. 15 * z + 30 <= 20 * z + 20
        BY <1>6
      <3>4. 20 * (R + z + 1) = 20 * R + 20 * z + 20
        BY <1>6, <3>1
      <3>5. 15 * (hi - mark - 1) \in Int /\ 12 * OverlapChars - 36 \in Int
        BY <1>3, <3>1
      <3>6. 12 * OverlapChars - 36 + 15 * (hi' - mark - 1) <= 20 * (R + z + 1)
        BY <1>6, <2>3, <3>1, <3>2, <3>3, <3>4, <3>5
      <3>7. Remains(lo)' = R + z + 1
        BY <1>8 DEF R
      <3> QED
        BY <1>2, <2>3, <3>6, <3>7 DEF ShortBuffer
    <2> QED
      BY <1>1, <2>1, <2>2, <2>3 DEF MarkOK, ShortBuffer
  <1>11. MarkOK(mark)'
    <2>1. mark <= hi' /\ lo' <= mark
      BY <1>2, <1>3, <1>5, <1>6
    <2> QED
      BY <1>1, <1>2, <1>9, <1>10, <2>1 DEF MarkOK
  <1> QED
    BY <1>7, <1>11 DEF Buffer

\* At a cut the end of the buffer becomes the mark.
LEMMA BufferCut ==
    ASSUME TwoCharacters, Types, Types', Buffer, CutAndRead
    PROVE  Buffer'
  <1>1. PICK mark \in Nat : MarkOK(mark)
    BY DEF Buffer
  <1>2. /\ ChunkingPages /\ LayDown(hi + 1) /\ at[2] \in Body(at[1]) /\ upload' = upload
        /\ lo' = Max({lo, hi - OverlapChars}) /\ label' = label
        /\ pieces' = Flushed(at[1]) /\ startPage' = at[1]
        /\ hi > lo /\ (hi - lo) + Size(at) > MaxChunkChars
    BY DEF CutAndRead, ChunkingPages, TooLong
  <1>3. /\ hi \in Nat /\ lo \in Nat /\ startPage \in Nat /\ startPage <= at[1]
        /\ at[1] \in Nat /\ mark <= hi /\ lo <= mark
    BY <1>1, <1>2 DEF Types, NumbersOK, ReadingOK, MarkOK
  <1>4. MinChunkChars \in Nat /\ MaxChunkChars \in Nat /\ OverlapChars \in Nat
    BY UploadAssumption
  <1>5. lo' = IF lo >= hi - OverlapChars THEN lo ELSE hi - OverlapChars
    BY <1>2, <1>3, <1>4, MaxOfTwo
  <1>6. lo' \in Nat /\ lo <= lo' /\ lo' <= hi /\ hi - OverlapChars <= lo'
    BY <1>3, <1>4, <1>5
  <1>7. at[2] # 0
    <2>1. upload[at[1]] \in UploadPages
      BY <1>2 DEF ChunkingPages, Types, ReadingOK
    <2>2. TextOf(upload[at[1]]) \in Seq(Paragraphs)
      BY <2>1 DEF TextOf, UploadPages
    <2> QED
      BY <1>2, <2>2 DEF Body
  <1> DEFINE z == Size(at)
  <1>8. /\ DOMAIN where' = DOMAIN where \cup {at} /\ at \notin DOMAIN where
        /\ where'[at] = hi + 1 /\ \A q \in DOMAIN where : where'[q] = where[q]
        /\ hi' = hi + 1 + z + 2
    <2>1. hi + 1 >= hi /\ hi + 1 \in Nat /\ ReadingOK /\ PlacesOK
      BY <1>3 DEF Types
    <2> QED
      BY <1>2, <1>3, <1>7, <2>1, LayDownPlaces
  <1>9. z \in Nat /\ z >= 2
    BY <1>2, SizeOfPlace DEF Types, ReadingOK, ChunkingPages
  <1>10. /\ Dense'
         /\ \A x \in lo .. hi : /\ RestIn(where, Sizes, x) \in Nat
                                /\ RestIn(where', Sizes', x) = RestIn(where, Sizes, x) + z + 1
    <2>1. hi + 1 \in Nat /\ hi + 1 \in {hi, hi + 1}
      BY <1>3
    <2> QED
      BY <1>2, <1>6, <1>7, <2>1, LayDownDense DEF Buffer
  <1> DEFINE R == RestIn(where, Sizes, lo')
  <1>11. R \in Nat /\ Remains(lo)' = R + z + 1
    <2>1. lo' \in lo .. hi
      BY <1>3, <1>6
    <2> QED
      BY <1>10, <2>1 DEF Remains
  <1>12. 3 * (hi - lo') - 9 <= 5 * R /\ 3 * (hi - lo) - 9 <= 5 * Remains(lo)
    <2>1. lo' \in lo .. hi /\ lo \in lo .. hi
      BY <1>3, <1>6
    <2> QED
      BY <2>1 DEF Buffer, Dense, Remains
  <1>13. Remains(lo) \in Nat
    BY NormalisedRemains
  <1>14. ASSUME NEW q \in DOMAIN where
         PROVE  /\ q[1] \in Nat /\ q[1] <= at[1] /\ where'[q] = where[q]
                /\ where[q] \in Nat /\ Size(q) \in Nat /\ Size(q)' = Size(q)
                /\ where[q] + Size(q) + 2 <= hi
    <2>1. q[1] \in Nat /\ IsRead(q[1], q[2]) /\ where[q] \in Nat
      BY DEF Types, PlacesOK
    <2>2. Size(q) \in Nat /\ Size(q)' = Size(q) /\ where[q] + Size(q) + 2 <= hi
      BY <1>2, SizeOfPlace, SameSize DEF Types, PlacesOK, ReadingOK
    <2> QED
      BY <1>3, <1>8, <2>1, <2>2 DEF IsRead
  <1>15. \/ /\ \A q \in DOMAIN where : InPages(q)' \/ InOverlap(q)'
            /\ Len(pieces') = Len(pieces) + 1
            /\ pieces'[Len(pieces) + 1] = Chunk(at[1])
         \/ /\ pieces' = pieces /\ pieces # <<>>
            /\ Remains(lo) <= MinChunkChars
            /\ mark - lo = OverlapChars /\ hi - mark <= OverlapChars
            /\ \A q \in DOMAIN where : NewPlace(q, mark) \/ InPages(q)' \/ InOverlap(q)'
    <2>1. \A q \in DOMAIN where : q[1] <= at[1] /\ where'[q] = where[q]
      BY <1>14
    <2>2. Dense /\ lo < hi
      BY <1>2, <1>3 DEF Buffer
    <2> QED
      BY <1>1, <1>2, <1>3, <2>1, <2>2, FlushAccounts
  <1> HIDE DEF z, R
  <1>16. ASSUME Remains(lo) <= MinChunkChars
         PROVE  MinChunkChars < z
    <2>1. 3 * (hi - lo) - 9 <= 5 * MinChunkChars
      BY <1>3, <1>4, <1>12, <1>13, <1>16
    <2>2. (hi - lo) + z > MaxChunkChars
      BY <1>2 DEF z
    <2>3. 8 * MinChunkChars + 9 <= 3 * MaxChunkChars
      BY TuningAssumption
    <2> QED
      BY <1>3, <1>4, <1>9, <2>1, <2>2, <2>3
  <1>17. PICK cut \in Nat : cut = hi
    BY <1>3
  <1>18. ASSUME NEW q \in DOMAIN where
         PROVE  OldPlace(q, cut)'
    <2>1. where'[q] + Size(q)' + 2 <= cut
      BY <1>14, <1>17
    <2>2. CASE InPages(q)' \/ InOverlap(q)'
      BY <2>1, <2>2 DEF OldPlace
    <2>3. CASE /\ NewPlace(q, mark) /\ Remains(lo) <= MinChunkChars
               /\ mark - lo = OverlapChars /\ hi - mark <= OverlapChars
      <3>1. lo' = hi - OverlapChars /\ lo' <= mark /\ mark <= where[q]
        BY <1>3, <1>4, <1>5, <2>3 DEF NewPlace
      <3>2. lo' <= where'[q] /\ where'[q] + Size(q)' <= lo' + OverlapChars
        BY <1>3, <1>4, <1>6, <1>14, <3>1
      <3>3. MinChunkChars < Remains(lo)'
        BY <1>4, <1>9, <1>11, <1>16, <2>3
      <3>4. q[1] <= startPage'
        BY <1>2, <1>14
      <3>5. Pending(q)'
        BY <3>2, <3>3, <3>4 DEF Pending
      <3> QED
        BY <2>1, <3>5 DEF OldPlace
    <2> QED
      BY <1>15, <2>2, <2>3
  <1>19. ASSUME NEW q \in DOMAIN where'
         PROVE  NewPlace(q, cut)' \/ OldPlace(q, cut)'
    <2>1. CASE q = at
      BY <1>2, <1>3, <1>8, <1>17, <2>1 DEF NewPlace
    <2> QED
      BY <1>8, <1>18, <2>1
  <1>20. ShortBuffer(cut)'
    <2>1. CASE lo >= hi - OverlapChars
      <3>1. hi - lo <= OverlapChars /\ (hi - lo) + z > MaxChunkChars
        BY <1>2, <1>3, <1>4, <2>1 DEF z
      <3>2. MinChunkChars < z
        BY <1>3, <1>4, <1>9, <3>1, TuningAssumption
      <3>3. MinChunkChars < Remains(lo)'
        BY <1>4, <1>9, <1>11, <3>2
      <3> QED
        BY <3>3 DEF ShortBuffer
    <2>2. CASE ~(lo >= hi - OverlapChars)
      <3>1. lo' = hi - OverlapChars /\ hi - lo' = OverlapChars
        BY <1>3, <1>4, <1>5, <2>2
      <3>2. 12 * OverlapChars - 36 <= 20 * R
        BY <1>4, <1>11, <1>12, <3>1
      <3>3. hi' - cut - 1 = z + 2
        BY <1>3, <1>8, <1>9, <1>17 DEF z
      <3>4. 15 * (z + 2) <= 20 * z + 20 /\ 20 * (R + z + 1) = 20 * R + 20 * z + 20
        BY <1>9, <1>11
      <3>5. 12 * OverlapChars - 36 + 15 * (hi' - cut - 1) <= 20 * Remains(lo)'
        BY <1>4, <1>9, <1>11, <3>2, <3>3, <3>4
      <3> QED
        BY <1>17, <3>1, <3>5 DEF ShortBuffer
    <2> QED
      BY <2>1, <2>2
  <1>21. ASSUME NEW c \in DOMAIN pieces'
         PROVE  pieces'[c].to <= cut
    <2>1. \/ pieces' = pieces
          \/ /\ Len(pieces') = Len(pieces) + 1
             /\ pieces'[Len(pieces) + 1] = Chunk(at[1])
             /\ \A d \in DOMAIN pieces : pieces'[d] = pieces[d]
      BY <1>2, <1>3, FlushedPieces DEF Types, ReadingOK
    <2>2. CASE c \in DOMAIN pieces
      <3>1. pieces'[c] = pieces[c]
        BY <2>1, <2>2
      <3>2. pieces[c].to <= mark
        BY <1>1, <2>2 DEF MarkOK
      <3>3. pieces[c].to \in Nat
        BY <2>2, PieceType DEF Types
      <3> QED
        BY <1>3, <1>17, <3>1, <3>2, <3>3
    <2>3. CASE c \notin DOMAIN pieces
      <3>1. pieces \in Seq(Pieces) /\ pieces' \in Seq(Pieces)
        BY DEF Types, PiecesOK
      <3>2. c = Len(pieces) + 1 /\ pieces'[c] = Chunk(at[1])
        BY <2>1, <2>3, <3>1
      <3>3. pieces'[c].to = hi
        BY <3>2 DEF Chunk
      <3> QED
        BY <1>3, <1>17, <3>3
    <2> QED
      BY <2>2, <2>3
  <1>22. MarkOK(cut)'
    <2>1. lo' <= cut /\ cut <= hi'
      BY <1>3, <1>6, <1>8, <1>9, <1>17
    <2> QED
      BY <1>19, <1>20, <1>21, <2>1 DEF MarkOK
  <1> QED
    BY <1>10, <1>22 DEF Buffer

-----------------------------------------------------------------------------

\* At the end the last buffer is flushed; what a drop loses lies behind mark.
LEMMA KeptAtTheEnd ==
    ASSUME Types, Types', Buffer, EndDocument
    PROVE  UploadTextKept'
  <1>1. PICK mark \in Nat : MarkOK(mark)
    BY DEF Buffer
  <1>2. /\ UNCHANGED <<upload, at, where, lo, hi, startPage, endPage, label>>
        /\ at[1] > Len(upload) /\ pieces' = IF hi > lo THEN Flushed(endPage) ELSE pieces
    BY DEF EndDocument
  <1>3. /\ hi \in Nat /\ lo \in Nat /\ startPage \in Nat /\ endPage \in Nat
        /\ mark <= hi /\ lo <= mark /\ lo <= hi /\ (hi = lo => DOMAIN where = {})
        /\ upload \in Seq(UploadPages)
    BY <1>1 DEF Types, NumbersOK, ReadingOK, MarkOK
  <1>4. at[2] = 0
    BY <1>2 DEF Types, ReadingOK
  <1>5. ASSUME NEW p \in DOMAIN upload, NEW k \in Body(p)
        PROVE  <<p, k>> \in DOMAIN where
    <2>1. p \in Nat /\ p <= Len(upload) /\ at[1] \in Nat
      BY <1>3 DEF Types, ReadingOK
    <2>2. IsRead(p, k)
      BY <1>2, <2>1 DEF IsRead
    <2> QED
      BY <2>2 DEF Types, PlacesOK
  <1>6. ASSUME NEW q \in DOMAIN where
        PROVE  InPages(q)' \/ InOverlap(q)' \/ LostAtTheEnd(q)'
    <2>1. lo < hi
      BY <1>3
    <2>2. \/ \A r \in DOMAIN where : InPages(r)' \/ InOverlap(r)'
          \/ /\ pieces' = pieces /\ pieces # <<>>
             /\ mark - lo = OverlapChars /\ hi - mark <= OverlapChars
             /\ \A r \in DOMAIN where : NewPlace(r, mark) \/ InPages(r)' \/ InOverlap(r)'
      <3>1. \A r \in DOMAIN where : r[1] <= endPage /\ where'[r] = where[r]
        BY <1>2, <1>4 DEF Types, NumbersOK
      <3>2. startPage <= endPage /\ pieces' = Flushed(endPage) /\ Dense
        BY <1>2, <1>4, <2>1 DEF Types, NumbersOK, Buffer
      <3> QED
        BY <1>1, <1>2, <1>3, <2>1, <3>1, <3>2, FlushAccounts
    <2>3. CASE InPages(q)' \/ InOverlap(q)'
      BY <2>3
    <2>4. CASE /\ pieces' = pieces /\ pieces # <<>>
               /\ hi - mark <= OverlapChars /\ NewPlace(q, mark)
      <3>1. where[q] \in Nat /\ mark <= where[q]
        BY <2>4 DEF Types, PlacesOK, NewPlace
      <3>2. hi - where[q] < MinChunkChars
        BY <1>3, <2>4, <3>1, UploadAssumption, TuningAssumption
      <3>3. ASSUME NEW r \in DOMAIN where, where[r] >= where[q], NEW c \in DOMAIN pieces
            PROVE  ~Whole(r, c)'
        <4>1. where[r] \in Nat /\ Size(r) \in Nat /\ Size(r) >= 1 /\ Size(r)' = Size(r)
          BY <1>2, SizeOfPlace, SameSize DEF Types, PlacesOK, ReadingOK
        <4>2. pieces[c].to <= mark
          BY <1>1 DEF MarkOK
        <4>3. pieces[c].to \in Nat
          BY PieceType DEF Types
        <4>4. ~(where[r] + Size(r) <= pieces[c].to)
          BY <1>3, <3>1, <3>3, <4>1, <4>2, <4>3
        <4> QED
          BY <1>2, <2>4, <4>1, <4>4 DEF Whole
      <3>4. ASSUME NEW r \in DOMAIN where', where'[r] >= where'[q]
            PROVE  Lost(r)'
        <4>1. \A c \in DOMAIN pieces' : ~Whole(r, c)'
          BY <1>2, <2>4, <3>3, <3>4
        <4> QED
          BY <4>1 DEF Lost
      <3> QED
        BY <1>2, <2>4, <3>2, <3>4 DEF LostAtTheEnd
    <2> QED
      BY <2>2, <2>3, <2>4
  <1>7. \A p : Body(p)' = Body(p)
    BY <1>2, SameText
  <1>8. ASSUME NEW p \in DOMAIN upload', NEW k \in Body(p)'
        PROVE  /\ <<p, k>> \in DOMAIN where'
               /\ InPages(<<p, k>>)' \/ InOverlap(<<p, k>>)' \/ LostAtTheEnd(<<p, k>>)'
    <2>1. <<p, k>> \in DOMAIN where
      BY <1>2, <1>5, <1>7
    <2> QED
      BY <1>2, <1>6, <2>1
  <1> QED
    BY <1>8 DEF UploadTextKept

LEMMA UploadInvInit ==
    ASSUME UploadInit
    PROVE  UploadInv
  <1>1. UploadTextKept
    BY DEF UploadInit, UploadStart, UploadTextKept
  <1> QED
    BY <1>1, UploadTypesInit, BufferInit DEF UploadInv

LEMMA UploadInvStep ==
    ASSUME TwoCharacters, UploadInv, [UploadNext]_uploadVars
    PROVE  UploadInv'
  <1>1. Types /\ Types'
    BY TypesStep DEF UploadInv
  <1>2. CASE UploadNext
    <2>1. uploadStep = "chunk" /\ Buffer
      BY <1>2 DEF UploadInv, UploadNext, SkipBlankPage, BeginPage, ReadParagraph,
                  CutAndRead, EndPage, EndDocument, ChunkingPages
    <2>2. CASE EndDocument
      <3>1. uploadStep' = "done"
        BY <2>2 DEF EndDocument
      <3> QED
        BY <1>1, <2>1, <2>2, <3>1, KeptAtTheEnd DEF UploadInv
    <2>3. ASSUME uploadStep' = uploadStep, Buffer'
          PROVE  UploadInv'
      BY <1>1, <2>1, <2>3 DEF UploadInv, UploadTextKept
    <2>4. CASE SkipBlankPage
      BY <1>1, <2>1, <2>3, <2>4, BufferKept DEF SkipBlankPage, ChunkingPages
    <2>5. CASE BeginPage
      BY <1>1, <2>1, <2>3, <2>5, BufferKept DEF BeginPage, ChunkingPages
    <2>6. CASE EndPage
      BY <1>1, <2>1, <2>3, <2>6, BufferKept DEF EndPage, ChunkingPages
    <2>7. CASE ReadParagraph
      <3>1. Buffer' /\ uploadStep' = uploadStep
        BY <1>1, <2>1, <2>7, BufferRead DEF ReadParagraph, ChunkingPages
      <3> QED
        BY <2>3, <3>1
    <2>8. CASE CutAndRead
      <3>1. Buffer' /\ uploadStep' = uploadStep
        BY <1>1, <2>1, <2>8, BufferCut DEF CutAndRead, ChunkingPages
      <3> QED
        BY <2>3, <3>1
    <2> QED
      BY <1>2, <2>2, <2>4, <2>5, <2>6, <2>7, <2>8 DEF UploadNext
  <1>3. CASE UNCHANGED uploadVars
    <2>1. UNCHANGED <<upload, where, lo, hi, startPage, pieces, uploadStep>>
      BY <1>3 DEF uploadVars
    <2>2. uploadStep' = "chunk" => Buffer'
      BY <1>1, <2>1, BufferKept DEF UploadInv
    <2>3. UploadTextKept'
      <3>1. \A p : Body(p)' = Body(p)
        BY <2>1, SameText
      <3>2. ASSUME NEW p \in DOMAIN upload', NEW k \in Body(p)', uploadStep' = "done"
            PROVE  /\ <<p, k>> \in DOMAIN where'
                   /\ \/ InPages(<<p, k>>)' \/ InOverlap(<<p, k>>)'
                      \/ LostAtTheEnd(<<p, k>>)'
        <4>1. /\ <<p, k>> \in DOMAIN where
              /\ InPages(<<p, k>>) \/ InOverlap(<<p, k>>) \/ LostAtTheEnd(<<p, k>>)
          BY <2>1, <3>1, <3>2 DEF UploadInv, UploadTextKept
        <4>2. InPages(<<p, k>>) => InPages(<<p, k>>)'
          BY <2>1, StaysWhole
        <4>3. InOverlap(<<p, k>>) => InOverlap(<<p, k>>)'
          BY <2>1, StaysWhole
        <4>4. \A r, c : Whole(r, c)' <=> Whole(r, c)
          BY <2>1 DEF Whole, Size, TextOf, Recovered
        <4>5. LostAtTheEnd(<<p, k>>) => LostAtTheEnd(<<p, k>>)'
          BY <2>1, <4>4 DEF LostAtTheEnd, Lost
        <4> QED
          BY <2>1, <4>1, <4>2, <4>3, <4>5
      <3> QED
        BY <3>2 DEF UploadTextKept
    <2> QED
      BY <1>1, <2>2, <2>3 DEF UploadInv
  <1> QED
    BY <1>2, <1>3

\* Every paragraph of an uploaded document is whole in a chunk whose pages
\* include its page, but for the two exceptions that UploadTextKept names; of a
\* document without paragraphs of a single character (documents.py:193
\* _chunk_pages).
THEOREM UploadedTextIsKept ==
    ASSUME TwoCharacters
    PROVE  UploadSpec => []UploadTextKept
  <1>1. UploadInit => UploadInv
    BY UploadInvInit
  <1>2. UploadInv /\ [UploadNext]_uploadVars => UploadInv'
    BY UploadInvStep
  <1>3. UploadInv => UploadTextKept
    BY DEF UploadInv
  <1> QED
    BY <1>1, <1>2, <1>3, PTL DEF UploadSpec

-----------------------------------------------------------------------------

\* The variables of the three readers keep their types.
THEOREM ReadersTypeCorrect == WalkSpec /\ FormSpec /\ UploadSpec => []TypeOK
  <1>1. WalkSpec => []WalkTypeOK
    BY WalkTypes
  <1>2. FormSpec => []FormTypeOK
    BY FormTypeCorrect
  <1>3. UploadSpec => []UploadTypeOK
    BY UploadTypeCorrect
  <1>4. WalkTypeOK /\ FormTypeOK /\ UploadTypeOK => TypeOK
    BY DEF TypeOK
  <1> QED
    BY <1>1, <1>2, <1>3, <1>4, PTL

================================================================================
