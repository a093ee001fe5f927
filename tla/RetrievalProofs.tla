-------------------------- MODULE RetrievalProofs --------------------------
(***************************************************************************)
(* What RetrievalService.retrieve guarantees for every set of Acts, every  *)
(* corpus, every question and every pair of thresholds.                    *)
(***************************************************************************)
EXTENDS Retrieval, TLAPS

-----------------------------------------------------------------------------
(* Lemmas about the plan of a question.                                    *)

\* A mention is a section number, with an Act or with none.
LEMMA MentionsType ==
    ASSUME NEW q \in Questions
    PROVE  Mentions(q) \subseteq (Acts \cup {NoAct}) \X Numbers
<1>1. Owner(q) \in Acts \cup {NoAct}
  <2>1. ActsOf(q) \subseteq Acts
    BY DEF ActsOf, Questions
  <2>2. CASE Single(ActsOf(q))
    <3>1. \E a \in Acts : ActsOf(q) = {a}
      BY <2>1, <2>2 DEF Single
    <3> QED BY <2>2, <3>1 DEF Owner
  <2> QED BY <2>2 DEF Owner
<1>2. q.bare \subseteq Acts \X Numbers /\ q.keyword \subseteq Numbers
  BY DEF Questions
<1> QED BY <1>1, <1>2 DEF Mentions

\* The correction keeps the Acts and the sections of a question: it names
\* again only numbers that are named already (rewrite_query).
LEMMA RewriteKeepsMentions ==
    ASSUME NEW q \in Questions
    PROVE  /\ Rewrite(q) \in Questions
           /\ ActsOf(Rewrite(q)) = ActsOf(q)
           /\ Mentions(Rewrite(q)) = Mentions(q)
<1> DEFINE given == {b[2] : b \in q.bare}
           anchors == {m[2] : m \in Mentions(q)}
<1>1. anchors \subseteq Numbers
  BY MentionsType
<1>2. /\ Rewrite(q).named = q.named
      /\ Rewrite(q).bare = q.bare
      /\ Rewrite(q).keyword = q.keyword \cup anchors
  BY DEF Rewrite, Questions
<1>3. Rewrite(q) \in Questions
  BY <1>1 DEF Rewrite, Questions
<1>4. ActsOf(Rewrite(q)) = ActsOf(q) /\ Owner(Rewrite(q)) = Owner(q)
  BY <1>2 DEF ActsOf, Owner
<1>5. (q.keyword \cup anchors) \ given = q.keyword \ given
  <2>1. ASSUME NEW n \in anchors, n \notin given PROVE n \in q.keyword
    BY <2>1 DEF Mentions
  <2> QED BY <2>1
<1>6. Mentions(Rewrite(q)) =
        q.bare \cup {<<Owner(q), n>> : n \in (q.keyword \cup anchors) \ given}
  BY <1>2, <1>4 DEF Mentions
<1> QED BY <1>3, <1>4, <1>5, <1>6 DEF Mentions

\* Only a question that may refer to a document searches the documents, and
\* the exact route searches nothing but the sections it names.
LEMMA RouteSearches ==
    ASSUME NEW q \in Questions, NEW hasDocs \in BOOLEAN
    PROVE  /\ Route(q, hasDocs) \in Routes
           /\ Searches(Route(q, hasDocs)) \subseteq {"sections", "statute", "documents"}
           /\ "documents" \in Searches(Route(q, hasDocs)) => hasDocs
           /\ Route(q, hasDocs) = "direct_section" =>
                Searches(Route(q, hasDocs)) = {"sections"}
<1>1. Route(q, hasDocs) \in Routes
  BY DEF Route, Routes
<1>2. Route(q, hasDocs) \in {"both", "session_doc"} => hasDocs
  BY DEF Route, RefersToDocument
<1> QED BY <1>1, <1>2 DEF Routes, Searches

\* A section that is fetched is mentioned, with its Act or without any.
LEMMA WantedIsMentioned ==
    ASSUME NEW q \in Questions, NEW known, NEW c \in Wanted(q, known)
    PROVE  \/ c \in Mentions(q)
           \/ <<NoAct, c[2]>> \in Mentions(q) /\ c[1] = DefaultAct
<1>1. PICK r \in Resolved(q, known) :
        c = <<IF r[1] = NoAct THEN DefaultAct ELSE r[1], r[2]>>
  BY DEF Wanted
<1>2. PICK m \in Mentions(q) :
        \/ r = m
        \/ r = <<IF m[1] = NoAct THEN DefaultAct ELSE m[1], m[2]>>
  BY <1>1 DEF Resolved
<1>3. m = <<m[1], m[2]>>
  BY MentionsType, <1>2
<1>4. DefaultAct # NoAct
  BY QueryAssumption
<1>5. c = <<IF m[1] = NoAct THEN DefaultAct ELSE m[1], m[2]>>
  BY <1>1, <1>2, <1>3, <1>4
<1> QED BY <1>2, <1>3, <1>5

-----------------------------------------------------------------------------
(* The inductive invariant.                                                *)

\* The confidence of a result is backed by the corpus its passages are from.
Backed(r) ==
    /\ r.confidence # LowConfidence =>
         \/ r.chunks # {} /\ r.statute >= Low
         \/ r.documents # {} /\ r.documentary >= DocumentLow
    /\ r.confidence = LowConfidence => r.score < 100

\* Its document passages were asked for and are the asker's.
Own(r) ==
    /\ r.documents \subseteq {asked.session}
    /\ r.documents # {} => asked.hasDocs

Direct == Route(text, asked.hasDocs) = "direct_section"

TextOrder ==
    text = IF attempt = 1 THEN asked.question ELSE Rewrite(asked.question)

ResultOrder ==
    /\ Backed(found) /\ Own(found)
    /\ Backed(first) /\ Own(first)
    /\ attempt = 2 => first.confidence = LowConfidence

SearchOrder ==
    /\ "documents" \in todo => asked.hasDocs
    /\ step # "plan" /\ Direct =>
         todo \subseteq {"sections"} /\ found.chunks \subseteq Wanted(text, asked.known)

Kept == IF attempt = 1 \/ found.score > first.score THEN found ELSE first

ReturnOrder ==
    Returned =>
        /\ ~Correctable
        /\ result = [Kept EXCEPT !.disambiguation =
                       Ambiguous(asked.question, asked.known)]

RetrievalInv ==
    TypeOK /\ TextOrder /\ ResultOrder /\ SearchOrder /\ ReturnOrder

-----------------------------------------------------------------------------
(* Lemmas about results.                                                   *)

LEMMA NothingIsBacked == Nothing \in Results /\ Backed(Nothing) /\ Own(Nothing)
BY DEF Nothing, StatuteResult, Results, Backed, Own, LowConfidence, Moderate, HighConfidence

\* A grade above low means that the score passed the threshold of its corpus,
\* and a full score is never low.
LEMMA GradeIsEarned ==
    ASSUME NEW score \in 0 .. 100, NEW statute \in BOOLEAN
    PROVE  /\ Grade(score, statute) \in {LowConfidence, Moderate, HighConfidence}
           /\ Grade(score, statute) # LowConfidence =>
                score >= IF statute THEN Low ELSE DocumentLow
           /\ Grade(score, statute) = LowConfidence => score < 100
<1>1. Low \in 1 .. 100 /\ High \in Low .. 100
  BY RetrievalAssumption
<1> QED
  BY <1>1, SMTT(30) DEF Grade, LowConfidence, Moderate, HighConfidence,
                      DocumentLow, DocumentHigh

\* Joining two results keeps the type and the backing of both.
LEMMA JoinedIsBacked ==
    ASSUME NEW r \in Results, NEW s \in Results
    PROVE  /\ Joined(r, s) \in Results
           /\ Backed(r) /\ Backed(s) => Backed(Joined(r, s))
           /\ Own(r) /\ Own(s) => Own(Joined(r, s))
           /\ Joined(r, s).chunks = r.chunks \cup s.chunks
<1> DEFINE j == Joined(r, s)
<1>1. /\ j.chunks = r.chunks \cup s.chunks
      /\ j.documents = r.documents \cup s.documents
      /\ j.confidence = Larger(r.confidence, s.confidence)
      /\ j.score = Larger(r.score, s.score)
      /\ j.statute = Larger(r.statute, s.statute)
      /\ j.documentary = Larger(r.documentary, s.documentary)
  BY DEF Joined
<1>2. /\ r.score \in 0 .. 100 /\ s.score \in 0 .. 100
      /\ r.statute \in 0 .. 100 /\ s.statute \in 0 .. 100
      /\ r.documentary \in 0 .. 100 /\ s.documentary \in 0 .. 100
      /\ r.confidence \in 0 .. 2 /\ s.confidence \in 0 .. 2
  BY DEF Results, LowConfidence, Moderate, HighConfidence
<1>3. j \in Results
  <2>1. /\ Larger(r.score, s.score) \in 0 .. 100
        /\ Larger(r.statute, s.statute) \in 0 .. 100
        /\ Larger(r.documentary, s.documentary) \in 0 .. 100
        /\ Larger(r.confidence, s.confidence) \in 0 .. 2
    BY <1>2 DEF Larger
  <2>2. Larger(r.confidence, s.confidence) \in
          {LowConfidence, Moderate, HighConfidence}
    BY <2>1 DEF LowConfidence, Moderate, HighConfidence
  <2>3. /\ r.chunks \cup s.chunks \in SUBSET Corpus
        /\ r.documents \cup s.documents \in SUBSET Sessions
    BY DEF Results
  <2> QED BY <2>1, <2>2, <2>3 DEF Joined, Results
<1>4. ASSUME Backed(r), Backed(s) PROVE Backed(j)
  <2>1. Low \in Int
    BY RetrievalAssumption
  <2> HIDE DEF j
  <2> QED
    BY <1>1, <1>2, <1>4, <2>1, SMTT(30) DEF Backed, Larger, LowConfidence, DocumentLow
<1>5. ASSUME Own(r), Own(s) PROVE Own(j)
  BY <1>1, <1>5 DEF Own
<1> QED BY <1>1, <1>3, <1>4, <1>5

-----------------------------------------------------------------------------
(* The invariant is inductive.                                             *)

LEMMA InitInv == Init => RetrievalInv
<1> SUFFICES ASSUME Init PROVE RetrievalInv
  OBVIOUS
<1>1. text \in Questions /\ asked \in Requests
  BY RetrievalAssumption DEF Init, Requests
<1>2. TypeOK
  BY <1>1, NothingIsBacked DEF Init, TypeOK
<1>3. TextOrder /\ ResultOrder /\ SearchOrder /\ ReturnOrder
  BY NothingIsBacked
     DEF Init, TextOrder, ResultOrder, SearchOrder, ReturnOrder, Returned
<1> QED BY <1>2, <1>3 DEF RetrievalInv

LEMMA PlanInv == RetrievalInv /\ Plan => RetrievalInv'
<1> SUFFICES ASSUME RetrievalInv, Plan PROVE RetrievalInv'
  OBVIOUS
<1> USE DEF RetrievalInv
<1>1. /\ step' = "search" /\ found' = Nothing
      /\ todo' = Searches(Route(text, asked.hasDocs))
      /\ UNCHANGED <<asked, text, attempt, first, result>>
  BY DEF Plan
<1>2. text \in Questions /\ asked.hasDocs \in BOOLEAN
  BY DEF TypeOK, Requests
<1>3. /\ todo' \subseteq {"sections", "statute", "documents"}
      /\ "documents" \in todo' => asked.hasDocs
      /\ Direct => todo' = {"sections"}
  BY <1>1, <1>2, RouteSearches DEF Direct
<1>4. TypeOK'
  BY <1>1, <1>3, NothingIsBacked DEF TypeOK
<1>5. TextOrder'
  BY <1>1 DEF TextOrder
<1>6. ResultOrder'
  BY <1>1, NothingIsBacked DEF ResultOrder, Backed, Own
<1>7. SearchOrder'
  BY <1>1, <1>3 DEF SearchOrder, Direct, Nothing, StatuteResult
<1>8. ReturnOrder'
  BY <1>1 DEF ReturnOrder, Returned
<1> QED BY <1>4, <1>5, <1>6, <1>7, <1>8

\* One search, whatever it is, if its outcome is backed and the asker's own.
LEMMA SearchInv ==
    ASSUME RetrievalInv, NEW leg, NEW outcome \in Results, Search(leg, outcome),
           Backed(outcome), Own(outcome),
           Direct => outcome.chunks \subseteq Wanted(text, asked.known)
    PROVE  RetrievalInv'
<1> USE DEF RetrievalInv
<1>1. /\ step = "search" /\ step' = "search" /\ leg \in todo
      /\ todo' = todo \ {leg} /\ found' = Joined(found, outcome)
      /\ UNCHANGED <<asked, text, attempt, first, result>>
  BY DEF Search
<1>2. found \in Results
  BY DEF TypeOK
<1>3. /\ found' \in Results
      /\ found'.chunks = found.chunks \cup outcome.chunks
      /\ Backed(found') /\ Own(found')
  BY <1>1, <1>2, JoinedIsBacked DEF ResultOrder
<1>4. TypeOK'
  BY <1>1, <1>3 DEF TypeOK
<1>5. TextOrder'
  BY <1>1 DEF TextOrder
<1>6. ResultOrder'
  BY <1>1, <1>3 DEF ResultOrder, Backed, Own
<1>7. SearchOrder'
  BY <1>1, <1>3 DEF SearchOrder, Direct
<1>8. ReturnOrder'
  BY <1>1 DEF ReturnOrder, Returned
<1> QED BY <1>4, <1>5, <1>6, <1>7, <1>8

LEMMA FetchInv == RetrievalInv /\ FetchSections => RetrievalInv'
<1> SUFFICES ASSUME RetrievalInv, FetchSections PROVE RetrievalInv'
  OBVIOUS
<1> DEFINE chunks == Wanted(text, asked.known) \cap Corpus
           exact == StatuteResult(chunks, HighConfidence, 100)
           outcome == IF chunks # {} THEN exact ELSE Nothing
<1>1. Search("sections", outcome)
  BY DEF FetchSections
<1>2. chunks \subseteq Corpus /\ chunks \subseteq Wanted(text, asked.known)
  OBVIOUS
<1> HIDE DEF chunks
<1>3. exact \in Results
  BY <1>2 DEF StatuteResult, Results
<1>4. chunks # {} => Backed(exact)
  BY RetrievalAssumption DEF StatuteResult, Backed, LowConfidence, HighConfidence
<1>5. Own(exact) /\ exact.chunks = chunks
  BY DEF StatuteResult, Own
<1>6. Nothing.chunks = {}
  BY DEF Nothing, StatuteResult
<1>7. outcome \in Results /\ Backed(outcome) /\ Own(outcome)
  BY <1>3, <1>4, <1>5, NothingIsBacked
<1>8. outcome.chunks \subseteq Wanted(text, asked.known)
  BY <1>2, <1>5, <1>6
<1> HIDE DEF outcome
<1> QED BY <1>1, <1>7, <1>8, SearchInv

LEMMA StatuteInv == RetrievalInv /\ SearchStatute => RetrievalInv'
<1> SUFFICES ASSUME RetrievalInv, SearchStatute PROVE RetrievalInv'
  OBVIOUS
<1>1. PICK chunks \in SUBSET Corpus, s \in Scores :
        LET score == IF chunks = {} THEN 0 ELSE s
        IN  Search("statute", StatuteResult(chunks, Grade(score, TRUE), score))
  BY DEF SearchStatute
<1> DEFINE score == IF chunks = {} THEN 0 ELSE s
           grade == Grade(score, TRUE)
           outcome == StatuteResult(chunks, grade, score)
<1>2. Search("statute", outcome)
  BY <1>1
<1>3. score \in 0 .. 100 /\ (score # 0 => chunks # {}) /\ chunks \subseteq Corpus
  BY RetrievalAssumption
<1> HIDE DEF score
<1>4. /\ grade \in {LowConfidence, Moderate, HighConfidence}
      /\ grade # LowConfidence => score >= Low
      /\ grade = LowConfidence => score < 100
  BY <1>3, GradeIsEarned
<1> HIDE DEF grade
<1>5. outcome \in Results
  BY <1>3, <1>4 DEF StatuteResult, Results
<1>6. Backed(outcome)
  BY <1>3, <1>4, RetrievalAssumption DEF StatuteResult, Backed
<1>7. Own(outcome)
  BY DEF StatuteResult, Own
<1>8. ~Direct
  BY <1>2 DEF Search, RetrievalInv, SearchOrder
<1> HIDE DEF outcome
<1> QED BY <1>2, <1>5, <1>6, <1>7, <1>8, SearchInv

LEMMA DocumentsInv == RetrievalInv /\ SearchDocuments => RetrievalInv'
<1> SUFFICES ASSUME RetrievalInv, SearchDocuments PROVE RetrievalInv'
  OBVIOUS
<1>1. PICK owners \in SUBSET {asked.session}, s \in Scores :
        LET score == IF owners = {} THEN 0 ELSE s
        IN  Search("documents", DocumentResult(owners, Grade(score, FALSE), score))
  BY DEF SearchDocuments
<1> DEFINE score == IF owners = {} THEN 0 ELSE s
           grade == Grade(score, FALSE)
           outcome == DocumentResult(owners, grade, score)
<1>2. Search("documents", outcome)
  BY <1>1
<1>3. score \in 0 .. 100 /\ (score # 0 => owners # {}) /\ owners \subseteq Sessions
  BY RetrievalAssumption DEF RetrievalInv, TypeOK, Requests
<1> HIDE DEF score
<1>4. /\ grade \in {LowConfidence, Moderate, HighConfidence}
      /\ grade # LowConfidence => score >= DocumentLow
      /\ grade = LowConfidence => score < 100
  BY <1>3, GradeIsEarned
<1> HIDE DEF grade
<1>5. outcome \in Results
  BY <1>3, <1>4 DEF DocumentResult, Results
<1>6. Backed(outcome)
  BY <1>3, <1>4 DEF DocumentResult, Backed, DocumentLow
<1>7. "documents" \in todo /\ step = "search"
  BY <1>2 DEF Search
<1>8. Own(outcome)
  BY <1>7 DEF DocumentResult, Own, RetrievalInv, SearchOrder
<1>9. ~Direct
  BY <1>7 DEF RetrievalInv, SearchOrder
<1> HIDE DEF outcome
<1> QED BY <1>2, <1>5, <1>6, <1>8, <1>9, SearchInv

LEMMA SearchFailsInv == RetrievalInv /\ SearchFails => RetrievalInv'
<1> SUFFICES ASSUME RetrievalInv, SearchFails PROVE RetrievalInv'
  OBVIOUS
<1>1. /\ step = "search" /\ step' = "failed"
      /\ UNCHANGED <<asked, text, attempt, todo, found, first, result>>
  BY DEF SearchFails
<1> QED
  BY <1>1 DEF RetrievalInv, TypeOK, TextOrder, ResultOrder, Backed, Own,
              SearchOrder, Direct, ReturnOrder, Returned

LEMMA CorrectInv == RetrievalInv /\ Correct => RetrievalInv'
<1> SUFFICES ASSUME RetrievalInv, Correct PROVE RetrievalInv'
  OBVIOUS
<1>1. /\ todo = {} /\ attempt = 1 /\ attempt' = 2 /\ step' = "plan"
      /\ found.confidence = LowConfidence
      /\ first' = found /\ text' = Rewrite(text)
      /\ UNCHANGED <<asked, todo, found, result>>
  BY DEF Correct, Searched, Correctable
<1>2. text = asked.question
  BY <1>1 DEF RetrievalInv, TextOrder
<1>3. Rewrite(text) \in Questions
  BY RewriteKeepsMentions DEF RetrievalInv, TypeOK
<1>4. TypeOK'
  BY <1>1, <1>3 DEF RetrievalInv, TypeOK
<1>5. TextOrder'
  BY <1>1, <1>2 DEF TextOrder
<1>6. ResultOrder'
  BY <1>1 DEF RetrievalInv, ResultOrder, Backed, Own
<1>7. SearchOrder' /\ ReturnOrder'
  BY <1>1 DEF SearchOrder, ReturnOrder, Returned
<1> QED BY <1>4, <1>5, <1>6, <1>7 DEF RetrievalInv

LEMMA FinishInv == RetrievalInv /\ Finish => RetrievalInv'
<1> SUFFICES ASSUME RetrievalInv, Finish PROVE RetrievalInv'
  OBVIOUS
<1>1. /\ step' = "done" /\ step = "search" /\ ~Correctable
      /\ result' = [Kept EXCEPT !.disambiguation =
                      Ambiguous(asked.question, asked.known)]
      /\ UNCHANGED <<asked, text, attempt, todo, found, first>>
  BY DEF Finish, Searched, Kept
<1>2. Kept \in Results
  BY DEF RetrievalInv, TypeOK, Kept
<1>3. Ambiguous(asked.question, asked.known) \in BOOLEAN
  BY DEF Ambiguous
<1>4. result' \in Results
  BY <1>1, <1>2, <1>3 DEF Results
<1>5. TypeOK'
  BY <1>1, <1>4 DEF RetrievalInv, TypeOK
<1>6. TextOrder' /\ ResultOrder' /\ SearchOrder'
  BY <1>1 DEF RetrievalInv, TextOrder, ResultOrder, Backed, Own, SearchOrder, Direct
<1>7. ReturnOrder'
  BY <1>1 DEF ReturnOrder, Returned, Correctable, Kept
<1> QED BY <1>5, <1>6, <1>7 DEF RetrievalInv

\* Every step of retrieve keeps the invariant.
LEMMA StepInv == RetrievalInv /\ [Next]_vars => RetrievalInv'
<1> SUFFICES ASSUME RetrievalInv, [Next]_vars PROVE RetrievalInv'
  OBVIOUS
<1>1. CASE UNCHANGED vars
  BY <1>1 DEF vars, RetrievalInv, TypeOK, TextOrder, ResultOrder, Backed, Own,
              SearchOrder, Direct, ReturnOrder, Returned, Correctable, Kept
<1>2. CASE Next
  BY <1>2, PlanInv, FetchInv, StatuteInv, DocumentsInv, SearchFailsInv,
     CorrectInv, FinishInv DEF Next
<1> QED BY <1>1, <1>2

\* The strengthened invariant holds of every call of retrieve.
THEOREM RetrievalInvariant == Spec => []RetrievalInv
<1> QED BY InitInv, StepInv, PTL DEF Spec

-----------------------------------------------------------------------------
(* What follows from it.                                                   *)

\* Every variable of a call keeps its type, for any corpus and any scores.
THEOREM RetrievalTypes == Spec => []TypeOK
<1> QED BY RetrievalInvariant, PTL DEF RetrievalInv

\* The result that is returned is one of the attempts', but for the note.
LEMMA ReturnedResult ==
    ASSUME RetrievalInv, Returned
    PROVE  /\ Kept \in Results /\ Backed(Kept) /\ Own(Kept)
           /\ result.chunks = Kept.chunks /\ result.documents = Kept.documents
           /\ result.confidence = Kept.confidence /\ result.score = Kept.score
           /\ result.statute = Kept.statute
           /\ result.documentary = Kept.documentary
           /\ result.disambiguation = Ambiguous(asked.question, asked.known)
<1>1. Kept \in Results /\ Backed(Kept) /\ Own(Kept)
  BY DEF RetrievalInv, TypeOK, ResultOrder, Kept
<1>2. result = [Kept EXCEPT !.disambiguation =
                  Ambiguous(asked.question, asked.known)]
  BY DEF RetrievalInv, ReturnOrder
<1> QED BY <1>1, <1>2 DEF Results

\* No passages are let through by the confidence of a search that did not
\* return any: each answer has evidence above its own threshold (_both, _grade).
THEOREM RetrievalEvidencePassed == Spec => []EvidencePassed
<1>1. RetrievalInv => EvidencePassed
  BY ReturnedResult DEF EvidencePassed, ShouldAnswer, Backed
<1> QED BY RetrievalInvariant, <1>1, PTL

\* No document of another session is ever returned, whatever the routes of
\* the two attempts (the session filter of _semantic).
THEOREM RetrievalOwnDocumentsOnly == Spec => []OwnDocumentsOnly
<1>1. RetrievalInv => OwnDocumentsOnly
  BY ReturnedResult DEF OwnDocumentsOnly, Own
<1> QED BY RetrievalInvariant, <1>1, PTL

\* An answer for which the chat asks no citation rests on the asker's own
\* document, and only if the asker said that there is one.
THEOREM RetrievalCitationFreeNeedsDocuments ==
    Spec => []CitationFreeNeedsDocuments
<1>1. RetrievalInv => CitationFreeNeedsDocuments
  BY ReturnedResult DEF CitationFreeNeedsDocuments, ShouldAnswer, Own
<1> QED BY RetrievalInvariant, <1>1, PTL

\* The exact route answers with the sections of the question it was given,
\* also when the correction chose it: rewriting keeps the mentions.
THEOREM RetrievalExactIsExact == Spec => []ExactIsExact
<1>1. ASSUME RetrievalInv, Returned, result.score = 100, Direct,
             NEW c \in result.chunks
      PROVE  \/ c \in Mentions(asked.question)
             \/ /\ <<NoAct, c[2]>> \in Mentions(asked.question)
                /\ c[1] = DefaultAct
  <2>1. Kept.score = 100 /\ c \in Kept.chunks
    BY <1>1, ReturnedResult
  <2>2. asked.question \in Questions /\ attempt \in {1, 2}
    BY <1>1, RetrievalAssumption DEF RetrievalInv, TypeOK, Requests
  <2>3. Kept = found
    <3>1. CASE attempt = 1
      BY <3>1 DEF Kept
    <3>2. CASE attempt = 2
      <4>1. first.score < 100
        BY <1>1, <3>2 DEF RetrievalInv, ResultOrder, Backed
      <4> QED BY <2>1, <4>1 DEF Kept
    <3> QED BY <2>2, <3>1, <3>2
  <2>4. c \in Wanted(text, asked.known)
    BY <1>1, <2>1, <2>3 DEF RetrievalInv, SearchOrder, Returned
  <2>5. text \in Questions /\ Mentions(text) = Mentions(asked.question)
    BY <1>1, <2>2, RewriteKeepsMentions DEF RetrievalInv, TypeOK, TextOrder
  <2> QED BY <2>4, <2>5, WantedIsMentioned
<1>2. RetrievalInv => ExactIsExact
  BY <1>1 DEF ExactIsExact, Direct
<1> QED BY RetrievalInvariant, <1>2, PTL

\* With several Acts indexed, no answer hides that a section's Act is open.
THEOREM RetrievalAmbiguityIsFlagged == Spec => []AmbiguityIsFlagged
<1>1. ASSUME RetrievalInv, Returned, ~Single(asked.known),
             NEW n \in Numbers, <<NoAct, n>> \in Mentions(asked.question)
      PROVE  result.disambiguation
  <2>1. Ambiguous(asked.question, asked.known)
    BY <1>1 DEF Ambiguous
  <2> QED BY <1>1, <2>1, ReturnedResult
<1>2. RetrievalInv => AmbiguityIsFlagged
  BY <1>1 DEF AmbiguityIsFlagged
<1> QED BY RetrievalInvariant, <1>2, PTL

\* A refusal means that the question could not be corrected, or that the
\* correction found nothing better.
THEOREM RetrievalRefusalIsEarned == Spec => []RefusalIsEarned
<1>1. ASSUME RetrievalInv, Returned, ~ShouldAnswer(result)
      PROVE  \/ /\ attempt = 1
                /\ \/ ~asked.rewriting
                   \/ ~Changes(asked.question)
                   \/ Route(asked.question, asked.hasDocs)
                        \in {"direct_section", "session_doc", "forms"}
             \/ /\ attempt = 2 /\ ~ShouldAnswer(first)
                /\ ~ShouldAnswer(found) \/ found.score <= first.score
  <2>1. ~ShouldAnswer(Kept)
    BY <1>1, ReturnedResult DEF ShouldAnswer
  <2>2. Kept.confidence = LowConfidence
    BY <1>1, <2>1, ReturnedResult DEF ShouldAnswer, Backed
  <2>3. /\ asked.question \in Questions /\ asked.hasDocs \in BOOLEAN
        /\ attempt \in {1, 2} /\ found.score \in Int /\ first.score \in Int
    BY <1>1, RetrievalAssumption DEF RetrievalInv, TypeOK, Requests, Results
  <2>4. CASE attempt = 1
    <3>1. text = asked.question /\ found.confidence = LowConfidence /\ ~Correctable
      BY <1>1, <2>2, <2>4 DEF RetrievalInv, TextOrder, Kept, ReturnOrder
    <3>2. Route(text, asked.hasDocs) \in Routes
      BY <2>3, <3>1, RouteSearches
    <3> QED BY <2>4, <3>1, <3>2 DEF Correctable, Routes
  <2>5. CASE attempt = 2
    <3>1. ~ShouldAnswer(first)
      BY <1>1, <2>5 DEF RetrievalInv, ResultOrder, ShouldAnswer
    <3>2. ~ShouldAnswer(found) \/ found.score <= first.score
      BY <2>1, <2>3 DEF Kept
    <3> QED BY <2>5, <3>1, <3>2
  <2> QED BY <2>3, <2>4, <2>5
<1>2. RetrievalInv => RefusalIsEarned
  BY <1>1 DEF RefusalIsEarned
<1> QED BY RetrievalInvariant, <1>2, PTL

=============================================================================
