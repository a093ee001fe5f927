----------------------------- MODULE Retrieval -----------------------------
(***************************************************************************)
(* RetrievalService.retrieve (backend/app/retrieval/service.py) for one    *)
(* question: a route, one or two searches, a grade, and at most one        *)
(* corrective retry with the rewritten question, which is planned anew.    *)
(***************************************************************************)
EXTENDS QueryPlan

CONSTANTS
    Asked,       \* the questions asked
    KnownActs,   \* values of known_acts: the Acts that are indexed
    Corpus,      \* the sections in the statute collection
    Sessions,    \* sessions; a document passage is named by its session
    Scores,      \* relevance scores in hundredths, after the sigmoid
    Low, High    \* confidence_low and confidence_high in hundredths

ASSUME RetrievalAssumption ==
    /\ Asked \subseteq Questions
    /\ \A known \in KnownActs : known # {} /\ known \subseteq Acts
    /\ Corpus \subseteq Acts \X Numbers
    /\ Scores \subseteq 0 .. 100
    /\ Low \in 1 .. 100 /\ High \in Low .. 100

\* The thresholds for the user's own documents are fixed (_grade).
DocumentLow == 10
DocumentHigh == 30

\* Confidence, by its rank.
LowConfidence  == 0
Moderate       == 1
HighConfidence == 2

VARIABLES
    asked,      \* the arguments of retrieve
    text,       \* the question that is being executed: asked or rewritten
    attempt,    \* 1, or 2 once the question has been rewritten
    step,       \* where retrieve is
    todo,       \* the searches of this attempt still to be made
    found,      \* the result of this attempt so far
    first,      \* the result of the first attempt, during the second
    result      \* what retrieve has returned

vars == <<asked, text, attempt, step, todo, found, first, result>>

Requests == [question : Asked, session : Sessions, hasDocs : BOOLEAN,
             rewriting : BOOLEAN, known : KnownActs]

\* statute and documentary are history: the scores of the two searches, of
\* which the result keeps the maximum.
Results ==
    [chunks : SUBSET Corpus, documents : SUBSET Sessions,
     confidence : {LowConfidence, Moderate, HighConfidence},
     score : 0 .. 100, statute : 0 .. 100, documentary : 0 .. 100,
     disambiguation : BOOLEAN]

StatuteResult(chunks, confidence, score) ==
    [chunks |-> chunks, documents |-> {}, confidence |-> confidence,
     score |-> score, statute |-> score, documentary |-> 0,
     disambiguation |-> FALSE]

DocumentResult(owners, confidence, score) ==
    [chunks |-> {}, documents |-> owners, confidence |-> confidence,
     score |-> score, statute |-> 0, documentary |-> score,
     disambiguation |-> FALSE]

Nothing == StatuteResult({}, LowConfidence, 0)

TypeOK ==
    /\ asked \in Requests
    /\ text \in Questions
    /\ attempt \in {1, 2}
    /\ step \in {"plan", "search", "done", "failed"}
    /\ todo \subseteq {"sections", "statute", "documents"}
    /\ found \in Results /\ first \in Results /\ result \in Results

Init ==
    /\ asked \in Requests
    /\ text = asked.question
    /\ attempt = 1
    /\ step = "plan"
    /\ todo = {}
    /\ found = Nothing /\ first = Nothing /\ result = Nothing

-----------------------------------------------------------------------------

\* _grade.
Grade(score, statute) ==
    LET high == IF statute THEN High ELSE DocumentHigh
        low  == IF statute THEN Low ELSE DocumentLow
    IN  IF score >= high THEN HighConfidence
        ELSE IF score >= low THEN Moderate ELSE LowConfidence

Larger(x, y) == IF x >= y THEN x ELSE y

\* Mutated form: the better score of the two is graded as the statute's.
JoinedGradedAgain(r, s) ==
    [chunks |-> r.chunks \cup s.chunks, documents |-> r.documents \cup s.documents,
     confidence |-> Grade(Larger(r.score, s.score), TRUE),
     score |-> Larger(r.score, s.score), statute |-> Larger(r.statute, s.statute),
     documentary |-> Larger(r.documentary, s.documentary),
     disambiguation |-> FALSE]

\* _both: the evidence of both searches, the better confidence and score.
Joined(r, s) ==
    [chunks |-> r.chunks \cup s.chunks, documents |-> r.documents \cup s.documents,
     confidence |-> Larger(r.confidence, s.confidence),
     score |-> Larger(r.score, s.score), statute |-> Larger(r.statute, s.statute),
     documentary |-> Larger(r.documentary, s.documentary),
     disambiguation |-> FALSE]

\* The searches a route makes.  No form index is searched, and no offence
\* table is given to the service: both routes search the statute.
Searches(route) ==
    CASE route = "direct_section" -> {"sections"}
      [] route = "session_doc"    -> {"documents"}
      [] route = "both"           -> {"statute", "documents"}
      [] route \in {"forms", "offence_table", "semantic"} -> {"statute"}

Plan ==
    /\ step = "plan"
    /\ todo' = Searches(Route(text, asked.hasDocs))
    /\ found' = Nothing
    /\ step' = "search"
    /\ UNCHANGED <<asked, text, attempt, first, result>>

Search(leg, outcome) ==
    /\ step = "search"
    /\ leg \in todo
    /\ todo' = todo \ {leg}
    /\ found' = Joined(found, outcome)
    /\ UNCHANGED <<asked, text, attempt, step, first, result>>

\* Mutated form: every number is looked up in the default Act.
WantedOfDefault(q, known) == {<<DefaultAct, m[2]>> : m \in Resolved(q, known)}

\* The sections _direct_section asks for.
Wanted(q, known) ==
    {<<IF m[1] = NoAct THEN DefaultAct ELSE m[1], m[2]>> : m \in Resolved(q, known)}

\* _direct_section: exact, so its confidence is not a guess.
FetchSections ==
    LET chunks == Wanted(text, asked.known) \cap Corpus
    IN  Search("sections",
          IF chunks # {} THEN StatuteResult(chunks, HighConfidence, 100) ELSE Nothing)

\* _semantic over the statute, within the Acts named.  The score is the best
\* passage's; without candidates it is 0.
SearchStatute ==
    \E chunks \in SUBSET {c \in Corpus : \/ ActsOf(text) = {}
                                         \/ c[1] \in ActsOf(text)} :
    \E s \in Scores :
        LET score == IF chunks = {} THEN 0 ELSE s
        IN  Search("statute", StatuteResult(chunks, Grade(score, TRUE), score))

\* _semantic over the documents of the session, after the statute.
SearchDocuments ==
    /\ "statute" \notin todo
    /\ \E owners \in SUBSET {asked.session}, s \in Scores :
         LET score == IF owners = {} THEN 0 ELSE s
         IN  Search("documents", DocumentResult(owners, Grade(score, FALSE), score))

\* A call of the embedder, the store or the reranker raises: so does retrieve.
SearchFails ==
    /\ step = "search"
    /\ todo # {}
    /\ step' = "failed"
    /\ UNCHANGED <<asked, text, attempt, todo, found, first, result>>

Correctable ==
    /\ asked.rewriting
    /\ attempt = 1
    /\ found.confidence = LowConfidence
    /\ Route(text, asked.hasDocs) \in {"semantic", "offence_table", "both"}
    /\ Changes(text)

Searched == step = "search" /\ todo = {}

\* Mutated form: the retry counts wrongly.
CorrectTwice ==
    /\ Searched /\ Correctable
    /\ first' = found
    /\ text' = Rewrite(text)
    /\ attempt' = attempt + 2
    /\ step' = "plan"
    /\ UNCHANGED <<asked, todo, found, result>>

\* The corrective retry: the question is rewritten and planned once more.
Correct ==
    /\ Searched /\ Correctable
    /\ first' = found
    /\ text' = Rewrite(text)
    /\ attempt' = 2
    /\ step' = "plan"
    /\ UNCHANGED <<asked, todo, found, result>>

\* Mutated form: the retry is never adopted.
FinishWithFirst ==
    /\ Searched /\ ~Correctable
    /\ result' = [IF attempt = 1 THEN found ELSE first EXCEPT
                    !.disambiguation = Ambiguous(asked.question, asked.known)]
    /\ step' = "done"
    /\ UNCHANGED <<asked, text, attempt, todo, found, first>>

\* The retry replaces the first result if its score is higher.
Finish ==
    /\ Searched /\ ~Correctable
    /\ LET kept == IF attempt = 1 \/ found.score > first.score
                   THEN found ELSE first
       IN  result' = [kept EXCEPT !.disambiguation =
                        Ambiguous(asked.question, asked.known)]
    /\ step' = "done"
    /\ UNCHANGED <<asked, text, attempt, todo, found, first>>

Next ==
    \/ Plan \/ FetchSections \/ SearchStatute \/ SearchDocuments
    \/ SearchFails \/ Correct \/ Finish

Spec == Init /\ [][Next]_vars

-----------------------------------------------------------------------------

Returned == step = "done"

\* RetrievalResult.should_answer.
ShouldAnswer(r) ==
    r.confidence # LowConfidence /\ (r.chunks # {} \/ r.documents # {})

\* An answer rests on evidence that passed the threshold of its own corpus:
\* the confidence of one search never carries the passages of the other alone.
EvidencePassed ==
    Returned /\ ShouldAnswer(result) =>
        \/ result.chunks # {} /\ result.statute >= Low
        \/ result.documents # {} /\ result.documentary >= DocumentLow

\* Every passage comes from the asker's own session, whatever the retry asks.
OwnDocumentsOnly == Returned => result.documents \subseteq {asked.session}

\* Without a section that was retrieved the chat asks for no citation
\* (require_citation), so such an answer needs a document of the asker's, and
\* the asker must have allowed documents.
CitationFreeNeedsDocuments ==
    Returned /\ ShouldAnswer(result) /\ result.chunks = {} =>
        asked.hasDocs /\ result.documents = {asked.session}

\* A section that is fetched by number is one the question mentions, of the
\* Act it gives or, if it gives none, of the default Act; also when the
\* correction has turned another route into the exact one.
ExactIsExact ==
    Returned /\ result.score = 100 /\ Route(text, asked.hasDocs) = "direct_section" =>
        \A c \in result.chunks :
            \/ c \in Mentions(asked.question)
            \/ /\ <<NoAct, c[2]>> \in Mentions(asked.question)
               /\ c[1] = DefaultAct

\* With several Acts indexed, an answer to a question that leaves the Act of a
\* section open says so (query.py:10-15), also after a correction.
AmbiguityIsFlagged ==
    Returned /\ ~Single(asked.known)
        /\ (\E n \in Numbers : <<NoAct, n>> \in Mentions(asked.question))
    => result.disambiguation

\* A question is refused only if the first attempt had low confidence, and
\* either it could not be corrected or the retry did no better.
RefusalIsEarned ==
    Returned /\ ~ShouldAnswer(result) =>
        \/ /\ attempt = 1
           /\ \/ ~asked.rewriting
              \/ ~Changes(asked.question)
              \/ Route(asked.question, asked.hasDocs)
                   \in {"direct_section", "session_doc", "forms"}
        \/ /\ attempt = 2 /\ ~ShouldAnswer(first)
           /\ ~ShouldAnswer(found) \/ found.score <= first.score

=============================================================================
