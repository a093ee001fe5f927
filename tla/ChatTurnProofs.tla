-------------------------- MODULE ChatTurnProofs --------------------------
(***************************************************************************)
(* What a conversation shows, for every vocabulary, draft length, number   *)
(* of questions and retrieval result: the stream that is read patches its  *)
(* own turn, and what stands under a verdict is what the guard let through.*)
(***************************************************************************)
EXTENDS ChatTurn, SequenceTheorems, TLAPS

-----------------------------------------------------------------------------
(* The guard: what upgrade_bare_citations and verify_answer together       *)
(* guarantee, for answers of any length over any set of retrieved sections.*)

Keys == Acts \X Numbers

\* A span that is upgraded becomes an exact citation of a retrieved section.
LEMMA UpgradedSpan ==
    ASSUME NEW s \in Spans, NEW allowed \in SUBSET Keys
    PROVE  /\ UpgradeSpan(s, allowed) \in Spans
           /\ UpgradeSpan(s, allowed) # s \/ Upgrades(s, allowed) =>
                /\ Cites(UpgradeSpan(s, allowed))
                /\ UpgradeSpan(s, allowed).form = "exact"
                /\ Key(UpgradeSpan(s, allowed)) \in allowed
           /\ Upgrades(s, allowed) =>
                UpgradeSpan(s, allowed).quote = Edited(s.quote)
<1>1. CASE Upgrades(s, allowed)
  <2>1. Reference(s) = <<Reference(s)[1], s.section>> /\ Reference(s) \in allowed
    BY <1>1 DEF Upgrades, Reference
  <2>2. Reference(s)[1] \in Acts
    BY <2>1 DEF Keys
  <2>3. UpgradeSpan(s, allowed) =
          [kind |-> "cite", act |-> Reference(s)[1], section |-> s.section,
           form |-> "exact", inside |-> IF Cites(s) THEN s.act ELSE Nowhere,
           quote |-> Edited(s.quote)]
    BY <1>1 DEF UpgradeSpan, Span
  <2>4. s.section \in Numbers
    BY <1>1 DEF Upgrades
  <2> QED
    BY <1>1, <2>1, <2>2, <2>3, <2>4
       DEF Spans, Cites, Key, Sections, Upgrades, Edited
<1>2. CASE ~Upgrades(s, allowed)
  BY <1>2 DEF UpgradeSpan
<1> QED BY <1>1, <1>2

-----------------------------------------------------------------------------
(* Validate has two outcomes: the fixed text, or the stripped answer.      *)

\* A refused draft is replaced by the fixed text.
LEMMA ValidateRefuses ==
    ASSUME NEW drafted, NEW allowed,
           Refused(Upgrade(drafted, allowed), allowed, allowed # {})
    PROVE  /\ Validate(drafted, allowed).verdict = "refused"
           /\ Validate(drafted, allowed).answer = RefusalText
<1> DEFINE report == Verify(Upgrade(drafted, allowed), allowed, allowed # {})
<1>1. report = [verdict |-> "refused", answer |-> report.answer,
                valid |-> report.valid, invented |-> report.invented]
  BY DEF Verify, Verdict
<1>2. Validate(drafted, allowed) = [report EXCEPT !.answer = RefusalText]
  BY <1>1 DEF Validate
<1> QED BY <1>1, <1>2

\* A draft that passes is shown stripped of its invented citations.
LEMMA ValidatePasses ==
    ASSUME NEW drafted, NEW allowed,
           ~Refused(Upgrade(drafted, allowed), allowed, allowed # {})
    PROVE  /\ Validate(drafted, allowed).verdict \in {"ok", "stripped"}
           /\ Validate(drafted, allowed).answer
                = Strip(Upgrade(drafted, allowed), allowed)
           /\ Validate(drafted, allowed).valid
                = Cited(Upgrade(drafted, allowed)) \cap allowed
<1> DEFINE report == Verify(Upgrade(drafted, allowed), allowed, allowed # {})
<1>1. /\ report.verdict \in {"ok", "stripped"}
      /\ report.answer = Strip(Upgrade(drafted, allowed), allowed)
      /\ report.valid = Cited(Upgrade(drafted, allowed)) \cap allowed
  BY DEF Verify, Verdict
<1>2. Validate(drafted, allowed) = report
  BY <1>1 DEF Validate
<1> QED BY <1>1, <1>2

\* The fixed text has neither a quotation nor a citation in it.
LEMMA RefusalIsClean ==
    /\ DOMAIN RefusalText = {1}
    /\ RefusalText[1] = Prose
    /\ ~Misquotes(RefusalText)
BY DEF RefusalText, Prose, Span, Misquotes

\* What is shown never has an unsupported quotation in it.
THEOREM GuardShowsNoMisquotation ==
    ASSUME NEW drafted, NEW allowed
    PROVE  ~Misquotes(Validate(drafted, allowed).answer)
<1>1. CASE Refused(Upgrade(drafted, allowed), allowed, allowed # {})
  BY <1>1, ValidateRefuses, RefusalIsClean
<1>2. CASE ~Refused(Upgrade(drafted, allowed), allowed, allowed # {})
  BY <1>2, ValidatePasses DEF Refused
<1> QED BY <1>1, <1>2

-----------------------------------------------------------------------------
(* The strip, span by span.                                                *)

\* The strip works span by span, and only if something is invented.
LEMMA StripIndex ==
    ASSUME NEW answer, NEW allowed, NEW i \in DOMAIN answer
    PROVE  /\ DOMAIN Strip(answer, allowed) = DOMAIN answer
           /\ Strip(answer, allowed)[i] =
                IF Invented(answer, allowed) = {} THEN answer[i]
                ELSE StripSpan(answer[i], allowed)
BY DEF Strip

\* The upgrade works span by span.
LEMMA UpgradeIndex ==
    ASSUME NEW drafted \in Answers, NEW allowed, NEW i \in DOMAIN drafted
    PROVE  /\ DOMAIN Upgrade(drafted, allowed) = DOMAIN drafted
           /\ Upgrade(drafted, allowed)[i] = UpgradeSpan(drafted[i], allowed)
           /\ drafted[i] \in Spans
BY DEF Upgrade, Answers

\* A citation of a section that was not retrieved is invented.
LEMMA InventedCitation ==
    ASSUME NEW answer, NEW allowed, NEW i \in DOMAIN answer,
           Cites(answer[i]), Key(answer[i]) \notin allowed
    PROVE  Invented(answer, allowed) # {}
BY DEF Invented, Cited

\* The strip keeps every citation of a retrieved section.
LEMMA ValidSurvives ==
    ASSUME NEW s \in Spans, NEW allowed, Cites(s), Key(s) \in allowed
    PROVE  /\ Cites(StripSpan(s, allowed))
           /\ Key(StripSpan(s, allowed)) = Key(s)
           /\ StripSpan(s, allowed).section = s.section
BY DEF StripSpan, Cites, Key, Spans

\* An exactly written citation that is shown names a retrieved section.
THEOREM GuardShowsRetrievedCitations ==
    ASSUME NEW drafted \in Answers, NEW allowed \in SUBSET Keys
    PROVE  ExactCitationsRetrieved(Validate(drafted, allowed).answer, drafted,
                                   allowed)
<1> DEFINE shown == Validate(drafted, allowed).answer
           upgraded == Upgrade(drafted, allowed)
<1> SUFFICES ASSUME NEW i \in DOMAIN shown \cap DOMAIN drafted,
                    Cites(shown[i]), upgraded[i].form = "exact"
             PROVE  Key(shown[i]) \in allowed
  BY DEF ExactCitationsRetrieved
<1>1. CASE Refused(upgraded, allowed, allowed # {})
  BY <1>1, ValidateRefuses, RefusalIsClean DEF Cites, Prose, Span
<1>2. CASE ~Refused(upgraded, allowed, allowed # {})
  <2>1. shown = Strip(upgraded, allowed) /\ i \in DOMAIN upgraded
    BY <1>2, ValidatePasses, UpgradeIndex
  <2>2. shown[i] = IF Invented(upgraded, allowed) = {} THEN upgraded[i]
                   ELSE StripSpan(upgraded[i], allowed)
    BY <2>1, StripIndex
  <2>3. CASE Invented(upgraded, allowed) = {}
    BY <2>1, <2>2, <2>3, InventedCitation
  <2>4. CASE Invented(upgraded, allowed) # {}
    BY <2>2, <2>4 DEF StripSpan, Cites, Gone, Prose, Quoted, Span
  <2> QED BY <2>3, <2>4
<1> QED BY <1>1, <1>2

\* An answer that is let through mentions a retrieved section.
THEOREM GuardShowsGroundedAnswers ==
    ASSUME NEW drafted \in Answers, NEW allowed \in SUBSET Keys,
           Validate(drafted, allowed).verdict # "refused"
    PROVE  Grounded(Validate(drafted, allowed).answer, allowed)
<1> DEFINE shown == Validate(drafted, allowed).answer
           upgraded == Upgrade(drafted, allowed)
<1> SUFFICES ASSUME allowed # {}
             PROVE  MentionsAllowed(shown, allowed)
  BY DEF Grounded
<1>1. ~Refused(upgraded, allowed, allowed # {})
  BY ValidateRefuses
<1>2. shown = Strip(upgraded, allowed)
  BY <1>1, ValidatePasses
<1>3. CASE MentionsAllowed(Strip(upgraded, allowed), allowed)
  BY <1>2, <1>3
<1>4. CASE Cited(upgraded) \cap allowed # {}
  <2>1. PICK i \in DOMAIN upgraded :
           Cites(upgraded[i]) /\ Key(upgraded[i]) \in allowed
    BY <1>4 DEF Cited
  <2>2. i \in DOMAIN drafted /\ upgraded[i] \in Spans
    <3>1. i \in DOMAIN drafted
      BY <2>1 DEF Upgrade
    <3> QED BY <3>1, UpgradeIndex, UpgradedSpan
  <2>3. /\ i \in DOMAIN shown
        /\ Cites(shown[i]) /\ shown[i].section = upgraded[i].section
    BY <1>2, <2>1, <2>2, StripIndex, ValidSurvives
  <2>4. Key(upgraded[i])[2] = upgraded[i].section
        /\ upgraded[i].section \in Numbers
    BY <2>1 DEF Key, Keys
  <2>5. <<Key(upgraded[i])[2], shown[i].section>> \in Within
    BY <2>3, <2>4, GuardAssumption
  <2> QED BY <2>1, <2>3, <2>5 DEF MentionsAllowed, Cites
<1> QED BY <1>1, <1>3, <1>4 DEF Refused

-----------------------------------------------------------------------------
(* The upgrade against the verdict on the draft as it stands.              *)

\* A span that says a number once the draft is stripped, and that the upgrade
\* leaves alone, says it in the upgraded draft.
LEMMA KeptAfterUpgrade ==
    ASSUME NEW drafted \in Answers, NEW allowed \in SUBSET Keys,
           Invented(drafted, allowed) # {}, NEW i \in DOMAIN drafted,
           Upgrade(drafted, allowed)[i] = drafted[i],
           Strip(drafted, allowed)[i].kind \in {"bare", "cite", "number"}
    PROVE  /\ Strip(Upgrade(drafted, allowed), allowed)[i].kind
                = Strip(drafted, allowed)[i].kind
           /\ Strip(Upgrade(drafted, allowed), allowed)[i].section
                = Strip(drafted, allowed)[i].section
<1> DEFINE upgraded == Upgrade(drafted, allowed)
<1>1. drafted[i] \in Spans /\ i \in DOMAIN upgraded
  BY UpgradeIndex
<1>2. Strip(drafted, allowed)[i] = StripSpan(drafted[i], allowed)
  BY StripIndex
<1>3. \/ Strip(upgraded, allowed)[i] = drafted[i]
      \/ Strip(upgraded, allowed)[i] = StripSpan(drafted[i], allowed)
  BY <1>1, StripIndex
<1>4. /\ StripSpan(drafted[i], allowed).kind = drafted[i].kind
      /\ StripSpan(drafted[i], allowed).section = drafted[i].section
  BY <1>1, <1>2 DEF StripSpan, Spans, Gone, Prose, Quoted, Span
<1> QED BY <1>2, <1>3, <1>4

\* The strip edits a quotation only where it takes an exact citation out of it.
LEMMA StripQuote ==
    ASSUME NEW s \in Spans, NEW allowed
    PROVE  StripSpan(s, allowed).quote =
             IF Cites(s) /\ s.form = "exact" /\ Key(s) \notin allowed
             THEN Edited(s.quote) ELSE s.quote
<1>1. Gone.quote = "none" /\ Quoted(Prose, Edited(s.quote)).quote = Edited(s.quote)
  BY DEF Gone, Prose, Span, Quoted
<1>2. s.quote = "none" => Edited(s.quote) = "none"
  BY DEF Edited
<1> QED BY <1>1, <1>2 DEF StripSpan, Spans

\* If the quotations of a draft pass guard 2 as they stand and no fragile one
\* has a reference upgraded in it, they pass after the upgrade.
LEMMA QuotationsBear ==
    ASSUME NEW drafted \in Answers, NEW allowed \in SUBSET Keys,
           ~Misquotes(Strip(drafted, allowed)),
           \A i \in DOMAIN drafted :
             Upgrades(drafted[i], allowed) => drafted[i].quote # "fragile"
    PROVE  ~Misquotes(Strip(Upgrade(drafted, allowed), allowed))
<1> DEFINE upgraded == Upgrade(drafted, allowed)
           Bad(quote) == quote \in {"false", "mended"}
<1> SUFFICES ASSUME NEW i \in DOMAIN Strip(upgraded, allowed)
             PROVE  ~Bad(Strip(upgraded, allowed)[i].quote)
  BY DEF Misquotes
<1>1. /\ i \in DOMAIN drafted /\ i \in DOMAIN upgraded
      /\ i \in DOMAIN Strip(drafted, allowed)
  BY DEF Strip, Upgrade
<1>2. /\ drafted[i] \in Spans /\ upgraded[i] \in Spans
      /\ upgraded[i] = UpgradeSpan(drafted[i], allowed)
  BY <1>1, UpgradeIndex, UpgradedSpan
<1>3. /\ Strip(drafted, allowed)[i].quote =
           IF Invented(drafted, allowed) = {} THEN drafted[i].quote
           ELSE StripSpan(drafted[i], allowed).quote
      /\ Strip(upgraded, allowed)[i].quote =
           IF Invented(upgraded, allowed) = {} THEN upgraded[i].quote
           ELSE StripSpan(upgraded[i], allowed).quote
  BY <1>1, StripIndex
<1>4. ~Bad(Strip(drafted, allowed)[i].quote)
  BY <1>1 DEF Misquotes
<1>5. CASE Upgrades(drafted[i], allowed)
  <2>1. /\ Cites(upgraded[i]) /\ Key(upgraded[i]) \in allowed
        /\ upgraded[i].quote = Edited(drafted[i].quote)
    BY <1>2, <1>5, UpgradedSpan
  <2>2. Strip(upgraded, allowed)[i].quote = Edited(drafted[i].quote)
    BY <1>2, <1>3, <2>1, StripQuote
  <2>3. drafted[i].quote # "fragile"
    BY <1>1, <1>5
  <2>4. drafted[i].quote # "false"
    <3>1. Strip(drafted, allowed)[i].quote \in
            {drafted[i].quote, Edited(drafted[i].quote)}
      BY <1>2, <1>3, StripQuote
    <3> QED BY <1>4, <3>1 DEF Edited
  <2> QED BY <2>2, <2>3, <2>4 DEF Edited
<1>6. CASE ~Upgrades(drafted[i], allowed)
  <2>1. upgraded[i] = drafted[i]
    BY <1>2, <1>6 DEF UpgradeSpan
  \* An invented citation of the upgraded answer was in the draft already.
  <2>2. CASE Invented(upgraded, allowed) # {}
    <3>1. PICK key \in Cited(upgraded) : key \notin allowed
      BY <2>2 DEF Invented
    <3>2. PICK j \in DOMAIN upgraded : Cites(upgraded[j]) /\ Key(upgraded[j]) = key
      BY <3>1 DEF Cited
    <3>3. j \in DOMAIN drafted /\ upgraded[j] = drafted[j]
      <4>1. j \in DOMAIN drafted
        BY DEF Upgrade
      <4> QED BY <3>1, <3>2, <4>1, UpgradeIndex, UpgradedSpan
    <3>4. Invented(drafted, allowed) # {}
      BY <3>1, <3>2, <3>3, InventedCitation
    <3> QED BY <1>3, <1>4, <2>1, <2>2, <3>4
  <2>3. CASE Invented(upgraded, allowed) = {}
    <3>1. ~(Cites(drafted[i]) /\ Key(drafted[i]) \notin allowed)
      BY <1>1, <2>1, <2>3, InventedCitation
    <3> QED BY <1>2, <1>3, <1>4, <2>1, <2>3, <3>1, StripQuote
  <2> QED BY <2>2, <2>3
<1> QED BY <1>5, <1>6

\* A draft that the guard would accept is accepted after the upgrade, unless
\* the upgrade has spoilt a quotation.
THEOREM UpgradeHarmsOnlyQuotations ==
    ASSUME NEW drafted \in Answers, NEW allowed \in SUBSET Keys
    PROVE  UpgradeHarmsQuotationsOnly(drafted, allowed)
<1> DEFINE upgraded == Upgrade(drafted, allowed)
<1> SUFFICES ASSUME ~Refused(drafted, allowed, allowed # {}),
                    \A i \in DOMAIN drafted :
                      Upgrades(drafted[i], allowed) => drafted[i].quote # "fragile"
             PROVE  ~Refused(upgraded, allowed, allowed # {})
  BY DEF UpgradeHarmsQuotationsOnly
<1>1. ~Misquotes(Strip(upgraded, allowed))
  BY QuotationsBear DEF Refused
<1> SUFFICES ASSUME allowed # {}, Cited(upgraded) \cap allowed = {}
             PROVE  MentionsAllowed(Strip(upgraded, allowed), allowed)
  BY <1>1 DEF Refused
\* No span of the draft was upgraded, and none cites a retrieved section.
<1>2. ASSUME NEW i \in DOMAIN drafted
      PROVE  /\ upgraded[i] = drafted[i] /\ ~Upgrades(drafted[i], allowed)
             /\ Cites(drafted[i]) => Key(drafted[i]) \notin allowed
  <2>1. ~(Cites(upgraded[i]) /\ Key(upgraded[i]) \in allowed)
    BY UpgradeIndex DEF Cited
  <2> QED BY <2>1, UpgradeIndex, UpgradedSpan
<1>3. Cited(drafted) \cap allowed = {}
  BY <1>2 DEF Cited
<1>4. MentionsAllowed(Strip(drafted, allowed), allowed)
  BY <1>3 DEF Refused
<1>5. PICK i \in DOMAIN Strip(drafted, allowed) :
         /\ Strip(drafted, allowed)[i].kind \in {"bare", "cite", "number"}
         /\ \E key \in allowed :
              <<key[2], Strip(drafted, allowed)[i].section>> \in Within
  BY <1>4 DEF MentionsAllowed
<1>6. i \in DOMAIN drafted /\ i \in DOMAIN Strip(upgraded, allowed)
  BY <1>5 DEF Strip, Upgrade
<1>7. CASE Invented(drafted, allowed) # {}
  <2>1. /\ Strip(upgraded, allowed)[i].kind = Strip(drafted, allowed)[i].kind
        /\ Strip(upgraded, allowed)[i].section = Strip(drafted, allowed)[i].section
    BY <1>2, <1>5, <1>6, <1>7, KeptAfterUpgrade
  <2> QED BY <1>5, <1>6, <2>1 DEF MentionsAllowed
<1>8. CASE Invented(drafted, allowed) = {}
  <2>1. Invented(upgraded, allowed) = {}
    <3>1. upgraded = [j \in DOMAIN drafted |-> drafted[j]]
      BY <1>2 DEF Upgrade
    <3>2. Cited(upgraded) = Cited(drafted)
      BY <3>1 DEF Cited
    <3> QED BY <1>8, <3>2 DEF Invented
  <2>2. /\ Strip(drafted, allowed)[i] = drafted[i]
        /\ Strip(upgraded, allowed)[i] = drafted[i]
    BY <1>2, <1>6, <1>8, <2>1, StripIndex, UpgradeIndex
  <2> QED BY <1>5, <1>6, <2>2 DEF MentionsAllowed
<1> QED BY <1>7, <1>8

-----------------------------------------------------------------------------
(* The guard applied to what it has let through.                           *)

\* A draft with exactly written citations that passes the guard passes it
\* again, unchanged and with the same valid citations.
THEOREM GuardIsIdempotent ==
    ASSUME NEW drafted \in Answers, NEW allowed \in SUBSET Keys,
           Validate(drafted, allowed).verdict # "refused"
    PROVE  Stable(Validate(drafted, allowed).answer, drafted, allowed)
<1> DEFINE upgraded == Upgrade(drafted, allowed)
           shown == Validate(drafted, allowed).answer
           again == Verify(shown, allowed, allowed # {})
<1> SUFFICES ASSUME \A i \in DOMAIN upgraded :
                      Cites(upgraded[i]) => upgraded[i].form = "exact"
             PROVE  /\ again.verdict = "ok"
                    /\ again.answer = shown
                    /\ again.valid = Validate(drafted, allowed).valid
  BY DEF Stable
<1>1. ~Refused(upgraded, allowed, allowed # {})
  BY ValidateRefuses
<1>2. /\ shown = Strip(upgraded, allowed)
      /\ Validate(drafted, allowed).valid = Cited(upgraded) \cap allowed
  BY <1>1, ValidatePasses
\* The strip has left exactly the citations of retrieved sections.
<1>3. ASSUME NEW i \in DOMAIN upgraded
      PROVE  /\ Cites(shown[i]) <=> Cites(upgraded[i])
                                    /\ Key(upgraded[i]) \in allowed
             /\ Cites(shown[i]) => shown[i] = upgraded[i]
  <2>1. shown[i] = IF Invented(upgraded, allowed) = {} THEN upgraded[i]
                   ELSE StripSpan(upgraded[i], allowed)
    BY <1>2, StripIndex
  <2>2. CASE Invented(upgraded, allowed) = {}
    BY <2>1, <2>2, InventedCitation
  <2>3. CASE Invented(upgraded, allowed) # {}
    BY <2>1, <2>3 DEF StripSpan, Cites, Gone, Prose, Quoted, Span
  <2> QED BY <2>2, <2>3
<1>4. DOMAIN shown = DOMAIN upgraded
  BY <1>2 DEF Strip
<1>5. Cited(shown) = Cited(upgraded) \cap allowed
  BY <1>3, <1>4 DEF Cited
<1>6. Invented(shown, allowed) = {}
  BY <1>5 DEF Invented
<1>7. Strip(shown, allowed) = shown
  BY <1>6 DEF Strip
<1>8. ~Refused(shown, allowed, allowed # {})
  BY <1>1, <1>2, <1>5, <1>7 DEF Refused
<1>9. again = [verdict |-> "ok", answer |-> shown,
               valid |-> Cited(shown) \cap allowed,
               invented |-> Invented(shown, allowed)]
  BY <1>6, <1>7, <1>8 DEF Verify, Verdict
<1> QED BY <1>2, <1>5, <1>9


-----------------------------------------------------------------------------
(* Types.                                                                  *)

\* The guard's answer is an answer: its edits stay within the spans.
LEMMA ValidateType ==
    ASSUME NEW d \in Answers, NEW allowed \in SUBSET Keys
    PROVE  /\ Validate(d, allowed).answer \in Answers
           /\ Validate(d, allowed).verdict \in Verdicts \ {"none"}
<1> DEFINE upgraded == Upgrade(d, allowed)
<1>1. ASSUME NEW s \in Spans PROVE StripSpan(s, allowed) \in Spans
  BY DEF StripSpan, Spans, Gone, Prose, Quoted, Span, Sections, Edited
<1>2. upgraded \in Answers
  <2>1. \A i \in DOMAIN d : UpgradeSpan(d[i], allowed) \in Spans
    BY UpgradeIndex, UpgradedSpan
  <2> QED BY <2>1 DEF Upgrade, Answers
<1>3. Strip(upgraded, allowed) \in Answers
  BY <1>1, <1>2 DEF Strip, Answers
<1>4. RefusalText \in Answers
  BY DEF RefusalText, Answers, Spans, Prose, Span
<1>5. CASE Refused(upgraded, allowed, allowed # {})
  BY <1>4, <1>5, ValidateRefuses DEF Verdicts
<1>6. CASE ~Refused(upgraded, allowed, allowed # {})
  BY <1>3, <1>6, ValidatePasses DEF Verdicts
<1> QED BY <1>5, <1>6

\* An event patches a turn into a turn of the same question.
LEMMA PatchedType ==
    ASSUME NEW t \in Turns, NEW e \in Events
    PROVE  /\ Patched(t, e) \in Turns
           /\ Patched(t, e).request = t.request
<1>1. CASE e.type = "token"
  <2>1. t.text \o e.text \in Answers
    BY DEF Turns, Events, Answers
  <2> QED BY <1>1, <2>1 DEF Patched, Turns, Events
<1>2. CASE e.type = "validation"
  BY <1>2 DEF Patched, Turns, Events
<1>3. CASE e.type = "done"
  BY <1>3 DEF Patched, Turns, Events
<1>4. CASE e.type = "error"
  BY <1>4 DEF Patched, Turns, Events
<1>5. CASE e.type = "meta"
  BY <1>5 DEF Patched, Turns, Events
<1> QED BY <1>1, <1>2, <1>3, <1>4, <1>5 DEF Events

\* Replacing the last turn leaves a screen of the same length.
LEMMA LastReplaced ==
    ASSUME NEW s \in Seq(Turns), s # <<>>, NEW t \in Turns
    PROVE  LET n == Len(s) IN
           /\ n \in Nat \ {0} /\ n \in DOMAIN s
           /\ [s EXCEPT ![n] = t] \in Seq(Turns)
           /\ Len([s EXCEPT ![n] = t]) = n
           /\ [s EXCEPT ![n] = t] # <<>>
           /\ \A i \in DOMAIN s :
                [s EXCEPT ![n] = t][i] = IF i = n THEN t ELSE s[i]
OBVIOUS

-----------------------------------------------------------------------------
(* The stream that is read.                                                *)

Attached(r) == reader[r] \in {"reading", "aborted"}

\* At most one stream is read or being given up, and as long as there is one
\* the composer is locked; if it is read, its turn is the last one.
OneReader ==
    /\ \A r \in Requests : Attached(r) => busy
    /\ \A q, r \in Requests : Attached(q) /\ Attached(r) => q = r
    /\ \A r \in Requests :
         Reading(r) => turns # <<>> /\ LastTurn.request = r

PageInv == TypeOK /\ OneReader

\* OneReader is what the property says and what makes it inductive.
LEMMA OneReaderSuffices ==
    ASSUME PageInv PROVE ReaderOwnsLastTurn
BY DEF PageInv, OneReader, ReaderOwnsLastTurn, Attached, Reading

\* No events, no turns and no draft, as sequences.
LEMMA EmptySequences ==
    /\ <<>> \in Seq(Events)
    /\ <<>> \in Seq(Turns)
    /\ <<>> \in Seq(Vocabulary)
OBVIOUS

\* The empty page has no reader.
LEMMA PageInit ==
    ASSUME Init PROVE PageInv
BY EmptySequences DEF Init, PageInv, TypeOK, OneReader, Attached, Reading, NoContext,
       Verdicts

\* What the guard is given: an answer, and keys of sections.
LEMMA DraftTypes ==
    ASSUME TypeOK, NEW r \in Requests
    PROVE  /\ draft[r] \in Answers
           /\ context[r].allowed \in SUBSET Keys
           /\ context[r].answers \in BOOLEAN
<1>1. Seq(Vocabulary) \subseteq Answers
  BY ChatAssumption DEF Answers
<1>2. draft[r] \in Answers
  BY <1>1 DEF TypeOK
<1>3. context[r] \in [allowed : SUBSET Keys, answers : BOOLEAN]
  <2>1. NoContext \in [allowed : SUBSET Keys, answers : BOOLEAN]
    BY DEF NoContext
  <2>2. Contexts \subseteq [allowed : SUBSET Keys, answers : BOOLEAN]
    BY ChatAssumption DEF Keys
  <2>3. context[r] \in Contexts \cup {NoContext}
    BY DEF TypeOK
  <2> QED BY <2>1, <2>2, <2>3
<1> QED BY <1>2, <1>3

\* A step of the generator that sends one event changes no turn and no reader.
LEMMA EmitType ==
    ASSUME PageInv, NEW r \in Requests, NEW e \in Events, Emit(r, e)
    PROVE  wire' \in [Requests -> Seq(Events)]
BY DEF PageInv, TypeOK, Emit

\* What the generator sends are events.
LEMMA EventType ==
    /\ \A name \in {"meta", "token", "done", "error"} :
         Event(name, <<>>, "none") \in Events
    /\ Event("token", RefusalText, "none") \in Events
    /\ Event("validation", RefusalText, "refused") \in Events
    /\ \A text \in Answers, verdict \in Verdicts :
         Event("validation", text, verdict) \in Events
    /\ \A span \in Vocabulary : Event("token", <<span>>, "none") \in Events
<1>1. /\ <<>> \in Answers /\ RefusalText \in Answers
      /\ \A span \in Vocabulary : <<span>> \in Answers
  BY ChatAssumption DEF Answers, RefusalText, Spans, Prose, Span
<1> QED BY <1>1 DEF Event, Events, Verdicts

\* The finally block leaves a turn for the same question.
LEMMA ClosedType ==
    ASSUME PageInv, NEW failed \in BOOLEAN, Closed(failed)
    PROVE  /\ busy' = FALSE
           /\ turns' \in Seq(Turns)
<1>1. CASE turns = <<>>
  BY <1>1 DEF Closed, PageInv, TypeOK
<1>2. CASE turns # <<>>
  <2> DEFINE n == Len(turns)
             patched == [turns[n] EXCEPT !.error =
                           @ \/ failed \/ Blank(turns[n].text)]
  <2>1. turns \in Seq(Turns) /\ turns[n] \in Turns
    BY <1>2 DEF PageInv, TypeOK
  <2>2. (turns[n].error \/ failed \/ Blank(turns[n].text)) \in BOOLEAN
    OBVIOUS
  <2>3. patched \in Turns
    BY <2>1, <2>2 DEF Turns
  <2>4. turns' = [turns EXCEPT ![n] = patched]
    BY <1>2 DEF Closed
  <2> QED BY <1>2, <2>1, <2>3, <2>4, LastReplaced DEF Closed
<1> QED BY <1>1, <1>2

\* Every step keeps the types and the one reader.
LEMMA PageStepInv ==
    ASSUME PageInv, [Next]_vars
    PROVE  PageInv'
<1> USE DEF PageInv
<1> SUFFICES ASSUME Next PROVE PageInv'
  BY DEF vars, TypeOK, OneReader, Attached, Reading, LastTurn
<1>1. ASSUME NEW r \in Requests, RetrieveFails(r) PROVE PageInv'
  BY <1>1, EventType, EmitType DEF RetrieveFails, ServerGoto, TypeOK,
     OneReader, Attached, Reading, LastTurn
<1>2. ASSUME NEW r \in Requests, Retrieve(r) PROVE PageInv'
  BY <1>2, EventType, EmitType DEF Retrieve, ServerGoto, TypeOK,
     OneReader, Attached, Reading, LastTurn
<1>3. ASSUME NEW r \in Requests, Refuse(r) PROVE PageInv'
  BY <1>3, EventType, EmitType DEF Refuse, ServerGoto, TypeOK,
     OneReader, Attached, Reading, LastTurn
<1>4. ASSUME NEW r \in Requests, RefuseVerdict(r) PROVE PageInv'
  BY <1>4, EventType, EmitType DEF RefuseVerdict, ServerGoto, TypeOK,
     OneReader, Attached, Reading, LastTurn
<1>5. ASSUME NEW r \in Requests, GenerateToken(r) PROVE PageInv'
  BY <1>5, EventType, EmitType DEF GenerateToken, TypeOK,
     OneReader, Attached, Reading, LastTurn
<1>6. ASSUME NEW r \in Requests, GenerateFails(r) PROVE PageInv'
  BY <1>6, EventType, EmitType DEF GenerateFails, ServerGoto, TypeOK,
     OneReader, Attached, Reading, LastTurn
<1>7. ASSUME NEW r \in Requests, ValidateDraft(r) PROVE PageInv'
  <2> DEFINE report == Validate(draft[r], context[r].allowed)
             e == Event("validation", report.answer, report.verdict)
  <2>1. e \in Events
    BY DraftTypes, ValidateType, EventType DEF Verdicts
  <2>2. Emit(r, e)
    BY <1>7 DEF ValidateDraft
  <2> QED BY <1>7, <2>1, <2>2, EmitType DEF ValidateDraft, ServerGoto, TypeOK,
             OneReader, Attached, Reading, LastTurn
<1>8. ASSUME NEW r \in Requests, Store(r) PROVE PageInv'
  BY <1>8 DEF Store, ServerGoto, TypeOK, OneReader, Attached, Reading, LastTurn
<1>9. ASSUME NEW r \in Requests, Finish(r) PROVE PageInv'
  BY <1>9, EventType, EmitType DEF Finish, ServerGoto, TypeOK,
     OneReader, Attached, Reading, LastTurn
<1>10. ASSUME NEW r \in Requests, ServerDies(r) PROVE PageInv'
  BY <1>10 DEF ServerDies, ServerGoto, TypeOK, OneReader, Attached, Reading,
     LastTurn
<1>11. ASSUME NEW r \in Requests, Cancelled(r) PROVE PageInv'
  BY <1>11 DEF Cancelled, ServerGoto, TypeOK, OneReader, Attached, Reading,
     LastTurn
<1>12. ASSUME NEW r \in Requests, Send(r) PROVE PageInv'
  <2>1. NewTurn(r) \in Turns
    BY DEF NewTurn, Turns, Verdicts, Answers
  <2>2. /\ turns' \in Seq(Turns) /\ turns' # <<>>
        /\ turns'[Len(turns')] = NewTurn(r)
    <3>1. turns \in Seq(Turns) /\ turns' = Append(turns, NewTurn(r))
      BY <1>12 DEF Send, TypeOK
    <3> QED BY <2>1, <3>1
  <2>3. TypeOK'
    BY <1>12, <2>2 DEF Send, ServerGoto, TypeOK, serverVars
  <2>4. \A q \in Requests : ~Attached(q)
    BY <1>12 DEF Send, OneReader
  <2>5. OneReader'
    BY <1>12, <2>2, <2>4 DEF Send, OneReader, Attached, Reading, LastTurn,
       NewTurn, TypeOK
  <2> QED BY <2>3, <2>5
<1>13. ASSUME NEW r \in Requests, Dispatch(r) PROVE PageInv'
  <2> DEFINE n == Len(turns)
             e == Head(wire[r])
  <2>1. e \in Events /\ turns # <<>> /\ turns[n] \in Turns
    BY <1>13 DEF Dispatch, TypeOK, OneReader
  <2>2. turns' = [turns EXCEPT ![n] = Patched(turns[n], e)]
    BY <1>13 DEF Dispatch, PatchLast
  <2>3. /\ turns' \in Seq(Turns) /\ turns' # <<>> /\ Len(turns') = n
        /\ turns'[n].request = turns[n].request
    BY <2>1, <2>2, LastReplaced, PatchedType DEF TypeOK
  <2>4. TypeOK'
    BY <1>13, <2>3 DEF Dispatch, TypeOK, serverVars
  <2>5. OneReader'
    BY <1>13, <2>3 DEF Dispatch, OneReader, Attached, Reading, LastTurn
  <2> QED BY <2>4, <2>5
<1>14. ASSUME NEW r \in Requests, Stop(r) PROVE PageInv'
  BY <1>14 DEF Stop, TypeOK, OneReader, Attached, Reading, LastTurn, serverVars
<1>15. CASE Reset
  BY <1>15 DEF Reset, TypeOK, OneReader, Attached, Reading, LastTurn, serverVars
<1>16. CASE Regenerate
  <2>1. turns' \in Seq(Turns)
    BY <1>16 DEF Regenerate, TypeOK
  <2> QED BY <1>16, <2>1 DEF Regenerate, TypeOK, OneReader, Attached, Reading,
             serverVars
<1>17. ASSUME NEW r \in Requests, StreamEnds(r) PROVE PageInv'
  BY <1>17, ClosedType DEF StreamEnds, TypeOK, OneReader, Attached, Reading,
     serverVars
<1>18. ASSUME NEW r \in Requests, AbortSettles(r) PROVE PageInv'
  BY <1>18, ClosedType, EmptySequences DEF AbortSettles, TypeOK, OneReader, Attached, Reading,
     serverVars
<1>19. ASSUME NEW r \in Requests, ConnectionLost(r) PROVE PageInv'
  <2>1. busy' = FALSE /\ turns' \in Seq(Turns)
    BY <1>19, ClosedType DEF ConnectionLost
  <2>2. /\ Reading(r) /\ UNCHANGED serverVars
        /\ reader' = [reader EXCEPT ![r] = "lost"]
        /\ wire' = [wire EXCEPT ![r] = <<>>]
    BY <1>19 DEF ConnectionLost
  <2>3. TypeOK'
    BY <2>1, <2>2, EmptySequences DEF TypeOK, serverVars
  <2>4. \A q \in Requests : ~Attached(q)' /\ ~Reading(q)'
    BY <2>2 DEF TypeOK, OneReader, Attached, Reading
  <2>5. OneReader'
    BY <2>4 DEF OneReader
  <2> QED BY <2>3, <2>5
<1> QED
  BY <1>1, <1>2, <1>3, <1>4, <1>5, <1>6, <1>7, <1>8, <1>9, <1>10, <1>11,
     <1>12, <1>13, <1>14, <1>15, <1>16, <1>17, <1>18, <1>19
     DEF Next, ServerStep, ServerFault, PageStep

\* Every variable of a conversation keeps its type.
THEOREM ChatTypes == Spec => []TypeOK
<1>1. Spec => []PageInv
  BY PageInit, PageStepInv, PTL DEF Spec
<1>2. PageInv => TypeOK
  BY DEF PageInv
<1> QED BY <1>1, <1>2, PTL

\* However the reader stops, restarts and regenerates, the one stream that is
\* read belongs to the last turn, and no other can be asked for meanwhile.
THEOREM ChatReaderOwnsLastTurn == Spec => []ReaderOwnsLastTurn
<1>1. Spec => []PageInv
  BY PageInit, PageStepInv, PTL DEF Spec
<1> QED BY <1>1, OneReaderSuffices, PTL

-----------------------------------------------------------------------------
(* The verdict.                                                            *)

\* The verdict the server sends for a draft over what was retrieved.
Expected(d, c) ==
    IF c.answers
    THEN [answer |-> Validate(d, c.allowed).answer,
          verdict |-> Validate(d, c.allowed).verdict]
    ELSE [answer |-> RefusalText, verdict |-> "refused"]

Writing == {"generate", "judge", "refuse", "retrieve", "none"}

\* The generator goes the way retrieval has sent it.
OnItsWay(r) ==
    /\ server[r] = "generate" => context[r].answers
    /\ server[r] \in {"refuse", "judge"} => ~context[r].answers

\* Until the generator has sent the verdict there is none under way, ...
NotJudgedYet(r) ==
    server[r] \in Writing =>
        /\ \A k \in DOMAIN wire[r] : wire[r][k].type # "validation"
        /\ \A i \in DOMAIN turns :
             turns[i].request = r => turns[i].verdict = "none"

\* ... the one it sends is the guard's, with no text after it, ...
WireCarriesVerdict(r) ==
    \A k \in DOMAIN wire[r] :
        wire[r][k].type = "validation" =>
            /\ wire[r][k].text = Expected(draft[r], context[r]).answer
            /\ wire[r][k].verdict = Expected(draft[r], context[r]).verdict
            /\ \A m \in DOMAIN wire[r] :
                 m > k => wire[r][m].type \notin {"token", "validation"}

\* ... and a turn with a verdict shows the guard's answer, which nothing that
\* is still under way can change.
ShowsVerdict(i) ==
    \A r \in Requests :
      turns[i].request = r /\ turns[i].verdict # "none" =>
        /\ turns[i].text = Expected(draft[r], context[r]).answer
        /\ turns[i].verdict = Expected(draft[r], context[r]).verdict
        /\ \A k \in DOMAIN wire[r] :
             wire[r][k].type \notin {"token", "validation"}

VerdictInv ==
    /\ \A r \in Requests :
         OnItsWay(r) /\ NotJudgedYet(r) /\ WireCarriesVerdict(r)
    /\ \A i \in DOMAIN turns : ShowsVerdict(i)

ChatInv == PageInv /\ VerdictInv

\* Turns on the screen belong to questions.
LEMMA TurnRequests ==
    ASSUME TypeOK
    PROVE  \A i \in DOMAIN turns :
             turns[i] \in Turns /\ turns[i].request \in Requests
<1>1. \A i \in DOMAIN turns : turns[i] \in Turns
  BY DEF TypeOK
<1> QED BY <1>1 DEF Turns

\* No verdict has been sent at the beginning.
LEMMA VerdictInit ==
    ASSUME Init PROVE VerdictInv
BY DEF Init, VerdictInv, OnItsWay, NotJudgedYet, WireCarriesVerdict,
       NoContext

\* One more event at the end of the wire.
LEMMA EmitIndex ==
    ASSUME PageInv, NEW r \in Requests, NEW e, Emit(r, e)
    PROVE  /\ DOMAIN wire'[r] = 1 .. Len(wire[r]) + 1
           /\ DOMAIN wire[r] = 1 .. Len(wire[r])
           /\ Len(wire[r]) \in Nat
           /\ wire'[r][Len(wire[r]) + 1] = e
           /\ \A k \in DOMAIN wire[r] : wire'[r][k] = wire[r][k]
           /\ \A q \in Requests \ {r} : wire'[q] = wire[q]
<1>1. wire[r] \in Seq(Events) /\ wire'[r] = Append(wire[r], e)
  BY DEF PageInv, TypeOK, Emit
<1> QED BY <1>1 DEF PageInv, TypeOK, Emit

\* A verdict on the screen stands as long as its turn and the draft it judges
\* stay and no text is sent for its question.
LEMMA VerdictStands ==
    ASSUME NEW i \in DOMAIN turns, ShowsVerdict(i),
           turns'[i].request = turns[i].request,
           turns'[i].text = turns[i].text,
           turns'[i].verdict = turns[i].verdict,
           NEW q \in Requests, turns[i].request = q,
           draft'[q] = draft[q], context'[q] = context[q],
           \A k \in DOMAIN wire'[q] :
             \/ wire'[q][k].type \notin {"token", "validation"}
             \/ \E m \in DOMAIN wire[q] : wire'[q][k] = wire[q][m]
    PROVE  ShowsVerdict(i)'
<1> SUFFICES ASSUME turns'[i].verdict # "none"
             PROVE  /\ turns'[i].text = Expected(draft[q], context[q]).answer
                    /\ turns'[i].verdict = Expected(draft[q], context[q]).verdict
                    /\ \A k \in DOMAIN wire'[q] :
                         wire'[q][k].type \notin {"token", "validation"}
  BY DEF ShowsVerdict
<1> QED BY DEF ShowsVerdict

\* A generator that is writing may change its draft and send what is not a
\* verdict: nothing is judged of its question.
LEMMA WritingKeepsVerdicts ==
    ASSUME PageInv, VerdictInv, NEW r \in Requests,
           server[r] \in Writing, server'[r] \in Writing \cup {"closed"},
           \A q \in Requests \ {r} : /\ server'[q] = server[q]
                                     /\ draft'[q] = draft[q]
                                     /\ context'[q] = context[q],
           OnItsWay(r)', turns' = turns,
           NEW e, Emit(r, e), e.type # "validation"
    PROVE  VerdictInv'
<1>1. \A i \in DOMAIN turns : turns[i].request \in Requests
  BY TurnRequests DEF PageInv
<1>2. \A q \in Requests \ {r} :
        (OnItsWay(q) /\ NotJudgedYet(q) /\ WireCarriesVerdict(q))'
  BY EmitIndex DEF VerdictInv, OnItsWay, NotJudgedYet, WireCarriesVerdict
<1>3. /\ \A k \in DOMAIN wire'[r] : wire'[r][k].type # "validation"
      /\ \A i \in DOMAIN turns :
           turns[i].request = r => turns[i].verdict = "none"
  BY EmitIndex DEF VerdictInv, NotJudgedYet
<1>4. NotJudgedYet(r)' /\ WireCarriesVerdict(r)'
  BY <1>3 DEF NotJudgedYet, WireCarriesVerdict
<1>5. ASSUME NEW i \in DOMAIN turns PROVE ShowsVerdict(i)'
  <2>1. CASE turns[i].request = r
    BY <1>3, <2>1 DEF ShowsVerdict
  <2>2. CASE turns[i].request # r
    <3>1. wire'[turns[i].request] = wire[turns[i].request]
      BY <1>1, <2>2, EmitIndex
    <3> QED BY <1>1, <2>2, <3>1, VerdictStands DEF VerdictInv
  <2> QED BY <2>1, <2>2
<1> QED BY <1>2, <1>4, <1>5 DEF VerdictInv

\* The verdict itself, the first one sent for its question.
LEMMA VerdictSent ==
    ASSUME PageInv, VerdictInv, NEW r \in Requests,
           server[r] \in Writing, server'[r] = "store",
           \A q \in Requests \ {r} : server'[q] = server[q],
           UNCHANGED <<draft, context, turns>>,
           Emit(r, Event("validation",
                         Expected(draft[r], context[r]).answer,
                         Expected(draft[r], context[r]).verdict))
    PROVE  VerdictInv'
<1> DEFINE x == Expected(draft[r], context[r])
           e == Event("validation", x.answer, x.verdict)
<1>1. \A i \in DOMAIN turns : turns[i].request \in Requests
  BY TurnRequests DEF PageInv
<1>2. \A q \in Requests \ {r} :
        (OnItsWay(q) /\ NotJudgedYet(q) /\ WireCarriesVerdict(q))'
  BY EmitIndex DEF VerdictInv, OnItsWay, NotJudgedYet, WireCarriesVerdict
<1>3. /\ \A k \in DOMAIN wire[r] : wire[r][k].type # "validation"
      /\ \A i \in DOMAIN turns :
           turns[i].request = r => turns[i].verdict = "none"
  BY DEF VerdictInv, NotJudgedYet
<1>4. e.text = x.answer /\ e.verdict = x.verdict
  BY DEF Event
<1>5. OnItsWay(r)' /\ NotJudgedYet(r)'
  BY DEF OnItsWay, NotJudgedYet, Writing
<1>6. WireCarriesVerdict(r)'
  BY <1>3, <1>4, EmitIndex DEF WireCarriesVerdict
<1>7. \A i \in DOMAIN turns' : ShowsVerdict(i)'
  <2> SUFFICES ASSUME NEW i \in DOMAIN turns PROVE ShowsVerdict(i)'
    OBVIOUS
  <2>1. CASE turns[i].request = r
    BY <1>3, <2>1 DEF ShowsVerdict
  <2>2. CASE turns[i].request # r
    <3>1. wire'[turns[i].request] = wire[turns[i].request]
      BY <1>1, <2>2, EmitIndex
    <3> QED BY <1>1, <2>2, <3>1, VerdictStands DEF VerdictInv
  <2> QED BY <2>1, <2>2
<1> QED BY <1>2, <1>5, <1>6, <1>7 DEF VerdictInv

\* A generator past its verdict, or one that stops, sends no more text.
LEMMA QuietKeepsVerdicts ==
    ASSUME PageInv, VerdictInv, NEW r \in Requests,
           server'[r] \in {"finish", "closed", "dead"},
           \A q \in Requests \ {r} : server'[q] = server[q],
           UNCHANGED <<draft, context, turns>>,
           wire' = wire
    PROVE  VerdictInv'
<1>1. \A q \in Requests :
        (OnItsWay(q) /\ NotJudgedYet(q) /\ WireCarriesVerdict(q))'
  BY DEF VerdictInv, OnItsWay, NotJudgedYet, WireCarriesVerdict, Writing
<1>2. \A i \in DOMAIN turns' : ShowsVerdict(i)'
  BY DEF VerdictInv, ShowsVerdict
<1> QED BY <1>1, <1>2 DEF VerdictInv

\* The done event comes after the verdict, if there is one.
LEMMA LateEventKeepsVerdicts ==
    ASSUME PageInv, VerdictInv, NEW r \in Requests,
           server'[r] = "closed",
           \A q \in Requests \ {r} : server'[q] = server[q],
           UNCHANGED <<draft, context, turns>>,
           NEW e, Emit(r, e), e.type \notin {"token", "validation"}
    PROVE  VerdictInv'
<1>1. \A i \in DOMAIN turns : turns[i].request \in Requests
  BY TurnRequests DEF PageInv
<1>2. \A q \in Requests \ {r} :
        (OnItsWay(q) /\ NotJudgedYet(q) /\ WireCarriesVerdict(q))'
  BY EmitIndex DEF VerdictInv, OnItsWay, NotJudgedYet, WireCarriesVerdict
<1>3. OnItsWay(r)' /\ NotJudgedYet(r)'
  BY DEF OnItsWay, NotJudgedYet, Writing
<1>4. WireCarriesVerdict(r)'
  BY EmitIndex DEF VerdictInv, WireCarriesVerdict
<1>5. ASSUME NEW i \in DOMAIN turns PROVE ShowsVerdict(i)'
  <2> DEFINE q == turns[i].request
  <2>1. \A k \in DOMAIN wire'[q] :
          \/ wire'[q][k].type \notin {"token", "validation"}
          \/ \E m \in DOMAIN wire[q] : wire'[q][k] = wire[q][m]
    <3>1. CASE q = r
      BY <3>1, EmitIndex
    <3>2. CASE q # r
      BY <1>1, <3>2, EmitIndex
    <3> QED BY <3>1, <3>2
  <2> QED BY <1>1, <2>1, VerdictStands DEF VerdictInv
<1> QED BY <1>2, <1>3, <1>4, <1>5 DEF VerdictInv

\* A new question opens an empty turn.
LEMMA SendKeepsVerdicts ==
    ASSUME PageInv, VerdictInv, NEW r \in Requests, Send(r)
    PROVE  VerdictInv'
<1>1. turns \in Seq(Turns) /\ turns' = Append(turns, NewTurn(r))
  BY DEF Send, PageInv, TypeOK
<1>2. \A i \in DOMAIN turns' :
        \/ i \in DOMAIN turns /\ turns'[i] = turns[i]
        \/ turns'[i].verdict = "none"
  BY <1>1 DEF NewTurn
<1>3. \A i \in DOMAIN turns : turns[i].request \in Requests
  BY TurnRequests DEF PageInv
<1>4. /\ UNCHANGED <<context, draft, wire>>
      /\ server[r] = "none" /\ server'[r] = "retrieve"
      /\ \A q \in Requests \ {r} : server'[q] = server[q]
  BY DEF Send, ServerGoto, PageInv, TypeOK
<1>5. \A q \in Requests : OnItsWay(q)' /\ WireCarriesVerdict(q)'
  BY <1>4 DEF VerdictInv, OnItsWay, WireCarriesVerdict
<1>6. \A q \in Requests : NotJudgedYet(q)'
  BY <1>2, <1>4 DEF VerdictInv, NotJudgedYet, Writing
<1>7. \A i \in DOMAIN turns' : ShowsVerdict(i)'
  BY <1>2, <1>3, <1>4 DEF VerdictInv, ShowsVerdict
<1> QED BY <1>5, <1>6, <1>7 DEF VerdictInv

\* An event that is dispatched leaves the tail of the wire.
LEMMA DispatchIndex ==
    ASSUME PageInv, NEW r \in Requests, Dispatch(r)
    PROVE  /\ 1 \in DOMAIN wire[r] /\ Head(wire[r]) = wire[r][1]
           /\ Head(wire[r]) \in Events
           /\ \A k \in DOMAIN wire'[r] :
                k \in Nat /\ k > 0 /\ k + 1 \in DOMAIN wire[r]
                /\ wire'[r][k] = wire[r][k + 1]
           /\ \A q \in Requests \ {r} : wire'[q] = wire[q]
<1>1. /\ wire[r] \in Seq(Events) /\ wire[r] # <<>>
      /\ wire'[r] = Tail(wire[r])
      /\ \A q \in Requests \ {r} : wire'[q] = wire[q]
  BY DEF PageInv, TypeOK, Dispatch
<1> QED BY <1>1

\* Dispatching a token before the verdict, or the verdict, or what follows it.
LEMMA DispatchKeepsVerdicts ==
    ASSUME PageInv, VerdictInv, NEW r \in Requests, Dispatch(r)
    PROVE  VerdictInv'
<1> DEFINE e == Head(wire[r])
<1>0. PICK n : n = Len(turns)
  OBVIOUS
<1>1. /\ UNCHANGED <<server, draft, context>>
      /\ turns # <<>> /\ turns[n].request = r /\ turns[n] \in Turns
      /\ turns' = [turns EXCEPT ![n] = Patched(turns[n], e)]
  BY <1>0 DEF Dispatch, serverVars, PatchLast, PageInv, TypeOK, OneReader, LastTurn
<1>2. /\ DOMAIN turns' = DOMAIN turns /\ n \in DOMAIN turns
      /\ turns'[n] = Patched(turns[n], e) /\ turns'[n].request = r
      /\ \A i \in DOMAIN turns : i # n => turns'[i] = turns[i]
  BY <1>0, <1>1, DispatchIndex, PatchedType, LastReplaced DEF PageInv, TypeOK
<1>3. \A i \in DOMAIN turns : turns'[i].request = turns[i].request
                              /\ turns[i].request \in Requests
  BY <1>1, <1>2, TurnRequests DEF PageInv
<1>4. \A q \in Requests : WireCarriesVerdict(q)'
  BY <1>1, DispatchIndex DEF VerdictInv, WireCarriesVerdict
<1>5. \/ e.type = "validation" /\ server[r] \notin Writing
      \/ e.type # "validation" /\ turns'[n].verdict = turns[n].verdict
  BY <1>1, <1>2, DispatchIndex
     DEF VerdictInv, NotJudgedYet, Patched, Events, Turns
<1>6. \A q \in Requests : OnItsWay(q)' /\ NotJudgedYet(q)'
  BY <1>1, <1>2, <1>3, <1>5, DispatchIndex
     DEF VerdictInv, OnItsWay, NotJudgedYet
<1>7. ASSUME NEW i \in DOMAIN turns, i # n PROVE ShowsVerdict(i)'
  <2> DEFINE q == turns[i].request
  <2>1. \A k \in DOMAIN wire'[q] :
          \E m \in DOMAIN wire[q] : wire'[q][k] = wire[q][m]
    BY <1>3, DispatchIndex
  <2> QED BY <1>1, <1>2, <1>3, <1>7, <2>1, VerdictStands DEF VerdictInv
<1>8. ShowsVerdict(n)'
  <2>1. CASE e.type = "validation"
    <3>1. /\ e.text = Expected(draft[r], context[r]).answer
          /\ e.verdict = Expected(draft[r], context[r]).verdict
          /\ \A k \in DOMAIN wire'[r] :
               wire'[r][k].type \notin {"token", "validation"}
      BY <2>1, DispatchIndex DEF VerdictInv, WireCarriesVerdict
    <3>2. turns'[n].text = e.text /\ turns'[n].verdict = e.verdict
      BY <1>1, <1>2, <2>1 DEF Patched, Turns
    <3>3. /\ turns'[n].text = Expected(draft[r], context[r]).answer
          /\ turns'[n].verdict = Expected(draft[r], context[r]).verdict
      BY <3>1, <3>2
    <3>4. /\ turns'[n].text = Expected(draft[r], context[r])'.answer
          /\ turns'[n].verdict = Expected(draft[r], context[r])'.verdict
      BY <1>1, <3>3
    <3> QED BY <1>2, <3>1, <3>4 DEF ShowsVerdict
  <2>2. CASE e.type # "validation"
    <3> SUFFICES ASSUME turns[n].verdict # "none" PROVE ShowsVerdict(n)'
      BY <1>5, <2>2 DEF ShowsVerdict
    <3>1. /\ turns[n].text = Expected(draft[r], context[r]).answer
          /\ turns[n].verdict = Expected(draft[r], context[r]).verdict
          /\ \A k \in DOMAIN wire[r] :
               wire[r][k].type \notin {"token", "validation"}
      BY <1>1, <1>2 DEF VerdictInv, ShowsVerdict
    <3>2. e.type \in {"meta", "done", "error"}
      BY <3>1, DispatchIndex DEF Events
    <3>3. turns'[n].text = turns[n].text
          /\ turns'[n].verdict = turns[n].verdict
      BY <1>1, <1>2, <3>2 DEF Patched, Turns
    <3>4. \A k \in DOMAIN wire'[r] :
            \E m \in DOMAIN wire[r] : wire'[r][k] = wire[r][m]
      BY DispatchIndex
    <3> QED BY <1>1, <1>2, <3>3, <3>4, VerdictStands DEF VerdictInv
  <2> QED BY <2>1, <2>2
<1> QED BY <1>2, <1>4, <1>6, <1>7, <1>8 DEF VerdictInv

\* The page's other steps drop turns, or mark one as failed, and drop what a
\* stream that is over has not delivered.
LEMMA PageKeepsVerdicts ==
    ASSUME PageInv, VerdictInv, UNCHANGED <<server, draft, context>>,
           \A q \in Requests : wire'[q] = wire[q] \/ wire'[q] = <<>>,
           \A i \in DOMAIN turns' :
             /\ i \in DOMAIN turns
             /\ turns'[i].request = turns[i].request
             /\ turns'[i].text = turns[i].text
             /\ turns'[i].verdict = turns[i].verdict
    PROVE  VerdictInv'
<1>1. \A i \in DOMAIN turns : turns[i].request \in Requests
  BY TurnRequests DEF PageInv
<1>2. \A q \in Requests : OnItsWay(q)'
  BY DEF VerdictInv, OnItsWay
<1>3. \A q \in Requests : NotJudgedYet(q)'
  BY DEF VerdictInv, NotJudgedYet
<1>4. \A q \in Requests : WireCarriesVerdict(q)'
  BY DEF VerdictInv, WireCarriesVerdict
<1>5. \A i \in DOMAIN turns' : ShowsVerdict(i)'
  BY <1>1 DEF VerdictInv, ShowsVerdict
<1> QED BY <1>2, <1>3, <1>4, <1>5 DEF VerdictInv

\* What the finally block changes of the turns.
LEMMA ClosedKeepsAnswers ==
    ASSUME PageInv, NEW failed \in BOOLEAN, Closed(failed)
    PROVE  \A i \in DOMAIN turns' :
             /\ i \in DOMAIN turns
             /\ turns'[i].request = turns[i].request
             /\ turns'[i].text = turns[i].text
             /\ turns'[i].verdict = turns[i].verdict
<1> DEFINE n == Len(turns)
           x == turns[n].error \/ failed \/ Blank(turns[n].text)
<1>1. CASE turns = <<>>
  BY <1>1 DEF Closed
<1>2. CASE turns # <<>>
  <2>1. /\ turns \in Seq(Turns) /\ n \in DOMAIN turns /\ turns[n] \in Turns
    BY <1>2 DEF PageInv, TypeOK
  <2>2. turns' = [turns EXCEPT ![n] = [turns[n] EXCEPT !.error = x]]
    BY <1>2 DEF Closed
  <2>3. [turns[n] EXCEPT !.error = x].text = turns[n].text
        /\ [turns[n] EXCEPT !.error = x].request = turns[n].request
        /\ [turns[n] EXCEPT !.error = x].verdict = turns[n].verdict
    BY <2>1 DEF Turns
  <2> HIDE DEF x
  <2> QED BY <2>1, <2>2, <2>3
<1> QED BY <1>1, <1>2

\* Every step keeps the verdicts.
LEMMA VerdictStep ==
    ASSUME PageInv, VerdictInv, [Next]_vars
    PROVE  VerdictInv'
<1> SUFFICES ASSUME Next PROVE VerdictInv'
  BY DEF vars, VerdictInv, OnItsWay, NotJudgedYet, WireCarriesVerdict,
     ShowsVerdict
<1>1. ASSUME NEW r \in Requests, RetrieveFails(r) PROVE VerdictInv'
  BY <1>1, WritingKeepsVerdicts DEF RetrieveFails, ServerGoto, Writing,
     OnItsWay, Event, PageInv, TypeOK
<1>2. ASSUME NEW r \in Requests, Retrieve(r) PROVE VerdictInv'
  <2>1. OnItsWay(r)'
    BY <1>2 DEF Retrieve, ServerGoto, OnItsWay, PageInv, TypeOK
  <2>2. server[r] \in Writing /\ server'[r] \in Writing
    BY <1>2 DEF Retrieve, ServerGoto, Writing, PageInv, TypeOK
  <2> QED BY <1>2, <2>1, <2>2, WritingKeepsVerdicts DEF Retrieve, ServerGoto,
             Event, PageInv, TypeOK
<1>3. ASSUME NEW r \in Requests, Refuse(r) PROVE VerdictInv'
  BY <1>3, WritingKeepsVerdicts DEF Refuse, ServerGoto, Writing, OnItsWay,
     Event, PageInv, TypeOK, VerdictInv
<1>4. ASSUME NEW r \in Requests, RefuseVerdict(r) PROVE VerdictInv'
  <2>1. Expected(draft[r], context[r])
          = [answer |-> RefusalText, verdict |-> "refused"]
    BY <1>4 DEF RefuseVerdict, VerdictInv, OnItsWay, Expected
  <2> QED BY <1>4, <2>1, VerdictSent DEF RefuseVerdict, ServerGoto, Writing,
             PageInv, TypeOK
<1>5. ASSUME NEW r \in Requests, GenerateToken(r) PROVE VerdictInv'
  <2>1. PICK span \in Vocabulary : Emit(r, Event("token", <<span>>, "none"))
    BY <1>5 DEF GenerateToken
  <2> QED BY <1>5, <2>1, WritingKeepsVerdicts DEF GenerateToken, Writing,
             OnItsWay, Event, PageInv, TypeOK, VerdictInv
<1>6. ASSUME NEW r \in Requests, GenerateFails(r) PROVE VerdictInv'
  BY <1>6, WritingKeepsVerdicts DEF GenerateFails, ServerGoto, Writing,
     OnItsWay, Event, PageInv, TypeOK
<1>7. ASSUME NEW r \in Requests, ValidateDraft(r) PROVE VerdictInv'
  <2>1. /\ Expected(draft[r], context[r]).answer
             = Validate(draft[r], context[r].allowed).answer
        /\ Expected(draft[r], context[r]).verdict
             = Validate(draft[r], context[r].allowed).verdict
    BY <1>7 DEF ValidateDraft, VerdictInv, OnItsWay, Expected
  <2> QED BY <1>7, <2>1, VerdictSent DEF ValidateDraft, ServerGoto, Writing,
             PageInv, TypeOK
<1>8. ASSUME NEW r \in Requests, Store(r) PROVE VerdictInv'
  BY <1>8, QuietKeepsVerdicts DEF Store, ServerGoto, PageInv, TypeOK
<1>9. ASSUME NEW r \in Requests, Finish(r) PROVE VerdictInv'
  BY <1>9, LateEventKeepsVerdicts DEF Finish, ServerGoto, PageInv, TypeOK,
     Event
<1>10. ASSUME NEW r \in Requests, ServerDies(r) PROVE VerdictInv'
  BY <1>10, QuietKeepsVerdicts DEF ServerDies, ServerGoto, PageInv, TypeOK
<1>11. ASSUME NEW r \in Requests, Cancelled(r) PROVE VerdictInv'
  BY <1>11, QuietKeepsVerdicts DEF Cancelled, ServerGoto, PageInv, TypeOK
<1>12. ASSUME NEW r \in Requests, Send(r) PROVE VerdictInv'
  BY <1>12, SendKeepsVerdicts
<1>13. ASSUME NEW r \in Requests, Dispatch(r) PROVE VerdictInv'
  BY <1>13, DispatchKeepsVerdicts
<1>14. ASSUME NEW r \in Requests, Stop(r) PROVE VerdictInv'
  BY <1>14, PageKeepsVerdicts DEF Stop, serverVars
<1>15. CASE Reset
  BY <1>15, PageKeepsVerdicts DEF Reset, serverVars
<1>16. CASE Regenerate
  <2>1. turns \in Seq(Turns) /\ turns' = SubSeq(turns, 1, Len(turns) - 1)
    BY <1>16 DEF Regenerate, PageInv, TypeOK
  <2>2. \A i \in DOMAIN turns' : i \in DOMAIN turns /\ turns'[i] = turns[i]
    BY <2>1
  <2> QED BY <1>16, <2>2, PageKeepsVerdicts DEF Regenerate, serverVars
<1>17. ASSUME NEW r \in Requests, StreamEnds(r) PROVE VerdictInv'
  BY <1>17, ClosedKeepsAnswers, PageKeepsVerdicts DEF StreamEnds, serverVars
<1>18. ASSUME NEW r \in Requests, AbortSettles(r) PROVE VerdictInv'
  BY <1>18, ClosedKeepsAnswers, PageKeepsVerdicts DEF AbortSettles,
     serverVars, PageInv, TypeOK
<1>19. ASSUME NEW r \in Requests, ConnectionLost(r) PROVE VerdictInv'
  BY <1>19, ClosedKeepsAnswers, PageKeepsVerdicts DEF ConnectionLost,
     serverVars, PageInv, TypeOK
<1> QED
  BY <1>1, <1>2, <1>3, <1>4, <1>5, <1>6, <1>7, <1>8, <1>9, <1>10, <1>11,
     <1>12, <1>13, <1>14, <1>15, <1>16, <1>17, <1>18, <1>19
     DEF Next, ServerStep, ServerFault, PageStep

\* The types, the one reader and the verdicts hold together throughout.
LEMMA ChatInvariant == Spec => []ChatInv
<1>1. Init => ChatInv
  BY PageInit, VerdictInit DEF ChatInv
<1>2. ChatInv /\ [Next]_vars => ChatInv'
  BY PageStepInv, VerdictStep DEF ChatInv
<1> QED BY <1>1, <1>2, PTL DEF Spec

\* A judged turn shows the guard's answer to its own draft.
LEMMA JudgedTurn ==
    ASSUME ChatInv, NEW i \in Judged
    PROVE  /\ DraftOf(i) \in Answers
           /\ AllowedOf(i) \in SUBSET Keys
           /\ turns[i].text = Validate(DraftOf(i), AllowedOf(i)).answer
           /\ turns[i].verdict = Validate(DraftOf(i), AllowedOf(i)).verdict
<1> DEFINE r == turns[i].request
<1>1. /\ i \in DOMAIN turns /\ r \in Requests
      /\ turns[i].verdict # "none" /\ context[r].answers
  BY TurnRequests DEF Judged, ChatInv, PageInv
<1>2. /\ turns[i].text = Expected(draft[r], context[r]).answer
      /\ turns[i].verdict = Expected(draft[r], context[r]).verdict
  BY <1>1 DEF ChatInv, VerdictInv, ShowsVerdict
<1> QED BY <1>1, <1>2, DraftTypes DEF Expected, DraftOf, AllowedOf, ChatInv,
           PageInv

\* Whatever the reader clicks and whichever stream fails, an exactly written
\* citation under a verdict names a section retrieved for that question.
THEOREM ChatCitationsRetrieved == Spec => []CitationsRetrieved
<1>1. ChatInv => CitationsRetrieved
  <2> SUFFICES ASSUME ChatInv, NEW i \in Judged
               PROVE  ExactCitationsRetrieved(turns[i].text, DraftOf(i),
                                              AllowedOf(i))
    BY DEF CitationsRetrieved, Passed
  <2> QED BY JudgedTurn, GuardShowsRetrievedCitations
<1> QED BY <1>1, ChatInvariant, PTL

\* No turn under a verdict has an unsupported quotation in it.
THEOREM ChatNoMisquotation == Spec => []NoMisquotation
<1>1. ChatInv => NoMisquotation
  BY JudgedTurn, GuardShowsNoMisquotation DEF NoMisquotation
<1> QED BY <1>1, ChatInvariant, PTL

\* An answer that was let through over retrieved sections mentions one.
THEOREM ChatAnswersGrounded == Spec => []AnswersGrounded
<1>1. ChatInv => AnswersGrounded
  <2> SUFFICES ASSUME ChatInv, NEW i \in Passed
               PROVE  Grounded(turns[i].text, AllowedOf(i))
    BY DEF AnswersGrounded
  <2>1. i \in Judged /\ turns[i].verdict # "refused"
    BY DEF Passed
  <2> QED BY <2>1, JudgedTurn, GuardShowsGroundedAnswers
<1> QED BY <1>1, ChatInvariant, PTL

\* What the guard let through, it would let through again as it stands.
THEOREM ChatGuardIsStable == Spec => []GuardIsStable
<1>1. ChatInv => GuardIsStable
  <2> SUFFICES ASSUME ChatInv, NEW i \in Passed
               PROVE  Stable(turns[i].text, DraftOf(i), AllowedOf(i))
    BY DEF GuardIsStable
  <2>1. i \in Judged /\ turns[i].verdict # "refused"
    BY DEF Passed
  <2> QED BY <2>1, JudgedTurn, GuardIsIdempotent
<1> QED BY <1>1, ChatInvariant, PTL

\* A draft on the screen was refused for being upgraded only where that spoilt
\* a quotation of the sources.
THEOREM ChatRefusedForQuotationOnly == Spec => []RefusedForQuotationOnly
<1>1. ChatInv => RefusedForQuotationOnly
  BY JudgedTurn, UpgradeHarmsOnlyQuotations DEF RefusedForQuotationOnly
<1> QED BY <1>1, ChatInvariant, PTL

-----------------------------------------------------------------------------
(* The page implements ChatBoard.                                          *)

View == [i \in DOMAIN turns |-> TurnState(i)]

States == {"pending", "validated", "unvalidated"}

\* The refinement mapping, turn by turn.
LEMMA ViewIndex ==
    ASSUME PageInv
    PROVE  /\ View \in Seq(States)
           /\ Len(View) = Len(turns) /\ DOMAIN View = DOMAIN turns
           /\ (View = <<>>) <=> (turns = <<>>)
           /\ \A i \in DOMAIN turns : View[i] = TurnState(i)
<1>1. turns \in Seq(Turns)
  BY DEF PageInv, TypeOK
<1>2. \A i \in DOMAIN turns : TurnState(i) \in States
  BY DEF TurnState, States
<1> QED BY <1>1, <1>2 DEF View

\* A stream that is over concludes the pending turn, or gives up one that is
\* gone from the screen.
LEMMA ClosedConcludes ==
    ASSUME PageInv, PageInv', busy, NEW failed \in BOOLEAN, Closed(failed)
    PROVE  Board!BoardNext
<1>1. busy' = FALSE
  BY DEF Closed
<1>2. CASE turns = <<>>
  <2>1. turns' = <<>>
    BY <1>2 DEF Closed
  <2>2. View = <<>> /\ View' = <<>>
    BY <1>2, <2>1 DEF View
  <2> QED BY <1>1, <2>2 DEF Board!BoardNext, Board!GiveUp, View
<1>3. CASE turns # <<>>
  <2>0. PICK n : n = Len(turns)
    OBVIOUS
  <2>1. /\ n \in DOMAIN turns /\ DOMAIN turns' = DOMAIN turns
        /\ Len(turns') = n
        /\ \A i \in DOMAIN turns : turns'[i].verdict = turns[i].verdict
    BY <1>3, <2>0, ClosedKeepsAnswers DEF Closed, PageInv, TypeOK
  <2> DEFINE outcome == IF turns[n].verdict = "none"
                        THEN "unvalidated" ELSE "validated"
  <2>2. View[n] = "pending" /\ View # <<>> /\ Len(View) = n
    BY <1>3, <2>0, <2>1, ViewIndex DEF TurnState
  <2>3. \A i \in DOMAIN turns :
          View'[i] = IF i = n THEN outcome ELSE View[i]
    <3>1. \A i \in DOMAIN turns :
            /\ View'[i] = TurnState(i)' /\ View[i] = TurnState(i)
      BY <2>1 DEF View
    <3> QED BY <1>1, <2>0, <2>1, <3>1 DEF TurnState
  <2>4. View' = [View EXCEPT ![n] = outcome]
    BY <2>1, <2>3 DEF View
  <2> QED BY <1>1, <2>2, <2>4 DEF Board!BoardNext, Board!Conclude, Board!Last,
             View
<1> QED BY <1>2, <1>3

\* While a question is under way its own turn is pending, whatever it shows.
LEMMA BoardStands ==
    ASSUME DOMAIN turns' = DOMAIN turns, Len(turns') = Len(turns),
           busy' = busy,
           \A i \in DOMAIN turns :
             \/ busy /\ i = Len(turns)
             \/ turns'[i].verdict = turns[i].verdict
    PROVE  View' = View
<1>1. \A i \in DOMAIN turns : TurnState(i)' = TurnState(i)
  BY DEF TurnState
<1> QED BY <1>1 DEF View

\* Every step of the page is a step of the board, or none.
LEMMA BoardStep ==
    ASSUME PageInv, PageInv', [Next]_vars
    PROVE  [Board!BoardNext]_<<View, busy>>
<1>1. CASE turns' = turns /\ busy' = busy
  BY <1>1, BoardStands
<1>2. ASSUME NEW r \in Requests, Send(r) PROVE Board!BoardNext
  <2>1. /\ turns \in Seq(Turns) /\ turns' = Append(turns, NewTurn(r))
        /\ ~busy /\ busy' = TRUE
    BY <1>2 DEF Send, PageInv, TypeOK
  <2>2. /\ Len(turns') = Len(turns) + 1 /\ DOMAIN turns' = 1 .. Len(turns')
        /\ DOMAIN turns = 1 .. Len(turns) /\ Len(turns) \in Nat
        /\ \A i \in DOMAIN turns : turns'[i] = turns[i]
    BY <2>1
  <2>3. \A i \in DOMAIN turns' :
          View'[i] = IF i = Len(turns) + 1 THEN "pending" ELSE View[i]
    <3>1. \A i \in DOMAIN turns' : View'[i] = TurnState(i)'
      BY DEF View
    <3>2. \A i \in DOMAIN turns : View[i] = TurnState(i)
      BY DEF View
    <3> QED BY <2>1, <2>2, <3>1, <3>2 DEF TurnState
  <2>4. View' = Append(View, "pending")
    <3>1. /\ View \in Seq(States) /\ Len(View) = Len(turns)
          /\ "pending" \in States
      BY ViewIndex DEF States
    <3>2. View' \in Seq(States) /\ Len(View') = Len(turns) + 1
      <4>1. \A i \in 1 .. Len(turns') : TurnState(i)' \in States
        BY DEF TurnState, States
      <4> QED BY <2>2, <4>1 DEF View
    <3> QED BY <2>2, <2>3, <3>1, <3>2, SeqEqual, AppendProperties
  <2> QED BY <2>1, <2>4 DEF Board!BoardNext, Board!Ask, View
<1>3. ASSUME NEW r \in Requests, Dispatch(r) PROVE View' = View /\ busy' = busy
  <2>1. /\ turns \in Seq(Turns) /\ turns # <<>> /\ busy /\ busy' = busy
        /\ turns' = [turns EXCEPT ![Len(turns)] =
                       Patched(turns[Len(turns)], Head(wire[r]))]
    BY <1>3 DEF Dispatch, PatchLast, PageInv, TypeOK, OneReader, Attached,
       Reading
  <2>2. /\ DOMAIN turns' = DOMAIN turns /\ Len(turns') = Len(turns)
        /\ \A i \in DOMAIN turns : i # Len(turns) => turns'[i] = turns[i]
    BY <2>1
  <2> QED BY <2>1, <2>2, BoardStands
<1>4. CASE Reset
  <2>1. View' = <<>>
    BY <1>4 DEF Reset, View
  <2> QED BY <1>4, <2>1 DEF Reset, Board!BoardNext, Board!Clear, View
<1>5. CASE Regenerate
  <2>1. /\ turns \in Seq(Turns) /\ turns # <<>> /\ ~busy /\ busy' = busy
        /\ turns' = SubSeq(turns, 1, Len(turns) - 1)
    BY <1>5 DEF Regenerate, PageInv, TypeOK
  <2>2. /\ Len(turns) \in Nat /\ DOMAIN turns' = 1 .. Len(turns) - 1
        /\ \A i \in DOMAIN turns' : turns'[i] = turns[i] /\ i \in DOMAIN turns
    BY <2>1
  <2>3. \A i \in DOMAIN turns' : View'[i] = View[i]
    BY <2>1, <2>2 DEF View, TurnState
  <2>4. View' = SubSeq(View, 1, Len(View) - 1)
    <3>1. SubSeq(View, 1, Len(View) - 1)
            = [i \in 1 .. Len(turns) - 1 |-> View[i]]
      BY <2>2, ViewIndex
    <3>2. View' = [i \in 1 .. Len(turns) - 1 |-> View'[i]]
      BY <2>2 DEF View
    <3> QED BY <2>2, <2>3, <3>1, <3>2
  <2>5. View # <<>>
    BY <2>1, ViewIndex
  <2> QED BY <2>1, <2>4, <2>5 DEF Board!BoardNext, Board!DropLast, View
<1>6. ASSUME NEW r \in Requests, StreamEnds(r) PROVE Board!BoardNext
  BY <1>6, ClosedConcludes DEF StreamEnds, PageInv, OneReader, Attached, Reading
<1>7. ASSUME NEW r \in Requests, AbortSettles(r) PROVE Board!BoardNext
  BY <1>7, ClosedConcludes DEF AbortSettles, PageInv, OneReader, Attached
<1>8. ASSUME NEW r \in Requests, ConnectionLost(r) PROVE Board!BoardNext
  BY <1>8, ClosedConcludes DEF ConnectionLost, PageInv, OneReader, Attached,
     Reading
<1>9. ASSUME NEW r \in Requests,
             \/ ServerStep(r) \/ ServerFault(r) \/ Stop(r)
      PROVE  turns' = turns /\ busy' = busy
  BY <1>9 DEF ServerStep, ServerFault, Retrieve, Refuse, RefuseVerdict,
     GenerateToken, ValidateDraft, Store, Finish, RetrieveFails,
     GenerateFails, ServerDies, Cancelled, Stop
<1>10. CASE UNCHANGED vars
  BY <1>1, <1>10 DEF vars
<1> QED
  BY <1>1, <1>2, <1>3, <1>4, <1>5, <1>6, <1>7, <1>8, <1>9, <1>10
     DEF Next, PageStep

\* The page, its streams and the server together implement the board: late
\* tokens, late verdicts and aborts change no turn that is over.
THEOREM ChatImplementsBoard == Spec => ImplementsBoard
<1>1. Init => Board!BoardInit
  BY DEF Init, Board!BoardInit
<1>2. PageInv /\ PageInv' /\ [Next]_vars
        => [Board!BoardNext]_(Board!boardVars)
  BY BoardStep DEF Board!boardVars, View
<1>3. Spec => []PageInv
  BY PageInit, PageStepInv, PTL DEF Spec
<1> QED BY <1>1, <1>2, <1>3, PTL DEF Spec, ImplementsBoard, Board!BoardSpec

=============================================================================
