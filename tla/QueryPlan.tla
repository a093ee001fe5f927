----------------------------- MODULE QueryPlan -----------------------------
(***************************************************************************)
(* backend/app/retrieval/query.py: what a question is recognised to ask    *)
(* for, and the route that answers it; and rewrite_query of service.py.    *)
(* A question is the set of things in it that a pattern recognises.        *)
(***************************************************************************)
EXTENDS Integers

CONSTANTS
    Acts,         \* short names of Acts
    Numbers,      \* section numbers
    DefaultAct    \* RetrievalService.default_act, "BNSS"

NoAct == "no act"

ASSUME QueryAssumption == DefaultAct \in Acts /\ NoAct \notin Acts

(***************************************************************************)
(*   form          a form number, "Form 12"                                *)
(*   this          "this", "my", "it"                                      *)
(*   the document  "the notice", "the attached", ... with the article      *)
(*   complies      a word of COMPLIANCE                                    *)
(*   what is a     the question opens with "what is a"                     *)
(*   term          a word of TERM_DEFINITION alone, such as "inquiry"      *)
(*   attribute     a word of TERM_DEFINITION and OFFENCE_WORDS, "bailable" *)
(*   penalty       a word of OFFENCE_WORDS alone, such as "punishment"     *)
(*   filler        anything else that rewriting changes: a chapter, filler *)
(*                 words, a question mark                                  *)
(***************************************************************************)
Cues == {"form", "this", "the document", "complies", "what is a", "term",
         "attribute", "penalty", "filler"}

\* named: Acts named as words of their own; bare: a number behind an Act's name,
\* which is named too in "BNS 103" and is not in "BNS103"; keyword: n for
\* "section n".
Questions ==
    [cues : SUBSET Cues, named : SUBSET Acts,
     bare : SUBSET (Acts \X Numbers), keyword : SUBSET Numbers]

Has(q, words) == q.cues \cap words # {}

\* _detect_acts: the Acts named.
ActsOf(q) == q.named

Single(S) == \E x \in S : S = {x}

\* A section number belongs to the Act named, if exactly one is.
Owner(q) ==
    IF Single(ActsOf(q)) THEN CHOOSE a \in Acts : ActsOf(q) = {a} ELSE NoAct

\* _detect_sections: "section n" adds nothing to a number that has its Act.
Mentions(q) ==
    q.bare \cup {<<Owner(q), n>> : n \in q.keyword \ {b[2] : b \in q.bare}}

\* With one Act indexed, a number without an Act is a section of the default.
Resolved(q, known) ==
    IF Single(known)
    THEN {<<IF m[1] = NoAct THEN DefaultAct ELSE m[1], m[2]>> : m \in Mentions(q)}
    ELSE Mentions(q)

Ambiguous(q, known) ==
    ~Single(known) /\ \E m \in Mentions(q) : m[1] = NoAct

RefersToDocument(q, hasDocs) == hasDocs /\ Has(q, {"this", "the document"})

DefinesTerm(q) == Has(q, {"what is a"}) /\ Has(q, {"term", "attribute"})

Routes == {"forms", "both", "session_doc", "semantic", "offence_table",
           "direct_section"}

\* plan_query, the most specific signal first.
Route(q, hasDocs) ==
    LET document == RefersToDocument(q, hasDocs)
        complies == Has(q, {"complies"})
        sections == Mentions(q) # {}
    IN  IF Has(q, {"form"}) THEN "forms"
        ELSE IF document /\ (complies \/ sections) THEN "both"
        ELSE IF document THEN "session_doc"
        ELSE IF DefinesTerm(q) THEN "semantic"
        ELSE IF Has(q, {"attribute", "penalty"}) THEN "offence_table"
        ELSE IF sections /\ ~complies THEN "direct_section"
        ELSE "semantic"

-----------------------------------------------------------------------------
(* rewrite_query: the articles go, and with them the opening and the       *)
(* reference to "the notice"; every section is named again as "section n". *)

Dropped == {"what is a", "the document", "filler"}

Rewrite(q) ==
    [q EXCEPT !.cues = @ \ Dropped,
              !.keyword = @ \cup {m[2] : m \in Mentions(q)}]

\* The rewritten text differs from the question.
Changes(q) == Has(q, Dropped) \/ Mentions(q) # {}

=============================================================================
