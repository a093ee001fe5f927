--------------------------- MODULE AnswerGuard ---------------------------
(***************************************************************************)
(* backend/app/llm/guards.py: what happens to a drafted answer between the *)
(* language model and the user.  An answer is a sequence of spans; of a    *)
(* span the model keeps what the guard's patterns read and what decides    *)
(* whether the guard's edit of it takes effect.                            *)
(***************************************************************************)
EXTENDS Integers, Sequences

CONSTANTS
    Acts,         \* short names of Acts
    DefaultAct,   \* upgrade_bare_citations' default_act, "BNSS"
    Numbers,      \* section numbers
    Within,       \* <<n, m>>: the digits of n occur in the digits of m
    Schedules     \* schedule names, such as "Sch.I"

ASSUME GuardAssumption ==
    /\ DefaultAct \in Acts
    /\ Numbers \cap Schedules = {}
    /\ Within \subseteq Numbers \X Numbers
    /\ \A n \in Numbers : <<n, n>> \in Within

(***************************************************************************)
(* Kinds of spans:                                                         *)
(*   prose   text no pattern of the guard reads                            *)
(*   gone    what the guard has replaced by nothing                        *)
(*   bare    "Section 35", "s. 35 of the BNS": act is "unnamed" or named   *)
(*   cite    a bracketed citation; form says how its text compares with    *)
(*           what Citation.render gives back: "exact", "spaced" (equal up  *)
(*           to runs of white space), or "odd" (spaces where render has    *)
(*           none)                                                         *)
(*   number  other digits, such as an amount or a date                     *)
(* inside is the act of a bracket that the upgrade has wrapped around a    *)
(* citation: "[BNS [BNSS s.35]]" is a citation of BNSS s.35 inside "BNS".  *)
(* Any span may stand in quotation marks; the patterns read it there all   *)
(* the same.  quote says what guard 2 makes of the quotation around it, as *)
(* the model wrote it and once the guard has edited this span in it:       *)
(*   none     not in a quotation                                           *)
(*   kept     supported by the sources either way                          *)
(*   fragile  supported as written, and no longer once edited              *)
(*   false    supported neither way                                        *)
(*   mended   unsupported as written, supported once edited                *)
(***************************************************************************)
Unnamed == "unnamed"
Nowhere == "nowhere"

Span(kind, act, section, form) ==
    [kind |-> kind, act |-> act, section |-> section,
     form |-> form, inside |-> Nowhere, quote |-> "none"]

Quoted(span, quote) == [span EXCEPT !.quote = quote]

Prose == Span("prose", Unnamed, Nowhere, "exact")
Gone  == Span("gone", Unnamed, Nowhere, "exact")

Sections == Numbers \cup Schedules

Spans ==
    [kind : {"prose", "gone", "bare", "cite", "number"},
     act : Acts \cup {Unnamed}, section : Sections \cup {Nowhere},
     form : {"exact", "spaced", "odd"}, inside : Acts \cup {Unnamed, Nowhere},
     quote : {"none", "kept", "fragile", "false", "mended"}]

Answers == Seq(Spans)

\* Citation.key: sub-clauses are not compared.
Key(s) == <<s.act, s.section>>

Cites(s) == s.kind = "cite"

\* The wording of a quotation once a span in it has been edited.
Edited(quote) ==
    CASE quote = "fragile" -> "false"
      [] quote = "mended"  -> "kept"
      [] OTHER             -> quote

\* The text is the empty string.
Blank(answer) == \A i \in DOMAIN answer : answer[i].kind = "gone"

-----------------------------------------------------------------------------
(* upgrade_bare_citations.  BARE_REFERENCE also matches the "s.35" within  *)
(* a bracketed citation, whose look-behind rejects only a "[" right before, *)
(* and a reference within quotation marks: sub runs over the whole text.   *)

Reference(s) ==
    << IF s.kind = "bare" /\ s.act # Unnamed THEN s.act ELSE DefaultAct,
       s.section >>

\* Mutated form: any retrieved Act with that section number will do.
UpgradesAnyAct(s, allowed) ==
    /\ s.kind \in {"bare", "cite"}
    /\ \E key \in allowed : key[2] = s.section

Upgrades(s, allowed) ==
    /\ s.kind \in {"bare", "cite"}
    /\ s.section \in Numbers
    /\ Reference(s) \in allowed

UpgradeSpan(s, allowed) ==
    IF Upgrades(s, allowed)
    THEN [Span("cite", Reference(s)[1], s.section, "exact") EXCEPT
            !.inside = IF Cites(s) THEN s.act ELSE Nowhere,
            !.quote = Edited(s.quote)]
    ELSE s

Upgrade(answer, allowed) ==
    [i \in DOMAIN answer |-> UpgradeSpan(answer[i], allowed)]

-----------------------------------------------------------------------------
(* verify_answer.                                                          *)

Cited(answer) == {Key(answer[i]) : i \in {j \in DOMAIN answer :
                                            Cites(answer[j])}}

Invented(answer, allowed) == Cited(answer) \ allowed

\* Mutated forms: strip by section number alone; strip every citation.
StripSpanByNumber(s, allowed) ==
    IF Cites(s) /\ s.form = "exact" /\ ~\E key \in allowed : key[2] = s.section
    THEN Gone ELSE s

StripSpanAlways(s, allowed) ==
    IF Cites(s) /\ s.form = "exact" THEN Gone ELSE s

\* Guard 1: replace the rendered form of every invented citation by nothing,
\* then collapse white space.  What was quoted around it remains a quotation.
StripSpan(s, allowed) ==
    IF Cites(s) /\ s.form = "exact" /\ Key(s) \notin allowed
    THEN IF s.quote = "none" THEN Gone ELSE Quoted(Prose, Edited(s.quote))
    ELSE IF Cites(s) /\ s.form = "spaced" THEN [s EXCEPT !.form = "exact"]
    ELSE s

Strip(answer, allowed) ==
    IF Invented(answer, allowed) = {} THEN answer
    ELSE [i \in DOMAIN answer |-> StripSpan(answer[i], allowed)]

\* Guard 2, of the text as it stands.
Misquotes(answer) ==
    \E i \in DOMAIN answer : answer[i].quote \in {"false", "mended"}

\* The escape of guard 3: a retrieved section number is a substring of the
\* text, as a number or within one.
MentionsAllowed(answer, allowed) ==
    \E i \in DOMAIN answer :
        /\ answer[i].kind \in {"bare", "cite", "number"}
        /\ \E key \in allowed : <<key[2], answer[i].section>> \in Within

\* Mutated forms: the quotation guard is left out, and the escape of guard 3
\* reads the answer as it was before the strip.
RefusedDespiteQuotes(answer, allowed, requireCitation) ==
    /\ requireCitation
    /\ Cited(answer) \cap allowed = {}
    /\ ~MentionsAllowed(Strip(answer, allowed), allowed)

RefusedBeforeStrip(answer, allowed, requireCitation) ==
    \/ Misquotes(Strip(answer, allowed))
    \/ /\ requireCitation
       /\ Cited(answer) \cap allowed = {}
       /\ ~MentionsAllowed(answer, allowed)

Refused(answer, allowed, requireCitation) ==
    LET cleaned == Strip(answer, allowed) IN
    \/ Misquotes(cleaned)
    \/ /\ requireCitation
       /\ Cited(answer) \cap allowed = {}
       /\ ~MentionsAllowed(cleaned, allowed)

Verdict(answer, allowed, requireCitation) ==
    IF Refused(answer, allowed, requireCitation) THEN "refused"
    ELSE IF Invented(answer, allowed) = {} THEN "ok" ELSE "stripped"

Verify(answer, allowed, requireCitation) ==
    [verdict  |-> Verdict(answer, allowed, requireCitation),
     answer   |-> Strip(answer, allowed),
     valid    |-> Cited(answer) \cap allowed,
     invented |-> Invented(answer, allowed)]

-----------------------------------------------------------------------------
(* The chat endpoint: upgrade, verify, and put a fixed text in the place   *)
(* of a refused answer.                                                    *)

RefusalText == <<Prose>>

Validate(draft, allowed) ==
    LET report == Verify(Upgrade(draft, allowed), allowed, allowed # {})
    IN  IF report.verdict = "refused"
        THEN [report EXCEPT !.answer = RefusalText]
        ELSE report

-----------------------------------------------------------------------------
(* What the guard promises of one draft and of what is shown in its place. *)

\* A citation the model wrote in the exact form is shown only if its section
\* was retrieved (guard 1; the strip looks for the canonical form only).
ExactCitationsRetrieved(shown, draft, allowed) ==
    \A i \in DOMAIN shown \cap DOMAIN draft :
        Cites(shown[i]) /\ Upgrade(draft, allowed)[i].form = "exact" =>
            Key(shown[i]) \in allowed

\* An answer over retrieved sections has at least the number of one of them
\* in it (guard 3 with its escape).
Grounded(shown, allowed) ==
    allowed # {} => MentionsAllowed(shown, allowed)

\* If the draft's citations are written exactly, what is shown passes the
\* guard again, unchanged and with the same valid citations: the guard's own
\* edits destroy no support.  (A misspaced citation is turned into an exact
\* one by the collapse of white space, and would be stripped the second time.)
Stable(shown, draft, allowed) ==
    LET upgraded == Upgrade(draft, allowed)
        again    == Verify(shown, allowed, allowed # {})
    IN  (\A i \in DOMAIN upgraded : Cites(upgraded[i]) => upgraded[i].form = "exact")
        => /\ again.verdict = "ok"
           /\ again.answer = shown
           /\ again.valid = Validate(draft, allowed).valid

\* A draft the guard accepts as it stands is still accepted after the upgrade,
\* unless the upgrade has rewritten a reference inside a supported quotation
\* that does not bear it.  Nothing else it does costs an answer.
UpgradeHarmsQuotationsOnly(draft, allowed) ==
    /\ ~Refused(draft, allowed, allowed # {})
    /\ Refused(Upgrade(draft, allowed), allowed, allowed # {})
    => \E i \in DOMAIN draft :
            Upgrades(draft[i], allowed) /\ draft[i].quote = "fragile"

\* Quotations that match the sources as the model wrote them match them when
\* guard 2 reads them.
HonestQuotes(draft, allowed) ==
    ~Misquotes(draft) => ~Misquotes(Strip(Upgrade(draft, allowed), allowed))

=============================================================================
