---------------------------- MODULE MCChatTurn ----------------------------
(***************************************************************************)
(* Instances of ChatTurn for TLC.  Two Acts and two section numbers, one   *)
(* of which occurs in the other ("3" in "35").                             *)
(***************************************************************************)
EXTENDS ChatTurn

CONSTANTS bnss, bns, n3, n35, sch

TwoActs    == {bnss, bns}
TwoNumbers == {n3, n35}
OneWithin  == {<<n3, n3>>, <<n35, n35>>, <<n3, n35>>}

Fates == {"kept", "fragile", "false", "mended"}

\* Every kind of span the guard tells apart.
EverySpan ==
    {Prose}
    \cup {Span("bare", act, n, "exact") :
            act \in TwoActs \cup {Unnamed}, n \in TwoNumbers}
    \cup {Span("cite", act, n, form) :
            act \in TwoActs, n \in TwoNumbers, form \in {"exact", "spaced", "odd"}}
    \cup {Span("cite", bnss, sch, "exact"), Span("number", Unnamed, n35, "exact"),
          Quoted(Prose, "kept"), Quoted(Prose, "false")}
    \cup {Quoted(span, quote) :
            span \in {Span("bare", Unnamed, n35, "exact"),
                     Span("cite", bns, n3, "exact")}, quote \in Fates}

\* A quotation of the sources with a reference to a section in it, which the
\* upgrade's brackets spoil, and one they do not.
QuotedReferences ==
    {Quoted(Span("bare", Unnamed, n35, "exact"), "fragile"),
     Quoted(Span("bare", Unnamed, n35, "exact"), "kept")}

\* Text the guard lets through, and an invented citation, which it removes.
FewSpans == {Prose, Span("cite", bns, n3, "exact")}

Context(allowed, answers) == [allowed |-> allowed, answers |-> answers]

\* Every set of retrieved sections, and a retrieval with low confidence.
EveryContext ==
    {Context(allowed, TRUE) : allowed \in SUBSET (TwoActs \X TwoNumbers)}
    \cup {Context({}, FALSE)}

\* One section was retrieved, and the question is answered.
AnsweringContext == {Context({<<bnss, n35>>}, TRUE)}

\* Only document passages, which need no citation, and low confidence.
FewContexts == {Context({}, TRUE), Context({}, FALSE)}

=============================================================================
