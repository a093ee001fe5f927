---------------------------- MODULE MCRetrieval ----------------------------
(***************************************************************************)
(* Instances of Retrieval for TLC: three Acts of which one is the default, *)
(* two section numbers, and questions of every kind the routes tell apart. *)
(***************************************************************************)
EXTENDS Retrieval

CONSTANTS bnss, bns, bsa, n35, n103, me, other

ThreeActs == {bnss, bns, bsa}

\* One Act indexed, as deployed, and two, as in the unit tests.
OneOrTwoActs == {{bnss}, {bnss, bns}}

\* Section 103 is in two Acts; the third is not indexed.
TwoLaws == {<<bnss, n35>>, <<bnss, n103>>, <<bns, n103>>}

\* Below both low thresholds, between them, between low and high, above both.
FourScores == {4, 7, 20, 80}

Question(cues, named, bare, keyword) ==
    [cues |-> cues, named |-> named, bare |-> bare, keyword |-> keyword]

\* What may be said about sections: nothing, a number with no Act, with one,
\* with two, "BNS 103", "BNS103", and both ways at once.
SectionParts ==
    {<<{}, {}, {}>>, <<{bns}, {}, {}>>, <<{}, {}, {n103}>>,
     <<{bns}, {}, {n103}>>, <<{bns, bsa}, {}, {n103}>>,
     <<{bns}, {<<bns, n103>>}, {}>>, <<{}, {<<bns, n103>>}, {}>>,
     <<{bnss, bns}, {<<bns, n103>>}, {n35, n103}>>,
     <<{bnss}, {<<bns, n103>>}, {n35, n103}>>}

CueParts ==
    {{}, {"filler"}, {"form", "filler"}, {"this"}, {"the document"},
     {"this", "complies"}, {"the document", "complies"}, {"complies"},
     {"what is a", "attribute"}, {"what is a", "term"}, {"attribute"},
     {"what is a", "penalty"}, {"the document", "attribute"}}

EveryQuestion ==
    {Question(cues, part[1], part[2], part[3]) :
        cues \in CueParts, part \in SectionParts}

=============================================================================
