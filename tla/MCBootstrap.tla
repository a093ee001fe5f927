------------------------------ MODULE MCBootstrap ------------------------------
(***************************************************************************)
(* Two editions of the act, the second with a section split differently    *)
(* and one form fewer, each at a path of its own at first; and two         *)
(* models, one of another dimension.                                       *)
(***************************************************************************)
EXTENDS Bootstrap

MCInitialPdf == [path \in Paths |-> IF path = "act" THEN "first" ELSE "second"]
MCDim == [m \in Models |-> IF m = "large" THEN 1024 ELSE 768]
MCBatches == [p \in Pdfs |->
    IF p = "first" THEN <<<<"a", "b">>, <<"c">>>> ELSE <<<<"a", "c">>>>]
MCFormsOf == [p \in Pdfs |->
    IF p = "first" THEN <<[number |-> 1, name |-> "bond"], [number |-> 2, name |-> "writ"]>>
    ELSE <<[number |-> 1, name |-> "bond"]>>]

\* A run without options; a forced run that differs from it in everything: the
\* PDF, a model of another dimension, a directory that is not served; and one
\* that skips both parts.
Plain == [path |-> "act", model |-> "base", statute |-> TRUE, forms |-> TRUE,
          force |-> FALSE, served |-> TRUE]
Different == [Plain EXCEPT !.path = "update", !.model = "large", !.force = TRUE,
                           !.served = FALSE]
Neither == [Plain EXCEPT !.statute = FALSE, !.forms = FALSE]
AnyRun == {Plain, Different, Neither}

\* The statute only.
StatuteOnly == {[Plain EXCEPT !.forms = FALSE]}
================================================================================
