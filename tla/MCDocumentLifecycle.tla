----------------------- MODULE MCDocumentLifecycle -----------------------
(***************************************************************************)
(* Instances of DocumentLifecycle for TLC: two documents, with the same    *)
(* or with different bytes, and one fault budget per question.             *)
(***************************************************************************)
EXTENDS DocumentLifecycle, TLC

\* Two uploads of one file; two uploads of two files.
SameBytes  == [d \in Documents |-> "digest"]
OtherBytes == [d \in Documents |-> d]

Faults(api, outage, error, timeout, crash) ==
    [k \in FaultKinds |->
        CASE k = "api"     -> api
          [] k = "outage"  -> outage
          [] k = "error"   -> error
          [] k = "timeout" -> timeout
          [] k = "crash"   -> crash]

\* No fault at all.
Calm == Faults(0, 0, 0, 0, 0)

\* One fault of every kind, and a second crash to use up two tries.
OneOfEach == Faults(1, 1, 1, 1, 2)

\* An interrupted request, a pipeline error and a redelivery.
Recoverable == Faults(1, 0, 1, 0, 1)

DocumentSymmetry == Permutations(Documents)

=============================================================================
