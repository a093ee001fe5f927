------------------------- MODULE DocumentCatalog -------------------------
(***************************************************************************)
(* What the upload feature promises its user, with no queue, no worker and *)
(* no stages: the document list shows a status for each document, and      *)
(* retrieval can quote some of them.  A document is shown as ready only    *)
(* when retrieval can quote it, unless a delete has cleared it; it is      *)
(* removed from the list only after it was cleared; and a removed document *)
(* never comes back to the list.                                           *)
(***************************************************************************)

CONSTANT Documents

VARIABLES
    shown,      \* shown[d]: what the document list says of d
    quotable,   \* documents retrieval can quote
    cleared     \* documents whose vectors a delete has removed once or more

catalog == <<shown, quotable, cleared>>

Listed(d) == shown[d] \in {"pending", "ready", "failed"}

CatalogInit ==
    /\ shown = [d \in Documents |-> "unseen"]
    /\ quotable = {}
    /\ cleared = {}

Accept(d) ==
    /\ shown[d] = "unseen"
    /\ shown' = [shown EXCEPT ![d] = "pending"]
    /\ UNCHANGED <<quotable, cleared>>

\* A redelivered job takes its document back from ready or failed.
Rework(d) ==
    /\ shown[d] \in {"ready", "failed"}
    /\ shown' = [shown EXCEPT ![d] = "pending"]
    /\ UNCHANGED <<quotable, cleared>>

Fail(d) ==
    /\ Listed(d)
    /\ shown' = [shown EXCEPT ![d] = "failed"]
    /\ UNCHANGED <<quotable, cleared>>

MakeQuotable(d) ==
    /\ shown[d] # "unseen"
    /\ quotable' = quotable \cup {d}
    /\ UNCHANGED <<shown, cleared>>

MakeReady(d) ==
    /\ Listed(d)
    /\ d \in quotable \cup cleared
    /\ shown' = [shown EXCEPT ![d] = "ready"]
    /\ UNCHANGED <<quotable, cleared>>

Clear(d) ==
    /\ Listed(d)
    /\ quotable' = quotable \ {d}
    /\ cleared' = cleared \cup {d}
    /\ UNCHANGED shown

Remove(d) ==
    /\ Listed(d)
    /\ d \in cleared
    /\ shown' = [shown EXCEPT ![d] = "deleted"]
    /\ UNCHANGED <<quotable, cleared>>

CatalogNext ==
    \E d \in Documents :
        \/ Accept(d) \/ Rework(d) \/ Fail(d) \/ MakeQuotable(d)
        \/ MakeReady(d) \/ Clear(d) \/ Remove(d)

CatalogSpec == CatalogInit /\ [][CatalogNext]_catalog

=============================================================================
