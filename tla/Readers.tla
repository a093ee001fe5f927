-------------------------------- MODULE Readers --------------------------------
(***************************************************************************)
(* The three readers side by side: the act (StatuteWalk), the schedule of  *)
(* forms (FormWalk) and an upload (UploadChunks).  They share no state.    *)
(***************************************************************************)
EXTENDS StatuteWalk, FormWalk, UploadChunks

\* Each reader's variables keep their types, and what it has written is in
\* order (backend/app/ingestion/statute.py, forms.py, documents.py).
TypeOK == WalkTypeOK /\ FormTypeOK /\ UploadTypeOK

================================================================================
