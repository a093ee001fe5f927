---------------------------- MODULE BootstrapProofs ----------------------------
(***************************************************************************)
(* Proofs about Bootstrap, for any editions, models, batches, forms and    *)
(* number of runs, which overlap as they like, each with its own PDF and   *)
(* model.  What a run has written is still there when it saves the row     *)
(* that speaks of it, but for what the history says another run wrote over *)
(* or a loss took away in between.                                         *)
(***************************************************************************)
EXTENDS Bootstrap, WellFoundedInduction, TLAPS

\* What a run has upserted is stored, but for what is overlaid.
Uploaded ==
    \A r \in Runs :
        /\ pc[r] = "upsert" =>
              \A k \in DOMAIN Batches[edition[r]] : k < at[r] =>
                  \A i \in IdsOf(Batches[edition[r]][k]) \ overlaid[r] : points[i] = Written(r)
        /\ pc[r] = "save" =>
              \A i \in IdsOfEdition(edition[r]) \ overlaid[r] : points[i] = Written(r)

\* What a run has written to the served directory is there, but for what is
\* overlaid.
Laid ==
    \A r \in Runs :
        /\ pc[r] = "files" /\ options[r].served =>
              \A k \in DOMAIN FormsOf[edition[r]] :
                  k < at[r] /\ FormsOf[edition[r]][k].name \notin overlaid[r] =>
                      formFiles[FormsOf[edition[r]][k].name] = edition[r]
        /\ pc[r] = "rows" /\ options[r].served =>
              \A f \in NamesOf(edition[r]) \ overlaid[r] : formFiles[f] = edition[r]

\* A row of the forms table names a file of its own number.
Numbered ==
    \A n \in Numbers : formRows[n] # None =>
        \E p \in Pdfs : \E k \in DOMAIN FormsOf[p] :
            FormsOf[p][k].name = formRows[n].name /\ FormsOf[p][k].number = n

BootstrapInv ==
    /\ TypeOK /\ Uploaded /\ Laid /\ Numbered
    /\ SkipIsSound /\ UnindexedNeedsFault /\ ListedFormIsServed

-----------------------------------------------------------------------------

\* What the assumptions say of one edition.
LEMMA EditionFacts ==
    ASSUME NEW p \in Pdfs
    PROVE  /\ p # None
           /\ Batches[p] \in Seq(Seq(Ids))
           /\ FormsOf[p] \in Seq([number : Numbers, name : Names])
           /\ \A k \in DOMAIN Batches[p] :
                 k \in Nat /\ k >= 1 /\ IdsOf(Batches[p][k]) \subseteq IdsOfEdition(p)
           /\ IdsOfEdition(p) \subseteq Ids
           /\ \A k \in DOMAIN FormsOf[p] :
                 /\ k \in Nat /\ k >= 1
                 /\ FormsOf[p][k].name \in Names /\ FormsOf[p][k].number \in Numbers
           /\ NamesOf(p) \subseteq Names
  <1> DEFINE batches == Batches[p]
             records == FormsOf[p]
             Entry == [number : Numbers, name : Names]
  <1>1. p # None /\ batches \in Seq(Seq(Ids)) /\ records \in Seq(Entry)
    BY BootstrapAssumption
  <1>2. \A k \in DOMAIN batches : k \in Nat /\ k >= 1 /\ IdsOf(batches[k]) \subseteq Ids
    <2> HIDE DEF batches
    <2> SUFFICES ASSUME NEW k \in DOMAIN batches
                 PROVE  k \in Nat /\ k >= 1 /\ IdsOf(batches[k]) \subseteq Ids
      OBVIOUS
    <2>1. k \in Nat /\ k >= 1 /\ batches[k] \in Seq(Ids)
      BY <1>1
    <2> QED
      BY <2>1 DEF IdsOf
  <1>3. \A k \in DOMAIN records : k \in Nat /\ k >= 1 /\ records[k] \in Entry
    <2> HIDE DEF records, Entry
    <2> QED
      BY <1>1
  <1>4. \A k \in DOMAIN batches : IdsOf(batches[k]) \subseteq IdsOfEdition(p)
    BY DEF IdsOfEdition
  <1>5. IdsOfEdition(p) \subseteq Ids
    BY <1>2 DEF IdsOfEdition
  <1>6. \A k \in DOMAIN records : records[k].name \in Names /\ records[k].number \in Numbers
    BY <1>3
  <1>7. NamesOf(p) \subseteq Names
    BY <1>6 DEF NamesOf
  <1> QED
    BY <1>1, <1>2, <1>3, <1>4, <1>5, <1>6, <1>7

\* The invariant holds at the start.
LEMMA InitInv == Init => BootstrapInv
  <1> SUFFICES ASSUME Init PROVE BootstrapInv
    OBVIOUS
  <1>1. TypeOK
    <2>1. pc \in [Runs -> Steps] /\ pdf \in [Paths -> Pdfs]
      BY BootstrapAssumption DEF Init, Steps
    <2>2. faults \in 0 .. MaxFaults /\ changes \in 0 .. MaxChanges
      BY BootstrapAssumption DEF Init
    <2>3. \A r \in Runs : pc[r] = "idle" /\ pc[r] \notin Hashed /\ pc[r] \notin Parsed
      BY DEF Init, Hashed, Parsed
    <2>4. overlaid \in [Runs -> SUBSET (Ids \cup Names)] /\ at \in [Runs -> Nat \ {0}]
      BY DEF Init
    <2>5. /\ digest \in [Runs -> Pdfs \cup {None}] /\ edition \in [Runs -> Pdfs \cup {None}]
          /\ options \in [Runs -> Options \cup {None}]
      BY DEF Init
    <2>6. /\ points \in [Ids -> Builds \cup {None}]
          /\ formRows \in [Numbers -> [name : Names, edition : Pdfs] \cup {None}]
          /\ formFiles \in [Names -> Pdfs \cup {None}]
      BY DEF Init
    <2> QED
      BY <2>1, <2>2, <2>3, <2>4, <2>5, <2>6 DEF Init, TypeOK
  <1>2. Uploaded /\ Laid /\ Numbered
    BY DEF Init, Uploaded, Laid, Numbered
  <1>3. SkipIsSound /\ UnindexedNeedsFault /\ ListedFormIsServed
    BY DEF Init, SkipIsSound, UnindexedNeedsFault, ListedFormIsServed
  <1> QED
    BY <1>1, <1>2, <1>3 DEF BootstrapInv

-----------------------------------------------------------------------------

\* Types of the runs.
RunTypes ==
    /\ pdf \in [Paths -> Pdfs]
    /\ pc \in [Runs -> Steps] /\ options \in [Runs -> Options \cup {None}]
    /\ at \in [Runs -> Nat \ {0}]
    /\ digest \in [Runs -> Pdfs \cup {None}] /\ edition \in [Runs -> Pdfs \cup {None}]
    /\ \A r \in Runs : pc[r] # "idle" => options[r] \in Options
    /\ \A r \in Runs : pc[r] \in Hashed => digest[r] \in Pdfs
    /\ \A r \in Runs : pc[r] \in Parsed => edition[r] \in Pdfs
    /\ overlaid \in [Runs -> SUBSET (Ids \cup Names)]
    /\ faults \in 0 .. MaxFaults /\ changes \in 0 .. MaxChanges

\* Types of the stores and of their history.
StoreTypes ==
    /\ schema \in BOOLEAN /\ collection \in BOOLEAN /\ indexes \subseteq 1 .. IndexCount
    /\ points \in [Ids -> Builds \cup {None}]
    /\ row \in Builds \cup {None}
    /\ formRows \in [Numbers -> [name : Names, edition : Pdfs] \cup {None}]
    /\ formFiles \in [Names -> Pdfs \cup {None}]
    /\ touched \subseteq Ids /\ mislabelled \in BOOLEAN
    /\ unsettled \subseteq Names /\ cutShort \in BOOLEAN
    /\ ~collection => indexes = {} /\ \A i \in Ids : points[i] = None
    /\ ~schema => row = None /\ \A n \in Numbers : formRows[n] = None

LEMMA TypesSplit == TypeOK <=> RunTypes /\ StoreTypes
  BY DEF TypeOK, RunTypes, StoreTypes

\* What a run under way has: the PDF at its path, and the builds it has read.
LEMMA RunFacts ==
    ASSUME RunTypes, NEW r \in Runs
    PROVE  /\ pc[r] # "idle" =>
                 Source(r) \in Pdfs /\ options[r].model \in Models /\ options[r].served \in BOOLEAN
           /\ pc[r] \in {"upsert", "save"} => edition[r] \in Pdfs /\ Written(r) \in Builds
           /\ pc[r] = "save" => Claimed(r) \in Builds
           /\ pc[r] \in {"files", "rows"} => edition[r] \in Pdfs
  <1>1. pc[r] # "idle" =>
           Source(r) \in Pdfs /\ options[r].model \in Models /\ options[r].served \in BOOLEAN
    BY DEF RunTypes, Source, Options
  <1>2. pc[r] \in {"upsert", "save", "files", "rows"} => edition[r] \in Pdfs
    BY DEF RunTypes, Parsed
  <1>3. pc[r] = "save" => digest[r] \in Pdfs
    BY DEF RunTypes, Hashed
  <1> QED
    BY <1>1, <1>2, <1>3 DEF Written, Claimed, Builds

\* The steps a run goes on to have read what they need.
Follows(from, to) ==
    /\ from \in Steps \ {"idle"} /\ to \in Steps
    /\ to \in Hashed => to = "check" \/ from \in Hashed
    /\ to \in Parsed => to \in {"ensure", "files"} \/ from \in Parsed

LEMMA ProceedTypes ==
    ASSUME RunTypes, NEW r \in Runs, NEW to, Follows(pc[r], to), Proceed(r, to)
    PROVE  /\ pc' \in [Runs -> Steps] /\ options' \in [Runs -> Options \cup {None}]
           /\ at' \in [Runs -> Nat \ {0}]
           /\ digest' \in [Runs -> Pdfs \cup {None}] /\ edition' \in [Runs -> Pdfs \cup {None}]
           /\ \A q \in Runs : pc'[q] # "idle" => options'[q] \in Options
           /\ \A q \in Runs : pc'[q] \in Hashed => digest'[q] \in Pdfs
           /\ \A q \in Runs : pc'[q] \in Parsed => edition'[q] \in Pdfs
           /\ overlaid' \in [Runs -> SUBSET (Ids \cup Names)]
  <1>1. Source(r) \in Pdfs /\ to \in Steps /\ pc[r] # "idle"
    BY RunFacts DEF Follows
  <1>2. /\ pc' \in [Runs -> Steps] /\ options' \in [Runs -> Options \cup {None}]
        /\ at' \in [Runs -> Nat \ {0}]
    BY <1>1 DEF RunTypes, Proceed
  <1>3. digest' \in [Runs -> Pdfs \cup {None}] /\ edition' \in [Runs -> Pdfs \cup {None}]
    BY <1>1 DEF RunTypes, Proceed
  <1>4. overlaid' \in [Runs -> SUBSET (Ids \cup Names)]
    BY DEF RunTypes, Proceed
  <1>5. \A q \in Runs \ {r} :
           /\ pc'[q] = pc[q] /\ options'[q] = options[q]
           /\ digest'[q] = digest[q] /\ edition'[q] = edition[q]
    BY DEF RunTypes, Proceed
  <1>6. pc'[r] # "idle" => options'[r] \in Options
    BY <1>1 DEF RunTypes, Proceed
  <1>7. pc'[r] \in Hashed => digest'[r] \in Pdfs
    BY <1>1 DEF RunTypes, Proceed, Follows, Hashed
  <1>8. pc'[r] \in Parsed => edition'[r] \in Pdfs
    BY <1>1 DEF RunTypes, Proceed, Follows, Parsed
  <1> QED
    BY <1>2, <1>3, <1>4, <1>5, <1>6, <1>7, <1>8 DEF RunTypes

LEMMA GotoTypes ==
    ASSUME RunTypes, NEW r \in Runs, NEW from, NEW to, Follows(from, to), Goto(r, from, to)
    PROVE  RunTypes'
  BY ProceedTypes DEF RunTypes, Goto

\* What is written over by another run is recorded.
LEMMA OverlayTypes ==
    ASSUME RunTypes, NEW things \in SUBSET (Ids \cup Names), NEW where
    PROVE  Overlay(things, where) \in [Runs -> SUBSET (Ids \cup Names)]
  BY DEF RunTypes, Overlay

\* Where a run goes: nowhere (it takes another batch, file or index), or to a
\* step that follows.
LEMMA RunTypesStep ==
    ASSUME RunTypes, NEW r \in Runs, Step(r) \/ PostgresFails(r) \/ Interrupt(r)
    PROVE  RunTypes'
  <1> USE DEF Follows, Steps, Hashed, Parsed
  <1>1. CASE EnsureSchema(r)
    BY <1>1, GotoTypes DEF EnsureSchema, AfterSchema, AfterStatute
  <1>2. CASE Check(r)
    BY <1>2, GotoTypes DEF Check, AfterStatute
  <1>3. CASE CollectionExists(r)
    BY <1>3, GotoTypes DEF CollectionExists
  <1>4. CASE CreateCollection(r)
    BY <1>4, GotoTypes DEF CreateCollection
  <1>5. CASE CreateIndex(r)
    BY <1>5 DEF CreateIndex, RunTypes
  <1>6. CASE Indexed(r)
    BY <1>6, GotoTypes DEF Indexed
  <1>7. CASE Upsert(r)
    <2> DEFINE batch == IdsOf(Batches[edition[r]][at[r]])
    <2>1. edition[r] \in Pdfs /\ at[r] \in DOMAIN Batches[edition[r]]
      BY <1>7, RunFacts DEF Upsert
    <2>2. batch \subseteq Ids
      BY <2>1, EditionFacts
    <2>3. Overlay(batch, {"upsert", "save"}) \in [Runs -> SUBSET (Ids \cup Names)]
      BY <2>2, OverlayTypes
    <2>4. overlaid' \in [Runs -> SUBSET (Ids \cup Names)]
      BY <1>7, <2>3 DEF Upsert, RunTypes
    <2> QED
      BY <1>7, <2>4 DEF Upsert, RunTypes
  <1>8. CASE Upserted(r)
    BY <1>8, GotoTypes DEF Upserted
  <1>9. CASE SaveRow(r)
    BY <1>9, GotoTypes DEF SaveRow, AfterStatute
  <1>10. CASE SkipSave(r)
    BY <1>10, GotoTypes DEF SkipSave, AfterStatute
  <1>11. CASE WriteForm(r)
    <2> DEFINE name == FormsOf[edition[r]][at[r]].name
    <2>1. edition[r] \in Pdfs /\ at[r] \in DOMAIN FormsOf[edition[r]]
      BY <1>11, RunFacts DEF WriteForm
    <2>2. name \in Names
      BY <2>1, EditionFacts
    <2>3. Overlay({name}, {"files", "rows"}) \in [Runs -> SUBSET (Ids \cup Names)]
      BY <2>2, OverlayTypes
    <2>4. overlaid' \in [Runs -> SUBSET (Ids \cup Names)]
      <3>1. \/ overlaid' = overlaid
            \/ overlaid' = [Overlay({name}, {"files", "rows"}) EXCEPT ![r] = overlaid[r] \ {name}]
        BY <1>11 DEF WriteForm
      <3> HIDE DEF name, Steps, Hashed, Parsed
      <3> QED
        BY <2>3, <3>1 DEF RunTypes
    <2>5. at' \in [Runs -> Nat \ {0}]
      BY <1>11 DEF WriteForm, RunTypes
    <2>6. UNCHANGED <<pdf, pc, options, digest, edition, faults, changes>>
      BY <1>11 DEF WriteForm
    <2> HIDE DEF name, Steps, Hashed, Parsed
    <2> QED
      BY <2>4, <2>5, <2>6 DEF RunTypes
  <1>12. CASE FormsWritten(r)
    BY <1>12, GotoTypes DEF FormsWritten
  <1>13. CASE SaveForms(r)
    BY <1>13, GotoTypes DEF SaveForms
  <1>14. CASE GiveUp(r)
    <2>1. Follows(pc[r], "idle")
      BY <1>14 DEF GiveUp, Refused
    <2> QED
      BY <1>14, <2>1, GotoTypes DEF GiveUp
  <1>15. CASE PostgresFails(r)
    <2>1. PICK to : Proceed(r, to) /\ Follows(pc[r], to)
      BY <1>15 DEF PostgresFails, AfterSchema, AfterStatute
    <2> HIDE DEF Follows
    <2> QED
      BY <1>15, <2>1, ProceedTypes, BootstrapAssumption DEF PostgresFails, Faulty, RunTypes
  <1>16. CASE Interrupt(r)
    <2>1. Follows(pc[r], "idle") /\ Proceed(r, "idle")
      BY <1>16 DEF Interrupt, RunTypes
    <2> HIDE DEF Follows
    <2> QED
      BY <1>16, <2>1, ProceedTypes, BootstrapAssumption DEF Interrupt, Faulty, RunTypes
  <1> QED
    BY <1>1, <1>2, <1>3, <1>4, <1>5, <1>6, <1>7, <1>8, <1>9, <1>10, <1>11, <1>12,
       <1>13, <1>14, <1>15, <1>16 DEF Step

\* The rows that a run saves: of each number the last record, or none.
LEMMA SavedTypes ==
    ASSUME StoreTypes, NEW p \in Pdfs, NEW rows,
           rows = [n \in Numbers |->
              IF LastRecord(p, n) = {} THEN formRows[n]
              ELSE [name |-> FormsOf[p][CHOOSE k \in LastRecord(p, n) : TRUE].name,
                    edition |-> p]]
    PROVE  rows \in [Numbers -> [name : Names, edition : Pdfs] \cup {None}]
  <1> SUFFICES ASSUME NEW n \in Numbers
               PROVE  rows[n] \in [name : Names, edition : Pdfs] \cup {None}
    OBVIOUS
  <1>1. CASE LastRecord(p, n) = {}
    BY <1>1 DEF StoreTypes
  <1>2. CASE LastRecord(p, n) # {}
    <2>1. PICK j \in DOMAIN FormsOf[p] : j = CHOOSE k \in LastRecord(p, n) : TRUE
      BY <1>2 DEF LastRecord
    <2>2. FormsOf[p][j].name \in Names
      BY EditionFacts
    <2>3. rows[n] = [name |-> FormsOf[p][j].name, edition |-> p]
      BY <1>2, <2>1
    <2> QED
      BY <2>2, <2>3
  <1> QED
    BY <1>1, <1>2

\* A step of a run keeps the types of the stores.
LEMMA StoreTypesStep ==
    ASSUME RunTypes, StoreTypes, NEW r \in Runs, Step(r) \/ PostgresFails(r) \/ Interrupt(r)
    PROVE  StoreTypes'
  <1>1. CASE EnsureSchema(r)
    BY <1>1 DEF EnsureSchema, StoreTypes, history
  <1>2. CASE Check(r) \/ CollectionExists(r) \/ Indexed(r) \/ Upserted(r) \/ SkipSave(r)
             \/ FormsWritten(r) \/ GiveUp(r) \/ PostgresFails(r)
    BY <1>2
    DEF Check, CollectionExists, Indexed, Upserted, SkipSave, FormsWritten, GiveUp,
        PostgresFails, StoreTypes, stores, history
  <1>3. CASE CreateCollection(r)
    BY <1>3 DEF CreateCollection, StoreTypes
  <1>4. CASE CreateIndex(r)
    <2>1. at[r] \in 1 .. IndexCount
      BY <1>4, BootstrapAssumption DEF CreateIndex, RunTypes
    <2> QED
      BY <1>4, <2>1 DEF CreateIndex, StoreTypes, history
  <1>5. CASE Upsert(r)
    <2> DEFINE batch == IdsOf(Batches[edition[r]][at[r]])
    <2>1. edition[r] \in Pdfs /\ Written(r) \in Builds /\ at[r] \in DOMAIN Batches[edition[r]]
      BY <1>5, RunFacts DEF Upsert
    <2>2. batch \subseteq Ids
      BY <2>1, EditionFacts
    <2>3. points' = [i \in Ids |-> IF i \in batch THEN Written(r) ELSE points[i]]
          /\ touched' = touched \cup batch
      BY <1>5 DEF Upsert
    <2> HIDE DEF batch
    <2>4. points' \in [Ids -> Builds \cup {None}] /\ touched' \subseteq Ids
      BY <2>1, <2>2, <2>3 DEF StoreTypes
    <2> QED
      BY <1>5, <2>4 DEF Upsert, StoreTypes
  <1>6. CASE SaveRow(r)
    <2>1. Claimed(r) \in Builds
      BY <1>6, RunFacts DEF SaveRow, Goto
    <2> QED
      BY <1>6, <2>1 DEF SaveRow, StoreTypes
  <1>7. CASE WriteForm(r)
    <2> DEFINE name == FormsOf[edition[r]][at[r]].name
    <2>1. edition[r] \in Pdfs /\ at[r] \in DOMAIN FormsOf[edition[r]]
      BY <1>7, RunFacts DEF WriteForm
    <2>2. name \in Names
      BY <2>1, EditionFacts
    <2>3. \/ formFiles' = [formFiles EXCEPT ![name] = edition[r]] /\ unsettled' = unsettled \cup {name}
          \/ formFiles' = formFiles /\ unsettled' = unsettled
      BY <1>7 DEF WriteForm
    <2> HIDE DEF name
    <2>4. formFiles' \in [Names -> Pdfs \cup {None}] /\ unsettled' \subseteq Names
      BY <2>1, <2>2, <2>3 DEF StoreTypes
    <2> QED
      BY <1>7, <2>4 DEF WriteForm, StoreTypes
  <1>8. CASE SaveForms(r)
    <2>1. edition[r] \in Pdfs
      BY <1>8, RunFacts DEF SaveForms, Goto
    <2>2. formRows' \in [Numbers -> [name : Names, edition : Pdfs] \cup {None}]
      BY <1>8, <2>1, SavedTypes DEF SaveForms
    <2>3. unsettled' \subseteq Names
      BY <1>8, <2>1, EditionFacts DEF SaveForms, Settle, StoreTypes
    <2> QED
      BY <1>8, <2>2, <2>3 DEF SaveForms, StoreTypes
  <1>9. CASE Interrupt(r)
    BY <1>9 DEF Interrupt, StoreTypes, stores
  <1> QED
    BY <1>1, <1>2, <1>3, <1>4, <1>5, <1>6, <1>7, <1>8, <1>9 DEF Step

\* What happens without a run.
Loss ==
    \/ \E path \in Paths : ReplacePdf(path)
    \/ LoseCollection \/ LoseTables \/ LoseFiles
    \/ UNCHANGED vars

\* Every step keeps the types.
LEMMA TypeStep == TypeOK /\ [Next]_vars => TypeOK'
  <1> SUFFICES ASSUME TypeOK, [Next]_vars PROVE TypeOK'
    OBVIOUS
  <1>0. RunTypes /\ StoreTypes /\ (RunTypes' /\ StoreTypes' => TypeOK')
    BY DEF TypeOK, RunTypes, StoreTypes
  <1>1. CASE \E r \in Runs : Step(r) \/ PostgresFails(r) \/ Interrupt(r)
    BY <1>0, <1>1, RunTypesStep, StoreTypesStep
  <1>2. CASE \E r \in Runs, o \in Offered : Start(r, o)
    <2>1. Offered \subseteq Options
      BY BootstrapAssumption
    <2>2. "schema" \in Steps /\ "schema" \notin Hashed /\ "schema" \notin Parsed
      BY DEF Steps, Hashed, Parsed
    <2>3. RunTypes'
      BY <1>0, <1>2, <2>1, <2>2 DEF Start, RunTypes
    <2>4. StoreTypes'
      BY <1>0, <1>2 DEF Start, StoreTypes, stores, history
    <2> QED
      BY <1>0, <2>3, <2>4
  <1>3. CASE Loss
    <2>1. overlaid' \in [Runs -> SUBSET (Ids \cup Names)]
      <3>1. /\ Overlay(Ids, {"upsert", "save"}) \in [Runs -> SUBSET (Ids \cup Names)]
            /\ Overlay(Names, {"files", "rows"}) \in [Runs -> SUBSET (Ids \cup Names)]
        BY <1>0, OverlayTypes
      <3>2. \/ overlaid' = overlaid \/ overlaid' = Overlay(Ids, {"upsert", "save"})
            \/ overlaid' = Overlay(Names, {"files", "rows"})
        BY <1>3 DEF Loss, ReplacePdf, LoseCollection, LoseTables, LoseFiles, vars
      <3> QED
        BY <1>0, <3>1, <3>2 DEF RunTypes
    <2>2. RunTypes'
      <3>1. running' = running /\ (faults' = faults)
        BY <1>3 DEF Loss, ReplacePdf, LoseCollection, LoseTables, LoseFiles, vars
      <3>2. changes' \in 0 .. MaxChanges
        BY <1>0, <1>3, BootstrapAssumption
        DEF Loss, ReplacePdf, LoseCollection, LoseTables, LoseFiles, Changing, RunTypes, vars
      <3>3. pdf' \in [Paths -> Pdfs]
        BY <1>0, <1>3
        DEF Loss, ReplacePdf, LoseCollection, LoseTables, LoseFiles, RunTypes, vars
      <3> QED
        BY <1>0, <2>1, <3>1, <3>2, <3>3 DEF RunTypes, running
    <2>3. StoreTypes'
      BY <1>0, <1>3
      DEF Loss, ReplacePdf, LoseCollection, LoseTables, LoseFiles, Changing, StoreTypes,
          stores, history, vars
    <2> QED
      BY <1>0, <2>2, <2>3
  <1> QED
    BY <1>1, <1>2, <1>3 DEF Next, Loss

-----------------------------------------------------------------------------

\* One step of run r, whole or failed.
RunStep(r) == Step(r) \/ PostgresFails(r) \/ Interrupt(r)

\* A run keeps to itself, but for what it records as overlaid.
LEMMA OthersStay ==
    ASSUME TypeOK, NEW r \in Runs, RunStep(r), NEW q \in Runs \ {r}
    PROVE  pc'[q] = pc[q] /\ at'[q] = at[q] /\ options'[q] = options[q] /\ edition'[q] = edition[q]
  <1>1. CASE \E to : Proceed(r, to)
    BY <1>1 DEF Proceed, TypeOK
  <1>2. CASE CreateIndex(r) \/ Upsert(r) \/ WriteForm(r)
    BY <1>2 DEF CreateIndex, Upsert, WriteForm, TypeOK
  <1>3. (\E to : Proceed(r, to)) \/ CreateIndex(r) \/ Upsert(r) \/ WriteForm(r)
    BY DEF RunStep, Step, EnsureSchema, Check, CollectionExists, CreateCollection, Indexed,
       Upserted, SaveRow, SkipSave, FormsWritten, SaveForms, GiveUp, PostgresFails, Interrupt,
       Goto
  <1> QED
    BY <1>1, <1>2, <1>3

\* Where run r stands after a step.
LEMMA Moves ==
    ASSUME TypeOK, NEW r \in Runs, RunStep(r)
    PROVE  /\ pc'[r] = "upsert" => at'[r] = 1 \/ Upsert(r)
           /\ pc'[r] = "save" => Upserted(r)
           /\ pc'[r] = "files" => at'[r] = 1 \/ WriteForm(r)
           /\ pc'[r] = "rows" => FormsWritten(r)
  <1>1. CASE EnsureSchema(r)
    BY <1>1 DEF EnsureSchema, Goto, Proceed, AfterSchema, AfterStatute, TypeOK
  <1>2. CASE Check(r)
    BY <1>2 DEF Check, Goto, Proceed, AfterStatute, TypeOK
  <1>3. CASE CollectionExists(r)
    BY <1>3 DEF CollectionExists, Goto, Proceed, TypeOK
  <1>4. CASE CreateCollection(r)
    BY <1>4 DEF CreateCollection, Goto, Proceed, TypeOK
  <1>5. CASE CreateIndex(r)
    BY <1>5 DEF CreateIndex, TypeOK
  <1>6. CASE Indexed(r)
    BY <1>6 DEF Indexed, Goto, Proceed, TypeOK
  <1>7. CASE Upsert(r)
    BY <1>7 DEF Upsert, TypeOK
  <1>8. CASE Upserted(r)
    BY <1>8 DEF Upserted, Goto, Proceed, TypeOK
  <1>9. CASE SaveRow(r)
    BY <1>9 DEF SaveRow, Goto, Proceed, AfterStatute, TypeOK
  <1>10. CASE SkipSave(r)
    BY <1>10 DEF SkipSave, Goto, Proceed, AfterStatute, TypeOK
  <1>11. CASE WriteForm(r)
    BY <1>11 DEF WriteForm, TypeOK
  <1>12. CASE FormsWritten(r)
    BY <1>12 DEF FormsWritten, Goto, Proceed, TypeOK
  <1>13. CASE SaveForms(r)
    BY <1>13 DEF SaveForms, Goto, Proceed, TypeOK
  <1>14. CASE GiveUp(r)
    BY <1>14 DEF GiveUp, Goto, Proceed, TypeOK
  <1>15. CASE Interrupt(r)
    BY <1>15 DEF Interrupt, Proceed, TypeOK
  <1>16. CASE PostgresFails(r)
    BY <1>16 DEF PostgresFails, Proceed, AfterSchema, AfterStatute, TypeOK
  <1> QED
    BY <1>1, <1>2, <1>3, <1>4, <1>5, <1>6, <1>7, <1>8, <1>9, <1>10, <1>11, <1>12,
       <1>13, <1>14, <1>15, <1>16 DEF RunStep, Step

\* Which step of a run changes what.
LEMMA Effects ==
    ASSUME NEW r \in Runs, RunStep(r)
    PROVE  /\ (collection' = collection /\ indexes' = indexes)
                  \/ CreateCollection(r) \/ CreateIndex(r)
           /\ cutShort' = cutShort \/ CreateCollection(r) \/ Interrupt(r)
           /\ points' = points \/ Upsert(r)
           /\ (row' = row /\ touched' = touched /\ mislabelled' = mislabelled)
                  \/ Upsert(r) \/ SaveRow(r)
           /\ formFiles' = formFiles \/ WriteForm(r)
           /\ formRows' = formRows \/ SaveForms(r)
           /\ unsettled' = unsettled \/ WriteForm(r) \/ SaveForms(r)
  BY DEF RunStep, Step, EnsureSchema, Check, CollectionExists, CreateCollection, CreateIndex,
     Indexed, Upsert, Upserted, SaveRow, SkipSave, WriteForm, FormsWritten, SaveForms, GiveUp,
     PostgresFails, Interrupt, stores, history

\* A run records under another run all that it writes over.
LEMMA OverlaidStays ==
    ASSUME TypeOK, NEW r \in Runs, RunStep(r), NEW q \in Runs \ {r}
    PROVE  /\ ~Upsert(r) /\ ~WriteForm(r) => overlaid'[q] = overlaid[q]
           /\ Upsert(r) => overlaid'[q] = Overlay(IdsOf(Batches[edition[r]][at[r]]), {"upsert", "save"})[q]
           /\ WriteForm(r) => overlaid'[q] = overlaid[q] \/
                 overlaid'[q] = Overlay({FormsOf[edition[r]][at[r]].name}, {"files", "rows"})[q]
  <1>1. CASE \E to : Proceed(r, to) /\ ~Upsert(r) /\ ~WriteForm(r)
    BY <1>1 DEF Proceed, TypeOK
  <1>2. CASE CreateIndex(r) /\ ~Upsert(r) /\ ~WriteForm(r)
    BY <1>2 DEF CreateIndex
  <1>3. Upsert(r) => overlaid'[q] = Overlay(IdsOf(Batches[edition[r]][at[r]]), {"upsert", "save"})[q]
    BY DEF Upsert, Overlay
  <1>4. WriteForm(r) => overlaid'[q] = overlaid[q] \/
           overlaid'[q] = Overlay({FormsOf[edition[r]][at[r]].name}, {"files", "rows"})[q]
    BY DEF WriteForm, Overlay
  <1>5. (\E to : Proceed(r, to)) \/ CreateIndex(r) \/ Upsert(r) \/ WriteForm(r)
    BY DEF RunStep, Step, EnsureSchema, Check, CollectionExists, CreateCollection, Indexed,
       Upserted, SaveRow, SkipSave, FormsWritten, SaveForms, GiveUp, PostgresFails, Interrupt,
       Goto
  <1>6. ~(Upsert(r) /\ WriteForm(r))
    BY DEF Upsert, WriteForm
  <1> QED
    BY <1>1, <1>2, <1>3, <1>4, <1>5, <1>6

\* So a point of another run that is not overlaid was not, and is as it was.
LEMMA PointsStay ==
    ASSUME TypeOK, NEW r \in Runs, RunStep(r), NEW q \in Runs \ {r},
           pc[q] \in {"upsert", "save"}, NEW i \in Ids, i \notin overlaid'[q]
    PROVE  i \notin overlaid[q] /\ points'[i] = points[i]
  <1>1. CASE Upsert(r)
    BY <1>1, OverlaidStays DEF Overlay, Upsert
  <1>2. CASE WriteForm(r)
    BY <1>2, OverlaidStays DEF Overlay, WriteForm
  <1>3. CASE ~Upsert(r) /\ ~WriteForm(r)
    BY <1>3, OverlaidStays, Effects
  <1> QED
    BY <1>1, <1>2, <1>3

LEMMA UploadedStep == TypeOK /\ Uploaded /\ [Next]_vars => Uploaded'
  <1> SUFFICES ASSUME TypeOK, Uploaded, [Next]_vars PROVE Uploaded'
    OBVIOUS
  <1>0. \A q \in Runs : pc[q] \in {"upsert", "save"} => edition[q] \in Pdfs
    BY DEF TypeOK, Parsed
  <1> DEFINE Put(q) ==
        \A k \in DOMAIN Batches[edition[q]] : k < at[q] =>
            \A i \in IdsOf(Batches[edition[q]][k]) \ overlaid[q] : points[i] = Written(q)
      AllPut(q) == \A i \in IdsOfEdition(edition[q]) \ overlaid[q] : points[i] = Written(q)
      Kept(q) == (pc[q] = "upsert" => Put(q)) /\ (pc[q] = "save" => AllPut(q))
  <1>1. ASSUME NEW r \in Runs, RunStep(r) PROVE Uploaded'
    <2>1. ASSUME NEW q \in Runs \ {r} PROVE Kept(q)'
      <3>1. /\ pc'[q] = pc[q] /\ at'[q] = at[q] /\ edition'[q] = edition[q]
            /\ Written(q)' = Written(q)
        BY <1>1, OthersStay DEF Written
      <3>2. pc[q] = "upsert" => Put(q)'
        <4> SUFFICES ASSUME pc[q] = "upsert",
                            NEW k \in DOMAIN Batches[edition[q]], k < at[q],
                            NEW i \in IdsOf(Batches[edition[q]][k]), i \notin overlaid'[q]
                     PROVE  points'[i] = Written(q)
          BY <3>1
        <4>1. i \in Ids
          BY <1>0, EditionFacts
        <4>2. i \notin overlaid[q] /\ points'[i] = points[i]
          BY <1>1, <4>1, PointsStay
        <4> QED
          BY <4>2 DEF Uploaded
      <3>3. pc[q] = "save" => AllPut(q)'
        <4> SUFFICES ASSUME pc[q] = "save",
                            NEW i \in IdsOfEdition(edition[q]), i \notin overlaid'[q]
                     PROVE  points'[i] = Written(q)
          BY <3>1
        <4>1. i \in Ids
          BY <1>0, EditionFacts
        <4>2. i \notin overlaid[q] /\ points'[i] = points[i]
          BY <1>1, <4>1, PointsStay
        <4> QED
          BY <4>2 DEF Uploaded
      <3> QED
        BY <3>1, <3>2, <3>3
    <2>2. pc'[r] = "upsert" => Put(r)'
      <3>1. CASE at'[r] = 1 /\ pc'[r] = "upsert"
        <4>1. edition'[r] \in Pdfs
          BY <3>1, TypeStep DEF TypeOK, Parsed
        <4>2. \A k \in DOMAIN Batches[edition'[r]] : k \in Nat /\ k >= 1
          BY <4>1, EditionFacts
        <4> QED
          BY <3>1, <4>2
      <3>2. CASE Upsert(r)
        <4> DEFINE batches == Batches[edition[r]]
        <4>1. /\ pc[r] = "upsert" /\ edition[r] \in Pdfs /\ at[r] \in DOMAIN batches
              /\ at[r] \in Nat /\ at'[r] = at[r] + 1 /\ edition'[r] = edition[r]
              /\ Written(r)' = Written(r)
              /\ overlaid'[r] = overlaid[r] \ IdsOf(batches[at[r]])
              /\ points' = [i \in Ids |-> IF i \in IdsOf(batches[at[r]]) THEN Written(r)
                                          ELSE points[i]]
          BY <1>0, <3>2 DEF Upsert, TypeOK, Written, Overlay
        <4> SUFFICES ASSUME NEW k \in DOMAIN batches, k < at[r] + 1,
                            NEW i \in IdsOf(batches[k]), i \notin overlaid'[r]
                     PROVE  points'[i] = Written(r)
          BY <4>1
        <4>2. i \in Ids /\ k \in Nat
          BY <4>1, EditionFacts
        <4>3. CASE i \in IdsOf(batches[at[r]])
          BY <4>1, <4>2, <4>3
        <4>4. CASE i \notin IdsOf(batches[at[r]])
          <5>1. k # at[r] /\ i \notin overlaid[r]
            BY <4>1, <4>4
          <5>2. k < at[r]
            BY <4>1, <4>2, <5>1
          <5>3. points[i] = Written(r)
            BY <4>1, <5>1, <5>2 DEF Uploaded
          <5> QED
            BY <4>1, <4>2, <4>4, <5>3
        <4> QED
          BY <4>3, <4>4
      <3> QED
        BY <1>1, <3>1, <3>2, Moves
    <2>3. pc'[r] = "save" => AllPut(r)'
      <3> SUFFICES ASSUME pc'[r] = "save" PROVE AllPut(r)'
        OBVIOUS
      <3>1. Upserted(r)
        BY <1>1, Moves
      <3>2. /\ pc[r] = "upsert" /\ edition[r] \in Pdfs /\ at[r] \in Nat
            /\ at[r] > Len(Batches[edition[r]])
            /\ edition'[r] = edition[r] /\ Written(r)' = Written(r)
            /\ overlaid'[r] = overlaid[r] /\ points' = points
        BY <1>0, <3>1 DEF Upserted, Goto, Proceed, stores, TypeOK, Written
      <3> SUFFICES ASSUME NEW i \in IdsOfEdition(edition[r]), i \notin overlaid[r]
                   PROVE  points[i] = Written(r)
        BY <3>2
      <3>3. PICK k \in DOMAIN Batches[edition[r]] : i \in IdsOf(Batches[edition[r]][k])
        BY DEF IdsOfEdition
      <3>4. k < at[r]
        <4> DEFINE batches == Batches[edition[r]]
        <4>1. batches \in Seq(Seq(Ids)) /\ at[r] > Len(batches) /\ k \in DOMAIN batches
          BY <3>2, EditionFacts
        <4> HIDE DEF batches
        <4> QED
          BY <3>2, <4>1
      <3> QED
        BY <3>2, <3>3, <3>4 DEF Uploaded
    <2> QED
      BY <2>1, <2>2, <2>3 DEF Uploaded
  <1>2. CASE \E r \in Runs, o \in Offered : Start(r, o)
    BY <1>2 DEF Start, stores, Uploaded, Written, TypeOK
  <1>3. CASE LoseCollection
    <2>1. /\ \A q \in Runs : pc[q] \in {"upsert", "save"} => Ids \subseteq overlaid'[q]
          /\ pc' = pc /\ edition' = edition
      BY <1>3 DEF LoseCollection, Overlay, running
    <2> QED
      BY <1>0, <2>1, EditionFacts DEF Uploaded
  <1>4. CASE LoseFiles
    BY <1>4 DEF LoseFiles, Overlay, Uploaded, Written, running
  <1>5. CASE (\E path \in Paths : ReplacePdf(path)) \/ LoseTables \/ UNCHANGED vars
    BY <1>5 DEF ReplacePdf, LoseTables, vars, stores, running, Uploaded, Written
  <1> QED
    BY <1>1, <1>2, <1>3, <1>4, <1>5 DEF Next, RunStep

-----------------------------------------------------------------------------

\* A file of another run that is not overlaid was not, and is as it was.
LEMMA FilesStay ==
    ASSUME TypeOK, NEW r \in Runs, RunStep(r), NEW q \in Runs \ {r},
           pc[q] \in {"files", "rows"}, NEW f \in Names, f \notin overlaid'[q]
    PROVE  f \notin overlaid[q] /\ formFiles'[f] = formFiles[f]
  <1>1. CASE Upsert(r)
    BY <1>1, OverlaidStays DEF Overlay, Upsert
  <1>2. CASE WriteForm(r) /\ options[r].served
    <2> DEFINE name == FormsOf[edition[r]][at[r]].name
    <2>1. /\ formFiles' = [formFiles EXCEPT ![name] = edition[r]]
          /\ overlaid'[q] = Overlay({name}, {"files", "rows"})[q]
      BY <1>2 DEF WriteForm, Overlay
    <2>2. overlaid'[q] = overlaid[q] \cup {name}
      BY <2>1 DEF Overlay
    <2> HIDE DEF name
    <2> QED
      BY <2>1, <2>2 DEF TypeOK
  <1>3. CASE WriteForm(r) /\ ~options[r].served
    BY <1>3 DEF WriteForm
  <1>4. CASE ~Upsert(r) /\ ~WriteForm(r)
    BY <1>4, OverlaidStays, Effects
  <1> QED
    BY <1>1, <1>2, <1>3, <1>4

LEMMA LaidStep == TypeOK /\ Laid /\ [Next]_vars => Laid'
  <1> SUFFICES ASSUME TypeOK, Laid, [Next]_vars PROVE Laid'
    OBVIOUS
  <1>0. \A q \in Runs : pc[q] \in {"files", "rows"} => edition[q] \in Pdfs
    BY DEF TypeOK, Parsed
  <1> DEFINE Name(q, k) == FormsOf[edition[q]][k].name
      Put(q) ==
        \A k \in DOMAIN FormsOf[edition[q]] :
            k < at[q] /\ Name(q, k) \notin overlaid[q] => formFiles[Name(q, k)] = edition[q]
      AllPut(q) == \A f \in NamesOf(edition[q]) \ overlaid[q] : formFiles[f] = edition[q]
      Kept(q) == /\ pc[q] = "files" /\ options[q].served => Put(q)
                 /\ pc[q] = "rows" /\ options[q].served => AllPut(q)
  <1>1. ASSUME NEW r \in Runs, RunStep(r) PROVE Laid'
    <2>1. ASSUME NEW q \in Runs \ {r} PROVE Kept(q)'
      <3>1. /\ pc'[q] = pc[q] /\ at'[q] = at[q] /\ edition'[q] = edition[q]
            /\ options'[q] = options[q]
        BY <1>1, OthersStay
      <3>2. pc[q] = "files" /\ options[q].served => Put(q)'
        <4> SUFFICES ASSUME pc[q] = "files", options[q].served,
                            NEW k \in DOMAIN FormsOf[edition[q]], k < at[q],
                            Name(q, k) \notin overlaid'[q]
                     PROVE  formFiles'[Name(q, k)] = edition[q]
          BY <3>1
        <4>1. Name(q, k) \in Names
          BY <1>0, EditionFacts
        <4>2. Name(q, k) \notin overlaid[q] /\ formFiles'[Name(q, k)] = formFiles[Name(q, k)]
          BY <1>1, <4>1, FilesStay
        <4> QED
          BY <4>2 DEF Laid
      <3>3. pc[q] = "rows" /\ options[q].served => AllPut(q)'
        <4> SUFFICES ASSUME pc[q] = "rows", options[q].served,
                            NEW f \in NamesOf(edition[q]), f \notin overlaid'[q]
                     PROVE  formFiles'[f] = edition[q]
          BY <3>1
        <4>1. f \in Names
          BY <1>0, EditionFacts
        <4>2. f \notin overlaid[q] /\ formFiles'[f] = formFiles[f]
          BY <1>1, <4>1, FilesStay
        <4> QED
          BY <4>2 DEF Laid
      <3> QED
        BY <3>1, <3>2, <3>3
    <2>2. pc'[r] = "files" /\ options'[r].served => Put(r)'
      <3>1. CASE at'[r] = 1 /\ pc'[r] = "files"
        <4>1. edition'[r] \in Pdfs
          BY <3>1, TypeStep DEF TypeOK, Parsed
        <4>2. \A k \in DOMAIN FormsOf[edition'[r]] : k \in Nat /\ k >= 1
          BY <4>1, EditionFacts
        <4> QED
          BY <3>1, <4>2
      <3>2. CASE WriteForm(r) /\ options'[r].served
        <4> DEFINE name == Name(r, at[r])
        <4>1. /\ pc[r] = "files" /\ edition[r] \in Pdfs
              /\ at[r] \in DOMAIN FormsOf[edition[r]] /\ at[r] \in Nat
              /\ at'[r] = at[r] + 1 /\ edition'[r] = edition[r] /\ options' = options
          BY <1>0, <3>2 DEF WriteForm, TypeOK
        <4>2. overlaid'[r] = overlaid[r] \ {name}
              /\ formFiles' = [formFiles EXCEPT ![name] = edition[r]]
          BY <3>2, <4>1 DEF WriteForm, Overlay
        <4> SUFFICES ASSUME NEW k \in DOMAIN FormsOf[edition[r]], k < at[r] + 1,
                            Name(r, k) \notin overlaid'[r]
                     PROVE  formFiles'[Name(r, k)] = edition[r]
          BY <4>1
        <4>3. Name(r, k) \in Names /\ k \in Nat /\ formFiles \in [Names -> Pdfs \cup {None}]
          BY <4>1, EditionFacts DEF TypeOK
        <4>4. CASE Name(r, k) = name
          <5>1. DOMAIN formFiles = Names /\ name \in Names
            BY <4>3, <4>4
          <5> HIDE DEF name
          <5>2. formFiles'[name] = edition[r]
            BY <4>2, <5>1
          <5> QED
            BY <4>4, <5>2
        <4>5. CASE Name(r, k) # name
          <5>1. k # at[r] /\ Name(r, k) \notin overlaid[r]
            BY <4>2, <4>5
          <5>2. k < at[r]
            BY <4>1, <4>3, <5>1
          <5>3. formFiles[Name(r, k)] = edition[r]
            BY <3>2, <4>1, <5>1, <5>2 DEF Laid
          <5>4. formFiles'[Name(r, k)] = formFiles[Name(r, k)]
            BY <4>2, <4>3, <4>5
          <5> QED
            BY <5>3, <5>4
        <4> QED
          BY <4>4, <4>5
      <3> QED
        BY <1>1, <3>1, <3>2, Moves
    <2>3. pc'[r] = "rows" /\ options'[r].served => AllPut(r)'
      <3> SUFFICES ASSUME pc'[r] = "rows", options'[r].served PROVE AllPut(r)'
        OBVIOUS
      <3>1. FormsWritten(r)
        BY <1>1, Moves
      <3>2. /\ pc[r] = "files" /\ edition[r] \in Pdfs /\ at[r] \in Nat /\ options[r].served
            /\ at[r] > Len(FormsOf[edition[r]])
            /\ edition'[r] = edition[r] /\ overlaid'[r] = overlaid[r] /\ formFiles' = formFiles
        BY <1>0, <3>1 DEF FormsWritten, Goto, Proceed, stores, TypeOK
      <3> SUFFICES ASSUME NEW f \in NamesOf(edition[r]), f \notin overlaid[r]
                   PROVE  formFiles[f] = edition[r]
        BY <3>2
      <3>3. PICK k \in DOMAIN FormsOf[edition[r]] : f = Name(r, k)
        BY DEF NamesOf
      <3>4. k < at[r]
        <4> DEFINE records == FormsOf[edition[r]]
        <4>1. records \in Seq([number : Numbers, name : Names])
              /\ at[r] > Len(records) /\ k \in DOMAIN records
          BY <3>2, EditionFacts
        <4> HIDE DEF records
        <4> QED
          BY <3>2, <4>1
      <3> QED
        BY <3>2, <3>3, <3>4 DEF Laid
    <2> QED
      BY <2>1, <2>2, <2>3 DEF Laid
  <1>2. CASE \E r \in Runs, o \in Offered : Start(r, o)
    <2>1. PICK r \in Runs, o \in Offered : Start(r, o)
      BY <1>2
    <2>2. pc'[r] = "schema"
      BY <2>1 DEF Start, TypeOK
    <2>3. \A q \in Runs \ {r} : pc'[q] = pc[q] /\ options'[q] = options[q]
      BY <2>1 DEF Start, TypeOK
    <2>4. UNCHANGED <<at, edition, overlaid, formFiles>>
      BY <2>1 DEF Start, stores
    <2> QED
      BY <2>2, <2>3, <2>4 DEF Laid
  <1>3. CASE LoseFiles
    <2>1. /\ \A q \in Runs : pc[q] \in {"files", "rows"} => Names \subseteq overlaid'[q]
          /\ pc' = pc /\ edition' = edition
      BY <1>3 DEF LoseFiles, Overlay, running
    <2> QED
      BY <1>0, <2>1, EditionFacts DEF Laid
  <1>4. CASE LoseCollection
    BY <1>4 DEF LoseCollection, Overlay, Laid, running
  <1>5. CASE (\E path \in Paths : ReplacePdf(path)) \/ LoseTables \/ UNCHANGED vars
    BY <1>5 DEF ReplacePdf, LoseTables, vars, stores, running, Laid
  <1> QED
    BY <1>1, <1>2, <1>3, <1>4, <1>5 DEF Next, RunStep

-----------------------------------------------------------------------------

\* The row that is saved speaks of points that are stored.
LEMMA SkipStep == TypeOK /\ Uploaded /\ SkipIsSound /\ [Next]_vars => SkipIsSound'
  <1> SUFFICES ASSUME TypeOK, Uploaded, SkipIsSound, [Next]_vars PROVE SkipIsSound'
    OBVIOUS
  <1>0. row # None => IdsOfEdition(Edition(row)) \subseteq Ids
    BY EditionFacts DEF TypeOK, Builds, Edition
  <1>1. ASSUME NEW r \in Runs, RunStep(r) PROVE SkipIsSound'
    <2>1. CASE Upsert(r)
      <3>1. row' = row /\ mislabelled' = mislabelled
        BY <2>1 DEF Upsert
      <3>2. \A i \in Ids \ touched' : i \notin touched /\ points'[i] = points[i]
        BY <2>1 DEF Upsert
      <3> QED
        BY <1>0, <3>1, <3>2 DEF SkipIsSound
    <2>2. CASE SaveRow(r)
      <3>1. /\ pc[r] = "save" /\ row' = Claimed(r) /\ points' = points
            /\ touched' = overlaid[r] \cap Ids /\ mislabelled' = (digest[r] # edition[r])
        BY <2>2 DEF SaveRow, Goto
      <3>2. edition[r] \in Pdfs
        BY <3>1 DEF TypeOK, Parsed
      <3>3. CASE ~mislabelled'
        <4>1. row' = Written(r) /\ Edition(row') = edition[r]
          BY <3>1, <3>3 DEF Claimed, Written, Edition
        <4>2. \A i \in IdsOfEdition(edition[r]) \ touched' : points'[i] = Written(r)
          BY <3>1, <3>2, EditionFacts DEF Uploaded
        <4> QED
          BY <4>1, <4>2 DEF SkipIsSound
      <3> QED
        BY <3>3 DEF SkipIsSound
    <2>3. CASE points' = points /\ row' = row /\ touched' = touched /\ mislabelled' = mislabelled
      BY <2>3 DEF SkipIsSound
    <2>4. SaveRow(r) => points' = points
      BY DEF SaveRow
    <2> QED
      BY <1>1, <2>1, <2>2, <2>3, Effects
  <1>2. CASE \E r \in Runs, o \in Offered : Start(r, o)
    BY <1>2 DEF Start, stores, history, SkipIsSound
  <1>3. CASE LoseCollection
    BY <1>0, <1>3 DEF LoseCollection, SkipIsSound
  <1>4. CASE LoseTables
    BY <1>4 DEF LoseTables, SkipIsSound
  <1>5. CASE (\E path \in Paths : ReplacePdf(path)) \/ LoseFiles \/ UNCHANGED vars
    BY <1>5 DEF ReplacePdf, LoseFiles, vars, stores, history, SkipIsSound
  <1> QED
    BY <1>1, <1>2, <1>3, <1>4, <1>5 DEF Next, RunStep

\* The run that made the collection has given it every index before the one it
\* is at, or was cut short.
LEMMA UnindexedStep == TypeOK /\ UnindexedNeedsFault /\ [Next]_vars => UnindexedNeedsFault'
  <1> DEFINE Giving(q) == pc[q] = "index" /\ 1 .. (at[q] - 1) \subseteq indexes
  <1> SUFFICES ASSUME TypeOK, UnindexedNeedsFault, [Next]_vars,
                      collection', indexes' # 1 .. IndexCount
               PROVE  cutShort' \/ \E q \in Runs : Giving(q)'
    BY DEF UnindexedNeedsFault
  <1>0. /\ collection /\ indexes # 1 .. IndexCount => cutShort \/ \E q \in Runs : Giving(q)
        /\ indexes \subseteq 1 .. IndexCount /\ (~collection => indexes = {})
    BY DEF UnindexedNeedsFault, TypeOK
  <1>1. ASSUME NEW r \in Runs, RunStep(r) PROVE cutShort' \/ \E q \in Runs : Giving(q)'
    <2>1. CASE CreateCollection(r)
      <3>1. pc'[r] = "index" /\ at'[r] = 1
        BY <2>1 DEF CreateCollection, Goto, Proceed, TypeOK
      <3> QED
        BY <3>1
    <2>2. CASE CreateIndex(r)
      <3>1. /\ collection /\ cutShort' = cutShort /\ indexes' = indexes \cup {at[r]}
            /\ pc' = pc /\ at'[r] = at[r] + 1 /\ at[r] \in 1 .. IndexCount
        BY <2>2, BootstrapAssumption DEF CreateIndex, history, TypeOK
      <3>2. indexes # 1 .. IndexCount
        BY <1>0, <3>1
      <3>3. ASSUME NEW q \in Runs, Giving(q) PROVE Giving(q)'
        <4>1. CASE q = r
          BY <3>1, <3>3, <4>1
        <4>2. CASE q # r
          BY <1>1, <3>1, <3>3, <4>2, OthersStay
        <4> QED
          BY <4>1, <4>2
      <3> QED
        BY <1>0, <3>1, <3>2, <3>3
    <2>3. CASE ~CreateCollection(r) /\ ~CreateIndex(r)
      <3>1. collection' = collection /\ indexes' = indexes
        BY <1>1, <2>3, Effects
      <3>2. ASSUME NEW q \in Runs \ {r}, Giving(q) PROVE Giving(q)'
        BY <1>1, <3>1, <3>2, OthersStay
      <3>3. CASE Interrupt(r)
        <4>1. cutShort' = (cutShort \/ (pc[r] = "index" /\ collection))
          BY <3>3 DEF Interrupt
        <4> QED
          BY <1>0, <3>1, <3>2, <4>1
      <3>4. CASE ~Interrupt(r)
        <4>1. cutShort' = cutShort
          BY <1>1, <2>3, <3>4, Effects
        <4>2. ~Giving(r)
          <5> SUFFICES ASSUME Giving(r) PROVE FALSE
            OBVIOUS
          <5>1. Indexed(r)
            BY <1>1, <2>3, <3>1, <3>4
            DEF RunStep, Step, EnsureSchema, Check, CollectionExists, Upsert, Upserted,
                SaveRow, SkipSave, WriteForm, FormsWritten, SaveForms, GiveUp, Refused,
                PostgresFails, Goto
          <5>2. at[r] > IndexCount /\ at[r] \in Nat
            BY <5>1 DEF Indexed, TypeOK
          <5>3. 1 .. IndexCount \subseteq 1 .. (at[r] - 1)
            BY <5>2, BootstrapAssumption
          <5> QED
            BY <1>0, <3>1, <5>3
        <4> QED
          BY <1>0, <3>1, <3>2, <4>1, <4>2
      <3> QED
        BY <3>3, <3>4
    <2> QED
      BY <2>1, <2>2, <2>3
  <1>2. CASE \E r \in Runs, o \in Offered : Start(r, o)
    <2>1. PICK r \in Runs, o \in Offered : Start(r, o)
      BY <1>2
    <2>2. pc[r] = "idle" /\ (\A q \in Runs \ {r} : pc'[q] = pc[q])
      BY <2>1 DEF Start, TypeOK
    <2>3. UNCHANGED <<at, collection, indexes, cutShort>>
      BY <2>1 DEF Start, stores, history
    <2>4. ASSUME NEW q \in Runs, Giving(q) PROVE Giving(q)'
      BY <2>2, <2>3, <2>4
    <2> QED
      BY <1>0, <2>3, <2>4
  <1>3. CASE Loss
    BY <1>0, <1>3
    DEF Loss, ReplacePdf, LoseCollection, LoseTables, LoseFiles, running, stores, history, vars
  <1> QED
    BY <1>1, <1>2, <1>3 DEF Next, Loss, RunStep

-----------------------------------------------------------------------------

\* A nonempty set of positions of a sequence has a last one.
LEMMA LastPosition ==
    ASSUME NEW s, NEW S, s \in Seq(S), NEW K \in SUBSET DOMAIN s, K # {}
    PROVE  \E k \in K : \A l \in K : l <= k
  <1> DEFINE Away == {Len(s) - k : k \in K}
  <1>1. Len(s) \in Nat /\ \A k \in K : k \in 1 .. Len(s)
    OBVIOUS
  <1>2. Away \in SUBSET Nat /\ Away # {}
    BY <1>1
  <1>3. PICK a \in Away : \A b \in Away : <<b, a>> \notin OpToRel(<, Nat)
    <2> HIDE DEF Away
    <2> QED
      BY <1>2, NatLessThanWellFounded, WFMin
  <1>4. PICK k \in K : a = Len(s) - k
    BY <1>3
  <1>5. ASSUME NEW l \in K PROVE l <= k
    <2>1. <<Len(s) - l, a>> \notin {ss \in Nat \X Nat : ss[1] < ss[2]}
      BY <1>3 DEF OpToRel
    <2>2. Len(s) - l \in Nat /\ a \in Nat
      BY <1>1, <1>2, <1>3
    <2>3. ~(Len(s) - l < a)
      BY <2>1, <2>2
    <2> QED
      BY <1>1, <1>4, <2>2, <2>3
  <1> QED
    BY <1>4, <1>5

\* What the transaction of ingest_forms does to the row of a number: it is a
\* record of that number, or there is none and it stays.
LEMMA SavedRows ==
    ASSUME TypeOK, NEW r \in Runs, SaveForms(r), NEW n \in Numbers
    PROVE  LET records == FormsOf[edition[r]]
           IN  \/ /\ \A k \in DOMAIN records : records[k].number # n
                  /\ formRows'[n] = formRows[n]
               \/ \E j \in DOMAIN records :
                     /\ records[j].number = n
                     /\ formRows'[n] = [name |-> records[j].name, edition |-> edition[r]]
  <1> DEFINE records == FormsOf[edition[r]]
             numbered == {k \in DOMAIN records : records[k].number = n}
  <1>1. edition[r] \in Pdfs
    BY DEF SaveForms, Goto, TypeOK, Parsed
  <1>2. formRows'[n] =
           IF LastRecord(edition[r], n) = {} THEN formRows[n]
           ELSE [name |-> records[CHOOSE k \in LastRecord(edition[r], n) : TRUE].name,
                 edition |-> edition[r]]
    BY DEF SaveForms
  <1>3. CASE numbered = {}
    <2>1. LastRecord(edition[r], n) = {}
      BY <1>3 DEF LastRecord
    <2> QED
      BY <1>2, <1>3, <2>1
  <1>4. CASE numbered # {}
    <2>1. records \in Seq([number : Numbers, name : Names])
      BY <1>1, EditionFacts
    <2>2. \E k \in numbered : \A l \in numbered : l <= k
      <3> HIDE DEF records
      <3> QED
        BY <1>4, <2>1, LastPosition
    <2>3. LastRecord(edition[r], n) # {}
      BY <2>2 DEF LastRecord
    <2>4. PICK j \in LastRecord(edition[r], n) :
             j = CHOOSE k \in LastRecord(edition[r], n) : TRUE
      BY <2>3
    <2>5. j \in DOMAIN records /\ records[j].number = n
      BY <2>4 DEF LastRecord
    <2> QED
      BY <1>2, <2>3, <2>4, <2>5
  <1> QED
    BY <1>3, <1>4

LEMMA NumberedStep == TypeOK /\ Numbered /\ [Next]_vars => Numbered'
  <1> SUFFICES ASSUME TypeOK, Numbered, [Next]_vars PROVE Numbered'
    OBVIOUS
  <1>1. ASSUME NEW r \in Runs, RunStep(r) PROVE Numbered'
    <2>1. CASE formRows' = formRows
      BY <2>1 DEF Numbered
    <2>2. CASE SaveForms(r)
      <3> SUFFICES ASSUME NEW n \in Numbers, formRows'[n] # None
                   PROVE  \E p \in Pdfs : \E k \in DOMAIN FormsOf[p] :
                             FormsOf[p][k].name = formRows'[n].name /\ FormsOf[p][k].number = n
        BY DEF Numbered
      <3>1. edition[r] \in Pdfs
        BY <2>2 DEF SaveForms, Goto, TypeOK, Parsed
      <3>2. CASE formRows'[n] = formRows[n]
        BY <3>2 DEF Numbered
      <3>3. CASE \E j \in DOMAIN FormsOf[edition[r]] :
                    /\ FormsOf[edition[r]][j].number = n
                    /\ formRows'[n] = [name |-> FormsOf[edition[r]][j].name,
                                       edition |-> edition[r]]
        BY <3>1, <3>3
      <3> QED
        BY <2>2, <3>2, <3>3, SavedRows
    <2> QED
      BY <1>1, <2>1, <2>2, Effects
  <1>2. CASE \E r \in Runs, o \in Offered : Start(r, o)
    BY <1>2 DEF Start, stores, Numbered
  <1>3. CASE Loss
    BY <1>3
    DEF Loss, ReplacePdf, LoseCollection, LoseTables, LoseFiles, Numbered, stores, vars
  <1> QED
    BY <1>1, <1>2, <1>3 DEF Next, Loss, RunStep

\* The file a row names, and its edition.
Served(n) ==
    formRows[n] # None /\ formRows[n].name \notin unsettled =>
        Download(n) = "file" /\ formFiles[formRows[n].name] = formRows[n].edition

LEMMA ListedStep ==
    TypeOK /\ Laid /\ Numbered /\ ListedFormIsServed /\ [Next]_vars => ListedFormIsServed'
  <1> SUFFICES ASSUME TypeOK, Laid, Numbered, ListedFormIsServed, [Next]_vars,
                      NEW n \in Numbers
               PROVE  Served(n)'
    BY DEF ListedFormIsServed, Served
  <1>0. Served(n) /\ (formRows[n] # None => formRows[n].name \in Names)
    BY DEF ListedFormIsServed, Served, TypeOK
  <1>1. ASSUME NEW r \in Runs, RunStep(r) PROVE Served(n)'
    <2>1. CASE WriteForm(r)
      <3>1. formRows' = formRows
        BY <2>1 DEF WriteForm
      <3>2. \A f \in Names \ unsettled' : f \notin unsettled /\ formFiles'[f] = formFiles[f]
        <4> DEFINE name == FormsOf[edition[r]][at[r]].name
        <4>1. \/ formFiles' = [formFiles EXCEPT ![name] = edition[r]]
                 /\ unsettled' = unsettled \cup {name}
              \/ formFiles' = formFiles /\ unsettled' = unsettled
          BY <2>1 DEF WriteForm
        <4> HIDE DEF name
        <4> QED
          BY <4>1 DEF TypeOK
      <3> QED
        BY <1>0, <3>1, <3>2 DEF Served, Download
    <2>2. CASE SaveForms(r)
      <3> DEFINE records == FormsOf[edition[r]]
      <3>1. pc[r] = "rows" /\ edition[r] \in Pdfs /\ formFiles' = formFiles
        BY <2>2 DEF SaveForms, Goto, TypeOK, Parsed
      <3>2. unsettled' = IF options[r].served
                         THEN (unsettled \ NamesOf(edition[r]))
                                 \cup (overlaid[r] \cap NamesOf(edition[r]))
                         ELSE unsettled \cup NamesOf(edition[r])
        BY <2>2 DEF SaveForms, Settle
      <3>3. edition[r] # None
        BY <3>1, EditionFacts
      <3>4. CASE /\ \A k \in DOMAIN records : records[k].number # n
                 /\ formRows'[n] = formRows[n]
        <4>1. formRows[n] # None => formRows[n].name \notin NamesOf(edition[r])
          <5> SUFFICES ASSUME formRows[n] # None, NEW k \in DOMAIN records,
                              records[k].name = formRows[n].name
                       PROVE  FALSE
            BY DEF NamesOf
          <5>1. PICK p \in Pdfs : \E l \in DOMAIN FormsOf[p] :
                   FormsOf[p][l].name = formRows[n].name /\ FormsOf[p][l].number = n
            BY DEF Numbered
          <5>2. records[k].number = n
            BY <3>1, <5>1, NameAssumption
          <5> QED
            BY <3>4, <5>2
        <4>2. formRows[n] # None /\ formRows[n].name \notin unsettled' =>
                 formRows[n].name \notin unsettled
          BY <3>2, <4>1
        <4> QED
          BY <1>0, <3>1, <3>4, <4>2 DEF Served, Download
      <3>5. CASE \E j \in DOMAIN records :
                    /\ records[j].number = n
                    /\ formRows'[n] = [name |-> records[j].name, edition |-> edition[r]]
        <4>1. PICK j \in DOMAIN records :
                 formRows'[n] = [name |-> records[j].name, edition |-> edition[r]]
          BY <3>5
        <4>2. records[j].name \in NamesOf(edition[r])
          BY DEF NamesOf
        <4>3. records[j].name \notin unsettled' => formFiles[records[j].name] = edition[r]
          BY <3>1, <3>2, <4>2 DEF Laid
        <4> QED
          BY <3>1, <3>3, <4>1, <4>3 DEF Served, Download
      <3> QED
        BY <2>2, <3>4, <3>5, SavedRows
    <2>3. CASE formRows' = formRows /\ formFiles' = formFiles /\ unsettled' = unsettled
      BY <1>0, <2>3 DEF Served, Download
    <2> QED
      BY <1>1, <2>1, <2>2, <2>3, Effects
  <1>2. CASE \E r \in Runs, o \in Offered : Start(r, o)
    BY <1>0, <1>2 DEF Start, stores, history, Served, Download
  <1>3. CASE LoseTables
    BY <1>3 DEF LoseTables, Served
  <1>4. CASE LoseFiles
    BY <1>0, <1>4 DEF LoseFiles, Served
  <1>5. CASE (\E path \in Paths : ReplacePdf(path)) \/ LoseCollection \/ UNCHANGED vars
    BY <1>0, <1>5 DEF ReplacePdf, LoseCollection, vars, stores, history, Served, Download
  <1> QED
    BY <1>1, <1>2, <1>3, <1>4, <1>5 DEF Next, RunStep

-----------------------------------------------------------------------------

LEMMA NextInv == BootstrapInv /\ [Next]_vars => BootstrapInv'
  BY TypeStep, UploadedStep, LaidStep, NumberedStep, SkipStep, UnindexedStep, ListedStep
  DEF BootstrapInv

\* The strengthened invariant: what each run under way has written is there,
\* but for what is recorded as overlaid.
THEOREM BootstrapInvariant == Spec => []BootstrapInv
  BY InitInv, NextInv, PTL DEF Spec

\* Types; and points are in a collection, rows in a table.
THEOREM BootstrapTypes == Spec => []TypeOK
  <1>1. BootstrapInv => TypeOK
    BY DEF BootstrapInv
  <1> QED
    BY <1>1, BootstrapInvariant, PTL

\* The row that lets a run skip the statute is true of every point that no
\* other run wrote over and that was not lost, unless the PDF was replaced
\* between its digest and its parse (ingest.py:64-86, :131-144).
THEOREM SkipSound == Spec => []SkipIsSound
  <1>1. BootstrapInv => SkipIsSound
    BY DEF BootstrapInv
  <1> QED
    BY <1>1, BootstrapInvariant, PTL

\* Only a run that is cut short leaves a collection without one of its indexes
\* (store.py:118).
THEOREM UnindexedFault == Spec => []UnindexedNeedsFault
  <1>1. BootstrapInv => UnindexedNeedsFault
    BY DEF BootstrapInv
  <1> QED
    BY <1>1, BootstrapInvariant, PTL

\* A listed form is served, from the edition its row was saved for, unless its
\* file was written over or lost since the run that saved the row had written
\* it, or that run wrote it to another directory (forms.py:66).
THEOREM ListedServed == Spec => []ListedFormIsServed
  <1>1. BootstrapInv => ListedFormIsServed
    BY DEF BootstrapInv
  <1> QED
    BY <1>1, BootstrapInvariant, PTL

================================================================================
