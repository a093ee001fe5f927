SPECIFICATION Spec
CONSTANTS
  Runs = {r1, r2}
  Paths = {"act", "update"}
  Pdfs = {"first", "second"}
  Models = {"base", "large"}
  InitialPdf <- MCInitialPdf
  Dim <- MCDim
  Ids = {"a", "b", "c"}
  Batches <- MCBatches
  IndexCount = 2
  Numbers = {1, 2}
  Names = {"bond", "writ"}
  FormsOf <- MCFormsOf
  None = None
  Offered <- AnyRun
  MaxFaults = 1
  MaxChanges = 1
INVARIANTS
  TypeOK
  SkipIsSound
  UnindexedNeedsFault
  ListedFormIsServed
PROPERTY CorpusHeals
