SPECIFICATION Spec
CONSTANTS
  Runs = {r1}
  Paths = {"act"}
  Pdfs = {"first", "second"}
  Models = {"base"}
  InitialPdf <- MCInitialPdf
  Dim <- MCDim
  Ids = {"a", "b", "c"}
  Batches <- MCBatches
  IndexCount = 2
  Numbers = {1, 2}
  Names = {"bond", "writ"}
  FormsOf <- MCFormsOf
  None = None
  Offered <- StatuteOnly
  MaxFaults = 0
  MaxChanges = 1
INVARIANT SkippedIsIndexed
