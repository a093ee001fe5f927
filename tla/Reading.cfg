SPECIFICATION Spec
CONSTANTS
  Numbers <- MCNumbers
  MaxChars = 2048
  MinSplit = 320
  MaxRows = 4
  MaxBody = 5
  Titles = {"Bond", "Warrant"}
  NoTitle = "none"
  Slug <- MCSlug
  MaxFormPages = 4
  Paragraphs = {"head", "line", "block", "long"}
  Length <- MCLength
  MinChunkChars = 200
  MaxChunkChars = 1600
  OverlapChars = 150
  MaxPages = 3
  MaxOnPage = 2
INVARIANTS
  TypeOK
  NoTextLost
  ApparatusTravels
  MisfiledTextIsFlagged
  TitlesAreOwn
  SwallowedFormIsFlagged
  UploadTextKept
CHECK_DEADLOCK FALSE
