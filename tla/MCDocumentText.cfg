CONSTANTS
  Sources <- AllSources
  Texts <- NormalisedTexts
  NoPage = NoPage
  MaxRaw = 4
  MaxPages = 2
  MaxLength = 5
  MaxSize = 4
SPECIFICATION DocumentSpec
INVARIANTS
  NothingLost
  ChunksFit
  DocumentKept
  PagesAreTheirs
PROPERTY
  ChunkingEnds
CHECK_DEADLOCK FALSE
