SPECIFICATION FeedSpec
CONSTANTS
  None = None
  Missing = Missing
  NotAMapping = NotAMapping
  NoMetadata = NoMetadata
  NotText = NotText
  BlankTexts = {"", "  "}
  Blocked <- MCBlocked
  Rank <- MCRank
  Clip <- MCClip
  MAX_METADATA_ITEMS = 2
  MAX_TOKEN_COUNT = 2
  FormatName <- MCFormatName
  Family <- MCFamily
  Values <- MCValues
  Blank = "  "
  NoDate = NoDate
  Invocations = {"i1", "i2"}
  Entry <- MCEntry
  Nobody = Nobody
  TicksPerDay = 2
  WindowDays = 2
  LastTick = 6
  MaxCopies = 2
  Approved <- MCApproved
  Requests <- MCRequests
  Loaders <- MCLoaders
  MaxReads = 2
CHECK_DEADLOCK FALSE
INVARIANTS
  ClosedDaysAreFinal
  AdjacentReadsCoverTheLake
  OnlyEdgeDaysAreCut
  DuplicatesAreRecognisable
  OneBadColumnCostsItself
  FormatsAreNotExtrapolated
  RecordsAreUsable
  ContentNeedsBothSwitches
