SPECIFICATION PathSpec
CONSTANTS
  None = None
  Break = Break
  Malformed = Malformed
  BadPattern = BadPattern
  Words <- MCWords
  Short <- MCShort
  SensitiveWords = {}
  Names <- MCNames
  ContentNames <- MCContentNames
  Endpoints = {"approved"}
  Models = {"m1"}
  ApprovedEndpoints = {"approved"}
  MaxFeatures = 1
  Policies <- MCPolicies
  Contents <- MCContents
  Responses <- MCResponses
  MaxCalls = 1
  Marker <- MCMarker
  MarkerWords <- MCMarkerWords
  Features <- MCFeatures
  References = {"p1"}
  MaxRetention = 30
  MaxInput = 100000
  Records <- MCRecords
  Configurations <- MCConfigurations
  MaxRecords = 1
  LastDay = 1
CHECK_DEADLOCK FALSE
INVARIANTS
  NothingExcludedLeaves
  DeniedContentIsInvisible
  ConsumersAgree
  DisablingIsImmediate
  AcceptedConfigurationsWork
  AssessmentsAreSound
