SPECIFICATION Spec
CONSTANTS
  None = None
  Break = Break
  Words <- MCWords
  Short <- MCShort
  SensitiveWords <- MCSensitiveWords
  Names <- MCNames
  ContentNames <- MCContentNames
  Endpoints = {"approved", "other"}
  Models = {"m1", "m2"}
  ApprovedEndpoints = {"approved"}
  MaxFeatures = 2
  Policies <- MCPolicies
  Contents <- MCContents
  Responses <- MCResponses
  MaxCalls = 2
CHECK_DEADLOCK FALSE
INVARIANT RequestsCarryContent
