SPECIFICATION Spec
CONSTANTS
  Names <- MCNames
  ContentNames <- MCContentNames
  Ids <- MCIds
  Conflicting <- MCConflicting
  Insufficient = "insufficient"
  Scale = 2
  Invalid = Invalid
  SignalLists <- MCSignalLists
  Configurations <- MCConfigurations
  NoId = NoId
INVARIANT ResultsPassTheOracle
