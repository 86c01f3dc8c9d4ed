SPECIFICATION MutationSpec
CONSTANTS
  Protocols <- MCProtocols
  Versions <- MCVersions
  Flags <- MCFlags
  NumRoles = 2
  NumConnections = 0
  Corpus <- MCCorpus
  DefinedFlags <- MCDefinedFlags
  CurrentVersion = 2
  Shapes <- MCShapes
  MaxInstructions = 15
  MaxStacked = 2
INVARIANTS
  CandidatesAreValid
  DataflowKept
  ViolatesExactlyOne
CHECK_DEADLOCK FALSE
