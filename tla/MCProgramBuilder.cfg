CONSTANTS
  Protocols <- MCProtocols
  Versions <- MCVersions
  Flags <- MCFlags
  Instructions <- MCInstructions
  NumRoles = 1
  NumConnections = 1
  MaxInstructions = 6
  MaxVariable = 4
SPECIFICATION ReuseSpec
INVARIANTS TypeOK StaticallyValid FinalizedIsClosed ScopesAgree AcceptsExactlyValid FromPrefixRebuilds
CHECK_DEADLOCK FALSE
