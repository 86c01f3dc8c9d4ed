CONSTANTS
  Protocols <- MCProtocols
  Versions <- MCVersions
  Flags <- MCFlags
  Instructions <- MCInstructions
  Prefix <- MCPrefix
  Decoded <- MCDecoded
  NumRoles = 1
  NumConnections = 1
  MaxInstructions = 9
  MaxVariable = 7
  MaxSteps = 4
SPECIFICATION LoweringSpec
INVARIANTS BlocksClosed ValuesMirrorVariables ValidatedCompiles MetadataIsTrue
CHECK_DEADLOCK FALSE
