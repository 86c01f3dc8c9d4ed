CONSTANTS
  Protocols <- MCProtocols
  Versions <- MCVersions
  Flags <- MCFlags
  Entries <- MCShortEntries
  NumRoles = 1
  NumConnections = 0
  MaxConsecutiveFailures = 2
SPECIFICATION FairSpec
PROPERTY MinimizingEnds

