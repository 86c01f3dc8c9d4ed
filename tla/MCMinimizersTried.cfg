CONSTANTS
  Protocols <- MCProtocols
  Versions <- MCVersions
  Flags <- MCFlags
  Entries <- MCEntries
  NumRoles = 1
  NumConnections = 0
  MaxConsecutiveFailures = 4
SPECIFICATION Spec
INVARIANT TriedAtLeastOnce

