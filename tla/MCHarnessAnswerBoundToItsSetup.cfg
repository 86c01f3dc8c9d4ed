CONSTANTS
  Protocols <- MCProtocols
  Versions <- MCVersions
  Flags <- MCFlags
  Programs <- MCPrograms
  Deployments <- MCDeployments
  Successes <- MCSuccesses
  NumRoles = 1
  NumConnections = 0
  FrameTypes = {"Other", "Unknown", "Garbage"}
  Servers = {"conforming"}
  MaxFrames <- MCMaxFrames
SPECIFICATION HarnessSpec
INVARIANT AnswerBoundToItsSetup
CHECK_DEADLOCK FALSE
