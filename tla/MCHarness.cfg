CONSTANTS
  Protocols <- MCProtocols
  Versions <- MCVersions
  Flags <- MCFlags
  Programs <- MCPrograms
  Deployments <- MCDeployments
  Successes <- MCSuccesses
  NumRoles = 1
  NumConnections = 0
  FrameTypes = {"Other", "Unknown", "Garbage"}
  Servers = {"any", "conforming"}
  MaxFrames <- MCMaxFrames
SPECIFICATION FairSpec
INVARIANTS OneOutcomePerAction BlockGuarded EventsAccounted PassIsEarned NoFalseFail
PROPERTY RunsToAVerdict
CHECK_DEADLOCK FALSE
