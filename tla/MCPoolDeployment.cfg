CONSTANTS
  Shapes <- MCShapes
  MaxSent <- MCMaxSent
  MaxJunk = 1
SPECIFICATION FairSpec
INVARIANTS NothingLeftBehind SuccessWasAnswered
PROPERTIES ChannelSpec StartEnds
CHECK_DEADLOCK FALSE
