SPECIFICATION FairSpec
INVARIANTS
  RelaysSafe
PROPERTIES
  CommitServed
  LoopKeepsModes
