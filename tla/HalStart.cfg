SPECIFICATION FairSpec
CONSTANTS
  Images <- SomeImages
  Settings <- SomeSettings
  MaxChanges = 2
  NoNumber = NoNumber
INVARIANTS
  TypeOK
  VariantIsConsistent
  NoMessageCrashes
  SessionIsConnected
PROPERTIES
  TypeFixedForLife
  ConnectedInTheEnd
