SPECIFICATION FairSpec
CONSTANTS
  Hands = {"h1"}
  Checksums = {"a", "b"}
  MaxVersion = 2
  Queues = {"hands"}
  Messages <- MCMessages
  Consumers = {c1}
  HudWindows = {}
  MaxCrashes = 1
  None = None
INVARIANTS
  AckedIsAccounted
  UsableEvidenceIsSound
PROPERTIES
  HandsOnlyAdvance
  EventuallyAcked
CHECK_DEADLOCK FALSE
