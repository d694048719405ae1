SPECIFICATION FairSpec
CONSTANTS
  s1 = s1
  s2 = s2
  r1 = r1
  r2 = r2
  r3 = r3
  child = child
  parent = parent
  plain = plain
  None = None
  Sender = {s1, s2}
  Receiver = {r1, r2, r3}
  Queue = {child, parent, plain}
  Parent <- MCParent
  HasFd = {plain}
  SendTo <- MCSendTo
  Listens <- MCListens
  How <- MCHow
  MinSize = 2
  Size = {1}
  SubSize = 1
  MaxSends <- MCMaxSends
INVARIANTS NoUseAfterFree NeverEmptyHanded PendingCovers
PROPERTIES ServiceSpec Delivered
