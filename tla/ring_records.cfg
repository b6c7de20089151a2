SPECIFICATION MCSpec
CONSTANTS
  BufferSize = 7
  HeaderSize = 1
  RecordSizes = {2, 3}
  MaxSizes = {1, 3}
  SizeModulus = 1000
  Producers = {w1}
  Consumers = {c1, c2}
  Followers = {f1}
  Cursors = {k1}
  Updaters = {}
  Readers = {0}
  Behaviors <- DropsFail
  Nobody = nobody
  MaxMessages = 5
  MaxDrops = 5
  Poppers = {c1, c2}
  Watchers = {f1, k1}
INVARIANTS TypeOK Placement RecordsWhole OldestFirst PositionsAligned LossesAccounted
PROPERTIES OldestLeaves NoSilentGap ImplementsQueue
