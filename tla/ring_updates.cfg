SPECIFICATION FairSpec
CONSTANTS
  BufferSize = 7
  HeaderSize = 1
  RecordSizes = {4, 7}
  MaxSizes = {3}
  SizeModulus = 1000
  Producers = {w1}
  Consumers = {c1}
  Followers = {}
  Cursors = {}
  Updaters = {u1}
  Readers = {0}
  Behaviors <- AllBehaviors
  Nobody = nobody
  MaxMessages = 3
  MaxDrops = 3
INVARIANTS TransfersExact ErrorsExact
PROPERTIES PushReturns
