SPECIFICATION Spec
CONSTANTS
  BufferSize = 7
  HeaderSize = 1
  RecordSizes = {3, 4}
  MaxSizes = {2, 3}
  SizeModulus = 1000
  Producers = {w1}
  Consumers = {c1, c2}
  Followers = {}
  Cursors = {}
  Updaters = {}
  Readers = {0}
  Behaviors <- AllBehaviors
  Nobody = nobody
  MaxMessages = 5
  MaxDrops = 5
INVARIANTS DrainedIsEmpty
