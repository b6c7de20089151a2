SPECIFICATION Spec
CONSTANTS
  HistorySize = 3
  Batches <- SmallBatches
  Dumpers = {d1}
  Clears = TRUE
  MaxGap = 6
  MaxTime = 8
  MaxCount = 2
INVARIANTS AnswersExact InfoOfLastUpdate IntervalIsSum NothingOutlives DumpOrdered
