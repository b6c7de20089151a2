SPECIFICATION Spec
CONSTANTS
  q1 = q1
  q2 = q2
  u1 = u1
  u2 = u2
  p1 = p1
  p2 = p2
  Queues = {q1, q2}
  Users = {u1, u2}
  Processes = {p1, p2}
  Capacities = {5, 10}
  WarnAfter = 1
  CriticalAfter = 2
  Scenarios <- QueuesOrProcesses
INVARIANTS WellMeansWell OkMeansActive
PROPERTIES ReadsWhatIsPublished
