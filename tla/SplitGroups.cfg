SPECIFICATION Spec
CONSTANTS
  Jobs <- SplitJobs
  MaxQuantifiers = 16
INVARIANTS GroupsInOrder
CHECK_DEADLOCK FALSE
