SPECIFICATION Spec
CONSTANTS
  Jobs <- MCJobs
  MaxQuantifiers = 16
INVARIANTS SolvesExactly GroupsInOrder OrderIrrelevant AcceptedIsSound
CHECK_DEADLOCK FALSE
