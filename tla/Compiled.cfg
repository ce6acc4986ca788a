SPECIFICATION Spec
CONSTANTS
  Jobs <- MCJobs
  StackSize = 48
INVARIANTS ComputesSource FrameIsSafe BlocksNest VerifierAccepts
PROPERTIES Finishes
CHECK_DEADLOCK FALSE
