SPECIFICATION Spec
CONSTANTS
  Proc = {p1, p2, p3}
  Root = p1
  NoProc = NoProc
  Ops = {"fork", "send", "receive", "any", "die", "fail", "kill", "interrupt", "monitor"}
  Overtaken = FALSE
  MaxFork = 2
  MaxInbox = 1
SYMMETRY Interchangeable
INVARIANTS RunQueueOk LiveCountOk ExecutesRunnable NoMessageMissed
CHECK_DEADLOCK FALSE
