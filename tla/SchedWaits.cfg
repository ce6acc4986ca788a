SPECIFICATION Spec
CONSTANTS
  Proc = {p1, p2}
  Root = p1
  NoProc = NoProc
  Ops = {"fork", "send", "receive", "timeout", "delay", "shell", "die"}
  Overtaken = FALSE
  MaxFork = 1
  MaxInbox = 1
SYMMETRY Interchangeable
INVARIANTS TypeOK CurrentIsExecuting WaitsWillEnd
PROPERTIES DeadStaysDead
CHECK_DEADLOCK FALSE
