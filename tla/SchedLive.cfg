SPECIFICATION FairSpec
CONSTANTS
  Proc = {p1, p2, p3}
  Root = p1
  NoProc = NoProc
  Ops = {"fork", "send", "receive", "sleep", "io"}
  Overtaken = FALSE
  MaxFork = 2
  MaxInbox = 1
  Programs <- MCPrograms
PROPERTIES NoStarvation DueAlarmGoesOff ReadyFileResumes
CHECK_DEADLOCK FALSE
