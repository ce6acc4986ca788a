SPECIFICATION Spec
CONSTANTS
  p1 = p1
  p2 = p2
  lines = lines
  nested = nested
  terms = terms
  remote = remote
  out = out
  NoCall = NoCall
  Proc = {p1, p2}
  File <- mcFiles
  Script <- mcScript
  Ending <- mcEnding
  Direction <- mcDirection
  Room = 2
  Programs <- mcPrograms
  Careful = TRUE
INVARIANTS EachCharacterOnce AnswersWhole ReadyResumes
CHECK_DEADLOCK FALSE
