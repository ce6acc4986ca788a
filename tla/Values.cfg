SPECIFICATION Spec
CONSTANTS
  Byte = 4
  r1 = r1
  r2 = r2
  Registers = {r1, r2}
  Given = 2
  Variables = 4
  Bindings = 3
  Deep = 5
  Types <- mcPatterns
  Requests <- mcRequests
INVARIANTS FoldKeepsMeaning ListsAndOrder SentIsReceived NumbersAgree MatchBindsRight
CHECK_DEADLOCK FALSE
SYMMETRY mcSymmetry
