SPECIFICATION Spec
CONSTANTS
  Proc = {p1, p2}
  Root = p1
  Counter = {c0, c1, c2}
  RootClicks = c0
  Top = 6
  Amount = {1, 2}
  Gap = {0, 2}
  MaxDepth = 2
  MaxIssued = 8
  MaxUsed = 3
SYMMETRY Interchangeable
INVARIANTS ClicksConserved
PROPERTIES NobodyLeftOnSpent
CHECK_DEADLOCK FALSE
