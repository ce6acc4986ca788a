SPECIFICATION Spec
CONSTANTS
  Msg = {m1, m2, m3}
  Nil = Nil
  Senders = {"other", "self"}
  Leases = {"none", "running", "over"}
  Receipts = {TRUE, FALSE}
  Escapes = {"next", "get", "wait"}
  Fronting = TRUE
  Clashing = FALSE
SYMMETRY Interchangeable
INVARIANTS NoMessageMissed QueueIsSound
PROPERTIES ImplementsMessageQueue NeverAgain
CHECK_DEADLOCK FALSE
