SPECIFICATION Spec
CONSTANTS
  Proc = {p1, p2, p3, p4}
  Nil = Nil
INVARIANTS RingIsSound
PROPERTIES ImplementsRunQueue
