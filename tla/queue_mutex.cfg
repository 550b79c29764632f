SPECIFICATION Spec
CONSTANTS
  Threads = {t1, t2, t3}
  Nodes = {p1, p2, p3}
  Values = {v1, v2}
  Null = Null
INVARIANTS TypeOK Accounted
PROPERTIES ImplementsFifo
SYMMETRY Symmetry
