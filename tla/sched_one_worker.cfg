SPECIFICATION FairSpec
CONSTANTS
  a = a
  b = b
  c = c
  d = d
  e = e
  f = f
  Streams = {a, b, c, d, e, f}
  Workers = {w1}
  Main = main
  NoStream = NoStream
  Nil = Nil
  Scripts <- OneWorkerScripts
INVARIANTS NoStranded
PROPERTIES ImplementsDelivery Termination
