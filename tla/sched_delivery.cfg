SPECIFICATION Spec
CONSTANTS
  a = a
  b = b
  c = c
  d = d
  e = e
  f = f
  Streams = {a, b, c, d, e}
  Workers = {w1, w2}
  Main = main
  NoStream = NoStream
  Nil = Nil
  Scripts <- DeliveryScripts
INVARIANTS NoEndAfterFailure
PROPERTIES DeliversSafely
