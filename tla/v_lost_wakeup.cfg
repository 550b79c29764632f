SPECIFICATION FairSpec
CONSTANTS
  a = a
  b = b
  c = c
  d = d
  e = e
  f = f
  Streams = {a, b}
  Workers = {w1, w2}
  Main = main
  NoStream = NoStream
  Nil = Nil
  Scripts <- FunctionObject
PROPERTIES InvokedForEach
