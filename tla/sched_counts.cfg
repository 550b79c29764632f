SPECIFICATION Spec
CONSTANTS
  a = a
  b = b
  c = c
  d = d
  e = e
  f = f
  Streams = {a, b, c, d}
  Workers = {w1, w2}
  Main = main
  NoStream = NoStream
  Nil = Nil
  Scripts <- CountScripts
INVARIANTS TypeOK Exclusive CountsLiveStreams ReturnsAfterAll CloseFuncOnce NoGaps
\* main spins in strm_loop for ever when a stream is never closed
CHECK_DEADLOCK FALSE
