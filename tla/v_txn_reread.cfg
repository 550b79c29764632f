SPECIFICATION Spec
CONSTANTS
  t1 = t1
  t2 = t2
  t3 = t3
  a = a
  b = b
  c = c
  Threads = {t1, t2, t3}
  Keys = {a, b, c}
  Initial <- TwoKeys
  Tags <- AllTags
  Programs <- TwoAdders
  Fragile = {}
  MaxTry = 10
  SameSlot = {a, b, c}
INVARIANTS EachChangeOnce
