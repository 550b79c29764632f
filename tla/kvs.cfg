SPECIFICATION FairSpec
CONSTANTS
  t1 = t1
  t2 = t2
  t3 = t3
  a = a
  b = b
  c = c
  Threads = {t1, t2, t3}
  Keys = {a, b, c}
  Initial <- TwoKeys
  Tags <- AllTags
  Programs <- Both
  Fragile <- OneKeyEach
  MaxTry = 2
  SameSlot = {a, c}
INVARIANTS TypeOK RetriesCaused
PROPERTIES ImplementsStore EveryCallReturns
