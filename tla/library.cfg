SPECIFICATION Spec
CONSTANTS
  Failed = Failed
  Funcall <- MCFuncall
  Calls <- MCCalls
  Inputs <- MCInputs
  MaxFed = 5
  MaxOut = 6
  Small = 4
  Precision = 4
  Scale = 120
CHECK_DEADLOCK FALSE
INVARIANTS TypeOK ListPromise ArraysAgree SortPromise SumPromise StatPromise CsvPromise LtsvPromise LinesPromise
