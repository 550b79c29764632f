SPECIFICATION Spec
CONSTANTS
  Width = 4
  Programs <- MCPrograms
CHECK_DEADLOCK FALSE
INVARIANTS TypeOK MapPromise FirstMatch ClassPromise TextPromise
PROPERTIES SingleAssignment Isolated
