SPECIFICATION SessionFairSpec
CONSTANTS
  NumTables = 3
  MaxKeys = 2
  MaxIterations = 3
  Word = 16
INVARIANT SessionIInv
PROPERTIES NeverMixes CallsReturn
CHECK_DEADLOCK FALSE
