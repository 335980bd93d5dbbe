SPECIFICATION FairSpec
CONSTANTS
  NumWorkers = 2
  BatchSize = 2
  Slots = 2
  Lists <- MCLists
  Repeats = {FALSE, TRUE}
  MaxEpochs = 2
  MaxReads = 3
  MaxOpens = 20
  MaxTry = 2
INVARIANT IInv  SetSourceAccepted
 
CHECK_DEADLOCK FALSE
