SPECIFICATION FairSpec
CONSTANTS
  k1 = k1
  k2 = k2
  c1 = c1
  c2 = c2
  b1 = b1
  b2 = b2
  Keys = {k1, k2}
  Requests <- MCRequests
  Callers = {c1, c2}
  Blocks = {b1, b2}
  Deployments <- MCDeployments
INVARIANTS IInv LookupOfKeys
PROPERTIES PoolRefills BecomesFresh
