SPECIFICATION FairSpec
CONSTANTS
  Workers = {w1, w2}
  Callers = {c1, c2}
  Owner = c1
  NoTask = none
  Tasks = {t1, t2, t3}
INVARIANTS IInv ExactlyOnce
PROPERTIES AwaitIdleIsBarrier ServiceSpec NothingHangs
