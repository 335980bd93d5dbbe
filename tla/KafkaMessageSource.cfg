SPECIFICATION FairSpec
CONSTANTS
  t1 = t1
  t2 = t2
  a = a
  b = b
  c = c
  Topics = {t1, t2}
  Parts = {a, b, c}
  TopicOf <- MCTopicOf
  Log <- MCLog
  max_batch_size = 3
  max_commit_interval = 1
  MaxStops = 2
INVARIANTS IInv ReceivedInOrder StaleBounded
PROPERTY Converges
