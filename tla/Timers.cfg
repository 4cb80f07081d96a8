\* Two workers, two descriptors of one client in two buckets, two connections.
SPECIFICATION FairSpec
CONSTANTS
  w1 = w1
  w2 = w2
  k1 = k1
  k2 = k2
  Workers <- MCWorkers
  Keys <- MCKeys
  ClientOf <- OneClient
  BucketOf <- TwoBuckets
  buckets_size = 2
  MaxTimers = 2
INVARIANTS ErasedOnce DeletionPending LostOnlyByReuse
PROPERTY DeletedForgotten
CHECK_DEADLOCK FALSE
