SPECIFICATION FairSpec
CONSTANTS
  t1 = t1
  t2 = t2
  s1 = s1
  s2 = s2
  s3 = s3
  Threads <- MCThreads
  Streams <- MCStreams
  MaxQueries = 2
CHECK_DEADLOCK FALSE
INVARIANTS
  AtMostOnce
  CompletedHasReceived
  StreamsAgree
PROPERTIES
  Answered
