SPECIFICATION FairSpec
CONSTANTS
  t1 = t1
  t2 = t2
  t3 = t3
  t4 = t4
  p1 = p1
  p2 = p2
  p3 = p3
  Threads <- MCThreads
  Processes <- MCProcesses
  ProcOf <- MCProcOf
  NoThread = NoThread
  NoPid = NoPid
INVARIANTS
  OneLux
  NoLeak
  PidFileNotWrong
PROPERTIES
  RefusalJustified
  Settles
  ImplementsOwner
