\* One worker and a queue of one: a failed accept() and two clients of either
\* version fill it, and connections are refused.
SPECIFICATION ClientsSpec
CONSTANTS
  k1 = k1  k2 = k2  x = x
  Clients <- MCClients
  FailedAccepts <- MCFailed
  MaxQueueSize = 1
  ThreadCount = 1
  MaxMessages = 2
  Nothing = nothing
INVARIANTS
  ServerSurvives
  
PROPERTY
  EveryConnectionEnds
