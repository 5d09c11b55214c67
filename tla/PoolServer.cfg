\* Two workers, a queue of one: with three clients and a failed accept() the
\* queue fills up and connections are refused.
SPECIFICATION Spec
CONSTANTS
  k1 = k1  k2 = k2  k3 = k3  x = x
  Clients <- MCClients
  FailedAccepts <- MCFailed
  MaxQueueSize = 1
  ThreadCount = 2
  MaxMessages = 2
  Nothing = nothing
SYMMETRY Symmetry
INVARIANTS
  OneHand
  RequestNumbersUnique
  
  BusyIsFinal
