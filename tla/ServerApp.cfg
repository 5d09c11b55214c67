\* The whole application against every peer and a SIGINT at every point.
SPECIFICATION FairSpec
CONSTANTS
  f1 = f1  f2 = f2  f3 = f3
  Fds <- MCFds
  NoFd = no_fd
  SERVER_PORT = 9090
INVARIANTS
  EndsReleased
  ShutdownBounded
  ExitStatusTruthful
  AnswerMatchesPacket
PROPERTIES
  CleanupOrder
  ShutdownEnds
