\* Every program against the server, killed or shut down at any point.
SPECIFICATION ProgramsSpec
CONSTANTS
  f1 = f1  f2 = f2
  Fds <- MCFds
  NoFd = no_fd
  SERVER_PORT = 9090
INVARIANTS
  ExitStatusesAgree
  ClosedIsRefused
PROPERTIES
  NobodyWaitsForEver
  ClientIsAPeer
