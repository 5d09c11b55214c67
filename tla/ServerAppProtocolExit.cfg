\* Whether a protocol error that was reported ends with status 0, as the error
\* handling document says.
SPECIFICATION Spec
CONSTANTS
  f1 = f1  f2 = f2  f3 = f3
  Fds <- MCFds
  NoFd = no_fd
  SERVER_PORT = 9090
INVARIANT
  ReportedProtocolErrorExitsZero
