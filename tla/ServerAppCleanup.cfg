\* Whether every exit path reaches the centralized cleanup, as the comments say.
SPECIFICATION Spec
CONSTANTS
  f1 = f1  f2 = f2  f3 = f3
  Fds <- MCFds
  NoFd = no_fd
  SERVER_PORT = 9090
INVARIANT
  EveryExitCleansUp
