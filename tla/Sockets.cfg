\* Three connections and two servers over four descriptors: fewer descriptors
\* than objects, so that a descriptor is reused by another object.
SPECIFICATION Spec
CONSTANTS
  c1 = c1  c2 = c2  c3 = c3  s1 = s1  s2 = s2
  f1 = f1  f2 = f2  f3 = f3  f4 = f4
  Conns <- MCConns
  Servers <- MCServers
  Fds <- MCFds
  Ports <- MCPorts
  NoFd = no_fd
SYMMETRY Symmetry
INVARIANTS
  UniqueOwner
  NoLeak
  ConnectedIsStream
  RunningIsListening
PROPERTY
  OthersUndisturbed
