------------------------------- MODULE Sockets --------------------------------
(***************************************************************************)
(* Who owns which file descriptor in PacketForge: the classes Socket,      *)
(* Connection and Server of src/PacketForge_V1/src, as one thread uses     *)
(* them.  A Connection holds a Socket and the flag connected_, a Server    *)
(* holds a Socket, running_ and port_; both can be moved, never copied.    *)
(* A Transport holds a Connection and a Client holds a Transport, and both *)
(* move by moving it, so the Connections of the model also stand for the   *)
(* ones inside those.                                                      *)
(*                                                                         *)
(* Every action is one call of a member function, whole, with one of its   *)
(* outcomes; what the system calls answer is chosen freely.  Calls that    *)
(* return an error and change nothing (start() of a running server,        *)
(* accept() into an established connection, a self move) are the           *)
(* stuttering steps of the specification.                                  *)
(***************************************************************************)
EXTENDS Naturals, FiniteSets

CONSTANTS
  Conns,    \* the Connection objects
  Servers,  \* the Server objects
  Fds,      \* the descriptors the process may have open
  NoFd,     \* the value -1 of socket_
  Ports     \* the ports getsockname() may report

ASSUME ObjectAssumption == Conns \cap Servers = {} /\ NoFd \notin Fds
ASSUME PortAssumption == Ports \subseteq Nat \ {0}

VARIABLES
  alive,      \* the objects between their constructor and their destructor
  fd,         \* the member socket_ of each object's Socket
  connected,  \* connected_ of each Connection
  running,    \* running_ of each Server
  port,       \* port_ of each Server
  kernel      \* what each descriptor is: "free", "plain", "stream", "listening"

vars == <<alive, fd, connected, running, port, kernel>>

Objects == Conns \cup Servers

Init ==
  /\ alive = {}
  /\ fd = [o \in Objects |-> NoFd]
  /\ connected = [c \in Conns |-> FALSE]
  /\ running = [s \in Servers |-> FALSE]
  /\ port = [s \in Servers |-> 0]
  /\ kernel = [f \in Fds |-> "free"]

-----------------------------------------------------------------------------
(* Descriptors.                                                            *)

\* The kernel after close() of f; closing NoFd is not a system call.
Closed(f) == [g \in Fds |-> IF g = f THEN "free" ELSE kernel[g]]

\* socket_ is f after create(): a new descriptor, or the one it already has.
Creates(o, f) == IF fd[o] = NoFd THEN kernel[f] = "free" ELSE f = fd[o]

-----------------------------------------------------------------------------
(* Connection.                                                             *)

ConstructConnection(c) ==
  /\ c \in Conns \ alive
  /\ alive' = alive \cup {c}
  /\ fd' = [fd EXCEPT ![c] = NoFd]
  /\ connected' = [connected EXCEPT ![c] = FALSE]
  /\ UNCHANGED <<running, port, kernel>>

\* Fault: the socket is closed and the flag is forgotten.
DisconnectKeepsFlag(c) ==
  /\ c \in Conns \cap alive
  /\ kernel' = Closed(fd[c])
  /\ fd' = [fd EXCEPT ![c] = NoFd]
  /\ UNCHANGED <<alive, connected, running, port>>

\* disconnect(): close the socket if it is open, clear the flag.
Disconnect(c) ==
  /\ c \in Conns \cap alive
  /\ kernel' = Closed(fd[c])
  /\ fd' = [fd EXCEPT ![c] = NoFd]
  /\ connected' = [connected EXCEPT ![c] = FALSE]
  /\ UNCHANGED <<alive, running, port>>

\* The destructor disconnects, and the object is gone.
DestroyConnection(c) ==
  /\ c \in Conns \cap alive
  /\ alive' = alive \ {c}
  /\ kernel' = Closed(fd[c])
  /\ fd' = [fd EXCEPT ![c] = NoFd]
  /\ connected' = [connected EXCEPT ![c] = FALSE]
  /\ UNCHANGED <<running, port>>

\* Fault: a copy, the source keeps its descriptor and its flag.
CopyConnection(c, other) ==
  /\ c \in Conns \ alive /\ other \in Conns \cap alive
  /\ alive' = alive \cup {c}
  /\ fd' = [fd EXCEPT ![c] = fd[other]]
  /\ connected' = [connected EXCEPT ![c] = connected[other]]
  /\ UNCHANGED <<running, port, kernel>>

\* Connection(Connection&&): the socket and the flag change owner.
MoveConstructConnection(c, other) ==
  /\ c \in Conns \ alive /\ other \in Conns \cap alive
  /\ alive' = alive \cup {c}
  /\ fd' = [fd EXCEPT ![c] = fd[other], ![other] = NoFd]
  /\ connected' = [connected EXCEPT ![c] = connected[other], ![other] = FALSE]
  /\ UNCHANGED <<running, port, kernel>>

\* operator=(Connection&&): first disconnect what the target held.
MoveAssignConnection(c, other) ==
  /\ c \in Conns \cap alive /\ other \in Conns \cap alive
  /\ c # other
  /\ kernel' = Closed(fd[c])
  /\ fd' = [fd EXCEPT ![c] = fd[other], ![other] = NoFd]
  /\ connected' = [connected EXCEPT ![c] = connected[other], ![other] = FALSE]
  /\ UNCHANGED <<alive, running, port>>

\* open(), and connect() that creates the socket and then fails: the socket
\* stays open, unconnected.
Open(c, f) ==
  /\ c \in Conns \cap alive
  /\ Creates(c, f)
  /\ fd' = [fd EXCEPT ![c] = f]
  /\ kernel' = IF fd[c] = NoFd THEN [kernel EXCEPT ![f] = "plain"] ELSE kernel
  /\ UNCHANGED <<alive, connected, running, port>>

\* connect() succeeds, which the system grants to an unconnected socket only.
Connect(c, f) ==
  /\ c \in Conns \cap alive
  /\ Creates(c, f)
  /\ kernel[f] \in {"free", "plain"}
  /\ fd' = [fd EXCEPT ![c] = f]
  /\ kernel' = [kernel EXCEPT ![f] = "stream"]
  /\ connected' = [connected EXCEPT ![c] = TRUE]
  /\ UNCHANGED <<alive, running, port>>

-----------------------------------------------------------------------------
(* Server.                                                                 *)

ConstructServer(s) ==
  /\ s \in Servers \ alive
  /\ alive' = alive \cup {s}
  /\ fd' = [fd EXCEPT ![s] = NoFd]
  /\ running' = [running EXCEPT ![s] = FALSE]
  /\ port' = [port EXCEPT ![s] = 0]
  /\ UNCHANGED <<connected, kernel>>

\* start() up to the end: create, bind, listen, getsockname.
Start(s, f, p) ==
  /\ s \in Servers \cap alive
  /\ ~running[s]
  /\ Creates(s, f)
  /\ kernel[f] \in {"free", "plain"}
  /\ \A t \in Servers : running[t] => port[t] # p
  /\ fd' = [fd EXCEPT ![s] = f]
  /\ kernel' = [kernel EXCEPT ![f] = "listening"]
  /\ port' = [port EXCEPT ![s] = p]
  /\ running' = [running EXCEPT ![s] = TRUE]
  /\ UNCHANGED <<alive, connected>>

\* Fault: a failed bind() or listen() returns without closing the socket.
StartFailsOpen(s) ==
  /\ s \in Servers \cap alive
  /\ ~running[s]
  /\ \E f \in Fds : /\ Creates(s, f)
                    /\ fd' = [fd EXCEPT ![s] = f]
                    /\ kernel' = [kernel EXCEPT ![f] = "plain"]
  /\ port' = [port EXCEPT ![s] = 0]
  /\ UNCHANGED <<alive, connected, running>>

\* start() that fails in any of its four system calls: what it opened is
\* closed before it returns.
StartFails(s) ==
  /\ s \in Servers \cap alive
  /\ ~running[s]
  /\ kernel' = Closed(fd[s])
  /\ fd' = [fd EXCEPT ![s] = NoFd]
  /\ port' = [port EXCEPT ![s] = 0]
  /\ UNCHANGED <<alive, connected, running>>

Stop(s) ==
  /\ s \in Servers \cap alive
  /\ kernel' = Closed(fd[s])
  /\ fd' = [fd EXCEPT ![s] = NoFd]
  /\ running' = [running EXCEPT ![s] = FALSE]
  /\ port' = [port EXCEPT ![s] = 0]
  /\ UNCHANGED <<alive, connected>>

DestroyServer(s) ==
  /\ s \in Servers \cap alive
  /\ alive' = alive \ {s}
  /\ kernel' = Closed(fd[s])
  /\ fd' = [fd EXCEPT ![s] = NoFd]
  /\ running' = [running EXCEPT ![s] = FALSE]
  /\ port' = [port EXCEPT ![s] = 0]
  /\ UNCHANGED connected

MoveConstructServer(s, other) ==
  /\ s \in Servers \ alive /\ other \in Servers \cap alive
  /\ alive' = alive \cup {s}
  /\ fd' = [fd EXCEPT ![s] = fd[other], ![other] = NoFd]
  /\ running' = [running EXCEPT ![s] = running[other], ![other] = FALSE]
  /\ port' = [port EXCEPT ![s] = port[other], ![other] = 0]
  /\ UNCHANGED <<connected, kernel>>

\* Fault: the moved-from server still believes that it runs.
MoveAssignKeepsFlag(s, other) ==
  /\ s \in Servers \cap alive /\ other \in Servers \cap alive
  /\ s # other
  /\ kernel' = Closed(fd[s])
  /\ fd' = [fd EXCEPT ![s] = fd[other], ![other] = NoFd]
  /\ running' = [running EXCEPT ![s] = running[other]]
  /\ port' = [port EXCEPT ![s] = port[other]]
  /\ UNCHANGED <<alive, connected>>

\* operator=(Server&&): first stop the target.
MoveAssignServer(s, other) ==
  /\ s \in Servers \cap alive /\ other \in Servers \cap alive
  /\ s # other
  /\ kernel' = Closed(fd[s])
  /\ fd' = [fd EXCEPT ![s] = fd[other], ![other] = NoFd]
  /\ running' = [running EXCEPT ![s] = running[other], ![other] = FALSE]
  /\ port' = [port EXCEPT ![s] = port[other], ![other] = 0]
  /\ UNCHANGED <<alive, connected>>

\* Fault: the old descriptor of the target is overwritten, not closed.
AcceptOverwrites(s, c, f) ==
  /\ s \in Servers \cap alive /\ c \in Conns \cap alive
  /\ running[s] /\ ~connected[c]
  /\ kernel[f] = "free"
  /\ kernel' = [kernel EXCEPT ![f] = "stream"]
  /\ fd' = [fd EXCEPT ![c] = f]
  /\ connected' = [connected EXCEPT ![c] = TRUE]
  /\ UNCHANGED <<alive, running, port>>

\* Server::accept into c: accept() answers with a new descriptor, then the
\* one that an earlier open() or connect() left in c is closed.
Accept(s, c, f) ==
  /\ s \in Servers \cap alive /\ c \in Conns \cap alive
  /\ running[s] /\ ~connected[c]
  /\ kernel[f] = "free"
  /\ kernel' = [Closed(fd[c]) EXCEPT ![f] = "stream"]
  /\ fd' = [fd EXCEPT ![c] = f]
  /\ connected' = [connected EXCEPT ![c] = TRUE]
  /\ UNCHANGED <<alive, running, port>>

-----------------------------------------------------------------------------
ConnectionOp(c) ==
  \/ ConstructConnection(c) \/ Disconnect(c) \/ DestroyConnection(c)
  \/ \E f \in Fds : Open(c, f) \/ Connect(c, f) \/ \E s \in Servers : Accept(s, c, f)

ConnectionMove(c, other) ==
  MoveConstructConnection(c, other) \/ MoveAssignConnection(c, other)

ServerOp(s) ==
  \/ ConstructServer(s) \/ StartFails(s) \/ Stop(s) \/ DestroyServer(s)
  \/ \E f \in Fds, p \in Ports : Start(s, f, p)

ServerMove(s, other) == MoveConstructServer(s, other) \/ MoveAssignServer(s, other)

Next ==
  \/ \E c \in Conns : ConnectionOp(c) \/ \E other \in Conns : ConnectionMove(c, other)
  \/ \E s \in Servers : ServerOp(s) \/ \E other \in Servers : ServerMove(s, other)

Spec == Init /\ [][Next]_vars

-----------------------------------------------------------------------------
(* Properties.                                                             *)

(* The type invariant; an object that is not alive holds nothing.          *)
TypeOK ==
  /\ alive \subseteq Objects
  /\ fd \in [Objects -> Fds \cup {NoFd}]
  /\ \A o \in Objects \ alive : fd[o] = NoFd
  /\ connected \in [Conns -> BOOLEAN]
  /\ running \in [Servers -> BOOLEAN]
  /\ port \in [Servers -> Ports \cup {0}]
  /\ kernel \in [Fds -> {"free", "plain", "stream", "listening"}]

(* No two objects hold the same descriptor, so none is closed twice and no *)
(* object closes what has become another object's descriptor.              *)
UniqueOwner ==
  \A o1, o2 \in Objects : fd[o1] = fd[o2] /\ fd[o1] # NoFd => o1 = o2

(* No leak and no dangling descriptor: the open descriptors are exactly    *)
(* the ones that live objects hold.                                        *)
NoLeak == \A f \in Fds : kernel[f] # "free" <=> \E o \in alive : fd[o] = f

(* connected_ tells the truth: a connection is established exactly when    *)
(* its descriptor is a connected stream.                                   *)
ConnectedIsStream ==
  \A c \in Conns : connected[c] <=> \E f \in Fds : fd[c] = f /\ kernel[f] = "stream"

(* A server is either stopped (no descriptor, no port) or running (a       *)
(* listening descriptor and its port): a failed start, a stop and a move   *)
(* leave nothing of the one in the other.                                  *)
RunningIsListening ==
  \A s \in Servers :
    /\ running[s] <=> fd[s] # NoFd
    /\ running[s] <=> port[s] # 0
    /\ running[s] => kernel[fd[s]] = "listening"

(* An operation on other objects never disturbs an established connection: *)
(* it keeps its flag and its descriptor stays the stream it was.           *)
OthersUndisturbed ==
  [][\A c \in Conns :
       /\ connected[c]
       /\ \/ \E s \in Servers : ServerOp(s) \/ \E other \in Servers : ServerMove(s, other)
          \/ \E d \in Conns \ {c} : ConnectionOp(d)
          \/ \E d, other \in Conns \ {c} : ConnectionMove(d, other)
       => connected'[c] /\ fd'[c] = fd[c] /\ kernel'[fd[c]] = "stream"]_vars
=============================================================================
