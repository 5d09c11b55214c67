---------------------------- MODULE Sockets_proofs ----------------------------
(***************************************************************************)
(* Proofs about Sockets for any number of connections, servers and         *)
(* descriptors.                                                            *)
(*                                                                         *)
(* The safety properties of the module hold together or not at all: that a *)
(* new descriptor has no second owner needs NoLeak, that closing one       *)
(* object's descriptor leaves the others' alone needs UniqueOwner, and the *)
(* two flags follow from both.  Their conjunction is inductive.            *)
(***************************************************************************)
EXTENDS Sockets, TLAPS

Ownership ==
  TypeOK /\ UniqueOwner /\ NoLeak /\ ConnectedIsStream /\ RunningIsListening

(* The initial state satisfies the invariant: no object, no descriptor.    *)
LEMMA InitOwnership == Init => Ownership
  BY ObjectAssumption, PortAssumption
     DEF Init, Ownership, TypeOK, UniqueOwner, NoLeak, ConnectedIsStream,
         RunningIsListening, Objects

(* What an object holds is an open descriptor, and an object that holds    *)
(* one is alive, so a free descriptor is held by nobody.                   *)
LEMMA HeldIsOpen ==
  ASSUME Ownership, NEW o \in Objects, fd[o] # NoFd
  PROVE  fd[o] \in Fds /\ kernel[fd[o]] # "free" /\ o \in alive
  BY DEF Ownership, TypeOK, NoLeak

(* Operations of one connection keep the invariant.                        *)
LEMMA ConnectionOpOwnership ==
  ASSUME Ownership, NEW c \in Conns, ConnectionOp(c) PROVE Ownership'
<1> USE ObjectAssumption, PortAssumption
    DEF Ownership, TypeOK, UniqueOwner, NoLeak, ConnectedIsStream,
        RunningIsListening, Objects
<1>1. CASE ConstructConnection(c)
  BY <1>1 DEF ConstructConnection
<1>2. CASE Disconnect(c)
  BY <1>2, HeldIsOpen DEF Disconnect, Closed
<1>3. CASE DestroyConnection(c)
  BY <1>3, HeldIsOpen DEF DestroyConnection, Closed
<1>4. ASSUME NEW f \in Fds, Open(c, f) PROVE Ownership'
  BY <1>4, HeldIsOpen DEF Open, Creates
<1>5. ASSUME NEW f \in Fds, Connect(c, f) PROVE Ownership'
  BY <1>5, HeldIsOpen DEF Connect, Creates
<1>6. ASSUME NEW f \in Fds, NEW s \in Servers, Accept(s, c, f) PROVE Ownership'
  <2>1. \A g \in Fds : kernel'[g] = IF g = f THEN "stream"
                                     ELSE IF g = fd[c] THEN "free" ELSE kernel[g]
    BY <1>6 DEF Accept, Closed
  <2>2. \A o \in Objects : fd'[o] = IF o = c THEN f ELSE fd[o]
    BY <1>6 DEF Accept
  <2>3. \A o \in Objects : fd[o] # f
    BY <1>6, HeldIsOpen DEF Accept
  <2>4. TypeOK'
    BY <1>6 DEF Accept, Closed
  <2>5. UniqueOwner' /\ NoLeak' /\ ConnectedIsStream' /\ RunningIsListening'
    BY <1>6, <2>1, <2>2, <2>3, HeldIsOpen DEF Accept
  <2> QED
    BY <2>4, <2>5
<1> HIDE DEF Ownership
<1> QED
  BY <1>1, <1>2, <1>3, <1>4, <1>5, <1>6 DEF ConnectionOp

(* Moves between connections keep the invariant.                           *)
LEMMA ConnectionMoveOwnership ==
  ASSUME Ownership, NEW c \in Conns, NEW other \in Conns, ConnectionMove(c, other)
  PROVE  Ownership'
<1> USE ObjectAssumption, PortAssumption
    DEF Ownership, TypeOK, UniqueOwner, NoLeak, ConnectedIsStream,
        RunningIsListening, Objects
<1>1. CASE MoveConstructConnection(c, other)
  BY <1>1, HeldIsOpen DEF MoveConstructConnection
<1>2. CASE MoveAssignConnection(c, other)
  BY <1>2, HeldIsOpen DEF MoveAssignConnection, Closed
<1> HIDE DEF Ownership
<1> QED
  BY <1>1, <1>2 DEF ConnectionMove

(* Operations of one server keep the invariant.                            *)
LEMMA ServerOpOwnership ==
  ASSUME Ownership, NEW s \in Servers, ServerOp(s) PROVE Ownership'
<1> USE ObjectAssumption, PortAssumption
    DEF Ownership, TypeOK, UniqueOwner, NoLeak, ConnectedIsStream,
        RunningIsListening, Objects
<1>1. CASE ConstructServer(s)
  BY <1>1 DEF ConstructServer
<1>2. CASE StartFails(s)
  BY <1>2, HeldIsOpen DEF StartFails, Closed
<1>3. CASE Stop(s)
  BY <1>3, HeldIsOpen DEF Stop, Closed
<1>4. CASE DestroyServer(s)
  BY <1>4, HeldIsOpen DEF DestroyServer, Closed
<1>5. ASSUME NEW f \in Fds, NEW p \in Ports, Start(s, f, p) PROVE Ownership'
  BY <1>5, HeldIsOpen DEF Start, Creates
<1> HIDE DEF Ownership
<1> QED
  BY <1>1, <1>2, <1>3, <1>4, <1>5 DEF ServerOp

(* Moves between servers keep the invariant.                               *)
LEMMA ServerMoveOwnership ==
  ASSUME Ownership, NEW s \in Servers, NEW other \in Servers, ServerMove(s, other)
  PROVE  Ownership'
<1> USE ObjectAssumption, PortAssumption
    DEF Ownership, TypeOK, UniqueOwner, NoLeak, ConnectedIsStream,
        RunningIsListening, Objects
<1>1. CASE MoveConstructServer(s, other)
  BY <1>1, HeldIsOpen DEF MoveConstructServer
<1>2. CASE MoveAssignServer(s, other)
  BY <1>2, HeldIsOpen DEF MoveAssignServer, Closed
<1> HIDE DEF Ownership
<1> QED
  BY <1>1, <1>2 DEF ServerMove

(* Every step keeps the invariant.                                         *)
LEMMA NextOwnership == Ownership /\ [Next]_vars => Ownership'
<1>1. CASE UNCHANGED vars
  BY <1>1 DEF vars, Ownership, TypeOK, UniqueOwner, NoLeak, ConnectedIsStream,
              RunningIsListening
<1> QED
  BY <1>1, ConnectionOpOwnership, ConnectionMoveOwnership, ServerOpOwnership,
     ServerMoveOwnership DEF Next

(* The invariant of ownership, after any sequence of operations.           *)
THEOREM OwnershipHolds == Spec => []Ownership
  BY InitOwnership, NextOwnership, PTL DEF Spec

(* An established connection holds a stream and nobody else does.          *)
LEMMA OwnStream ==
  ASSUME Ownership, NEW c \in Conns, connected[c]
  PROVE  /\ fd[c] \in Fds /\ kernel[fd[c]] = "stream" /\ c \in alive
         /\ \A o \in Objects \ {c} : fd[o] # fd[c]
  BY ObjectAssumption, HeldIsOpen
     DEF Ownership, TypeOK, UniqueOwner, ConnectedIsStream, Objects

(* No operation on other objects disturbs an established connection.       *)
THEOREM OthersAreUndisturbed == Spec => OthersUndisturbed
<1> DEFINE Kept(c) == connected'[c] /\ fd'[c] = fd[c] /\ kernel'[fd[c]] = "stream"
<1>1. ASSUME Ownership, NEW c \in Conns, connected[c], NEW s \in Servers, ServerOp(s)
      PROVE  Kept(c)
  BY <1>1, OwnStream, ObjectAssumption
     DEF Ownership, TypeOK, Objects, ServerOp, ConstructServer, StartFails, Stop,
         DestroyServer, Start, Creates, Closed
<1>2. ASSUME Ownership, NEW c \in Conns, connected[c],
             NEW s \in Servers, NEW other \in Servers, ServerMove(s, other)
      PROVE  Kept(c)
  <2>1. CASE MoveConstructServer(s, other)
    BY <1>2, <2>1, OwnStream, ObjectAssumption
       DEF Ownership, TypeOK, Objects, MoveConstructServer
  <2>2. CASE MoveAssignServer(s, other)
    BY <1>2, <2>2, OwnStream, ObjectAssumption
       DEF Ownership, TypeOK, Objects, MoveAssignServer, Closed
  <2> QED
    BY <1>2, <2>1, <2>2 DEF ServerMove
<1>3. ASSUME Ownership, NEW c \in Conns, connected[c],
             NEW d \in Conns \ {c}, ConnectionOp(d)
      PROVE  Kept(c)
  <2>1. CASE \E s \in Servers, f \in Fds : Accept(s, d, f)
    BY <1>3, <2>1, OwnStream, ObjectAssumption DEF Ownership, TypeOK, Objects, Accept, Closed
  <2>2. CASE ~\E s \in Servers, f \in Fds : Accept(s, d, f)
    BY <1>3, <2>2, OwnStream, ObjectAssumption
       DEF Ownership, TypeOK, Objects, ConnectionOp, ConstructConnection, Disconnect,
           DestroyConnection, Open, Connect, Creates, Closed
  <2> QED
    BY <2>1, <2>2
<1>4. ASSUME Ownership, NEW c \in Conns, connected[c],
             NEW d \in Conns \ {c}, NEW other \in Conns \ {c}, ConnectionMove(d, other)
      PROVE  Kept(c)
  <2>1. CASE MoveConstructConnection(d, other)
    BY <1>4, <2>1, OwnStream, ObjectAssumption
       DEF Ownership, TypeOK, Objects, MoveConstructConnection
  <2>2. CASE MoveAssignConnection(d, other)
    BY <1>4, <2>2, OwnStream, ObjectAssumption
       DEF Ownership, TypeOK, Objects, MoveAssignConnection, Closed
  <2> QED
    BY <1>4, <2>1, <2>2 DEF ConnectionMove
<1> DEFINE Undisturbed ==
      \A c \in Conns :
        /\ connected[c]
        /\ \/ \E s \in Servers : ServerOp(s) \/ \E other \in Servers : ServerMove(s, other)
           \/ \E d \in Conns \ {c} : ConnectionOp(d)
           \/ \E d, other \in Conns \ {c} : ConnectionMove(d, other)
        => Kept(c)
<1>5. Ownership => [Undisturbed]_vars
  BY <1>1, <1>2, <1>3, <1>4
<1> QED
  BY OwnershipHolds, <1>5, PTL DEF OthersUndisturbed

(* No descriptor has two owners, so none is closed twice.                  *)
THEOREM OwnersAreUnique == Spec => []UniqueOwner
<1>1. Ownership => UniqueOwner
  BY DEF Ownership
<1> QED
  BY OwnershipHolds, <1>1, PTL

(* The open descriptors are the ones that live objects hold.               *)
THEOREM NothingLeaks == Spec => []NoLeak
<1>1. Ownership => NoLeak
  BY DEF Ownership
<1> QED
  BY OwnershipHolds, <1>1, PTL

(* connected_ is set exactly when the descriptor is a connected stream.    *)
THEOREM ConnectedIsTrue == Spec => []ConnectedIsStream
<1>1. Ownership => ConnectedIsStream
  BY DEF Ownership
<1> QED
  BY OwnershipHolds, <1>1, PTL

(* A server is stopped with nothing, or runs with a listening descriptor   *)
(* and a port.                                                             *)
THEOREM RunningIsTrue == Spec => []RunningIsListening
<1>1. Ownership => RunningIsListening
  BY DEF Ownership
<1> QED
  BY OwnershipHolds, <1>1, PTL
=============================================================================
