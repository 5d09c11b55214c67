-------------------------- MODULE ServerApp_proofs ---------------------------
(***************************************************************************)
(* Proofs about the server application, for any number of descriptors:     *)
(* what its objects hold at each place of main() (ObjectsInv), how it      *)
(* reacts to SIGINT (LateInv), and what it has received and answered       *)
(* (AnswerInv).  Each of the three is inductive by itself.                 *)
(***************************************************************************)
EXTENDS ServerApp, TLAPS

\* The places of main() inside the do-scope, once it has a Transport, and after.
WithTransport == {"header", "payload", "after_receive", "send_error", "after_error_send",
                  "after_dispatch", "send", "after_send", "enter"}
InScope == {"before_accept", "accept", "after_accept", "scope_end"} \cup WithTransport
Leaving == {"cleanup", "reset", "stop", "return", "ended"}
Places  == {"construct", "start", "declare_connection", "killed"} \cup InScope \cup Leaving

Held == {fd["connection"], fd["transport"]}

ObjectsInv ==
  /\ pc \in Places
  /\ alive \subseteq {"connection", "transport", "server"}
  /\ fd \in [{"connection", "transport", "server"} -> Fds \cup {NoFd}]
  /\ running \in [{"server"} -> BOOLEAN]
  /\ kernel \in [Fds -> {"free", "stream", "listening"}]
  /\ \A f \in Fds : /\ kernel[f] = "stream" <=> f \in Held
                    /\ kernel[f] = "listening" <=> f = fd["server"]
  /\ \A o \in {"connection", "transport", "server"} \ alive : fd[o] = NoFd
  /\ running["server"] <=> fd["server"] # NoFd
  /\ pc \in {"construct", "start", "return", "ended"} => ~running["server"]
  /\ "server" \in alive <=> pc \notin {"construct", "ended"}
  /\ pc # "killed" => ("connection" \in alive <=> pc \in InScope)
  /\ pc \in {"before_accept", "accept"} => fd["connection"] = NoFd
  /\ pc \in WithTransport \cup {"reset"} => "transport" \in alive
  /\ "transport" \in alive => /\ fd["connection"] = NoFd
                              /\ pc \in WithTransport \cup {"scope_end", "cleanup", "reset", "killed"}

\* After the request no call is begun: one that returns after it was under way.
LateInv ==
  /\ late \in 0..1
  /\ late = 1 =>
       /\ shutdownRequested
       /\ pc \in {"after_accept", "after_receive", "after_dispatch", "after_send",
                  "after_error_send", "scope_end", "killed"} \cup Leaving

\* What is received decides what is answered, and both decide the exit status.
AnswerInv ==
  /\ pc \in Places /\ packet \in Packets
  /\ pc \notin {"killed", "scope_end"} \cup Leaving => exitCode = 0
  /\ pc \notin {"killed", "scope_end", "after_send", "after_error_send", "enter"} \cup Leaving =>
       answered = NoAnswer
  /\ pc \in {"construct", "start", "declare_connection", "before_accept", "accept",
             "after_accept", "header", "payload"} => result = "none"
  /\ result \in {"none", "Success", "ProtocolError", "ConnectionClosed", "SocketError"}
  /\ result \in {"Success", "ProtocolError"} => arrived = 2 /\ packet # "huge"
  /\ result = "Success" => DecodeError(packet) = "none"
  /\ result = "ProtocolError" => protocolError = DecodeError(packet) /\ protocolError # "none"
  /\ result = "ConnectionClosed" =>
       /\ peer \in {"closed", "reset_after_close"}
       /\ arrived < 2 \/ packet = "huge"
  /\ pc \in {"after_dispatch", "send", "after_send", "enter"} =>
       result = "Success" /\ response = Dispatch(packet)
  /\ pc \in {"send_error", "after_error_send"} =>
       result = "ProtocolError" /\ response = ErrorAnswer(protocolError)
  /\ pc \in {"after_send", "enter", "after_error_send"} => answered = response
  /\ answered # NoAnswer =>
       \/ result = "Success" /\ answered = Dispatch(packet)
       \/ result = "ProtocolError" /\ answered = ErrorAnswer(protocolError)
  /\ pc \in {"scope_end"} \cup Leaving /\ ~shutdownRequested =>
       (exitCode = 0 <=> \/ result = "Success" /\ answered # NoAnswer
                         \/ result = "ConnectionClosed")

-----------------------------------------------------------------------------
(* ObjectsInv.                                                             *)

(* The process begins without an object.                                   *)
LEMMA InitObjects == Init => ObjectsInv
  BY AppAssumption DEF Init, Sock!Init, Sock!Objects, ObjectsInv, Places, InScope, Leaving,
                       WithTransport, Held

(* A step that leaves the objects alone and goes from one place of the     *)
(* scope to another, or out of it, keeps the invariant.                    *)
LEMMA ObjectsFrame ==
  ASSUME ObjectsInv, UNCHANGED sockVars,
         \/ pc' = pc
         \/ pc \in InScope \ {"scope_end"} /\ pc' \in {"scope_end", "killed"}
         \/ pc = "before_accept" /\ pc' = "accept"
         \/ pc = "accept" /\ pc' = "after_accept"
         \/ pc \in WithTransport /\ pc' \in WithTransport
  PROVE  ObjectsInv'
  BY DEF ObjectsInv, sockVars, Places, InScope, Leaving, WithTransport, Held

(* The steps of main() between the calls that create and destroy objects.  *)
LEMMA PlainObjects ==
  ASSUME ObjectsInv,
         \/ CheckBeforeAccept \/ LeaveAfterAccept \/ HeaderArrives \/ AllocationFails
         \/ Received \/ ReceiveFails \/ LeaveAfterReceive \/ AnswerProtocolError
         \/ DispatchRequest \/ CheckAfterDispatch \/ SendSucceeds \/ SendFails \/ SendKills
         \/ CheckAfterErrorSend \/ CheckAfterSend \/ AcceptFails \/ PressEnter
  PROVE  ObjectsInv'
<1>1. UNCHANGED sockVars
  BY DEF CheckBeforeAccept, LeaveAfterAccept, HeaderArrives, AllocationFails, Received,
         ReceiveFails, LeaveAfterReceive, AnswerProtocolError, DispatchRequest,
         CheckAfterDispatch, SendSucceeds, SendFails, SendKills, CheckAfterErrorSend,
         CheckAfterSend, AcceptFails, PressEnter
<1>2. \/ pc \in InScope \ {"scope_end"} /\ pc' \in {"scope_end", "killed"}
      \/ pc = "before_accept" /\ pc' = "accept"
      \/ pc = "accept" /\ pc' = "after_accept"
      \/ pc \in WithTransport /\ pc' \in WithTransport
  BY DEF CheckBeforeAccept, LeaveAfterAccept, HeaderArrives, AllocationFails, Received,
         ReceiveFails, LeaveAfterReceive, AnswerProtocolError, DispatchRequest,
         CheckAfterDispatch, SendSucceeds, SendFails, SendKills, CheckAfterErrorSend,
         CheckAfterSend, AcceptFails, PressEnter, Missing, Goto, Break, InScope, WithTransport
<1> QED
  BY <1>1, <1>2, ObjectsFrame

(* What is left after an object has closed its descriptor.                 *)
LEMMA CloseEffect ==
  ASSUME ObjectsInv, NEW o \in {"connection", "transport", "server"},
         kernel' = Sock!Closed(fd[o]), fd' = [fd EXCEPT ![o] = NoFd]
  PROVE  /\ fd' \in [{"connection", "transport", "server"} -> Fds \cup {NoFd}]
         /\ fd'[o] = NoFd
         /\ \A p \in {"connection", "transport", "server"} \ {o} : fd'[p] = fd[p]
         /\ kernel' \in [Fds -> {"free", "stream", "listening"}]
         /\ \A f \in Fds : /\ kernel'[f] = "stream" <=> f \in Held'
                           /\ kernel'[f] = "listening" <=> f = fd'["server"]
  BY AppAssumption DEF ObjectsInv, Held, Sock!Closed

(* The steps that create, move and destroy objects.                        *)
LEMMA SocketObjects ==
  ASSUME ObjectsInv,
         \/ ConstructServer \/ StartFails \/ StartSucceeds \/ DeclareConnection
         \/ AcceptClient \/ CreateTransport \/ PeerClosed \/ ScopeEnd \/ CleanupTransport
         \/ ResetTransport \/ StopServer \/ Return
  PROVE  ObjectsInv'
<1> USE AppAssumption
    DEF ObjectsInv, Places, InScope, Leaving, WithTransport, Held, Goto, sockVars
<1>1. CASE ConstructServer
  BY <1>1 DEF ConstructServer, Sock!ConstructServer
<1>2. CASE StartFails
  BY <1>2 DEF StartFails, Sock!StartFails, Sock!Closed
<1>3. CASE StartSucceeds
  BY <1>3 DEF StartSucceeds, Sock!Start, Sock!Creates
<1>4. CASE DeclareConnection
  BY <1>4 DEF DeclareConnection, Sock!ConstructConnection
<1>5. CASE AcceptClient
  BY <1>5 DEF AcceptClient, Sock!Accept, Sock!Closed
<1>6. CASE CreateTransport
  BY <1>6 DEF CreateTransport, Sock!MoveConstructConnection
<1>7. CASE PeerClosed
  <2>1. /\ pc \in {"header", "payload"} /\ pc' = "after_receive"
        /\ kernel' = Sock!Closed(fd["transport"]) /\ fd' = [fd EXCEPT !["transport"] = NoFd]
        /\ UNCHANGED <<alive, running>>
    BY <1>7 DEF PeerClosed, Missing, Sock!Disconnect
  <2> QED
    BY <2>1, CloseEffect
<1>8. CASE ScopeEnd
  BY <1>8 DEF ScopeEnd, Sock!DestroyConnection, Sock!Closed
<1>9. CASE CleanupTransport
  <2>1. CASE "transport" \in alive
    <3>1. /\ pc = "cleanup" /\ pc' = "reset"
          /\ kernel' = Sock!Closed(fd["transport"]) /\ fd' = [fd EXCEPT !["transport"] = NoFd]
          /\ UNCHANGED <<alive, running>>
      BY <1>9, <2>1 DEF CleanupTransport, Sock!Disconnect
    <3> QED
      BY <2>1, <3>1, CloseEffect
  <2>2. CASE "transport" \notin alive
    BY <1>9, <2>2 DEF CleanupTransport
  <2> QED
    BY <2>1, <2>2
<1>10. CASE ResetTransport
  BY <1>10 DEF ResetTransport, Sock!DestroyConnection, Sock!Closed
<1>11. CASE StopServer
  <2>1. CASE running["server"]
    <3>1. /\ pc = "stop" /\ pc' = "return"
          /\ kernel' = Sock!Closed(fd["server"]) /\ fd' = [fd EXCEPT !["server"] = NoFd]
          /\ running' = [running EXCEPT !["server"] = FALSE] /\ UNCHANGED alive
      BY <1>11, <2>1 DEF StopServer, Sock!Stop
    <3> QED
      BY <3>1, CloseEffect
  <2>2. CASE ~running["server"]
    BY <1>11, <2>2 DEF StopServer
  <2> QED
    BY <2>1, <2>2
<1>12. CASE Return
  BY <1>12 DEF Return, Sock!DestroyServer, Sock!Closed
<1> HIDE DEF ObjectsInv
<1> QED
  BY <1>1, <1>2, <1>3, <1>4, <1>5, <1>6, <1>7, <1>8, <1>9, <1>10, <1>11, <1>12

(* Every step keeps the objects and their descriptors in place.            *)
LEMMA NextObjects == ObjectsInv /\ [Next]_vars => ObjectsInv'
<1> SUFFICES ASSUME ObjectsInv, [Next]_vars PROVE ObjectsInv'
  OBVIOUS
<1>1. CASE UNCHANGED vars \/ Sigint \/ Peer
  BY <1>1, ObjectsFrame DEF vars, Sigint, Peer
<1> QED
  BY <1>1, PlainObjects, SocketObjects DEF Next, Proceed, Done

(* What the objects of main() hold, at all times.                          *)
THEOREM ObjectsInvHolds == Spec => []ObjectsInv
  BY InitObjects, NextObjects, PTL DEF Spec

(* Every way out of main() has closed every descriptor.                    *)
THEOREM EveryEndIsReleased == Spec => []EndsReleased
<1>1. ObjectsInv => EndsReleased
  BY AppAssumption
     DEF ObjectsInv, EndsReleased, Places, InScope, Leaving, WithTransport, Held
<1> QED
  BY <1>1, ObjectsInvHolds, PTL

(* The server is stopped only when no client connection is open.           *)
LEMMA StopIsLast ==
  ObjectsInv /\ [Next]_vars =>
    (running["server"] /\ ~running'["server"] => \A f \in Fds : kernel[f] # "stream")
<1> SUFFICES ASSUME ObjectsInv, [Next]_vars, running["server"], ~running'["server"]
             PROVE  \A f \in Fds : kernel[f] # "stream"
  OBVIOUS
<1>1. pc \in {"construct", "stop", "return"} \/ UNCHANGED running
  BY DEF Next, Proceed, vars, sockVars, Done, Goto,
         ConstructServer, StartFails, StartSucceeds, DeclareConnection, AcceptClient,
         CreateTransport, PeerClosed, ScopeEnd, CleanupTransport, ResetTransport, StopServer,
         Return, CheckBeforeAccept, LeaveAfterAccept, HeaderArrives, AllocationFails, Received,
         ReceiveFails, LeaveAfterReceive, AnswerProtocolError, DispatchRequest,
         CheckAfterDispatch, SendSucceeds, SendFails, SendKills, CheckAfterErrorSend,
         CheckAfterSend, AcceptFails, PressEnter, Sigint, Peer,
         Sock!ConstructServer, Sock!StartFails, Sock!Start, Sock!ConstructConnection,
         Sock!Accept, Sock!MoveConstructConnection, Sock!Disconnect, Sock!DestroyConnection
<1>2. pc = "stop"
  BY <1>1 DEF ObjectsInv
<1>3. fd["connection"] = NoFd /\ fd["transport"] = NoFd
  BY <1>2 DEF ObjectsInv, InScope, WithTransport
<1> QED
  BY <1>3, AppAssumption DEF ObjectsInv, Held

(* So the cleanup closes the client connection before the listening socket. *)
THEOREM CleanupKeepsOrder == Spec => CleanupOrder
<1>1. ObjectsInv /\ [Next]_vars =>
        [running["server"] /\ ~running'["server"] => \A f \in Fds : kernel[f] # "stream"]_vars
  BY StopIsLast
<1> QED
  BY <1>1, ObjectsInvHolds, PTL DEF Spec, CleanupOrder

-----------------------------------------------------------------------------
(* The application as a user of the classes of Sockets.                    *)

(* Each step of the application is one operation on one of its objects, or *)
(* none, under the conditions under which Sockets describes it.            *)
LEMMA NextIsSockets == [Next]_vars => [Sock!Next]_sockVars
<1> SUFFICES ASSUME [Next]_vars PROVE Sock!Next \/ UNCHANGED sockVars
  BY DEF Sock!vars, sockVars
<1>1. CASE ConstructServer \/ StartFails \/ Return
  BY <1>1 DEF ConstructServer, StartFails, Return, Sock!Next, Sock!ServerOp
<1>2. CASE StartSucceeds
  BY <1>2 DEF StartSucceeds, Sock!Next, Sock!ServerOp
<1>3. CASE DeclareConnection \/ PeerClosed \/ ScopeEnd \/ ResetTransport
  BY <1>3 DEF DeclareConnection, PeerClosed, ScopeEnd, ResetTransport, Sock!Next,
              Sock!ConnectionOp
<1>4. CASE AcceptClient
  BY <1>4 DEF AcceptClient, Sock!Next, Sock!ConnectionOp
<1>5. CASE CreateTransport
  BY <1>5 DEF CreateTransport, Sock!Next, Sock!ConnectionMove
<1>6. CASE CleanupTransport
  BY <1>6 DEF CleanupTransport, Sock!Next, Sock!ConnectionOp
<1>7. CASE StopServer
  BY <1>7 DEF StopServer, Sock!Next, Sock!ServerOp
<1>8. CASE \/ CheckBeforeAccept \/ LeaveAfterAccept \/ HeaderArrives \/ AllocationFails
           \/ Received \/ ReceiveFails \/ LeaveAfterReceive \/ AnswerProtocolError
           \/ DispatchRequest \/ CheckAfterDispatch \/ SendSucceeds \/ SendFails \/ SendKills
           \/ CheckAfterErrorSend \/ CheckAfterSend \/ AcceptFails \/ PressEnter \/ Sigint
           \/ Peer \/ Done \/ UNCHANGED vars
  BY <1>8 DEF CheckBeforeAccept, LeaveAfterAccept, HeaderArrives, AllocationFails, Received,
              ReceiveFails, LeaveAfterReceive, AnswerProtocolError, DispatchRequest,
              CheckAfterDispatch, SendSucceeds, SendFails, SendKills, CheckAfterErrorSend,
              CheckAfterSend, AcceptFails, PressEnter, Sigint, Peer, Done, vars
<1> QED
  BY <1>1, <1>2, <1>3, <1>4, <1>5, <1>6, <1>7, <1>8 DEF Next, Proceed

(* The application implements Sockets: it calls no member function outside *)
(* the conditions under which the ownership of descriptors is safe.        *)
THEOREM AppImplementsSockets == Spec => Sock!Spec
<1>1. Init => Sock!Init
  BY DEF Init
<1>2. [Next]_vars => [Sock!Next]_Sock!vars
  BY NextIsSockets DEF Sock!vars, sockVars
<1> QED
  BY <1>1, <1>2, PTL DEF Spec, Sock!Spec

-----------------------------------------------------------------------------
(* LateInv.                                                                *)

(* Every step keeps the calls after a shutdown request to one: the ones    *)
(* that return leave main() where it looks at the flag next, and a call is *)
(* begun only where the flag was not set.                                  *)
LEMMA NextLate == LateInv /\ [Next]_vars => LateInv'
<1> SUFFICES ASSUME LateInv, [Next]_vars PROVE LateInv'
  OBVIOUS
<1> USE DEF LateInv, Leaving, Goto, Break
<1>1. CASE UNCHANGED vars \/ Peer
  BY <1>1 DEF vars, Peer
<1>2. CASE Sigint
  BY <1>2 DEF Sigint, Over
<1>3. CASE ConstructServer \/ StartFails \/ StartSucceeds \/ DeclareConnection
           \/ CheckBeforeAccept \/ LeaveAfterAccept \/ CreateTransport \/ HeaderArrives
           \/ AllocationFails
  BY <1>3 DEF ConstructServer, StartFails, StartSucceeds, DeclareConnection,
              CheckBeforeAccept, LeaveAfterAccept, CreateTransport, HeaderArrives,
              AllocationFails
<1>4. CASE LeaveAfterReceive \/ AnswerProtocolError \/ CheckAfterDispatch \/ SendKills
           \/ CheckAfterErrorSend \/ CheckAfterSend
  BY <1>4 DEF LeaveAfterReceive, AnswerProtocolError, CheckAfterDispatch, SendKills,
              CheckAfterErrorSend, CheckAfterSend
<1>5. CASE ScopeEnd \/ CleanupTransport \/ ResetTransport \/ StopServer \/ Return
  BY <1>5 DEF ScopeEnd, CleanupTransport, ResetTransport, StopServer, Return
<1>6. CASE AcceptClient \/ AcceptFails \/ Received \/ PeerClosed \/ ReceiveFails
           \/ DispatchRequest \/ SendSucceeds \/ SendFails \/ PressEnter
  <2>1. /\ pc \notin {"scope_end", "killed"} \cup Leaving
        /\ pc \in {"after_accept", "after_receive", "after_dispatch", "after_send",
                   "after_error_send"} => ~shutdownRequested
        /\ pc' \in {"after_accept", "after_receive", "after_dispatch", "after_send",
                    "after_error_send", "scope_end"}
        /\ shutdownRequested' = shutdownRequested /\ CallReturns
    BY <1>6 DEF AcceptClient, AcceptFails, Received, PeerClosed, ReceiveFails, Missing,
                DispatchRequest, SendSucceeds, SendFails, PressEnter
  <2>2. late = 0
    BY <2>1
  <2> QED
    BY <2>1, <2>2 DEF CallReturns
<1> QED
  BY <1>1, <1>2, <1>3, <1>4, <1>5, <1>6 DEF Next, Proceed, Done

(* One call at most returns after a shutdown request.                      *)
THEOREM ShutdownIsBounded == Spec => []ShutdownBounded
<1>1. Init => LateInv
  BY DEF Init, LateInv
<1>2. LateInv => ShutdownBounded
  BY DEF LateInv, ShutdownBounded
<1> QED
  BY <1>1, <1>2, NextLate, PTL DEF Spec

-----------------------------------------------------------------------------
(* AnswerInv.                                                              *)

(* Nothing has been received or answered at first.                         *)
LEMMA InitAnswer == Init => AnswerInv
  BY DEF Init, AnswerInv, Places, InScope, Leaving, WithTransport

(* Until main() has received, and when it leaves without having done so.   *)
LEMMA BeforeReceive ==
  ASSUME AnswerInv,
         \/ ConstructServer \/ StartFails \/ StartSucceeds \/ DeclareConnection
         \/ CheckBeforeAccept \/ AcceptClient \/ AcceptFails \/ LeaveAfterAccept
         \/ CreateTransport \/ HeaderArrives \/ AllocationFails
  PROVE  AnswerInv'
<1> USE DEF AnswerInv, Places, InScope, Leaving, WithTransport, Goto, Break, peerVars
<1>1. CASE ConstructServer
  BY <1>1 DEF ConstructServer
<1>2. CASE StartFails
  BY <1>2 DEF StartFails
<1>3. CASE StartSucceeds
  BY <1>3 DEF StartSucceeds
<1>4. CASE DeclareConnection
  BY <1>4 DEF DeclareConnection
<1>5. CASE CheckBeforeAccept
  BY <1>5 DEF CheckBeforeAccept
<1>6. CASE AcceptClient
  BY <1>6 DEF AcceptClient
<1>7. CASE AcceptFails
  BY <1>7 DEF AcceptFails
<1>8. CASE LeaveAfterAccept
  BY <1>8 DEF LeaveAfterAccept
<1>9. CASE CreateTransport
  BY <1>9 DEF CreateTransport
<1>10. CASE HeaderArrives
  BY <1>10 DEF HeaderArrives
<1>11. CASE AllocationFails
  BY <1>11 DEF AllocationFails
<1> HIDE DEF AnswerInv
<1> QED
  BY <1>1, <1>2, <1>3, <1>4, <1>5, <1>6, <1>7, <1>8, <1>9, <1>10, <1>11

(* What receive() returns and what main() makes of it.                     *)
LEMMA ReceiveAndAnswer ==
  ASSUME AnswerInv,
         \/ Received \/ PeerClosed \/ ReceiveFails \/ LeaveAfterReceive
         \/ AnswerProtocolError \/ DispatchRequest \/ CheckAfterDispatch
  PROVE  AnswerInv'
<1> USE DEF AnswerInv, Places, InScope, Leaving, WithTransport, Goto, Break, peerVars
<1>1. CASE Received
  BY <1>1 DEF Received, DecodeError, Packets
<1>2. CASE PeerClosed
  BY <1>2 DEF PeerClosed, Missing
<1>3. CASE ReceiveFails
  BY <1>3 DEF ReceiveFails, Missing
<1>4. CASE LeaveAfterReceive
  BY <1>4 DEF LeaveAfterReceive
<1>5. CASE AnswerProtocolError
  BY <1>5 DEF AnswerProtocolError
<1>6. CASE DispatchRequest
  BY <1>6 DEF DispatchRequest
<1>7. CASE CheckAfterDispatch
  BY <1>7 DEF CheckAfterDispatch
<1> HIDE DEF AnswerInv
<1> QED
  BY <1>1, <1>2, <1>3, <1>4, <1>5, <1>6, <1>7

(* The dispatcher's answers are no protocol errors, and neither is none.   *)
LEMMA AnswersDiffer ==
  /\ \A p : Dispatch(p) # NoAnswer
  /\ \A p, e : Dispatch(p) # ErrorAnswer(e)
  /\ \A e : ErrorAnswer(e) # NoAnswer
  BY DEF Dispatch, ErrorAnswer, NoAnswer, Answer

(* Sending the answer and waiting for ENTER.                               *)
LEMMA SendAnswer ==
  ASSUME AnswerInv,
         \/ SendSucceeds \/ SendFails \/ SendKills \/ CheckAfterErrorSend \/ CheckAfterSend
         \/ PressEnter
  PROVE  AnswerInv'
<1> USE AnswersDiffer
    DEF AnswerInv, Places, InScope, Leaving, WithTransport, Goto, Break, peerVars
<1>1. CASE SendSucceeds
  BY <1>1 DEF SendSucceeds
<1>2. CASE SendFails
  BY <1>2 DEF SendFails
<1>3. CASE SendKills
  BY <1>3 DEF SendKills
<1>4. CASE CheckAfterErrorSend
  BY <1>4 DEF CheckAfterErrorSend
<1>5. CASE CheckAfterSend
  BY <1>5 DEF CheckAfterSend
<1>6. CASE PressEnter
  BY <1>6 DEF PressEnter
<1> HIDE DEF AnswerInv
<1> QED
  BY <1>1, <1>2, <1>3, <1>4, <1>5, <1>6

(* The cleanup, the peer and the signal.                                   *)
LEMMA RestAnswer ==
  ASSUME AnswerInv,
         \/ ScopeEnd \/ CleanupTransport \/ ResetTransport \/ StopServer \/ Return
         \/ Sigint \/ Peer \/ UNCHANGED vars
  PROVE  AnswerInv'
<1> USE DEF AnswerInv, Places, InScope, Leaving, WithTransport, Goto, peerVars
<1>1. CASE ScopeEnd
  BY <1>1 DEF ScopeEnd
<1>2. CASE CleanupTransport
  BY <1>2 DEF CleanupTransport
<1>3. CASE ResetTransport
  BY <1>3 DEF ResetTransport
<1>4. CASE StopServer
  BY <1>4 DEF StopServer
<1>5. CASE Return
  BY <1>5 DEF Return
<1>6. CASE Sigint
  BY <1>6 DEF Sigint
<1>7. CASE Peer
  BY <1>7 DEF Peer, PeerConnects, PeerSends, PeerCloses, PeerResets
<1>8. CASE UNCHANGED vars
  BY <1>8 DEF vars
<1> HIDE DEF AnswerInv
<1> QED
  BY <1>1, <1>2, <1>3, <1>4, <1>5, <1>6, <1>7, <1>8

(* What has been received and answered, at all times.                      *)
THEOREM AnswerInvHolds == Spec => []AnswerInv
<1>1. AnswerInv /\ [Next]_vars => AnswerInv'
  BY BeforeReceive, ReceiveAndAnswer, SendAnswer, RestAnswer DEF Next, Proceed, Done
<1> QED
  BY <1>1, InitAnswer, PTL DEF Spec

(* The exit status says whether the client was served or left in order.    *)
THEOREM ExitStatusIsTruthful == Spec => []ExitStatusTruthful
<1>1. AnswerInv => ExitStatusTruthful
  <2> SUFFICES ASSUME AnswerInv, pc = "ended", ~shutdownRequested
               PROVE  exitCode = 0 <=> \/ answered \in {Dispatch(p) : p \in Packets}
                                       \/ /\ result = "ConnectionClosed" /\ peer # "reset"
                                          /\ arrived < 2 \/ packet = "huge"
    BY DEF ExitStatusTruthful
  <2>1. exitCode = 0 <=> \/ result = "Success" /\ answered # NoAnswer
                         \/ result = "ConnectionClosed"
    BY DEF AnswerInv, Leaving
  <2>2. answered \in {Dispatch(p) : p \in Packets} <=> result = "Success" /\ answered # NoAnswer
    BY AnswersDiffer DEF AnswerInv
  <2>3. result = "ConnectionClosed" => peer # "reset" /\ (arrived < 2 \/ packet = "huge")
    BY DEF AnswerInv
  <2> QED
    BY <2>1, <2>2, <2>3
<1> QED
  BY <1>1, AnswerInvHolds, PTL

(* What is sent answers the packet that was received.                      *)
THEOREM AnswersMatch == Spec => []AnswerMatchesPacket
<1>1. AnswerInv => AnswerMatchesPacket
  BY DEF AnswerInv, AnswerMatchesPacket, DecodeError
<1> QED
  BY <1>1, AnswerInvHolds, PTL
=============================================================================
