------------------------------ MODULE ServerApp -------------------------------
(***************************************************************************)
(* The PacketForge server application, apps/server_main.cpp, as one        *)
(* process: it starts a Server, accepts one client, receives one packet,   *)
(* answers it, waits for ENTER and cleans up.  SIGINT can arrive between   *)
(* any two of its steps; the program looks at the flag it sets at six      *)
(* places.  The peer is any TCP client: it sends its packet in pieces and  *)
(* may close or reset the connection at any time.                          *)
(*                                                                         *)
(* The objects of main() and their descriptors are those of Sockets: the   *)
(* Server `server', the local Connection `connection' and the Connection   *)
(* inside the heap-allocated Transport.  std::signal() installs handlers   *)
(* that restart system calls (glibc), so SIGINT does not end a blocked     *)
(* accept(), recv() or cin.get().                                          *)
(***************************************************************************)
EXTENDS Naturals, FiniteSets

CONSTANTS
  Fds,           \* the descriptors the process may have open
  NoFd,          \* the value -1 of socket_
  SERVER_PORT    \* the port the application asks for

ASSUME AppAssumption == NoFd \notin Fds /\ SERVER_PORT \in Nat \ {0}

VARIABLES
  alive, fd, connected, running, port, kernel,  \* see Sockets
  pc,                 \* where main() is
  shutdownRequested,  \* the flag the signal handler sets
  acceptOk,           \* acceptError.ok()
  result,             \* the error code of packetIO.receive()
  protocolError,      \* what receive() reports through its out parameter
  response,           \* the packet to send, or NoAnswer
  exitCode,           \* the exit status main() is going to return
  peer,               \* the peer's side of the connection
  packet,             \* which packet the peer sends
  arrived,            \* how much of it: 0 not the header, 1 the header, 2 all
  answered,           \* history: the response that send() has accepted
  late                \* history: calls that returned after the shutdown request

sockVars == <<alive, fd, connected, running, port, kernel>>
peerVars == <<peer, packet, arrived>>
vars == <<sockVars, pc, shutdownRequested, acceptOk, result, protocolError,
          response, exitCode, peerVars, answered, late>>

Sock == INSTANCE Sockets WITH
          Conns <- {"connection", "transport"}, Servers <- {"server"},
          Ports <- {SERVER_PORT}

-----------------------------------------------------------------------------
(* Packets and answers.                                                    *)

\* A valid HelloRequest, another opcode, a wrong magic number, a wrong version,
\* and a header whose payload length is more than the process can allocate.
Packets == {"hello", "other_opcode", "bad_magic", "bad_version", "huge"}

ProtocolErrors == {"InvalidPacket", "UnsupportedVersion", "UnsupportedOpcode"}

Answer(opcode, error, echo) == [opcode |-> opcode, error |-> error, echo |-> echo]

NoAnswer == Answer("none", "none", FALSE)

\* What dispatch() builds: the response carries the request's sequence id.
Dispatch(p) == IF p = "hello" THEN Answer("HelloResponse", "none", TRUE)
               ELSE Answer("ErrorResponse", "UnsupportedOpcode", TRUE)

\* What server_main builds for a packet that could not be decoded.
ErrorAnswer(error) == Answer("ErrorResponse", error, FALSE)

Answers == {NoAnswer} \cup {Dispatch(p) : p \in Packets}
                      \cup {ErrorAnswer(e) : e \in ProtocolErrors}

\* Fault: the out parameter keeps the value receive() gave it at first.
DecodeErrorLost(p) == IF p \in {"bad_magic", "bad_version"} THEN "InvalidPacket" ELSE "none"

\* Decoder::decode() on a packet whose length is right.
DecodeError(p) == CASE p = "bad_magic"   -> "InvalidPacket"
                    [] p = "bad_version" -> "UnsupportedVersion"
                    [] OTHER             -> "none"

-----------------------------------------------------------------------------
Init ==
  /\ Sock!Init
  /\ pc = "construct"
  /\ shutdownRequested = FALSE
  /\ acceptOk = FALSE
  /\ result = "none"
  /\ protocolError = "InvalidPacket"
  /\ response = NoAnswer
  /\ exitCode = 0
  /\ peer = "away" /\ packet \in Packets /\ arrived = 0
  /\ answered = NoAnswer
  /\ late = 0

Over == pc \in {"ended", "killed"}

Goto(from, to) == pc = from /\ pc' = to

\* The program leaves the do-scope with this exit status.
Break(status) == exitCode' = status /\ pc' = "scope_end"

\* A call of the program (accept, receive, dispatch, send, cin.get) returns: late
\* counts the ones that do so after the shutdown request, and stops at 2.
CallReturns == late' = IF shutdownRequested /\ late < 2 THEN late + 1 ELSE late

\* The signal handler runs.
Sigint ==
  /\ ~Over /\ ~shutdownRequested
  /\ shutdownRequested' = TRUE
  /\ UNCHANGED <<sockVars, pc, acceptOk, result, protocolError, response, exitCode,
                 peerVars, answered, late>>

-----------------------------------------------------------------------------
(* Start and accept.                                                       *)

ConstructServer ==
  /\ Goto("construct", "start")
  /\ Sock!ConstructServer("server")
  /\ UNCHANGED <<shutdownRequested, acceptOk, result, protocolError, response, exitCode,
                 peerVars, answered, late>>

StartFails ==
  /\ Goto("start", "cleanup")
  /\ Sock!StartFails("server")
  /\ exitCode' = 1
  /\ UNCHANGED <<shutdownRequested, acceptOk, result, protocolError, response,
                 peerVars, answered, late>>

StartSucceeds ==
  /\ Goto("start", "declare_connection")
  /\ \E f \in Fds : Sock!Start("server", f, SERVER_PORT)
  /\ UNCHANGED <<shutdownRequested, acceptOk, result, protocolError, response, exitCode,
                 peerVars, answered, late>>

DeclareConnection ==
  /\ Goto("declare_connection", "before_accept")
  /\ Sock!ConstructConnection("connection")
  /\ UNCHANGED <<shutdownRequested, acceptOk, result, protocolError, response, exitCode,
                 peerVars, answered, late>>

CheckBeforeAccept ==
  /\ IF shutdownRequested
     THEN pc = "before_accept" /\ Break(0)
     ELSE Goto("before_accept", "accept") /\ exitCode' = exitCode
  /\ UNCHANGED <<sockVars, shutdownRequested, acceptOk, result, protocolError, response,
                 peerVars, answered, late>>

\* accept() blocks until a peer has connected, or fails in the system.
AcceptClient ==
  /\ Goto("accept", "after_accept")
  /\ peer # "away"
  /\ \E f \in Fds : Sock!Accept("server", "connection", f)
  /\ acceptOk' = TRUE
  /\ CallReturns
  /\ UNCHANGED <<shutdownRequested, result, protocolError, response, exitCode,
                 peerVars, answered>>

AcceptFails ==
  /\ Goto("accept", "after_accept")
  /\ acceptOk' = FALSE
  /\ CallReturns
  /\ UNCHANGED <<sockVars, shutdownRequested, result, protocolError, response, exitCode,
                 peerVars, answered>>

\* Fault: a failed accept() is tried again.
RetryAccept ==
  /\ IF acceptOk THEN pc = "after_accept" /\ shutdownRequested /\ Break(0)
     ELSE Goto("after_accept", "accept") /\ exitCode' = exitCode
  /\ UNCHANGED <<sockVars, shutdownRequested, acceptOk, result, protocolError, response,
                 peerVars, answered, late>>

\* The shutdown check comes first and hides a failed accept().
LeaveAfterAccept ==
  /\ pc = "after_accept"
  /\ shutdownRequested \/ ~acceptOk
  /\ Break(IF shutdownRequested THEN 0 ELSE 1)
  /\ UNCHANGED <<sockVars, shutdownRequested, acceptOk, result, protocolError, response,
                 peerVars, answered, late>>

\* Transport takes the connection over, and receive() begins.
CreateTransport ==
  /\ ~shutdownRequested /\ acceptOk
  /\ Goto("after_accept", "header")
  /\ Sock!MoveConstructConnection("transport", "connection")
  /\ protocolError' = "InvalidPacket"
  /\ UNCHANGED <<shutdownRequested, acceptOk, result, response, exitCode,
                 peerVars, answered, late>>

-----------------------------------------------------------------------------
(* PacketIO::receive: the header, then as many bytes as it announces.      *)

\* recv() blocks until the bytes are there; what arrived before the peer closed
\* or reset the connection can still be read.
HeaderArrives ==
  /\ arrived >= 1
  /\ Goto("header", "payload")
  /\ UNCHANGED <<sockVars, shutdownRequested, acceptOk, result, protocolError, response,
                 exitCode, peerVars, answered, late>>

\* resize() to the announced length throws, outside every try block.
AllocationFails ==
  /\ arrived >= 1 /\ packet = "huge"
  /\ Goto("header", "killed")
  /\ UNCHANGED <<sockVars, shutdownRequested, acceptOk, result, protocolError, response,
                 exitCode, peerVars, answered, late>>

\* The packet is complete and is decoded.
Received ==
  /\ arrived = 2 /\ packet # "huge"
  /\ Goto("payload", "after_receive")
  /\ result' = IF DecodeError(packet) = "none" THEN "Success" ELSE "ProtocolError"
  /\ protocolError' = IF DecodeError(packet) = "none" THEN protocolError
                      ELSE DecodeError(packet)
  /\ CallReturns
  /\ UNCHANGED <<sockVars, shutdownRequested, acceptOk, response, exitCode,
                 peerVars, answered>>

\* The bytes that recv() waits for are not there and will not come.
Missing == \/ pc = "header" /\ arrived = 0
           \/ pc = "payload" /\ (arrived < 2 \/ packet = "huge")

\* recv() returns 0, also when a reset followed the peer's FIN: the transport
\* disconnects itself.
PeerClosed ==
  /\ Missing /\ peer \in {"closed", "reset_after_close"}
  /\ pc' = "after_receive"
  /\ Sock!Disconnect("transport")
  /\ result' = "ConnectionClosed"
  /\ CallReturns
  /\ UNCHANGED <<shutdownRequested, acceptOk, protocolError, response, exitCode,
                 peerVars, answered>>

\* recv() returns -1: the connection stays as it is.
ReceiveFails ==
  /\ Missing /\ peer = "reset"
  /\ pc' = "after_receive"
  /\ result' = "SocketError"
  /\ CallReturns
  /\ UNCHANGED <<sockVars, shutdownRequested, acceptOk, protocolError, response, exitCode,
                 peerVars, answered>>

-----------------------------------------------------------------------------
(* After receive: leave, dispatch, or answer with the protocol error.      *)

\* Fault: a failed recv() counts as the end of the connection.
LeaveAfterReceiveMild ==
  /\ pc = "after_receive"
  /\ shutdownRequested \/ result \in {"ConnectionClosed", "SocketError"}
  /\ Break(0)
  /\ UNCHANGED <<sockVars, shutdownRequested, acceptOk, result, protocolError, response,
                 peerVars, answered, late>>

LeaveAfterReceive ==
  /\ pc = "after_receive"
  /\ shutdownRequested \/ result \in {"ConnectionClosed", "SocketError"}
  /\ Break(IF shutdownRequested \/ result = "ConnectionClosed" THEN 0 ELSE 1)
  /\ UNCHANGED <<sockVars, shutdownRequested, acceptOk, result, protocolError, response,
                 peerVars, answered, late>>

AnswerProtocolError ==
  /\ ~shutdownRequested /\ result = "ProtocolError"
  /\ Goto("after_receive", "send_error")
  /\ response' = ErrorAnswer(protocolError)
  /\ UNCHANGED <<sockVars, shutdownRequested, acceptOk, result, protocolError, exitCode,
                 peerVars, answered, late>>

\* Fault: the packet is dispatched without a look at the flag.
DispatchAnyway ==
  /\ result = "Success"
  /\ Goto("after_receive", "after_dispatch")
  /\ response' = Dispatch(packet)
  /\ CallReturns
  /\ UNCHANGED <<sockVars, shutdownRequested, acceptOk, result, protocolError, exitCode,
                 peerVars, answered>>

\* dispatch() always succeeds: the branch for its failure is never taken.
DispatchRequest ==
  /\ ~shutdownRequested /\ result = "Success"
  /\ Goto("after_receive", "after_dispatch")
  /\ response' = Dispatch(packet)
  /\ CallReturns
  /\ UNCHANGED <<sockVars, shutdownRequested, acceptOk, result, protocolError, exitCode,
                 peerVars, answered>>

CheckAfterDispatch ==
  /\ IF shutdownRequested
     THEN pc = "after_dispatch" /\ Break(0)
     ELSE Goto("after_dispatch", "send") /\ exitCode' = exitCode
  /\ UNCHANGED <<sockVars, shutdownRequested, acceptOk, result, protocolError, response,
                 peerVars, answered, late>>

-----------------------------------------------------------------------------
(* Send.                                                                   *)

\* send() hands the response to a connection that is not known to be reset.
SendSucceeds ==
  /\ peer \notin {"reset", "reset_after_close"}
  /\ Goto("send", "after_send") \/ Goto("send_error", "after_error_send")
  /\ answered' = response
  /\ CallReturns
  /\ UNCHANGED <<sockVars, shutdownRequested, acceptOk, result, protocolError, response,
                 exitCode, peerVars>>

\* The reset answers send() with ECONNRESET: SocketError, before any check.
SendFails ==
  /\ pc \in {"send", "send_error"}
  /\ peer = "reset"
  /\ Break(1)
  /\ CallReturns
  /\ UNCHANGED <<sockVars, shutdownRequested, acceptOk, result, protocolError, response,
                 peerVars, answered>>

\* A reset after the peer's FIN is EPIPE; without MSG_NOSIGNAL, and with the
\* default disposition of SIGPIPE, the system ends the process.
SendKills ==
  /\ pc \in {"send", "send_error"}
  /\ peer = "reset_after_close"
  /\ pc' = "killed"
  /\ UNCHANGED <<sockVars, shutdownRequested, acceptOk, result, protocolError, response,
                 exitCode, peerVars, answered, late>>

\* A protocol error that was reported still ends with status 1.
CheckAfterErrorSend ==
  /\ pc = "after_error_send"
  /\ Break(IF shutdownRequested THEN 0 ELSE 1)
  /\ UNCHANGED <<sockVars, shutdownRequested, acceptOk, result, protocolError, response,
                 peerVars, answered, late>>

CheckAfterSend ==
  /\ IF shutdownRequested
     THEN pc = "after_send" /\ Break(0)
     ELSE Goto("after_send", "enter") /\ exitCode' = exitCode
  /\ UNCHANGED <<sockVars, shutdownRequested, acceptOk, result, protocolError, response,
                 peerVars, answered, late>>

\* cin.get() returns when the user presses ENTER.
PressEnter ==
  /\ pc = "enter"
  /\ Break(0)
  /\ CallReturns
  /\ UNCHANGED <<sockVars, shutdownRequested, acceptOk, result, protocolError, response,
                 peerVars, answered>>

-----------------------------------------------------------------------------
(* The end of the scope and the centralized cleanup.                       *)

\* Fault: the local connection is not destroyed with the scope.
ScopeEndLeaks ==
  /\ Goto("scope_end", "cleanup")
  /\ UNCHANGED <<sockVars, shutdownRequested, acceptOk, result, protocolError, response,
                 exitCode, peerVars, answered, late>>

\* The local connection, moved from or not, is destroyed.
ScopeEnd ==
  /\ Goto("scope_end", "cleanup")
  /\ Sock!DestroyConnection("connection")
  /\ UNCHANGED <<shutdownRequested, acceptOk, result, protocolError, response, exitCode,
                 peerVars, answered, late>>

\* Fault: cleanup goes straight to server.stop().
CleanupServerFirst ==
  /\ Goto("cleanup", "stop")
  /\ UNCHANGED <<sockVars, shutdownRequested, acceptOk, result, protocolError, response,
                 exitCode, peerVars, answered, late>>

CleanupTransport ==
  /\ IF "transport" \in alive
     THEN Goto("cleanup", "reset") /\ Sock!Disconnect("transport")
     ELSE Goto("cleanup", "stop") /\ UNCHANGED sockVars
  /\ UNCHANGED <<shutdownRequested, acceptOk, result, protocolError, response, exitCode,
                 peerVars, answered, late>>

ResetTransport ==
  /\ Goto("reset", "stop")
  /\ Sock!DestroyConnection("transport")
  /\ UNCHANGED <<shutdownRequested, acceptOk, result, protocolError, response, exitCode,
                 peerVars, answered, late>>

StopServer ==
  /\ Goto("stop", "return")
  /\ IF running["server"] THEN Sock!Stop("server") ELSE UNCHANGED sockVars
  /\ UNCHANGED <<shutdownRequested, acceptOk, result, protocolError, response, exitCode,
                 peerVars, answered, late>>

\* main() returns and its Server is destroyed.
Return ==
  /\ Goto("return", "ended")
  /\ Sock!DestroyServer("server")
  /\ UNCHANGED <<shutdownRequested, acceptOk, result, protocolError, response, exitCode,
                 peerVars, answered, late>>

-----------------------------------------------------------------------------
(* The peer.                                                               *)

Listening == running["server"] /\ pc # "killed"

PeerConnects ==
  /\ peer = "away" /\ Listening
  /\ peer' = "open"
  /\ UNCHANGED <<packet, arrived>>

PeerSends ==
  /\ peer = "open"
  /\ \E n \in 1..2 : n > arrived /\ arrived' = n
  /\ UNCHANGED <<peer, packet>>

PeerCloses ==
  /\ peer = "open"
  /\ peer' = "closed"
  /\ UNCHANGED <<packet, arrived>>

\* A reset, of an open connection or after the peer has closed its side.
PeerResets ==
  /\ peer \in {"open", "closed"}
  /\ peer' = IF peer = "open" THEN "reset" ELSE "reset_after_close"
  /\ UNCHANGED <<packet, arrived>>

Peer ==
  /\ ~Over
  /\ PeerConnects \/ PeerSends \/ PeerCloses \/ PeerResets
  /\ UNCHANGED <<sockVars, pc, shutdownRequested, acceptOk, result, protocolError, response,
                 exitCode, answered, late>>

-----------------------------------------------------------------------------
\* The steps main() takes without waiting for the peer, the user or the system.
Proceed ==
  \/ ConstructServer \/ StartFails \/ StartSucceeds \/ DeclareConnection
  \/ CheckBeforeAccept \/ AcceptClient \/ LeaveAfterAccept \/ CreateTransport
  \/ HeaderArrives \/ AllocationFails \/ Received \/ PeerClosed \/ ReceiveFails
  \/ LeaveAfterReceive \/ AnswerProtocolError \/ DispatchRequest \/ CheckAfterDispatch
  \/ SendSucceeds \/ SendFails \/ SendKills \/ CheckAfterErrorSend \/ CheckAfterSend
  \/ ScopeEnd \/ CleanupTransport \/ ResetTransport \/ StopServer \/ Return

Done == Over /\ UNCHANGED vars

Next == Proceed \/ AcceptFails \/ PressEnter \/ Sigint \/ Peer \/ Done

Spec == Init /\ [][Next]_vars

\* The process is scheduled, and a system call whose condition holds returns.
FairSpec == Spec /\ WF_vars(Proceed)

-----------------------------------------------------------------------------
(* Properties.                                                             *)

(* Every way out of main() leaves no descriptor open and no object alive:  *)
(* the client connection is closed whether the local variable or the       *)
(* Transport owned it when the program left.                               *)
EndsReleased == pc = "ended" => alive = {} /\ \A f \in Fds : kernel[f] = "free"

(* The cleanup order: the listening socket is closed only when no client   *)
(* connection is open any more.                                            *)
CleanupOrder ==
  [][running["server"] /\ ~running'["server"] => \A f \in Fds : kernel[f] # "stream"]_vars

(* A shutdown request is bounded: at most one call of the program (accept, *)
(* receive, dispatch, send, cin.get) returns after it, the one that was    *)
(* under way, or whose check had been passed, when the signal arrived.     *)
ShutdownBounded == late <= 1

(* Exit status 0 without a shutdown request means that the client got the  *)
(* answer of the dispatcher or closed, in order, before it had sent a      *)
(* whole packet; status 1 never hides one of the two.                      *)
ExitStatusTruthful ==
  pc = "ended" /\ ~shutdownRequested =>
    (exitCode = 0 <=> \/ answered \in {Dispatch(p) : p \in Packets}
                      \/ /\ result = "ConnectionClosed" /\ peer # "reset"
                         /\ arrived < 2 \/ packet = "huge")

(* What is sent answers what was received: nothing before the packet is    *)
(* complete, the dispatcher's answer with the request's sequence id to a   *)
(* packet that decodes, its own error code to one that does not.           *)
AnswerMatchesPacket ==
  answered # NoAnswer =>
    /\ arrived = 2
    /\ answered = CASE packet = "bad_magic"   -> ErrorAnswer("InvalidPacket")
                    [] packet = "bad_version" -> ErrorAnswer("UnsupportedVersion")
                    [] OTHER                  -> Dispatch(packet)

(* A requested shutdown ends the process, unless it stays for ever in one  *)
(* of its blocking calls, which the contract allows (section 12).          *)
ShutdownEnds ==
  <>shutdownRequested =>
    <>Over \/ \E b \in {"accept", "header", "payload", "enter"} : <>[](pc = b)

(* Every exit path reaches the centralized cleanup (server_main.cpp 53-55, *)
(* 462-463; shutdown contract, section 13): the process is never over with *)
(* its server still running.                                               *)
EveryExitCleansUp == Over => alive = {} /\ ~running["server"]

(* A protocol error that was reported to the peer is handled: the process  *)
(* exits with status 0 (GAP-003 Error Handling, sections 4, 10 and 11).    *)
ReportedProtocolErrorExitsZero ==
  pc = "ended" /\ answered \in {ErrorAnswer(e) : e \in ProtocolErrors} => exitCode = 0
=============================================================================
