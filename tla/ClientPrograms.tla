---------------------------- MODULE ClientPrograms ----------------------------
(***************************************************************************)
(* The PacketForge programs under apps/ that talk to the server            *)
(* application: the client, the shutdown and remote-close clients and the  *)
(* fault-injection clients of the tests.  Each is the peer of one run of   *)
(* the server of ServerApp.                                                *)
(*                                                                         *)
(* A program is the script of the blocking or state-changing calls of its  *)
(* main(), in order; a call that fails ends it with status 1.  Its process *)
(* may be killed, and the server may receive SIGINT, at any time.          *)
(***************************************************************************)
EXTENDS ServerApp, Sequences

VARIABLES
  program,     \* which of the programs runs
  step,        \* the call of its script it is at
  cpc,         \* "running", "give_up", "exited" or "killed"
  cconnected,  \* isConnected(), or that the raw socket is open
  csent,       \* how much of the packet send() has handed over: 0, 1, 2
  cresult,     \* the ErrorCode of the last send or receive that returned
  cgot,        \* the response, or NoAnswer
  cexit        \* the exit status

serverVars == <<sockVars, pc, shutdownRequested, acceptOk, result, protocolError,
                response, exitCode, answered, late>>
clientVars == <<program, step, cpc, cconnected, csent, cresult, cgot, cexit>>

-----------------------------------------------------------------------------
(* The programs.  "call" is a send() or receive() on a connection that was *)
(* closed, "end" a receive() that waits for the server to close, "linger"  *)
(* makes the close that follows a reset.                                   *)

client_main == <<"connect", "send", "receive", "enter", "disconnect", "call", "call",
                 "disconnect">>
integration_success == <<"connect", "send", "receive", "check", "disconnect">>
remote_close == <<"connect", "send", "receive", "end", "call", "call", "disconnect">>
shutdown_client == <<"connect", "enter", "disconnect">>
dispatch_failure == <<"connect", "send", "half_close", "receive", "check", "disconnect">>
protocol_error == <<"connect", "send", "receive", "check", "disconnect">>
receive_failure == <<"connect", "linger", "disconnect">>
response_send_failure == <<"connect", "send", "linger", "disconnect">>
gap035 == <<"connect", "send", "enter", "linger", "disconnect">>

Script == [client_main           |-> client_main,
           integration_success   |-> integration_success,
           remote_close          |-> remote_close,
           shutdown_client       |-> shutdown_client,
           dispatch_failure      |-> dispatch_failure,
           protocol_error        |-> protocol_error,
           receive_failure       |-> receive_failure,
           response_send_failure |-> response_send_failure,
           gap035                |-> gap035]

Programs == DOMAIN Script

\* The programs on plain sockets, whose send() and receive() close nothing.
Raw == {"dispatch_failure", "protocol_error", "response_send_failure"}

\* The programs whose request has a payload.
WithPayload == {"client_main", "integration_success", "response_send_failure", "gap035"}

\* What each of them sends, and what the ones that check the answer expect.
Request == [p \in Programs |-> CASE p = "dispatch_failure" -> "other_opcode"
                                 [] p = "protocol_error"   -> "bad_version"
                                 [] OTHER                  -> "hello"]

Expected == [integration_success |-> Answer("HelloResponse", "none", TRUE),
             dispatch_failure    |-> Answer("ErrorResponse", "UnsupportedOpcode", TRUE),
             protocol_error      |-> Answer("ErrorResponse", "UnsupportedVersion", FALSE)]

-----------------------------------------------------------------------------
ProgramsInit ==
  /\ Init
  /\ program \in Programs
  /\ packet = Request[program]
  /\ step = 1 /\ cpc = "running"
  /\ cconnected = FALSE
  /\ csent = 0
  /\ cresult = "none"
  /\ cgot = NoAnswer
  /\ cexit = 0

At(call) == cpc = "running" /\ step <= Len(Script[program]) /\ Script[program][step] = call

\* The call is done: the program goes on to the next one.
Proceeds == step' = step + 1 /\ cpc' = cpc

Fails == step' = step /\ cpc' = "give_up"

\* The server's end of the connection is closed, or was never taken out of the
\* backlog of a listening socket that is closed now.
Down == \/ Over
        \/ IF acceptOk THEN \A f \in Fds : kernel[f] # "stream" ELSE ~Listening

\* SO_LINGER was set to close with a reset.
Lingers == \E i \in 1..(step - 1) : Script[program][i] = "linger"

\* The client's descriptor is closed; with SO_LINGER, or with the answer unread,
\* that is a reset.
HangUp ==
  LET resets == Lingers \/ (answered # NoAnswer /\ cgot = NoAnswer)
  IN  peer' = IF ~cconnected \/ Over THEN peer
              ELSE IF resets THEN IF peer = "open" THEN "reset" ELSE "reset_after_close"
              ELSE "closed"

-----------------------------------------------------------------------------
(* Connect.                                                                *)

ClientConnects ==
  /\ At("connect") /\ PeerConnects
  /\ Proceeds
  /\ cconnected' = TRUE
  /\ UNCHANGED <<program, csent, cresult, cgot, cexit>>

\* main() returns at once.
ConnectFails ==
  /\ At("connect")
  /\ cpc' = "exited" /\ cexit' = 1
  /\ UNCHANGED <<peerVars, program, step, cconnected, csent, cresult, cgot>>

-----------------------------------------------------------------------------
(* Send.                                                                   *)

\* What is there for the server after this much was sent; what is sent to a
\* connection that is down vanishes.
Arrives ==
  arrived' \in IF Down THEN {arrived} ELSE IF csent' = 2 THEN {2}
               ELSE IF program \in WithPayload THEN {0, 1} ELSE {0}

\* Fault: a short send() is taken for the whole packet.
SendsOnce ==
  /\ At("send")
  /\ csent' \in {n \in 1..2 : n > csent}
  /\ Proceeds
  /\ cresult' = "Success"
  /\ Arrives
  /\ UNCHANGED <<peer, packet, program, cconnected, cgot, cexit>>

\* One send(2) of the loop.
ClientSends ==
  /\ At("send")
  /\ csent' \in {n \in 1..2 : n > csent}
  /\ IF csent' = 2 THEN Proceeds /\ cresult' = "Success"
     ELSE /\ step' = step /\ cresult' = cresult
          /\ cpc' = IF program = "response_send_failure" THEN "give_up" ELSE cpc
  /\ Arrives
  /\ UNCHANGED <<peer, packet, program, cconnected, cgot, cexit>>

\* send(2) reports a reset.
ClientSendFails ==
  /\ At("send") /\ Down
  /\ Fails
  /\ cresult' = "SocketError"
  /\ UNCHANGED <<peerVars, program, cconnected, csent, cgot, cexit>>

\* The second piece meets the reset that answered the first: SIGPIPE.
ClientSendKills ==
  /\ At("send") /\ Down /\ csent = 1
  /\ cpc' = "killed"
  /\ HangUp
  /\ UNCHANGED <<packet, arrived, program, step, cconnected, csent, cresult, cgot, cexit>>

\* shutdown(SHUT_WR): the server reads the end of the connection after the packet.
HalfClose ==
  /\ At("half_close")
  /\ Proceeds
  /\ peer' = IF Over THEN peer ELSE "closed"
  /\ UNCHANGED <<packet, arrived, program, cconnected, csent, cresult, cgot, cexit>>

-----------------------------------------------------------------------------
(* Receive.                                                                *)

ClientReceives ==
  /\ At("receive") /\ answered # NoAnswer
  /\ Proceeds
  /\ cgot' = answered
  /\ cresult' = "Success"
  /\ UNCHANGED <<peerVars, program, cconnected, csent, cexit>>

\* Fault: the end of the connection counts as an empty answer.
EmptyAnswer ==
  /\ At("receive") /\ Down /\ answered = NoAnswer
  /\ Proceeds
  /\ cresult' = "ConnectionClosed" /\ cconnected' = FALSE
  /\ HangUp
  /\ UNCHANGED <<packet, arrived, program, csent, cgot, cexit>>

\* recv(2) returns 0: a Transport disconnects.
ServerClosed ==
  /\ At("receive") /\ Down /\ answered = NoAnswer
  /\ Fails
  /\ cresult' = "ConnectionClosed"
  /\ IF program \in Raw THEN UNCHANGED <<cconnected, peer>>
     ELSE cconnected' = FALSE /\ HangUp
  /\ UNCHANGED <<packet, arrived, program, csent, cgot, cexit>>

\* recv(2) reports a reset: the server did not read all that was sent.
ClientReceiveFails ==
  /\ At("receive") /\ Down /\ answered = NoAnswer
  /\ Fails
  /\ cresult' = "SocketError"
  /\ UNCHANGED <<peerVars, program, cconnected, csent, cgot, cexit>>

\* Fault: recv() of 0 is reported and the Connection stays as it is.
ConnectionEndsUnnoticed ==
  /\ At("end") /\ Down
  /\ Proceeds
  /\ cresult' = "ConnectionClosed"
  /\ UNCHANGED <<peerVars, program, cconnected, csent, cgot, cexit>>

\* The receive() that waits for the server to close: recv(2) returns 0, since the
\* server has read all that was sent, and the Transport disconnects.
ConnectionEnds ==
  /\ At("end") /\ Down
  /\ Proceeds
  /\ cresult' = "ConnectionClosed" /\ cconnected' = FALSE
  /\ HangUp
  /\ UNCHANGED <<packet, arrived, program, csent, cgot, cexit>>

\* The program compares the answer with the one it expects.
Check ==
  /\ At("check")
  /\ IF cgot = Expected[program] THEN Proceeds ELSE Fails
  /\ UNCHANGED <<peerVars, program, cconnected, csent, cresult, cgot, cexit>>

-----------------------------------------------------------------------------
(* The ways out.                                                           *)

SetLinger ==
  /\ At("linger")
  /\ Proceeds
  /\ UNCHANGED <<peerVars, program, cconnected, csent, cresult, cgot, cexit>>

\* setsockopt() fails.
LingerFails ==
  /\ At("linger")
  /\ Fails
  /\ UNCHANGED <<peerVars, program, cconnected, csent, cresult, cgot, cexit>>

\* Fault: the client starts again with a new connection.
Reconnect ==
  /\ cpc = "give_up" /\ cpc' = "running" /\ step' = 1
  /\ cconnected' = FALSE /\ csent' = 0
  /\ peer' = "away"
  /\ UNCHANGED <<packet, arrived, program, cresult, cgot, cexit>>

\* After a failed call: disconnect, or leave it to the destructor, and return 1.
GiveUp ==
  /\ cpc = "give_up" /\ cpc' = "exited"
  /\ cconnected' = FALSE /\ cexit' = 1
  /\ HangUp
  /\ UNCHANGED <<packet, arrived, program, step, csent, cresult, cgot>>

ClientEnter ==
  /\ At("enter")
  /\ Proceeds
  /\ UNCHANGED <<peerVars, program, cconnected, csent, cresult, cgot, cexit>>

\* A second disconnect() has nothing to close.
ClientDisconnects ==
  /\ At("disconnect")
  /\ Proceeds
  /\ cconnected' = FALSE
  /\ HangUp
  /\ UNCHANGED <<packet, arrived, program, csent, cresult, cgot, cexit>>

\* Client::send or receive on the closed connection; the system would answer
\* EBADF if it were reached.
CallAfterDisconnect ==
  /\ At("call")
  /\ Proceeds
  /\ cresult' = IF cconnected THEN "SocketError" ELSE "ConnectionFailed"
  /\ UNCHANGED <<peerVars, program, cconnected, csent, cgot, cexit>>

\* The end of main(): return 0.
ClientReturns ==
  /\ cpc = "running" /\ step = Len(Script[program]) + 1
  /\ cpc' = "exited"
  /\ UNCHANGED <<peerVars, program, step, cconnected, csent, cresult, cgot, cexit>>

ClientOver == cpc \in {"exited", "killed"}

\* The user ends the client's process.
ClientKilled ==
  /\ ~ClientOver
  /\ cpc' = "killed"
  /\ HangUp
  /\ UNCHANGED <<packet, arrived, program, step, cconnected, csent, cresult, cgot, cexit>>

-----------------------------------------------------------------------------
\* The steps of the client that wait for nobody but the server.
ClientProceeds ==
  /\ \/ ClientConnects \/ ClientSends \/ ClientSendFails \/ ClientSendKills \/ HalfClose
     \/ ClientReceives \/ ServerClosed \/ ClientReceiveFails \/ ConnectionEnds \/ Check
     \/ SetLinger \/ GiveUp \/ ClientDisconnects \/ CallAfterDisconnect \/ ClientReturns
  /\ UNCHANGED serverVars

ClientStep ==
  \/ ClientProceeds
  \/ (ConnectFails \/ LingerFails \/ ClientEnter \/ ClientKilled) /\ UNCHANGED serverVars

ServerStep ==
  /\ Proceed \/ AcceptFails \/ PressEnter \/ Sigint
  /\ UNCHANGED clientVars

BothOver == Over /\ ClientOver /\ UNCHANGED <<vars, clientVars>>

ProgramsNext == ServerStep \/ ClientStep \/ BothOver

\* Both processes are scheduled; ENTER, SIGINT and failures are not owed.
ProgramsSpec ==
  /\ ProgramsInit /\ [][ProgramsNext]_<<vars, clientVars>>
  /\ WF_<<vars, clientVars>>(Proceed /\ UNCHANGED clientVars)
  /\ WF_<<vars, clientVars>>(ClientProceeds)

-----------------------------------------------------------------------------
(* Properties.                                                             *)

Receives(p) == \E i \in DOMAIN Script[p] : Script[p][i] = "receive"

(* What the tests conclude from exit statuses.  When both programs have    *)
(* ended by themselves, without a shutdown request: a program that waits   *)
(* for an answer succeeds exactly if the server answered, with the answer  *)
(* it checks for, and otherwise the server failed too; a server that       *)
(* accepted a program that succeeds ends as that test means it to: with 1  *)
(* after a protocol error, or a reset before the answer, and with 0 in all *)
(* other cases.                                                            *)
ExitStatusesAgree ==
  pc = "ended" /\ cpc = "exited" /\ ~shutdownRequested =>
    /\ Receives(program) => /\ cexit = 0 <=> answered # NoAnswer
                            /\ cexit = 1 => exitCode = 1
    /\ cexit = 0 /\ acceptOk =>
         (exitCode = 1 <=> \/ program = "protocol_error"
                           \/ /\ program \in {"receive_failure", "response_send_failure", "gap035"}
                              /\ answered = NoAnswer)

(* A connection that was closed, by disconnect() or because the server     *)
(* closed first, is not reached by later calls: each of them returns       *)
(* ConnectionFailed without a system call, and the program lives on to     *)
(* return 0 (client_main.cpp 371-415, remote_close_client_main.cpp).       *)
ClosedIsRefused ==
  cpc = "running" /\ step > 1 /\ Script[program][step - 1] = "call" =>
    cresult = "ConnectionFailed"

(* The two never wait for each other: neither stays for ever in a          *)
(* receive().  Only a user who does not press ENTER can keep the server    *)
(* waiting for a client's packet.                                          *)
NobodyWaitsForEver ==
  /\ At("receive") ~> ~At("receive")
  /\ (pc \in {"header", "payload"}) ~> (pc \notin {"header", "payload"} \/ At("enter"))

(* What the real clients do to the server is what a peer of ServerApp may  *)
(* do: everything shown of ServerApp holds here.                           *)
ClientIsAPeer == Spec
=============================================================================
