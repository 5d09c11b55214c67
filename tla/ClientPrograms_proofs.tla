------------------------ MODULE ClientPrograms_proofs -------------------------
(***************************************************************************)
(* Proofs about the client programs with the server application: what they *)
(* do to the server is what a peer of ServerApp may do (PeerInv), so that  *)
(* every theorem about ServerApp holds with them; their calls on a         *)
(* connection that was closed are refused (RefusedInv); and the exit       *)
(* statuses of the two programs agree (ServerInv, OutcomeInv).             *)
(***************************************************************************)
EXTENDS ClientPrograms, ServerApp_proofs

allVars == <<vars, clientVars>>

(* Where the calls are in the scripts that the proofs ask for.             *)
LEMMA ScriptsAre ==
  ASSUME NEW p \in Programs, NEW i \in Nat, i \in 1..Len(Script[p])
  PROVE  /\ Script[p][i] = "connect" => i = 1
         /\ i = 1 => Script[p][i] = "connect"
         /\ Script[p][i] = "send" => i = 2
         /\ p = "dispatch_failure" /\ i = 2 => Script[p][i] = "send"
         /\ Script[p][i] = "half_close" => p = "dispatch_failure" /\ i = 3
         /\ Script[p][i] = "call" => \/ p = "client_main" /\ i \in {6, 7}
                                     \/ p = "remote_close" /\ i \in {5, 6}
         /\ p = "client_main" /\ i = 5 => Script[p][i] = "disconnect"
         /\ p = "remote_close" /\ i = 4 => Script[p][i] = "end"
<1> DEFINE Holds(q) == \A j \in 1..Len(Script[q]) :
         /\ Script[q][j] = "connect" => j = 1
         /\ j = 1 => Script[q][j] = "connect"
         /\ Script[q][j] = "send" => j = 2
         /\ q = "dispatch_failure" /\ j = 2 => Script[q][j] = "send"
         /\ Script[q][j] = "half_close" => q = "dispatch_failure" /\ j = 3
         /\ Script[q][j] = "call" => \/ q = "client_main" /\ j \in {6, 7}
                                     \/ q = "remote_close" /\ j \in {5, 6}
         /\ q = "client_main" /\ j = 5 => Script[q][j] = "disconnect"
         /\ q = "remote_close" /\ j = 4 => Script[q][j] = "end"
<1>1. Holds("client_main")
  <2>1. Script["client_main"] = client_main
    BY DEF Script
  <2> QED
    BY <2>1 DEF client_main
<1>2. Holds("integration_success")
  <2>1. Script["integration_success"] = integration_success
    BY DEF Script
  <2> QED
    BY <2>1 DEF integration_success
<1>3. Holds("remote_close")
  <2>1. Script["remote_close"] = remote_close
    BY DEF Script
  <2> QED
    BY <2>1 DEF remote_close
<1>4. Holds("shutdown_client")
  <2>1. Script["shutdown_client"] = shutdown_client
    BY DEF Script
  <2> QED
    BY <2>1 DEF shutdown_client
<1>5. Holds("dispatch_failure")
  <2>1. Script["dispatch_failure"] = dispatch_failure
    BY DEF Script
  <2> QED
    BY <2>1 DEF dispatch_failure
<1>6. Holds("protocol_error")
  <2>1. Script["protocol_error"] = protocol_error
    BY DEF Script
  <2> QED
    BY <2>1 DEF protocol_error
<1>7. Holds("receive_failure")
  <2>1. Script["receive_failure"] = receive_failure
    BY DEF Script
  <2> QED
    BY <2>1 DEF receive_failure
<1>8. Holds("response_send_failure")
  <2>1. Script["response_send_failure"] = response_send_failure
    BY DEF Script
  <2> QED
    BY <2>1 DEF response_send_failure
<1>9. Holds("gap035")
  <2>1. Script["gap035"] = gap035
    BY DEF Script
  <2> QED
    BY <2>1 DEF gap035
<1>10. Programs = {"client_main", "integration_success", "remote_close", "shutdown_client",
                   "dispatch_failure", "protocol_error", "receive_failure",
                   "response_send_failure", "gap035"}
  BY DEF Programs, Script
<1> HIDE DEF Holds
<1>11. Holds(p)
  BY <1>1, <1>2, <1>3, <1>4, <1>5, <1>6, <1>7, <1>8, <1>9, <1>10
<1> QED
  BY <1>11 DEF Holds

-----------------------------------------------------------------------------
(* The peer.                                                               *)

\* What is known of the peer's side of the connection while the client runs.
PeerInv ==
  /\ program \in Programs /\ step \in 1..(Len(Script[program]) + 1)
  /\ cpc \in {"running", "give_up", "exited", "killed"}
  /\ cconnected \in BOOLEAN
  /\ csent \in 0..2 /\ arrived \in 0..2
  /\ csent = 0 => arrived = 0
  /\ csent = 1 => arrived <= 1
  /\ cpc = "running" /\ step = 2 => peer = "open"
  /\ cpc = "running" /\ program = "dispatch_failure" /\ step = 3 => peer = "open"
  /\ cconnected /\ cpc \in {"running", "give_up"} => peer \in {"open", "closed"}

(* A client that has not begun has no peer yet.                            *)
LEMMA InitPeer == ProgramsInit => PeerInv
<1> SUFFICES ASSUME ProgramsInit PROVE PeerInv
  OBVIOUS
<1>1. \A p \in Programs : Len(Script[p]) \in Nat
  BY DEF Programs, Script, client_main, integration_success, remote_close, shutdown_client,
         dispatch_failure, protocol_error, receive_failure, response_send_failure, gap035
<1>2. program \in Programs /\ step = 1 /\ Len(Script[program]) \in Nat
  BY <1>1 DEF ProgramsInit
<1>3. step \in 1..(Len(Script[program]) + 1)
  BY <1>2
<1>4. /\ cpc = "running" /\ cconnected \in BOOLEAN /\ ~cconnected /\ csent = 0 /\ arrived = 0
  BY DEF ProgramsInit, Init
<1>5. csent \in 0..2 /\ arrived \in 0..2 /\ arrived <= 1 /\ step # 2 /\ step # 3
  BY <1>2, <1>4
<1> QED
  BY <1>2, <1>3, <1>4, <1>5 DEF PeerInv

(* The client's call is one of its script.                                 *)
LEMMA AtIs ==
  ASSUME PeerInv, NEW call, At(call)
  PROVE  /\ program \in Programs /\ step \in 1..Len(Script[program]) /\ step \in Nat
         /\ Script[program][step] = call /\ cpc = "running"
         /\ step + 1 \in 1..(Len(Script[program]) + 1) /\ step + 1 # 1
<1>1. Len(Script[program]) \in Nat
  BY DEF PeerInv, Programs, Script, client_main, integration_success, remote_close, shutdown_client,
         dispatch_failure, protocol_error, receive_failure, response_send_failure, gap035
<1> QED
  BY <1>1 DEF PeerInv, At

(* What a hang-up does to a connected peer is what a peer may do.          *)
LEMMA HangUpIsPeer ==
  ASSUME PeerInv, HangUp, UNCHANGED <<packet, arrived, serverVars>>,
         cpc \in {"running", "give_up"}
  PROVE  Peer \/ UNCHANGED vars
<1>1. CASE ~cconnected \/ Over
  BY <1>1 DEF HangUp, serverVars, vars, peerVars
<1>2. CASE cconnected /\ ~Over
  <2>1. peer \in {"open", "closed"}
    BY <1>2 DEF PeerInv
  <2>2. peer' = "closed" \/ peer' = IF peer = "open" THEN "reset" ELSE "reset_after_close"
    BY <1>2 DEF HangUp
  <2> QED
    BY <1>2, <2>1, <2>2 DEF Peer, PeerCloses, PeerResets, serverVars, vars, peerVars, sockVars
<1> QED
  BY <1>1, <1>2

(* So is everything else that a program does.                              *)
LEMMA ClientStepIsPeer ==
  ASSUME PeerInv, ObjectsInv, ClientStep
  PROVE  Peer \/ UNCHANGED vars
<1>1. UNCHANGED serverVars
  BY DEF ClientStep, ClientProceeds
<1>2. ASSUME UNCHANGED peerVars PROVE UNCHANGED vars
  BY <1>1, <1>2 DEF serverVars, vars, peerVars, sockVars
<1>3. CASE ClientConnects
  <2>1. ~Over
    BY <1>3 DEF ClientConnects, PeerConnects, Listening, ObjectsInv, Over
  <2> QED
    BY <1>1, <1>3, <2>1 DEF ClientConnects, Peer, serverVars, sockVars
<1>4. CASE ClientSends
  <2>1. At("send") /\ Arrives /\ UNCHANGED <<peer, packet>> /\ csent' \in 1..2 /\ csent' > csent
    BY <1>4 DEF ClientSends
  <2>2. peer = "open"
    BY <2>1, AtIs, ScriptsAre DEF PeerInv
  <2>3. CASE Down
    BY <1>2, <2>1, <2>3 DEF Arrives, peerVars
  <2>4. CASE ~Down
    <3>1. ~Over
      BY <2>4 DEF Down
    <3>2. arrived' = arrived \/ (arrived' \in 1..2 /\ arrived' > arrived)
      <4>1. csent \in 0..2 /\ arrived \in 0..2
        BY DEF PeerInv
      <4>2. csent \in {0, 1} /\ arrived <= 1 /\ (csent' = 1 => csent = 0)
        BY <2>1, <4>1 DEF PeerInv
      <4>3. csent' = 1 => arrived = 0 /\ arrived' \in {0, 1}
        BY <2>1, <2>4, <4>2 DEF PeerInv, Arrives
      <4>4. csent' = 2 => arrived' = 2
        BY <2>1, <2>4 DEF Arrives
      <4> QED
        BY <2>1, <4>1, <4>2, <4>3, <4>4
    <3>3. CASE arrived' = arrived
      BY <1>2, <2>1, <3>3 DEF peerVars
    <3>4. CASE arrived' \in 1..2 /\ arrived' > arrived
      BY <1>1, <2>1, <2>2, <3>1, <3>4 DEF Peer, PeerSends, serverVars, sockVars
    <3> QED
      BY <3>2, <3>3, <3>4
  <2> QED
    BY <2>3, <2>4
<1>5. CASE HalfClose
  <2>1. peer = "open"
    BY <1>5, AtIs, ScriptsAre DEF HalfClose, PeerInv
  <2>2. CASE Over
    BY <1>2, <1>5, <2>2 DEF HalfClose, peerVars
  <2>3. CASE ~Over
    BY <1>1, <1>5, <2>1, <2>3 DEF HalfClose, Peer, PeerCloses, serverVars, sockVars
  <2> QED
    BY <2>2, <2>3
<1>6. CASE ClientSendKills \/ ConnectionEnds \/ GiveUp \/ ClientDisconnects \/ ClientKilled
  <2>1. HangUp /\ UNCHANGED <<packet, arrived>> /\ cpc \in {"running", "give_up"}
    BY <1>6 DEF ClientSendKills, ConnectionEnds, GiveUp, ClientDisconnects, ClientKilled, At,
                ClientOver, PeerInv
  <2> QED
    BY <1>1, <2>1, HangUpIsPeer
<1>7. CASE ServerClosed
  <2>1. UNCHANGED <<packet, arrived>> /\ (UNCHANGED peer \/ HangUp) /\ cpc = "running"
    BY <1>7 DEF ServerClosed, At
  <2> QED
    BY <1>1, <1>2, <2>1, HangUpIsPeer DEF peerVars
<1>8. CASE \/ ClientSendFails \/ ClientReceives \/ ClientReceiveFails \/ Check \/ SetLinger
           \/ CallAfterDisconnect \/ ClientReturns \/ ConnectFails \/ LingerFails \/ ClientEnter
  BY <1>2, <1>8 DEF ClientSendFails, ClientReceives, ClientReceiveFails, Check, SetLinger,
                    CallAfterDisconnect, ClientReturns, ConnectFails, LingerFails, ClientEnter
<1> QED
  BY <1>3, <1>4, <1>5, <1>6, <1>7, <1>8 DEF ClientStep, ClientProceeds

(* Every step of the two programs is one of the server with some peer.     *)
LEMMA StepIsServers ==
  ASSUME PeerInv, ObjectsInv, [ProgramsNext]_allVars
  PROVE  [Next]_vars
<1>1. CASE ServerStep
  BY <1>1 DEF ServerStep, Next
<1>2. CASE ClientStep
  BY <1>2, ClientStepIsPeer DEF Next
<1>3. CASE BothOver \/ UNCHANGED allVars
  BY <1>3 DEF BothOver, allVars
<1> QED
  BY <1>1, <1>2, <1>3 DEF ProgramsNext

(* The server's own steps are not those of its peer.                       *)
LEMMA ServerLeavesPeer ==
  ASSUME ServerStep
  PROVE  UNCHANGED <<peerVars, clientVars>>
  BY DEF ServerStep, Proceed, ConstructServer, StartFails, StartSucceeds, DeclareConnection,
         CheckBeforeAccept, AcceptClient, LeaveAfterAccept, CreateTransport, HeaderArrives,
         AllocationFails, Received, PeerClosed, ReceiveFails, LeaveAfterReceive,
         AnswerProtocolError, DispatchRequest, CheckAfterDispatch, SendSucceeds, SendFails,
         SendKills, CheckAfterErrorSend, CheckAfterSend, ScopeEnd, CleanupTransport,
         ResetTransport, StopServer, Return, AcceptFails, PressEnter, Sigint, peerVars

(* Every step keeps what is known of the peer.                             *)
LEMMA NextPeer == PeerInv /\ [ProgramsNext]_allVars => PeerInv'
<1> SUFFICES ASSUME PeerInv, [ProgramsNext]_allVars PROVE PeerInv'
  OBVIOUS
<1>1. ASSUME UNCHANGED <<peerVars, clientVars>> PROVE PeerInv'
  BY <1>1 DEF PeerInv, peerVars, clientVars
<1>2. ASSUME ClientConnects PROVE PeerInv'
  <2>1. step = 1 /\ step' = 2 /\ step' \in 1..(Len(Script[program]) + 1)
    BY <1>2, AtIs, ScriptsAre DEF ClientConnects, Proceeds
  <2> QED
    BY <1>2, <2>1 DEF ClientConnects, PeerConnects, Proceeds, PeerInv
<1>3. ASSUME ClientSends PROVE PeerInv'
  <2>1. At("send")
    BY <1>3 DEF ClientSends
  <2>2. step = 2 /\ peer = "open" /\ step + 1 \in 1..(Len(Script[program]) + 1)
    BY <2>1, AtIs, ScriptsAre DEF PeerInv
  <2>3. /\ csent' \in 1..2 /\ csent' > csent
        /\ csent' = 1 => step' = step /\ (cpc' = "running" \/ cpc' = "give_up")
        /\ csent' = 2 => step' = 3 /\ cpc' = "running"
        /\ Arrives /\ UNCHANGED <<peer, packet, program, cconnected>> /\ cpc = "running"
    BY <1>3, <2>2, AtIs DEF ClientSends, Proceeds
  <2>4. arrived' \in 0..2 /\ (csent' = 1 => arrived' <= 1)
    BY <2>3 DEF PeerInv, Arrives
  <2>5. /\ program' \in Programs /\ step' \in 1..(Len(Script[program']) + 1) /\ csent' \in 0..2
        /\ csent' # 0 /\ cpc' \in {"running", "give_up"} /\ peer' = "open"
    BY <2>2, <2>3 DEF PeerInv
  <2> QED
    BY <2>3, <2>4, <2>5 DEF PeerInv
<1>4. ASSUME NEW call, At(call), call \notin {"connect", "send"}
      PROVE  /\ step # 1 /\ step + 1 # 2 /\ step + 1 \in 1..(Len(Script[program]) + 1)
             /\ ~(program = "dispatch_failure" /\ step + 1 = 3)
             /\ cpc = "running"
  <2>1. /\ program \in Programs /\ step \in 1..Len(Script[program]) /\ step \in Nat
        /\ Script[program][step] = call /\ cpc = "running"
        /\ step + 1 \in 1..(Len(Script[program]) + 1)
    BY <1>4, AtIs
  <2> QED
    BY <1>4, <2>1, ScriptsAre
<1>5. ASSUME UNCHANGED <<program, csent, arrived>>, cconnected' \in BOOLEAN,
             \/ cpc' \in {"give_up", "exited", "killed"} /\ step' = step
             \/ /\ cpc' = "running" /\ step' = step + 1
                /\ \E call : At(call) /\ call \notin {"connect", "send"},
             cconnected' /\ cpc' \in {"running", "give_up"} => peer' \in {"open", "closed"}
      PROVE  PeerInv'
  <2>1. CASE cpc' \in {"give_up", "exited", "killed"} /\ step' = step
    BY <1>5, <2>1 DEF PeerInv
  <2>2. CASE /\ cpc' = "running" /\ step' = step + 1
             /\ \E call : At(call) /\ call \notin {"connect", "send"}
    <3>1. /\ step' # 1 /\ step' # 2 /\ step' \in 1..(Len(Script[program]) + 1)
          /\ ~(program = "dispatch_failure" /\ step' = 3)
      <4>1. PICK call : At(call) /\ call \notin {"connect", "send"}
        BY <2>2
      <4>2. /\ step # 1 /\ step + 1 # 2 /\ step + 1 \in 1..(Len(Script[program]) + 1)
            /\ ~(program = "dispatch_failure" /\ step + 1 = 3)
        BY <1>4, <4>1
      <4>3. step + 1 # 1
        BY <4>1, AtIs
      <4> QED
        BY <2>2, <4>2, <4>3
    <3> QED
      BY <1>5, <2>2, <3>1 DEF PeerInv
  <2> QED
    BY <1>5, <2>1, <2>2
<1>6. ASSUME HalfClose PROVE PeerInv'
  <2>1. /\ At("half_close") /\ cpc' = "running" /\ step' = step + 1
        /\ UNCHANGED <<program, csent, arrived, cconnected>>
        /\ cconnected => peer' \in {"open", "closed"}
    BY <1>6 DEF HalfClose, Proceeds, PeerInv, At
  <2>2. \E call : At(call) /\ call \notin {"connect", "send"}
    BY <2>1
  <2> QED
    BY <1>5, <2>1, <2>2 DEF PeerInv
<1>7. ASSUME ClientSendFails \/ ConnectFails \/ ClientReturns \/ LingerFails \/ ClientReceiveFails
      PROVE  PeerInv'
  <2>1. /\ cpc' \in {"give_up", "exited"} /\ step' = step /\ cpc = "running"
        /\ UNCHANGED <<program, csent, arrived, cconnected, peer>>
    BY <1>7 DEF ClientSendFails, ConnectFails, ClientReturns, LingerFails, ClientReceiveFails,
                Fails, peerVars, At
  <2> QED
    BY <1>5, <2>1 DEF PeerInv
<1>8. ASSUME ClientSendKills \/ ClientKilled \/ GiveUp PROVE PeerInv'
  <2>1. /\ cpc' = "killed" \/ (cpc' = "exited" /\ ~cconnected')
        /\ UNCHANGED <<program, csent, arrived>> /\ cconnected' \in BOOLEAN /\ step' = step
    BY <1>8 DEF ClientSendKills, ClientKilled, GiveUp, PeerInv
  <2> QED
    BY <1>5, <2>1
<1>9. ASSUME ClientReceives \/ SetLinger \/ ClientEnter \/ CallAfterDisconnect PROVE PeerInv'
  <2>1. /\ \E call : At(call) /\ call \notin {"connect", "send"}
        /\ cpc' = "running" /\ step' = step + 1 /\ cpc = "running"
        /\ UNCHANGED <<program, csent, arrived, cconnected, peer>>
    BY <1>9 DEF ClientReceives, SetLinger, ClientEnter, CallAfterDisconnect, Proceeds,
                peerVars, At
  <2> QED
    BY <1>5, <2>1 DEF PeerInv
<1>10. ASSUME Check PROVE PeerInv'
  <2>1. /\ \E call : At(call) /\ call \notin {"connect", "send"}
        /\ \/ cpc' = "running" /\ step' = step + 1
           \/ cpc' = "give_up" /\ step' = step
        /\ cpc = "running"
        /\ UNCHANGED <<program, csent, arrived, cconnected, peer>>
    BY <1>10 DEF Check, Proceeds, Fails, peerVars, At
  <2> QED
    BY <1>5, <2>1 DEF PeerInv
<1>11. ASSUME ServerClosed PROVE PeerInv'
  <2>1. /\ cpc' = "give_up" /\ step' = step /\ cpc = "running"
        /\ UNCHANGED <<program, csent, arrived>>
        /\ ~cconnected' \/ UNCHANGED <<cconnected, peer>>
        /\ cconnected' \in BOOLEAN
    BY <1>11 DEF ServerClosed, Fails, At, PeerInv
  <2> QED
    BY <1>5, <2>1 DEF PeerInv
<1>12. ASSUME ConnectionEnds \/ ClientDisconnects PROVE PeerInv'
  <2>1. /\ \E call : At(call) /\ call \notin {"connect", "send"}
        /\ cpc' = "running" /\ step' = step + 1 /\ cpc = "running"
        /\ UNCHANGED <<program, csent, arrived>> /\ cconnected' = FALSE
    BY <1>12 DEF ConnectionEnds, ClientDisconnects, Proceeds, At
  <2> QED
    BY <1>5, <2>1
<1>13. CASE ServerStep
  BY <1>1, <1>13, ServerLeavesPeer
<1>14. CASE BothOver \/ UNCHANGED allVars
  BY <1>1, <1>14 DEF BothOver, allVars, vars
<1>15. CASE ClientStep
  BY <1>2, <1>3, <1>6, <1>7, <1>8, <1>9, <1>10, <1>11, <1>12, <1>15
     DEF ClientStep, ClientProceeds
<1> QED
  BY <1>13, <1>14, <1>15 DEF ProgramsNext

(* The objects stay as they are for any peer.                              *)
LEMMA NextBoth ==
  PeerInv /\ ObjectsInv /\ [ProgramsNext]_allVars => PeerInv' /\ ObjectsInv' /\ [Next]_vars
  BY StepIsServers, NextPeer, NextObjects

(* What the programs do to the server is what a peer of ServerApp may do,  *)
(* so that all that is proved of ServerApp holds with them (the calls of   *)
(* the programs under apps/ that reach the connection).                    *)
THEOREM ProgramsArePeers == ProgramsSpec => ClientIsAPeer
<1>1. ProgramsInit => PeerInv /\ ObjectsInv /\ Init
  BY InitPeer, InitObjects DEF ProgramsInit
<1>2. ProgramsInit /\ [][ProgramsNext]_allVars => Spec
  BY <1>1, NextBoth, PTL DEF Spec
<1> QED
  BY <1>2, PTL DEF ProgramsSpec, ClientIsAPeer, allVars

(* So the descriptors are released, the shutdown is bounded, and the exit  *)
(* status and the answer are truthful, whichever of the programs runs.     *)
THEOREM ServerTheoremsHold ==
  ProgramsSpec => [](EndsReleased /\ ShutdownBounded /\ ExitStatusTruthful /\ AnswerMatchesPacket)
  BY ProgramsArePeers, EveryEndIsReleased, ShutdownIsBounded, ExitStatusIsTruthful,
     AnswersMatch, PTL DEF ClientIsAPeer

-----------------------------------------------------------------------------
(* Calls after the end of the connection.                                  *)

\* The two programs that call again have disconnected before.
Closed ==
  \/ program = "client_main" /\ step >= 6
  \/ program = "remote_close" /\ step >= 5

RefusedInv ==
  /\ cpc = "running" /\ Closed => ~cconnected
  /\ ClosedIsRefused

(* Every step keeps it.                                                    *)
LEMMA NextRefused == PeerInv /\ RefusedInv /\ [ProgramsNext]_allVars => RefusedInv'
<1> SUFFICES ASSUME PeerInv, RefusedInv, [ProgramsNext]_allVars PROVE RefusedInv'
  OBVIOUS
<1>1. ASSUME UNCHANGED clientVars PROVE RefusedInv'
  BY <1>1 DEF RefusedInv, Closed, ClosedIsRefused, clientVars
<1>2. ASSUME cpc' # "running" PROVE RefusedInv'
  BY <1>2 DEF RefusedInv, ClosedIsRefused
<1>3. ASSUME NEW call, At(call), call # "call", Proceeds, UNCHANGED program,
             cconnected' => cconnected \/ call = "connect",
             call \in {"disconnect", "end"} => ~cconnected'
      PROVE  RefusedInv'
  <2>1. /\ program \in Programs /\ step \in 1..Len(Script[program]) /\ step \in Nat
        /\ Script[program][step] = call /\ cpc = "running" /\ step' = step + 1
    BY <1>3, AtIs DEF Proceeds
  <2>2. Script[program'][step' - 1] # "call"
    <3>1. step' - 1 = step
      BY <2>1
    <3> QED
      BY <1>3, <2>1, <3>1
  <2>3. ASSUME Closed' PROVE ~cconnected'
    <3>1. \/ Closed
          \/ (program = "client_main" /\ step = 5) \/ (program = "remote_close" /\ step = 4)
      BY <1>3, <2>1, <2>3 DEF Closed
    <3>2. CASE Closed
      <4>1. ~cconnected
        BY <2>1, <3>2 DEF RefusedInv
      <4>2. call # "connect"
        BY <2>1, <3>2, ScriptsAre DEF Closed
      <4> QED
        BY <1>3, <4>1, <4>2
    <3>3. CASE (program = "client_main" /\ step = 5) \/ (program = "remote_close" /\ step = 4)
      BY <1>3, <2>1, <3>3, ScriptsAre
    <3> QED
      BY <3>1, <3>2, <3>3
  <2> QED
    BY <2>2, <2>3 DEF RefusedInv, ClosedIsRefused
<1>4. ASSUME CallAfterDisconnect PROVE RefusedInv'
  <2>1. /\ program \in Programs /\ step \in 1..Len(Script[program]) /\ step \in Nat
        /\ Script[program][step] = "call" /\ cpc = "running" /\ step' = step + 1
        /\ UNCHANGED <<program, cconnected>>
        /\ cresult' = IF cconnected THEN "SocketError" ELSE "ConnectionFailed"
    BY <1>4, AtIs DEF CallAfterDisconnect, Proceeds
  <2>2. Closed
    BY <2>1, ScriptsAre DEF Closed
  <2>3. ~cconnected /\ ~cconnected' /\ cresult' = "ConnectionFailed"
    BY <2>1, <2>2 DEF RefusedInv
  <2> QED
    BY <2>3 DEF RefusedInv, ClosedIsRefused
<1>5. ASSUME ClientSends PROVE RefusedInv'
  <2>1. CASE csent' = 2
    BY <1>3, <1>5, <2>1 DEF ClientSends
  <2>2. CASE csent' # 2
    <3>1. /\ At("send") /\ step' = step /\ UNCHANGED <<program, cconnected, cresult>>
      BY <1>5, <2>2 DEF ClientSends
    <3>2. step = 2 /\ program \in Programs /\ 2 \in 1..Len(Script[program])
      BY <3>1, AtIs, ScriptsAre
    <3>3. Len(Script[program]) \in Nat
      BY <3>2 DEF PeerInv
    <3>4. Script[program][1] # "call"
      BY <3>2, ScriptsAre
    <3>5. ~Closed' /\ Script[program'][step' - 1] # "call"
      BY <3>1, <3>2, <3>4 DEF Closed
    <3> QED
      BY <3>5 DEF RefusedInv, ClosedIsRefused
  <2> QED
    BY <2>1, <2>2
<1>6. ASSUME \/ ClientConnects \/ HalfClose \/ ClientReceives \/ ConnectionEnds \/ SetLinger
             \/ ClientEnter \/ ClientDisconnects \/ (Check /\ Proceeds)
      PROVE  RefusedInv'
  <2>1. \E call : /\ At(call) /\ call # "call" /\ Proceeds /\ UNCHANGED program
                  /\ cconnected' => cconnected \/ call = "connect"
                  /\ call \in {"disconnect", "end"} => ~cconnected'
    BY <1>6 DEF ClientConnects, HalfClose, ClientReceives, ConnectionEnds, SetLinger,
                ClientEnter, ClientDisconnects, Check
  <2> QED
    BY <1>3, <2>1
<1>7. ASSUME \/ ConnectFails \/ ClientSendFails \/ ClientSendKills \/ ServerClosed
             \/ ClientReceiveFails \/ LingerFails \/ GiveUp \/ ClientReturns \/ ClientKilled
             \/ (Check /\ ~Proceeds)
      PROVE  RefusedInv'
  BY <1>2, <1>7 DEF ConnectFails, ClientSendFails, ClientSendKills, ServerClosed, Check,
                    ClientReceiveFails, LingerFails, GiveUp, ClientReturns, ClientKilled, Fails
<1>8. CASE ServerStep \/ BothOver \/ UNCHANGED allVars
  BY <1>1, <1>8 DEF ServerStep, BothOver, allVars
<1>9. CASE ClientStep
  BY <1>4, <1>5, <1>6, <1>7, <1>9 DEF ClientStep, ClientProceeds
<1> QED
  BY <1>8, <1>9 DEF ProgramsNext

(* A call on a connection that was closed returns ConnectionFailed         *)
(* (Client::send and receive, client_main.cpp, remote_close_client_main    *)
(* .cpp).                                                                  *)
THEOREM ClosedCallsAreRefused == ProgramsSpec => []ClosedIsRefused
<1>1. ProgramsInit => RefusedInv
  BY DEF ProgramsInit, RefusedInv, ClosedIsRefused
<1>2. RefusedInv => ClosedIsRefused
  BY DEF RefusedInv
<1> QED
  BY <1>1, <1>2, InitPeer, NextPeer, NextRefused, PTL DEF ProgramsSpec, allVars

-----------------------------------------------------------------------------
(* The server, as far as a client can tell.                                *)

\* The server answers no more: it leaves, or is about to because the peer closed.
Finished ==
  \/ pc \in {"scope_end", "killed"} \cup Leaving
  \/ pc = "after_receive" /\ result = "ConnectionClosed"

ServerInv ==
  /\ exitCode \in {0, 1}
  /\ acceptOk => /\ peer # "away"
                 /\ pc \in {"after_accept", "scope_end", "killed"} \cup WithTransport \cup Leaving
  /\ result # "none" \/ pc \in WithTransport => acceptOk
  /\ result = "SocketError" => peer = "reset"
  /\ pc \in WithTransport \ {"header", "payload"} => result # "none"
  /\ pc \in {"scope_end"} \cup Leaving /\ acceptOk /\ ~shutdownRequested => result # "none"
  /\ peer # "away" => running["server"] \/ Finished
  /\ pc = "after_accept" /\ acceptOk => fd["connection"] \in Fds
  /\ pc \in WithTransport /\ ~Finished => fd["transport"] \in Fds

(* A server that has not begun has no peer.                                *)
LEMMA InitServer == Init => ServerInv
  BY DEF Init, ServerInv, Leaving, WithTransport, Finished

(* A step of main() between the calls that change the objects.             *)
LEMMA PlainServer ==
  ASSUME ServerInv, AnswerInv,
         \/ CheckBeforeAccept \/ LeaveAfterAccept \/ HeaderArrives \/ AllocationFails
         \/ Received \/ ReceiveFails \/ LeaveAfterReceive \/ AnswerProtocolError
         \/ DispatchRequest \/ CheckAfterDispatch \/ SendSucceeds \/ SendFails \/ SendKills
         \/ CheckAfterErrorSend \/ CheckAfterSend \/ AcceptFails \/ PressEnter
  PROVE  ServerInv'
<1> USE DEF ServerInv, AnswerInv, Leaving, WithTransport, Finished, Goto, Break, sockVars, peerVars
<1>1. CASE CheckBeforeAccept
  BY <1>1 DEF CheckBeforeAccept
<1>2. CASE LeaveAfterAccept
  BY <1>2 DEF LeaveAfterAccept
<1>3. CASE HeaderArrives \/ AllocationFails
  BY <1>3 DEF HeaderArrives, AllocationFails
<1>4. CASE Received
  BY <1>4 DEF Received
<1>5. CASE ReceiveFails
  BY <1>5 DEF ReceiveFails, Missing
<1>6. CASE LeaveAfterReceive
  BY <1>6 DEF LeaveAfterReceive
<1>7. CASE AnswerProtocolError \/ DispatchRequest
  BY <1>7 DEF AnswerProtocolError, DispatchRequest
<1>8. CASE CheckAfterDispatch \/ CheckAfterSend
  BY <1>8 DEF CheckAfterDispatch, CheckAfterSend
<1>9. CASE SendSucceeds \/ SendKills
  BY <1>9 DEF SendSucceeds, SendKills
<1>10. CASE SendFails \/ CheckAfterErrorSend \/ PressEnter
  BY <1>10 DEF SendFails, CheckAfterErrorSend, PressEnter
<1>11. CASE AcceptFails
  BY <1>11 DEF AcceptFails
<1> HIDE DEF ServerInv, AnswerInv
<1> QED
  BY <1>1, <1>2, <1>3, <1>4, <1>5, <1>6, <1>7, <1>8, <1>9, <1>10, <1>11

(* The steps that create, move and destroy objects.                        *)
LEMMA SocketServer ==
  ASSUME ServerInv, AnswerInv, ObjectsInv,
         \/ ConstructServer \/ StartFails \/ StartSucceeds \/ DeclareConnection
         \/ AcceptClient \/ CreateTransport \/ PeerClosed \/ ScopeEnd \/ CleanupTransport
         \/ ResetTransport \/ StopServer \/ Return
  PROVE  ServerInv'
<1> USE DEF ServerInv, Leaving, WithTransport, Finished, Goto, peerVars
<1>1. CASE ConstructServer
  BY <1>1 DEF ConstructServer, Sock!ConstructServer, ObjectsInv
<1>2. CASE StartFails
  BY <1>2 DEF StartFails
<1>3. CASE StartSucceeds
  <2>1. running'["server"]
    BY <1>3 DEF StartSucceeds, Sock!Start, ObjectsInv
  <2> QED
    BY <1>3, <2>1 DEF StartSucceeds
<1>4. CASE DeclareConnection
  BY <1>4 DEF DeclareConnection, Sock!ConstructConnection
<1>5. CASE AcceptClient
  <2>1. fd'["connection"] \in Fds /\ UNCHANGED running
    BY <1>5 DEF AcceptClient, Sock!Accept, ObjectsInv
  <2> QED
    BY <1>5, <2>1 DEF AcceptClient
<1>6. CASE CreateTransport
  <2>1. fd'["transport"] = fd["connection"] /\ UNCHANGED running
    BY <1>6 DEF CreateTransport, Sock!MoveConstructConnection, ObjectsInv
  <2> QED
    BY <1>6, <2>1 DEF CreateTransport, AnswerInv
<1>7. CASE PeerClosed
  BY <1>7 DEF PeerClosed, Missing
<1>8. CASE ScopeEnd \/ CleanupTransport \/ ResetTransport \/ StopServer \/ Return
  BY <1>8 DEF ScopeEnd, CleanupTransport, ResetTransport, StopServer, Return
<1> HIDE DEF ServerInv
<1> QED
  BY <1>1, <1>2, <1>3, <1>4, <1>5, <1>6, <1>7, <1>8

(* Every step of the server, with any peer, keeps it.                      *)
LEMMA NextServer == ServerInv /\ AnswerInv /\ ObjectsInv /\ [Next]_vars => ServerInv'
<1> SUFFICES ASSUME ServerInv, AnswerInv, ObjectsInv, [Next]_vars PROVE ServerInv'
  OBVIOUS
<1>1. CASE Sigint \/ UNCHANGED vars
  BY <1>1 DEF Sigint, vars, sockVars, peerVars, ServerInv, Finished
<1>2. CASE Peer
  <2>1. /\ UNCHANGED <<sockVars, pc, shutdownRequested, acceptOk, result, exitCode>>
        /\ peer = "away" => running["server"]
        /\ peer' # "away" \/ peer' = peer
        /\ peer = "reset" => peer' = "reset"
    BY <1>2 DEF Peer, PeerConnects, PeerSends, PeerCloses, PeerResets, Listening
  <2> QED
    BY <2>1 DEF sockVars, ServerInv, Finished
<1> QED
  BY <1>1, <1>2, PlainServer, SocketServer DEF Next, Proceed, Done

(* What the server is, at all times.                                       *)
LEMMA ServerInvHolds == Spec => [](ObjectsInv /\ AnswerInv /\ ServerInv)
  BY InitServer, NextServer, ObjectsInvHolds, AnswerInvHolds, PTL DEF Spec

(* A server that has finished stays so, and what it has received and       *)
(* answered stays.                                                         *)
LEMMA FinishedStays ==
  ASSUME Finished, [Next]_vars
  PROVE  Finished' /\ UNCHANGED <<result, answered>>
<1> USE DEF Finished, Leaving, Goto, Break
<1>1. ASSUME UNCHANGED <<pc, result, answered>> PROVE Finished' /\ UNCHANGED <<result, answered>>
  BY <1>1
<1>2. CASE LeaveAfterReceive \/ ScopeEnd \/ CleanupTransport \/ ResetTransport \/ StopServer \/ Return
  BY <1>2 DEF LeaveAfterReceive, ScopeEnd, CleanupTransport, ResetTransport, StopServer, Return
<1>3. CASE \/ ConstructServer \/ StartFails \/ StartSucceeds \/ DeclareConnection
           \/ CheckBeforeAccept \/ AcceptClient \/ LeaveAfterAccept \/ CreateTransport
           \/ HeaderArrives \/ AllocationFails \/ Received \/ PeerClosed \/ ReceiveFails
           \/ AnswerProtocolError \/ DispatchRequest \/ CheckAfterDispatch
           \/ SendSucceeds \/ SendFails \/ SendKills \/ CheckAfterErrorSend \/ CheckAfterSend
           \/ AcceptFails \/ PressEnter
  BY <1>3 DEF ConstructServer, StartFails, StartSucceeds, DeclareConnection, CheckBeforeAccept,
              AcceptClient, LeaveAfterAccept, CreateTransport, HeaderArrives, AllocationFails,
              Received, PeerClosed, ReceiveFails, Missing, AnswerProtocolError, DispatchRequest,
              CheckAfterDispatch, SendSucceeds, SendFails, SendKills, CheckAfterErrorSend,
              CheckAfterSend, AcceptFails, PressEnter
<1>4. CASE Sigint \/ Peer \/ UNCHANGED vars
  BY <1>1, <1>4 DEF Sigint, Peer, vars
<1> QED
  BY <1>2, <1>3, <1>4 DEF Next, Proceed, Done

(* A client that sees its connection closed or refused sees a server that  *)
(* has finished.                                                           *)
LEMMA DownIsFinished ==
  ASSUME ServerInv, ObjectsInv, peer # "away", Down
  PROVE  Finished
<1>1. CASE Over
  BY <1>1 DEF Over, Finished, Leaving
<1>2. CASE acceptOk /\ \A f \in Fds : kernel[f] # "stream"
  <2>1. fd["connection"] \notin Fds /\ fd["transport"] \notin Fds
    BY <1>2 DEF ObjectsInv, Held
  <2> QED
    BY <1>2, <2>1 DEF ServerInv, Finished
<1>3. CASE ~acceptOk /\ ~Listening
  BY <1>3 DEF ServerInv, Listening, Finished
<1> QED
  BY <1>1, <1>2, <1>3 DEF Down

-----------------------------------------------------------------------------
(* The outcomes of the two programs.                                       *)

\* The programs that wait for an answer, those that set SO_LINGER, and those
\* that send nothing.
Receivers == {"client_main", "integration_success", "remote_close", "dispatch_failure",
              "protocol_error"}
Lingering == {"receive_failure", "response_send_failure", "gap035"}
Silent == {"shutdown_client", "receive_failure"}

\* The call that receives the answer.
ReceiveStep == IF program = "dispatch_failure" THEN 4 ELSE 3

\* No call of the client has failed, or one has.
Live == cpc = "running" \/ (cpc = "exited" /\ cexit = 0)
Failed == cpc = "give_up" \/ (cpc = "exited" /\ cexit = 1)

OutcomeInv ==
  /\ packet = Request[program]
  /\ cexit \in {0, 1} /\ (cexit = 1 => cpc = "exited")
  /\ cpc = "exited" /\ cexit = 0 => step = Len(Script[program]) + 1
  /\ step = 1 <=> peer = "away"
  /\ step = 1 => ~cconnected
  /\ step <= 2 /\ cpc # "killed" => csent < 2
  /\ step > 2 /\ program \notin Silent => csent = 2
  /\ program \in Silent => csent = 0
  /\ cgot # NoAnswer => cgot = answered
  /\ program \in Receivers /\ Live /\ step > ReceiveStep => cgot # NoAnswer
  /\ csent = 2 /\ cpc # "killed" => arrived = 2 \/ (Finished /\ result # "ConnectionClosed")
  /\ program \in Receivers /\ cpc = "running" /\ step \in 2..ReceiveStep =>
       peer = "open" \/ (program = "dispatch_failure" /\ step = 4 /\ csent = 2)
  /\ program \in Lingering /\ Live => peer \in {"away", "open", "reset"}
  /\ program = "shutdown_client" /\ cpc # "killed" => peer # "reset"
  /\ program \in Receivers /\ Failed =>
       step = 1 \/ (Finished /\ answered = NoAnswer /\ result # "ConnectionClosed")

\* What is known of the server besides.
Context == PeerInv /\ ObjectsInv /\ AnswerInv /\ ServerInv

(* Where the calls are in these scripts.                                   *)
LEMMA CallsAre ==
  ASSUME NEW p \in Programs, NEW i \in Nat, i \in 1..Len(Script[p])
  PROVE  /\ p \in Receivers => /\ Script[p][i] = "receive" <=>
                                    i = IF p = "dispatch_failure" THEN 4 ELSE 3
                               /\ Script[p][i] # "linger"
                               /\ i = 2 => Script[p][i] = "send"
                               /\ i = 3 /\ p = "dispatch_failure" => Script[p][i] = "half_close"
         /\ p \notin Receivers => Script[p][i] \notin {"receive", "check", "end", "call", "half_close"}
         /\ Script[p][i] = "check" =>
               p \in {"integration_success", "dispatch_failure", "protocol_error"} /\ i > 3
         /\ Script[p][i] = "end" => i > 3
         /\ Script[p][i] = "linger" => p \in Lingering
         /\ p \in Silent => Script[p][i] # "send"
         /\ p \notin Silent /\ i = 2 => Script[p][i] = "send"
         /\ p = "shutdown_client" => Script[p][i] # "linger"
         /\ p \in Lingering /\ Script[p][i] = "disconnect" =>
               i - 1 \in 1..Len(Script[p]) /\ Script[p][i - 1] = "linger"
<1> DEFINE Holds(q) == \A j \in 1..Len(Script[q]) :
         /\ q \in Receivers => /\ Script[q][j] = "receive" <=>
                                    j = IF q = "dispatch_failure" THEN 4 ELSE 3
                               /\ Script[q][j] # "linger"
                               /\ j = 2 => Script[q][j] = "send"
                               /\ j = 3 /\ q = "dispatch_failure" => Script[q][j] = "half_close"
         /\ q \notin Receivers => Script[q][j] \notin {"receive", "check", "end", "call", "half_close"}
         /\ Script[q][j] = "check" =>
               q \in {"integration_success", "dispatch_failure", "protocol_error"} /\ j > 3
         /\ Script[q][j] = "end" => j > 3
         /\ Script[q][j] = "linger" => q \in Lingering
         /\ q \in Silent => Script[q][j] # "send"
         /\ q \notin Silent /\ j = 2 => Script[q][j] = "send"
         /\ q = "shutdown_client" => Script[q][j] # "linger"
         /\ q \in Lingering /\ Script[q][j] = "disconnect" =>
               j - 1 \in 1..Len(Script[q]) /\ Script[q][j - 1] = "linger"
<1> USE DEF Receivers, Lingering, Silent
<1>1. Holds("client_main")
  <2>1. Script["client_main"] = client_main
    BY DEF Script
  <2> QED
    BY <2>1 DEF client_main
<1>2. Holds("integration_success")
  <2>1. Script["integration_success"] = integration_success
    BY DEF Script
  <2> QED
    BY <2>1 DEF integration_success
<1>3. Holds("remote_close")
  <2>1. Script["remote_close"] = remote_close
    BY DEF Script
  <2> QED
    BY <2>1 DEF remote_close
<1>4. Holds("shutdown_client")
  <2>1. Script["shutdown_client"] = shutdown_client
    BY DEF Script
  <2> QED
    BY <2>1 DEF shutdown_client
<1>5. Holds("dispatch_failure")
  <2>1. Script["dispatch_failure"] = dispatch_failure
    BY DEF Script
  <2> QED
    BY <2>1 DEF dispatch_failure
<1>6. Holds("protocol_error")
  <2>1. Script["protocol_error"] = protocol_error
    BY DEF Script
  <2> QED
    BY <2>1 DEF protocol_error
<1>7. Holds("receive_failure")
  <2>1. Script["receive_failure"] = receive_failure
    BY DEF Script
  <2> QED
    BY <2>1 DEF receive_failure
<1>8. Holds("response_send_failure")
  <2>1. Script["response_send_failure"] = response_send_failure
    BY DEF Script
  <2> QED
    BY <2>1 DEF response_send_failure
<1>9. Holds("gap035")
  <2>1. Script["gap035"] = gap035
    BY DEF Script
  <2> QED
    BY <2>1 DEF gap035
<1> HIDE DEF Holds
<1>10. Holds(p)
  BY <1>1, <1>2, <1>3, <1>4, <1>5, <1>6, <1>7, <1>8, <1>9 DEF Programs, Script
<1> QED
  BY <1>10 DEF Holds

(* Nothing has happened at first.                                          *)
LEMMA InitOutcome == ProgramsInit => OutcomeInv
<1> SUFFICES ASSUME ProgramsInit PROVE OutcomeInv
  OBVIOUS
<1>1. step = 1 /\ cpc = "running" /\ csent = 0 /\ cexit = 0 /\ cgot = NoAnswer /\ ~cconnected
  BY DEF ProgramsInit
<1>2. peer = "away" /\ packet = Request[program]
  BY DEF ProgramsInit, Init
<1>3. ReceiveStep \in {3, 4}
  BY DEF ReceiveStep
<1> QED
  BY <1>1, <1>2, <1>3 DEF OutcomeInv, Live, Failed

(* The server's steps leave the outcome of the client's as it is.          *)
LEMMA ServerKeepsOutcome ==
  ASSUME OutcomeInv, Context, ServerStep
  PROVE  OutcomeInv'
<1>1. UNCHANGED <<peerVars, clientVars>> /\ [Next]_vars
  BY ServerLeavesPeer DEF ServerStep, Next
<1>2. Finished => Finished' /\ UNCHANGED <<result, answered>>
  BY <1>1, FinishedStays
<1>3. answered # NoAnswer => answered' = answered
  <2>1. \/ UNCHANGED answered
        \/ pc \in {"send", "send_error"}
    BY DEF ServerStep, Proceed, ConstructServer, StartFails, StartSucceeds, DeclareConnection,
           CheckBeforeAccept, AcceptClient, LeaveAfterAccept, CreateTransport, HeaderArrives,
           AllocationFails, Received, PeerClosed, ReceiveFails, LeaveAfterReceive,
           AnswerProtocolError, DispatchRequest, CheckAfterDispatch, SendSucceeds, SendFails,
           SendKills, CheckAfterErrorSend, CheckAfterSend, ScopeEnd, CleanupTransport,
           ResetTransport, StopServer, Return, AcceptFails, PressEnter, Sigint, Goto
  <2> QED
    BY <2>1 DEF Context, AnswerInv, Leaving
<1>4. UNCHANGED <<peer, packet, arrived, program, step, cpc, cconnected, csent, cgot, cexit>>
  BY <1>1 DEF peerVars, clientVars
<1>5. ReceiveStep' = ReceiveStep /\ Live' = Live /\ Failed' = Failed
  BY <1>4 DEF ReceiveStep, Live, Failed
<1> QED
  BY <1>2, <1>3, <1>4, <1>5 DEF OutcomeInv

(* What closing the descriptor does to the connection, for these programs. *)
LEMMA HangUpGives ==
  ASSUME OutcomeInv, Context, HangUp, cpc \in {"running", "give_up"}
  PROVE  /\ peer' = "away" <=> peer = "away"
         /\ program = "shutdown_client" => peer' # "reset"
         /\ program \in Lingering /\ Lingers /\ Live => peer' = peer \/ peer' = "reset"
<1>1. peer # "away" \/ ~cconnected
  BY DEF OutcomeInv
<1>2. ASSUME program = "shutdown_client" PROVE ~Lingers /\ answered = NoAnswer
  <2>1. program \in Programs /\ step \in 1..(Len(Script[program]) + 1) /\ step \in Nat
        /\ Len(Script[program]) \in Nat
    BY DEF Context, PeerInv, Programs, Script, client_main, integration_success, remote_close,
           shutdown_client, dispatch_failure, protocol_error, receive_failure,
           response_send_failure, gap035
  <2>2. ~Lingers
    <3> SUFFICES ASSUME NEW i \in 1..(step - 1), Script[program][i] = "linger" PROVE FALSE
      BY DEF Lingers
    <3>1. i \in Nat /\ i \in 1..Len(Script[program])
      BY <2>1
    <3> QED
      BY <1>2, <2>1, <3>1, CallsAre
  <2>3. arrived = 0
    BY <1>2 DEF OutcomeInv, Silent, Context, PeerInv
  <2> QED
    BY <2>2, <2>3 DEF Context, AnswerInv
<1>3. program = "shutdown_client" => peer # "reset"
  BY DEF OutcomeInv
<1>4. program \in Lingering /\ Live /\ cconnected => peer = "open"
  BY DEF OutcomeInv, Context, PeerInv
<1> QED
  BY <1>1, <1>2, <1>3, <1>4 DEF HangUp

(* A call after the request was sent that succeeds.                        *)
LEMMA LaterCall ==
  ASSUME OutcomeInv, Context, NEW call, At(call), call \notin {"connect", "send", "half_close"},
         Proceeds, UNCHANGED <<serverVars, packet, arrived, program, csent, cexit>>,
         IF call = "receive" THEN answered # NoAnswer /\ cgot' = answered ELSE cgot' = cgot,
         peer' # "away",
         program \in Lingering => peer' = peer \/ peer' = "reset",
         program = "shutdown_client" => peer' # "reset"
  PROVE  OutcomeInv'
<1>1. /\ program \in Programs /\ step \in 1..Len(Script[program]) /\ step \in Nat
      /\ Script[program][step] = call /\ cpc = "running"
  BY AtIs DEF Context
<1>2. /\ step # 1
      /\ program \notin Silent => step # 2
      /\ program \in Receivers => /\ call = "receive" <=> step = ReceiveStep
                                  /\ step >= ReceiveStep
  <2>1. step # 1
    BY <1>1, ScriptsAre
  <2>2. program \in Receivers => (call = "receive" <=> step = ReceiveStep)
    BY <1>1, CallsAre DEF ReceiveStep
  <2>3. program \in Receivers => step # 2 /\ ~(step = 3 /\ program = "dispatch_failure")
    BY <1>1, CallsAre
  <2>4. program \notin Silent => step # 2
    BY <1>1, CallsAre
  <2> QED
    BY <1>1, <2>1, <2>2, <2>3, <2>4 DEF ReceiveStep
<1>3. /\ UNCHANGED <<answered, result, program, packet, arrived, csent, cexit>>
      /\ Finished' = Finished /\ ReceiveStep' = ReceiveStep
  BY DEF serverVars, Finished, ReceiveStep
<1>4. step' = step + 1 /\ cpc' = "running"
  BY <1>1 DEF Proceeds
<1>5. ReceiveStep \in {3, 4} /\ Live /\ ~Failed' /\ cexit = 0
  BY <1>1, <1>4 DEF ReceiveStep, Live, Failed, OutcomeInv
<1> QED
  BY <1>1, <1>2, <1>3, <1>4, <1>5 DEF OutcomeInv

(* A call that fails.                                                      *)
LEMMA FailedCall ==
  ASSUME OutcomeInv, Context, NEW call, At(call), call # "connect",
         Fails, UNCHANGED <<serverVars, packet, arrived, program, csent, cgot, cexit>>,
         peer' # "away",
         program = "shutdown_client" => peer' # "reset",
         program \in Receivers => Finished /\ answered = NoAnswer /\ result # "ConnectionClosed"
  PROVE  OutcomeInv'
<1>1. /\ program \in Programs /\ step \in 1..Len(Script[program]) /\ step \in Nat
      /\ Script[program][step] = call /\ cpc = "running"
  BY AtIs DEF Context
<1>2. step # 1
  BY <1>1, ScriptsAre
<1>3. /\ UNCHANGED <<answered, result, program, packet, arrived, csent, cgot, cexit>>
      /\ Finished' = Finished
  BY DEF serverVars, Finished
<1>4. step' = step /\ cpc' = "give_up" /\ ~Live' /\ cexit = 0
  BY <1>1 DEF Fails, Live, OutcomeInv
<1> QED
  BY <1>1, <1>2, <1>3, <1>4 DEF OutcomeInv

(* The process is killed.                                                  *)
LEMMA KilledClient ==
  ASSUME OutcomeInv, Context, cpc \in {"running", "give_up"}, cpc' = "killed", HangUp,
         UNCHANGED <<serverVars, packet, arrived, program, step, cconnected, csent, cgot, cexit>>
  PROVE  OutcomeInv'
<1>1. UNCHANGED <<answered, program, packet, step, cconnected, csent, cgot, cexit>>
  BY DEF serverVars
<1>2. ~Live' /\ ~Failed' /\ cexit = 0
  BY DEF Live, Failed, OutcomeInv
<1>3. peer' = "away" <=> peer = "away"
  BY HangUpGives
<1> QED
  BY <1>1, <1>2, <1>3 DEF OutcomeInv

(* The client's steps keep what is known of its outcome.                   *)
LEMMA ClientKeepsOutcome ==
  ASSUME OutcomeInv, Context, ClientStep
  PROVE  OutcomeInv'
<1>1. /\ UNCHANGED serverVars
      /\ UNCHANGED <<answered, result>> /\ Finished' = Finished
      /\ cpc \in {"running", "give_up"} => cexit = 0
  BY DEF ClientStep, ClientProceeds, serverVars, Finished, OutcomeInv
<1>2. packet # "huge"
  BY DEF OutcomeInv, Request, Context, PeerInv
<1>3. peer # "away" /\ Down => Finished
  BY DownIsFinished DEF Context
<1>4. ASSUME NEW call, At(call), call # "connect"
      PROVE  /\ program \in Programs /\ step \in 1..Len(Script[program]) /\ step \in Nat
             /\ Script[program][step] = call /\ cpc = "running"
             /\ step # 1 /\ peer # "away"
  <2>1. /\ program \in Programs /\ step \in 1..Len(Script[program]) /\ step \in Nat
        /\ Script[program][step] = call /\ cpc = "running"
    BY <1>4, AtIs DEF Context
  <2>2. step # 1
    BY <1>4, <2>1, ScriptsAre
  <2> QED
    BY <2>1, <2>2 DEF OutcomeInv
<1>5. ASSUME At("send")
      PROVE  /\ step = 2 /\ peer = "open" /\ program \notin Silent /\ csent < 2
             /\ result # "ConnectionClosed" /\ answered = NoAnswer
             /\ Down => Finished
  <2>1. step = 2 /\ program \notin Silent /\ cpc = "running" /\ peer # "away"
    BY <1>4, <1>5, ScriptsAre, CallsAre
  <2>2. peer = "open" /\ csent < 2
    BY <2>1 DEF OutcomeInv, Context, PeerInv
  <2>3. arrived < 2
    BY <2>2 DEF Context, PeerInv
  <2> QED
    BY <1>3, <2>1, <2>2, <2>3 DEF Context, AnswerInv
<1>6. ASSUME At("receive"), Down, answered = NoAnswer
      PROVE  Finished /\ result # "ConnectionClosed" /\ program \in Receivers
  <2>1. /\ program \in Programs /\ step \in Nat /\ cpc = "running" /\ peer # "away"
        /\ program \in Receivers /\ step = ReceiveStep
    BY <1>4, <1>6, CallsAre DEF ReceiveStep
  <2>2. peer = "open" \/ csent = 2
    BY <2>1 DEF OutcomeInv, ReceiveStep
  <2>3. peer = "open" => result # "ConnectionClosed"
    BY DEF Context, AnswerInv
  <2>4. csent = 2 => result # "ConnectionClosed"
    BY <1>2, <2>1 DEF OutcomeInv, Context, AnswerInv
  <2> QED
    BY <1>3, <1>6, <2>1, <2>2, <2>3, <2>4
<1>7. CASE ClientConnects
  <2>1. /\ step \in 1..Len(Script[program]) /\ program \in Programs
        /\ Script[program][step] = "connect" /\ cpc = "running" /\ step \in Nat
    BY <1>7, AtIs DEF ClientConnects, Context
  <2>2. step = 1
    BY <2>1, ScriptsAre
  <2>3. /\ step' = 2 /\ cpc' = "running" /\ peer' = "open" /\ ~Failed' /\ cexit = 0
        /\ UNCHANGED <<packet, arrived, program, csent, cgot, cexit>>
    BY <1>1, <1>7, <2>1, <2>2 DEF ClientConnects, PeerConnects, Proceeds, Failed
  <2>4. ReceiveStep' \in {3, 4}
    BY DEF ReceiveStep
  <2> QED
    BY <1>1, <2>1, <2>2, <2>3, <2>4 DEF OutcomeInv, Lingering
<1>8. CASE ConnectFails
  <2>1. /\ step \in 1..Len(Script[program]) /\ program \in Programs
        /\ Script[program][step] = "connect" /\ cpc = "running" /\ step \in Nat
    BY <1>8, AtIs DEF ConnectFails, Context
  <2>2. step = 1
    BY <2>1, ScriptsAre
  <2>3. /\ cpc' = "exited" /\ cexit' = 1 /\ ~Live'
        /\ UNCHANGED <<peer, packet, arrived, program, step, cconnected, csent, cgot>>
    BY <1>8 DEF ConnectFails, peerVars, Live
  <2> QED
    BY <1>1, <2>1, <2>2, <2>3 DEF OutcomeInv
<1>9. CASE ClientSends
  <2>1. /\ csent' \in 1..2 /\ csent \in Nat
        /\ UNCHANGED <<peer, packet, program, cconnected, cgot, cexit>>
        /\ step = 2 /\ peer = "open" /\ program \notin Silent /\ cpc = "running"
    BY <1>4, <1>5, <1>9 DEF ClientSends, Context, PeerInv
  <2>2. ReceiveStep \in {3, 4} /\ ReceiveStep' = ReceiveStep
    BY <2>1 DEF ReceiveStep
  <2>3. CASE csent' = 2
    <3>1. step' = 3 /\ cpc' = "running" /\ ~Failed'
      BY <1>9, <2>1, <2>3 DEF ClientSends, Proceeds, Failed
    <3>2. arrived' = 2 \/ Finished
      BY <1>5, <1>9, <2>3 DEF ClientSends, Arrives
    <3>3. result # "ConnectionClosed"
      BY <1>5, <1>9 DEF ClientSends
    <3> QED
      BY <1>1, <2>1, <2>2, <2>3, <3>1, <3>2, <3>3 DEF OutcomeInv, Lingering
  <2>4. CASE csent' = 1
    <3>1. /\ step' = 2
          /\ cpc' = "running" \/ (cpc' = "give_up" /\ program = "response_send_failure")
      BY <1>9, <2>1, <2>4 DEF ClientSends
    <3>2. Failed' => program \notin Receivers
      BY <2>1, <3>1 DEF Failed, Receivers
    <3> QED
      BY <1>1, <2>1, <2>2, <2>4, <3>1, <3>2 DEF OutcomeInv, Lingering
  <2> QED
    BY <2>1, <2>3, <2>4
<1>10. CASE ClientSendFails
  <2>1. /\ UNCHANGED <<packet, arrived, program, csent, cgot, cexit>>
        /\ peer' = peer /\ peer = "open" /\ At("send") /\ Down /\ Fails
        /\ answered = NoAnswer /\ result # "ConnectionClosed"
    BY <1>5, <1>10 DEF ClientSendFails, peerVars
  <2> QED
    BY <1>1, <1>3, <2>1, FailedCall
<1>11. CASE ClientSendKills
  BY <1>1, <1>4, <1>11, KilledClient DEF ClientSendKills
<1>12. CASE ClientKilled
  BY <1>1, <1>12, KilledClient DEF ClientKilled, ClientOver, Context, PeerInv
<1>13. CASE HalfClose
  <2>1. /\ step = 3 /\ program = "dispatch_failure" /\ cpc = "running"
        /\ UNCHANGED <<packet, arrived, program, cconnected, csent, cgot, cexit>>
        /\ peer' \in {peer, "closed"}
    BY <1>4, <1>13, ScriptsAre DEF HalfClose
  <2>2. step' = 4 /\ cpc' = "running" /\ ~Failed' /\ csent = 2 /\ peer' # "away"
        /\ ReceiveStep' = 4
    BY <1>13, <2>1 DEF HalfClose, Proceeds, Failed, OutcomeInv, Silent, ReceiveStep
  <2> QED
    BY <1>1, <2>1, <2>2 DEF OutcomeInv, Lingering
<1>14. CASE ClientReceives
  <2>1. peer' # "away" /\ peer' = peer /\ cpc = "running"
    BY <1>4, <1>14 DEF ClientReceives, peerVars
  <2>2. program = "shutdown_client" => peer' # "reset"
    BY <2>1 DEF OutcomeInv
  <2> QED
    BY <1>1, <1>14, <2>1, <2>2, LaterCall DEF ClientReceives, peerVars
<1>15. CASE ServerClosed
  <2>1. At("receive") /\ Down /\ answered = NoAnswer /\ cpc = "running" /\ peer # "away"
    BY <1>4, <1>15 DEF ServerClosed
  <2>2. peer' = peer \/ HangUp
    BY <1>15 DEF ServerClosed
  <2>3. peer' # "away" /\ (program = "shutdown_client" => peer' # "reset")
    BY <2>1, <2>2, HangUpGives DEF OutcomeInv
  <2> QED
    BY <1>1, <1>6, <1>15, <2>1, <2>3, FailedCall DEF ServerClosed
<1>16. CASE ClientReceiveFails
  <2>1. At("receive") /\ Down /\ answered = NoAnswer /\ cpc = "running" /\ peer # "away"
    BY <1>4, <1>16 DEF ClientReceiveFails
  <2>2. peer' = peer /\ (program = "shutdown_client" => peer' # "reset")
    BY <1>16, <2>1 DEF ClientReceiveFails, peerVars, OutcomeInv
  <2> QED
    BY <1>1, <1>6, <1>16, <2>1, <2>2, FailedCall DEF ClientReceiveFails, peerVars
<1>17. CASE ConnectionEnds
  <2>1. At("end") /\ cpc = "running" /\ peer # "away" /\ HangUp
        /\ program \notin Lingering
    BY <1>4, <1>17, CallsAre DEF ConnectionEnds, Lingering, Receivers
  <2>2. peer' # "away" /\ (program = "shutdown_client" => peer' # "reset")
    BY <2>1, HangUpGives
  <2> QED
    BY <1>1, <1>17, <2>1, <2>2, LaterCall DEF ConnectionEnds
<1>18. CASE ClientDisconnects
  <2>1. /\ At("disconnect") /\ cpc = "running" /\ peer # "away" /\ HangUp
        /\ program \in Programs /\ step \in Nat /\ step \in 1..Len(Script[program])
        /\ Script[program][step] = "disconnect"
    BY <1>4, <1>18 DEF ClientDisconnects
  <2>2. program \in Lingering => Lingers /\ Live
    <3> SUFFICES ASSUME program \in Lingering PROVE Lingers
      BY <2>1 DEF Live
    <3>1. step - 1 \in 1..Len(Script[program]) /\ Script[program][step - 1] = "linger"
      BY <2>1, CallsAre
    <3> QED
      BY <2>1, <3>1 DEF Lingers
  <2>3. /\ peer' # "away" /\ (program = "shutdown_client" => peer' # "reset")
        /\ program \in Lingering => peer' = peer \/ peer' = "reset"
    BY <2>1, <2>2, HangUpGives
  <2> QED
    BY <1>1, <1>18, <2>1, <2>3, LaterCall DEF ClientDisconnects
<1>19. CASE SetLinger \/ ClientEnter \/ CallAfterDisconnect
  <2>1. PICK call \in {"linger", "enter", "call"} : At(call)
    BY <1>19 DEF SetLinger, ClientEnter, CallAfterDisconnect
  <2>2. /\ UNCHANGED <<peer, packet, arrived, program, csent, cgot, cexit>> /\ Proceeds
        /\ cpc = "running" /\ peer # "away"
    BY <1>4, <1>19, <2>1 DEF SetLinger, ClientEnter, CallAfterDisconnect, peerVars
  <2>3. program = "shutdown_client" => peer' # "reset"
    BY <2>2 DEF OutcomeInv
  <2> QED
    BY <1>1, <2>1, <2>2, <2>3, LaterCall
<1>20. CASE LingerFails
  <2>1. /\ UNCHANGED <<peer, packet, arrived, program, csent, cgot, cexit>> /\ Fails
        /\ At("linger") /\ cpc = "running" /\ peer # "away"
        /\ program \notin Receivers
    BY <1>4, <1>20, CallsAre DEF LingerFails, peerVars
  <2>2. program = "shutdown_client" => peer' # "reset"
    BY <2>1 DEF OutcomeInv
  <2> QED
    BY <1>1, <2>1, <2>2, FailedCall
<1>21. CASE Check
  <2>1. /\ UNCHANGED <<peer, packet, arrived, program, csent, cgot, cexit>>
        /\ At("check") /\ cpc = "running" /\ peer # "away" /\ step > 3 /\ step \in Nat
        /\ program \in {"integration_success", "dispatch_failure", "protocol_error"}
    BY <1>4, <1>21, CallsAre DEF Check, peerVars
  <2>2. step > ReceiveStep /\ Live /\ program \in Receivers
    <3>1. program = "dispatch_failure" => step # 4
      BY <1>4, <2>1, CallsAre DEF Receivers
    <3> QED
      BY <2>1, <3>1 DEF ReceiveStep, Live, Receivers
  <2>3. answered # NoAnswer /\ cgot = answered
    BY <2>2 DEF OutcomeInv
  <2>4. cgot = Expected[program]
    <3>1. packet = Request[program] /\ program \in Programs
      BY <1>4, <2>1 DEF OutcomeInv
    <3>2. \/ result = "Success" /\ answered = Dispatch(packet) /\ DecodeError(packet) = "none"
          \/ /\ result = "ProtocolError" /\ answered = ErrorAnswer(protocolError)
             /\ protocolError = DecodeError(packet) /\ protocolError # "none"
      BY <2>3 DEF Context, AnswerInv
    <3>3. CASE program = "integration_success"
      <4>1. packet = "hello" /\ DecodeError("hello") = "none"
        BY <3>1, <3>3 DEF Request, DecodeError
      <4> QED
        BY <2>3, <3>2, <3>3, <4>1 DEF Expected, Dispatch
    <3>4. CASE program = "dispatch_failure"
      <4>1. packet = "other_opcode" /\ DecodeError("other_opcode") = "none"
        BY <3>1, <3>4 DEF Request, DecodeError
      <4> QED
        BY <2>3, <3>2, <3>4, <4>1 DEF Expected, Dispatch
    <3>5. CASE program = "protocol_error"
      <4>1. packet = "bad_version" /\ DecodeError("bad_version") = "UnsupportedVersion"
        BY <3>1, <3>5 DEF Request, DecodeError
      <4> QED
        BY <2>3, <3>2, <3>5, <4>1 DEF Expected, ErrorAnswer
    <3> QED
      BY <2>1, <3>3, <3>4, <3>5
  <2>5. Proceeds /\ (program = "shutdown_client" => peer' # "reset")
    BY <1>21, <2>1, <2>4 DEF Check, OutcomeInv
  <2> QED
    BY <1>1, <2>1, <2>5, LaterCall
<1>22. CASE GiveUp
  <2>1. /\ cpc = "give_up" /\ cpc' = "exited" /\ cexit' = 1 /\ ~cconnected' /\ HangUp
        /\ UNCHANGED <<packet, arrived, program, step, csent, cgot>>
    BY <1>22 DEF GiveUp
  <2>2. (peer' = "away" <=> peer = "away") /\ (program = "shutdown_client" => peer' # "reset")
    BY <2>1, HangUpGives
  <2>3. Failed /\ ~Live'
    BY <2>1 DEF Failed, Live
  <2> QED
    BY <1>1, <2>1, <2>2, <2>3 DEF OutcomeInv
<1>23. CASE ClientReturns
  <2>1. /\ cpc = "running" /\ cpc' = "exited" /\ step = Len(Script[program]) + 1
        /\ UNCHANGED <<peer, packet, arrived, program, step, cconnected, csent, cgot, cexit>>
    BY <1>23 DEF ClientReturns, peerVars
  <2>2. Live /\ ~Failed' /\ ReceiveStep' = ReceiveStep /\ cexit = 0
    BY <1>1, <2>1 DEF Live, Failed, ReceiveStep
  <2> QED
    BY <1>1, <2>1, <2>2 DEF OutcomeInv
<1> QED
  BY <1>7, <1>8, <1>9, <1>10, <1>11, <1>12, <1>13, <1>14, <1>15, <1>16, <1>17, <1>18, <1>19,
     <1>20, <1>21, <1>22, <1>23 DEF ClientStep, ClientProceeds

(* Every step keeps it.                                                    *)
LEMMA NextOutcome == OutcomeInv /\ Context /\ [ProgramsNext]_allVars => OutcomeInv'
<1> SUFFICES ASSUME OutcomeInv, Context, [ProgramsNext]_allVars PROVE OutcomeInv'
  OBVIOUS
<1>1. CASE UNCHANGED allVars
  <2>1. /\ UNCHANGED <<pc, result, answered, peer, packet, arrived, program, step, cpc,
                       cconnected, csent, cgot, cexit>>
    BY <1>1 DEF allVars, vars, peerVars, clientVars
  <2>2. Finished' = Finished /\ ReceiveStep' = ReceiveStep /\ Live' = Live /\ Failed' = Failed
    BY <2>1 DEF Finished, ReceiveStep, Live, Failed
  <2> QED
    BY <2>1, <2>2 DEF OutcomeInv
<1> QED
  BY <1>1, ServerKeepsOutcome, ClientKeepsOutcome DEF ProgramsNext, BothOver, allVars

(* A program that waits for an answer is one with a receive() in its       *)
(* script; its last call comes after it.                                   *)
LEMMA ReceiversAre ==
  ASSUME NEW p \in Programs
  PROVE  /\ Receives(p) <=> p \in Receivers
         /\ p \in Receivers => Len(Script[p]) + 1 > IF p = "dispatch_failure" THEN 4 ELSE 3
<1> DEFINE Holds(q) == /\ Len(Script[q]) \in Nat /\ DOMAIN Script[q] = 1..Len(Script[q])
                       /\ q \in Receivers => Len(Script[q]) > 4
<1>1. Holds("client_main") /\ Holds("integration_success") /\ Holds("remote_close")
  BY DEF Script, client_main, integration_success, remote_close
<1>2. Holds("shutdown_client") /\ Holds("dispatch_failure") /\ Holds("protocol_error")
  BY DEF Script, shutdown_client, dispatch_failure, protocol_error, Receivers
<1>3. Holds("receive_failure") /\ Holds("response_send_failure") /\ Holds("gap035")
  BY DEF Script, receive_failure, response_send_failure, gap035, Receivers
<1>4. Holds(p)
  <2> HIDE DEF Holds
  <2> QED
    BY <1>1, <1>2, <1>3 DEF Programs, Script
<1>5. ASSUME p \in Receivers PROVE Receives(p)
  <2>1. (IF p = "dispatch_failure" THEN 4 ELSE 3) \in 1..Len(Script[p])
    BY <1>4, <1>5
  <2>2. Script[p][IF p = "dispatch_failure" THEN 4 ELSE 3] = "receive"
    BY <1>5, <2>1, CallsAre
  <2> QED
    BY <1>4, <2>1, <2>2 DEF Receives
<1>6. ASSUME Receives(p) PROVE p \in Receivers
  <2>1. PICK i \in 1..Len(Script[p]) : Script[p][i] = "receive"
    BY <1>4, <1>6 DEF Receives
  <2> QED
    BY <2>1, CallsAre
<1> QED
  BY <1>4, <1>5, <1>6

(* The statuses agree in every such state.                                 *)
LEMMA OutcomeGivesStatuses == OutcomeInv /\ Context => ExitStatusesAgree
<1> SUFFICES ASSUME OutcomeInv, Context, pc = "ended", cpc = "exited", ~shutdownRequested
             PROVE  /\ Receives(program) => /\ cexit = 0 <=> answered # NoAnswer
                                            /\ cexit = 1 => exitCode = 1
                    /\ cexit = 0 /\ acceptOk =>
                         (exitCode = 1 <=> \/ program = "protocol_error"
                                           \/ program \in Lingering /\ answered = NoAnswer)
  BY DEF ExitStatusesAgree, Lingering
<1>1. program \in Programs /\ cexit \in {0, 1} /\ exitCode \in {0, 1}
  BY DEF OutcomeInv, Context, PeerInv, ServerInv
<1>2. exitCode = 0 <=> (result = "Success" /\ answered # NoAnswer) \/ result = "ConnectionClosed"
  BY DEF Context, AnswerInv, Leaving
<1>3. answered # NoAnswer =>
        \/ result = "Success" /\ DecodeError(packet) = "none"
        \/ result = "ProtocolError" /\ DecodeError(packet) # "none"
  BY DEF Context, AnswerInv
<1>4. program = "protocol_error" <=> DecodeError(packet) # "none"
  <2>1. packet = Request[program]
    BY DEF OutcomeInv
  <2> QED
    BY <1>1, <2>1 DEF Request, DecodeError
<1>5. ASSUME cexit = 0, program \in Receivers PROVE answered # NoAnswer
  <2>1. step = Len(Script[program]) + 1 /\ Live
    BY <1>5 DEF OutcomeInv, Live
  <2>2. step > ReceiveStep
    BY <1>1, <1>5, <2>1, ReceiversAre DEF ReceiveStep
  <2> QED
    BY <1>5, <2>1, <2>2 DEF OutcomeInv
<1>6. ASSUME cexit = 1, program \in Receivers
      PROVE  answered = NoAnswer /\ result # "ConnectionClosed"
  <2>1. step = 1 => result = "none"
    BY DEF OutcomeInv, Context, ServerInv
  <2>2. step = 1 \/ (answered = NoAnswer /\ result # "ConnectionClosed")
    BY <1>6 DEF OutcomeInv, Failed
  <2> QED
    BY <1>3, <2>1, <2>2
<1>7. CASE program \in Receivers
  BY <1>1, <1>2, <1>3, <1>4, <1>5, <1>6, <1>7 DEF Lingering, Receivers
<1>8. ASSUME program \notin Receivers PROVE ~Receives(program)
  BY <1>1, <1>8, ReceiversAre
<1>9. ASSUME program \in Lingering, cexit = 0 PROVE result # "ConnectionClosed"
  BY <1>9 DEF OutcomeInv, Live, Context, AnswerInv
<1>10. ASSUME program = "shutdown_client", acceptOk PROVE result = "ConnectionClosed"
  <2>1. result # "none" /\ (result = "SocketError" => peer = "reset") /\ peer # "reset"
    BY <1>10 DEF Context, ServerInv, OutcomeInv, Leaving
  <2>2. arrived = 0
    BY <1>10 DEF OutcomeInv, Silent, Context, PeerInv
  <2> QED
    BY <2>1, <2>2 DEF Context, AnswerInv
<1>11. CASE program \in Lingering
  BY <1>1, <1>2, <1>3, <1>4, <1>8, <1>9, <1>11 DEF Lingering, Receivers
<1>12. CASE program = "shutdown_client"
  BY <1>1, <1>2, <1>8, <1>10, <1>12 DEF Lingering, Receivers
<1> QED
  BY <1>1, <1>7, <1>11, <1>12 DEF Programs, Script, Receivers, Lingering

(* The exit statuses of the two programs agree with each other and with    *)
(* the answer, as the tests of apps/ take them to.                         *)
THEOREM StatusesAgree == ProgramsSpec => []ExitStatusesAgree
<1>1. ProgramsSpec => [](ObjectsInv /\ AnswerInv /\ ServerInv)
  BY ProgramsArePeers, ServerInvHolds, PTL DEF ClientIsAPeer
<1>2. ProgramsInit => PeerInv /\ OutcomeInv
  BY InitPeer, InitOutcome
<1>3. ProgramsSpec => [](PeerInv /\ ObjectsInv /\ AnswerInv /\ ServerInv)
  BY <1>1, <1>2, NextPeer, PTL DEF ProgramsSpec, allVars
<1>4. PeerInv /\ ObjectsInv /\ AnswerInv /\ ServerInv => Context
  BY DEF Context
<1> QED
  BY <1>2, <1>3, <1>4, NextOutcome, OutcomeGivesStatuses, PTL DEF ProgramsSpec, allVars
=============================================================================
