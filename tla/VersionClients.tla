---------------------------- MODULE VersionClients ----------------------------
(***************************************************************************)
(* The two clients of the thread-pool server, src/Version1/src/Client.cpp  *)
(* and src/Version_2/src/Client.cpp, as the clients of PoolServer.  Each   *)
(* connects, sends one message, reads one answer and closes.  The first    *)
(* looks at no result; the second looks at all of them and sends in a      *)
(* loop, so that its message may go out in pieces.  A client's process may *)
(* be killed at any time.                                                  *)
(***************************************************************************)
EXTENDS PoolServer

VARIABLES
  version,  \* which program each client is
  cpc,      \* where it is: "ended" by its main(), "crashed" or "killed"
  outcome   \* what its read() or recv() returned: "answer", "closed" or "error"

clientVars == <<version, cpc, outcome>>
serverVars == <<poolVars, main, incoming, link, handler, requestId, requestCounter,
                replies, killed>>

ClientsInit ==
  /\ Init
  /\ version \in [Clients -> {"Version1", "Version_2"}]
  /\ cpc = [c \in Clients |-> "connect"]
  /\ outcome = [c \in Clients |-> "none"]

At(c, place) == cpc[c] = place
Goto(c, place) == cpc' = [cpc EXCEPT ![c] = place]

ClientOver(c) == cpc[c] \in {"ended", "crashed", "killed"}

\* The server's end of the connection is closed.
Down(c) == killed \/ link[c] = "closed"

\* The client's socket is closed, which is a reset when an answer is unread; the
\* server no longer sees it when it has closed its own end.
HangUp(c) ==
  LET taken == IF outcome[c] = "answer" THEN 1 ELSE 0
  IN  peer' = IF peer[c] # "open" \/ Down(c) THEN peer
              ELSE [peer EXCEPT ![c] = IF Len(replies[c]) > taken THEN "aborted" ELSE "closed"]

-----------------------------------------------------------------------------
Connects(c) ==
  /\ At(c, "connect")
  /\ ClientConnects(c)
  /\ Goto(c, "send")
  /\ UNCHANGED <<version, outcome>>

\* Version_2 returns EXIT_FAILURE; Version1 goes on to send() on a socket that is
\* not connected: SIGPIPE.
ConnectFails(c) ==
  /\ At(c, "connect")
  /\ Goto(c, IF version[c] = "Version1" THEN "killed" ELSE "ended")
  /\ UNCHANGED <<peer, sent, unread, version, outcome>>

\* One send(2).  Version1 calls it once; in Version_2 what it took may be a piece
\* of the message.  What is sent to a closed end vanishes.
Sends(c) ==
  /\ At(c, "send")
  /\ IF Down(c) THEN UNCHANGED <<peer, sent, unread>> ELSE ClientSends(c)
  /\ \/ Goto(c, "receive")
     \/ version[c] = "Version_2" /\ sent'[c] < MaxMessages /\ ~Down(c) /\ cpc' = cpc
  /\ UNCHANGED <<version, outcome>>

\* send(2) reports a reset: Version_2 closes and returns EXIT_FAILURE.
SendFails(c) ==
  /\ At(c, "send") /\ Down(c)
  /\ version[c] = "Version_2"
  /\ Goto(c, "ended")
  /\ HangUp(c)
  /\ UNCHANGED <<sent, unread, version, outcome>>

\* A further piece meets the reset that answered the one before: SIGPIPE.
SendKills(c) ==
  /\ At(c, "send") /\ Down(c)
  /\ version[c] = "Version_2" /\ sent[c] > 0
  /\ Goto(c, "killed")
  /\ HangUp(c)
  /\ UNCHANGED <<sent, unread, version, outcome>>

\* Fault: the client waits until there is an answer for each send().
WaitsForEach(c) ==
  /\ At(c, "receive") /\ Len(replies[c]) >= sent[c] /\ replies[c] # <<>>
  /\ outcome' = [outcome EXCEPT ![c] = "answer"]
  /\ Goto(c, "close")
  /\ UNCHANGED <<peer, sent, unread, version>>

\* The first answer, also when the server has closed or reset since.
Receives(c) ==
  /\ At(c, "receive") /\ replies[c] # <<>>
  /\ outcome' = [outcome EXCEPT ![c] = "answer"]
  /\ Goto(c, "close")
  /\ UNCHANGED <<peer, sent, unread, version>>

\* recv() returns 0: both print what they have and close.
ServerClosed(c) ==
  /\ At(c, "receive") /\ Down(c) /\ replies[c] = <<>>
  /\ outcome' = [outcome EXCEPT ![c] = "closed"]
  /\ Goto(c, "close")
  /\ UNCHANGED <<peer, sent, unread, version>>

\* recv() returns -1.  Version1 makes a string of that length, which throws;
\* Version_2 closes and returns EXIT_FAILURE.
ReceiveFails(c) ==
  /\ At(c, "receive") /\ Down(c) /\ replies[c] = <<>>
  /\ outcome' = [outcome EXCEPT ![c] = "error"]
  /\ Goto(c, IF version[c] = "Version1" THEN "crashed" ELSE "ended")
  /\ HangUp(c)
  /\ UNCHANGED <<sent, unread, version>>

Closes(c) ==
  /\ At(c, "close")
  /\ Goto(c, "ended")
  /\ HangUp(c)
  /\ UNCHANGED <<sent, unread, version, outcome>>

\* The user ends the process.
ClientKilled(c) ==
  /\ ~ClientOver(c)
  /\ Goto(c, "killed")
  /\ HangUp(c)
  /\ UNCHANGED <<sent, unread, version, outcome>>

-----------------------------------------------------------------------------
\* The steps a client takes by itself once it has begun.
ClientProceeds(c) ==
  /\ \/ Sends(c) \/ SendFails(c) \/ SendKills(c) \/ Receives(c)
     \/ ServerClosed(c) \/ ReceiveFails(c) \/ Closes(c)
  /\ UNCHANGED serverVars

ClientStep(c) ==
  \/ ClientProceeds(c)
  \/ (Connects(c) \/ ConnectFails(c) \/ ClientKilled(c)) /\ UNCHANGED serverVars

\* The server takes the same steps as in PoolServer.
ServerStep ==
  /\ \/ \E c \in Clients : AcceptClient(c) \/ HandlerStep(c)
     \/ \E x \in FailedAccepts : AcceptFails(x)
     \/ \E c \in Tasks : EndHandler(c)
     \/ Main \/ StartHandler \/ Rest
  /\ UNCHANGED clientVars

ClientsNext == ServerStep \/ \E c \in Clients : ClientStep(c)

clientsAndServer == <<vars, clientVars>>

\* The server's process, its threads and the clients' processes are scheduled.
\* accept() takes the waiting connections in their order, so that none waits for
\* ever while others are taken.
ClientsSpec ==
  /\ ClientsInit /\ [][ClientsNext]_clientsAndServer
  /\ WF_clientsAndServer(Main /\ UNCHANGED clientVars)
  /\ WF_clientsAndServer(StartHandler /\ UNCHANGED clientVars)
  /\ \A c \in Tasks : WF_clientsAndServer(EndHandler(c) /\ UNCHANGED clientVars)
  /\ \A c \in Clients :
       /\ WF_clientsAndServer(HandlerStep(c) /\ UNCHANGED clientVars)
       /\ SF_clientsAndServer(AcceptClient(c) /\ UNCHANGED clientVars)
       /\ WF_clientsAndServer(ClientProceeds(c))

-----------------------------------------------------------------------------
(* Properties.                                                             *)

(* Nobody is left over: every connection that is accepted is closed, the    *)
(* queued, the refused and the failed ones included, and no client waits    *)
(* for ever for its answer, although a worker serves one client until it    *)
(* leaves, and although any client may be killed.  Only SIGPIPE can end the *)
(* server before that.                                                      *)
EveryConnectionEnds ==
  \A c \in Clients :
    /\ link[c] = "open" ~> link[c] = "closed" \/ killed
    /\ At(c, "receive") ~> ~At(c, "receive")

(* Clients that send their message whole cannot end the server, whenever   *)
(* they close or are killed: one reply, or one refusal, is not enough for  *)
(* SIGPIPE (Server.cpp 204, 301: send() without MSG_NOSIGNAL).             *)
ServerSurvives == killed => \E c \in Clients : sent[c] > 1

(* A client that ran to its end over its connection has an answer, the     *)
(* reply or the refusal, as long as the server lives; the one exception is *)
(* a client refused while it is still sending.  Version1 reads -1, and     *)
(* crashes on it (Client.cpp 64), only when the server is dead.            *)
EveryoneIsAnswered ==
  \A c \in Clients :
    /\ cpc[c] = "ended" /\ peer[c] # "away" /\ outcome[c] # "answer" =>
         killed \/ (c \in refused /\ version[c] = "Version_2")
    /\ cpc[c] = "crashed" => killed
=============================================================================
