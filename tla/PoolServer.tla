------------------------------ MODULE PoolServer ------------------------------
(***************************************************************************)
(* The program of src/Version1/src/Server.cpp: main() accepts connections  *)
(* and hands each to the thread pool as a task; the task, processClient(), *)
(* answers the requests of its client until the client is gone.  The pool  *)
(* is used through its specification TaskPool, which ThreadPool implements.*)
(*                                                                         *)
(* A client is any TCP peer.  It sends messages, and it may close its      *)
(* socket or abort the connection at any time.  One recv() takes what has  *)
(* arrived: one message or several.  accept() may fail; main() does not    *)
(* look at its result, so that the descriptor -1 becomes a task.           *)
(***************************************************************************)
EXTENDS Naturals, Sequences, FiniteSets, Functions

CONSTANTS
  Clients,        \* the clients, one connection each
  FailedAccepts,  \* the calls of accept() that return -1
  MaxQueueSize,   \* the limit of the pool's queue
  ThreadCount,    \* the number of workers of the pool
  MaxMessages,    \* bound: how many messages a client sends
  Nothing         \* no connection in the hands of main()

ASSUME TokenAssumption == Clients \cap FailedAccepts = {} /\ Nothing \notin Clients \cup FailedAccepts

Tasks == Clients \cup FailedAccepts

VARIABLES
  queue, running, done, refused, phase,  \* see TaskPool
  main,            \* where main() is in its loop
  incoming,        \* clientSocket in main()
  link,            \* the descriptor of each client's connection in the server
  peer,            \* each client's side of its connection
  sent,            \* how many messages each client has sent
  unread,          \* how many of them recv() has not taken
  handler,         \* where processClient() is, for each client
  requestId,       \* requestId in this turn of processClient()'s loop, or 0
  requestCounter,  \* the member of the pool
  replies,         \* what has been sent to each client while it was there
  killed           \* SIGPIPE has ended the process

poolVars == <<queue, running, done, refused, phase>>
vars == <<poolVars, main, incoming, link, peer, sent, unread, handler, requestId,
          requestCounter, replies, killed>>

Pool == INSTANCE TaskPool WITH Capacity <- MaxQueueSize, Parallelism <- ThreadCount

\* The message "Server busy. Try later": not a reply with a request number.
Busy == 0

Init ==
  /\ Pool!Init
  /\ main = "accept" /\ incoming = Nothing
  /\ link = [c \in Clients |-> "none"]
  /\ peer = [c \in Clients |-> "away"]
  /\ sent = [c \in Clients |-> 0]
  /\ unread = [c \in Clients |-> 0]
  /\ handler = [c \in Tasks |-> "none"]
  /\ requestId = [c \in Clients |-> 0]
  /\ requestCounter = 0
  /\ replies = [c \in Clients |-> <<>>]
  /\ killed = FALSE

-----------------------------------------------------------------------------
(* send() on the connection of c, its result ignored.  A client that has   *)
(* closed answers data with a reset, before or after the next send().  The *)
(* first send() after an abort fails; any send() to a connection whose     *)
(* reset is known raises SIGPIPE.                                          *)
Send(c, message) ==
  /\ replies' = IF peer[c] = "open" THEN [replies EXCEPT ![c] = Append(@, message)]
                ELSE replies
  /\ \/ peer[c] = "open" /\ peer' = peer
     \/ peer[c] = "closed" /\ \E p \in {"closed", "reset"} : peer' = [peer EXCEPT ![c] = p]
     \/ peer[c] = "aborted" /\ peer' = [peer EXCEPT ![c] = "reset"]
     \/ peer[c] = "reset" /\ peer' = peer
  /\ killed' = (peer[c] = "reset")

-----------------------------------------------------------------------------
(* main().                                                                 *)

\* accept() takes a connection that is established, whatever its peer did since.
AcceptClient(c) ==
  /\ ~killed /\ main = "accept"
  /\ peer[c] # "away" /\ link[c] = "none"
  /\ incoming' = c
  /\ link' = [link EXCEPT ![c] = "open"]
  /\ main' = "enqueue"
  /\ UNCHANGED <<poolVars, peer, sent, unread, handler, requestId, requestCounter,
                 replies, killed>>

AcceptFails(x) ==
  /\ ~killed /\ main = "accept"
  /\ x \notin Range(queue) \cup running \cup done \cup refused
  /\ incoming' = x
  /\ main' = "enqueue"
  /\ UNCHANGED <<poolVars, link, peer, sent, unread, handler, requestId, requestCounter,
                 replies, killed>>

\* Fault: the result of enqueue() is not looked at.
BusyAnyway ==
  /\ ~killed /\ main = "enqueue"
  /\ Pool!Accept(incoming)
  /\ main' = "busy"
  /\ UNCHANGED <<incoming, link, peer, sent, unread, handler, requestId, requestCounter,
                 replies, killed>>

EnqueueAccepted ==
  /\ ~killed /\ main = "enqueue"
  /\ Pool!Accept(incoming)
  /\ incoming' = Nothing
  /\ main' = "accept"
  /\ UNCHANGED <<link, peer, sent, unread, handler, requestId, requestCounter,
                 replies, killed>>

\* Fault: the refused client is not told.
RefuseSilently ==
  /\ ~killed /\ main = "enqueue"
  /\ Pool!Refuse(incoming)
  /\ main' = "close"
  /\ UNCHANGED <<incoming, link, peer, sent, unread, handler, requestId, requestCounter,
                 replies, killed>>

EnqueueRefused ==
  /\ ~killed /\ main = "enqueue"
  /\ Pool!Refuse(incoming)
  /\ main' = "busy"
  /\ UNCHANGED <<incoming, link, peer, sent, unread, handler, requestId, requestCounter,
                 replies, killed>>

\* send() and close() of the descriptor -1 only fail.
SendBusy ==
  /\ ~killed /\ main = "busy"
  /\ IF incoming \in Clients THEN Send(incoming, Busy) ELSE UNCHANGED <<replies, peer, killed>>
  /\ main' = "close"
  /\ UNCHANGED <<poolVars, incoming, link, sent, unread, handler, requestId, requestCounter>>

\* Fault: the refused connection is not closed.
ForgetRefused ==
  /\ ~killed /\ main = "close"
  /\ incoming' = Nothing
  /\ main' = "accept"
  /\ UNCHANGED <<poolVars, link, peer, sent, unread, handler, requestId, requestCounter,
                 replies, killed>>

CloseRefused ==
  /\ ~killed /\ main = "close"
  /\ link' = IF incoming \in Clients THEN [link EXCEPT ![incoming] = "closed"] ELSE link
  /\ incoming' = Nothing
  /\ main' = "accept"
  /\ UNCHANGED <<poolVars, peer, sent, unread, handler, requestId, requestCounter,
                 replies, killed>>

Main == EnqueueAccepted \/ EnqueueRefused \/ SendBusy \/ CloseRefused

-----------------------------------------------------------------------------
(* processClient().                                                        *)

\* A worker takes the oldest task and calls processClient().
StartHandler ==
  /\ ~killed
  /\ Pool!Start
  /\ handler' = [handler EXCEPT ![Head(queue)] = "recv"]
  /\ UNCHANGED <<main, incoming, link, peer, sent, unread, requestId, requestCounter,
                 replies, killed>>

Recv(c) ==
  /\ ~killed /\ handler[c] = "recv"
  /\ \E n \in 1..unread[c] : unread' = [unread EXCEPT ![c] = @ - n]
  /\ handler' = [handler EXCEPT ![c] = "number"]
  /\ UNCHANGED <<poolVars, main, incoming, link, peer, sent, requestId, requestCounter,
                 replies, killed>>

\* getRequestNumber(): one atomic increment whose result is kept.
TakeNumber(c) ==
  /\ ~killed /\ handler[c] = "number"
  /\ requestCounter' = requestCounter + 1
  /\ requestId' = [requestId EXCEPT ![c] = requestCounter + 1]
  /\ handler' = [handler EXCEPT ![c] = "send"]
  /\ UNCHANGED <<poolVars, main, incoming, link, peer, sent, unread, replies, killed>>

\* Fault: the response is built from the counter, not from requestId.
SendCounter(c) ==
  /\ ~killed /\ handler[c] = "send"
  /\ Send(c, requestCounter)
  /\ handler' = [handler EXCEPT ![c] = "recv"]
  /\ requestId' = [requestId EXCEPT ![c] = 0]
  /\ UNCHANGED <<poolVars, main, incoming, link, sent, unread, requestCounter>>

\* Fault: every message is answered, also when one recv() took several.
AnswerEach(c) ==
  /\ ~killed /\ handler[c] = "send"
  /\ IF peer[c] = "open"
     THEN replies' = [replies EXCEPT ![c] = @ \o <<requestId[c], requestId[c]>>]
     ELSE replies' = replies
  /\ handler' = [handler EXCEPT ![c] = "recv"]
  /\ requestId' = [requestId EXCEPT ![c] = 0]
  /\ UNCHANGED <<poolVars, main, incoming, link, peer, sent, unread, requestCounter, killed>>

\* Fault: the response may be sent in several parts.
ReplyInParts(c) ==
  /\ ~killed /\ handler[c] = "send"
  /\ Len(replies[c]) < 3
  /\ Send(c, requestId[c])
  /\ \/ handler' = handler /\ requestId' = requestId
     \/ /\ handler' = [handler EXCEPT ![c] = "recv"]
        /\ requestId' = [requestId EXCEPT ![c] = 0]
  /\ UNCHANGED <<poolVars, main, incoming, link, sent, unread, requestCounter>>

SendReply(c) ==
  /\ ~killed /\ handler[c] = "send"
  /\ Send(c, requestId[c])
  /\ handler' = [handler EXCEPT ![c] = "recv"]
  /\ requestId' = [requestId EXCEPT ![c] = 0]
  /\ UNCHANGED <<poolVars, main, incoming, link, sent, unread, requestCounter>>

\* recv() returns 0 or -1: the client's descriptor is closed, the task ends.
Gone(c) == IF c \in FailedAccepts THEN TRUE ELSE peer[c] # "open" /\ unread[c] = 0

EndHandler(c) ==
  /\ ~killed /\ handler[c] = "recv"
  /\ Gone(c)
  /\ Pool!Finish(c)
  /\ handler' = [handler EXCEPT ![c] = "none"]
  /\ link' = IF c \in Clients THEN [link EXCEPT ![c] = "closed"] ELSE link
  /\ UNCHANGED <<main, incoming, peer, sent, unread, requestId, requestCounter,
                 replies, killed>>

HandlerStep(c) == Recv(c) \/ TakeNumber(c) \/ SendReply(c)

-----------------------------------------------------------------------------
(* The clients, until the server has closed their connection.              *)

ClientConnects(c) ==
  /\ ~killed /\ peer[c] = "away"
  /\ peer' = [peer EXCEPT ![c] = "open"]
  /\ UNCHANGED <<sent, unread>>

ClientSends(c) ==
  /\ peer[c] = "open" /\ link[c] # "closed"
  /\ sent[c] < MaxMessages
  /\ sent' = [sent EXCEPT ![c] = @ + 1]
  /\ unread' = [unread EXCEPT ![c] = @ + 1]
  /\ UNCHANGED peer

ClientLeaves(c) ==
  /\ peer[c] = "open" /\ link[c] # "closed"
  /\ \E p \in {"closed", "aborted"} : peer' = [peer EXCEPT ![c] = p]
  /\ UNCHANGED <<sent, unread>>

Client(c) ==
  /\ ClientConnects(c) \/ ClientSends(c) \/ ClientLeaves(c)
  /\ UNCHANGED <<poolVars, main, incoming, link, handler, requestId, requestCounter,
                 replies, killed>>

-----------------------------------------------------------------------------
\* The process is dead, or main() waits in accept() and every handler is done.
Rest == (killed \/ (main = "accept" /\ queue = <<>> /\ running = {})) /\ UNCHANGED vars

Next ==
  \/ \E c \in Clients : AcceptClient(c) \/ HandlerStep(c) \/ Client(c)
  \/ \E x \in FailedAccepts : AcceptFails(x)
  \/ \E c \in Tasks : EndHandler(c)
  \/ Main \/ StartHandler \/ Rest

Spec == Init /\ [][Next]_vars

-----------------------------------------------------------------------------
(* Properties.                                                             *)

(* An accepted connection is in one hand: main() holds it, or the queue,   *)
(* or one handler; its descriptor is open exactly as long, so none is      *)
(* leaked and none is closed under a handler.                              *)
OneHand ==
  \A c \in Clients :
    LET hands == {h \in {"main", "queue", "handler"} :
                    \/ h = "main" /\ incoming = c
                    \/ h = "queue" /\ c \in Range(queue)
                    \/ h = "handler" /\ c \in running}
    IN  IF main = "enqueue" \/ c # incoming
        THEN Cardinality(hands) = IF link[c] = "open" THEN 1 ELSE 0
        ELSE hands = {"main"} /\ link[c] = "open"

(* Request numbers are never given twice, to one client or to two, and a   *)
(* client sees its own grow: the counter is incremented by several threads *)
(* at the same time.                                                       *)
Numbers(c) == {i \in DOMAIN replies[c] : replies[c][i] # Busy}

RequestNumbersUnique ==
  /\ \A c, d \in Clients : \A i \in Numbers(c), j \in Numbers(d) :
        replies[c][i] = replies[d][j] => c = d /\ i = j
  /\ \A c \in Clients : \A i, j \in Numbers(c) : i < j => replies[c][i] < replies[c][j]

(* A client gets no more replies than it sent messages; the messages that  *)
(* one recv() took together get one.                                       *)
NoUnaskedReply ==
  \A c \in Clients \ refused :
    Len(replies[c]) + unread[c] + (IF handler[c] \in {"number", "send"} THEN 1 ELSE 0) <= sent[c]

(* "Server busy" goes to a refused client, as its only reply, before its   *)
(* connection is closed; a refused client is never handled.                *)
BusyIsFinal ==
  \A c \in Clients :
    /\ Busy \in Range(replies[c]) => c \in refused
    /\ c \in refused => Len(replies[c]) <= 1 /\ handler[c] = "none" /\ c \notin done
    /\ c \in refused /\ main = "accept" => link[c] = "closed"
=============================================================================
