--------------------------- MODULE PoolServer_proofs ---------------------------
(***************************************************************************)
(* Proofs about PoolServer and about its client programs, VersionClients,  *)
(* for any number of clients and failed accepts, any size of the pool and  *)
(* any number of messages.                                                 *)
(*                                                                         *)
(* Four invariants of the server.  On the first, where each connection is  *)
(* and who may close it (HandsInv), stand the others: how much has been    *)
(* sent to it (AccountInv), the request numbers given so far (NumberInv),  *)
(* and what its peer can rely on (PeerInv).                                *)
(***************************************************************************)
EXTENDS VersionClients, SequenceTheorems, FiniteSetTheorems, TLAPS

TypeOK ==
  /\ queue \in Seq(Tasks)
  /\ running \subseteq Tasks /\ done \subseteq Tasks /\ refused \subseteq Tasks
  /\ phase = "open"
  /\ main \in {"accept", "enqueue", "busy", "close"}
  /\ incoming \in Tasks \cup {Nothing}
  /\ link \in [Clients -> {"none", "open", "closed"}]
  /\ peer \in [Clients -> {"away", "open", "closed", "aborted", "reset"}]
  /\ sent \in [Clients -> Nat] /\ unread \in [Clients -> Nat]
  /\ handler \in [Tasks -> {"none", "recv", "number", "send"}]
  /\ requestId \in [Clients -> Nat]
  /\ requestCounter \in Nat
  /\ replies \in [Clients -> Seq(Nat)]
  /\ killed \in BOOLEAN

\* The queue, the running tasks, the finished and the refused ones are apart.
Apart ==
  /\ IsInjective(queue)
  /\ \A t \in Tasks :
       /\ t \in Range(queue) => t \notin running \cup done \cup refused
       /\ t \in running => t \notin done \cup refused
       /\ t \in done => t \notin refused

\* main() has a connection in its hands between accept() and the end of its turn.
MainHolds ==
  /\ incoming = Nothing <=> main = "accept"
  /\ main = "enqueue" => incoming \notin Range(queue) \cup running \cup done \cup refused
  /\ main \in {"busy", "close"} => incoming \in refused

\* What the descriptor of a connection is, from where its task is.
LinkFollows ==
  \A c \in Clients :
    /\ link[c] = "none" <=>
         c \notin Range(queue) \cup running \cup done \cup refused \cup {incoming}
    /\ link[c] = "closed" <=> c \in done \/ (c \in refused /\ c # incoming)

HandlersRun == \A t \in Tasks : handler[t] # "none" <=> t \in running

HandsInv == TypeOK /\ Apart /\ MainHolds /\ LinkFollows /\ HandlersRun

-----------------------------------------------------------------------------
Pending(c) == IF handler[c] \in {"number", "send"} THEN 1 ELSE 0

Reset(c) == IF peer[c] = "reset" THEN 1 ELSE 0

\* The replies that a client has received, and the one that found it gone.
Sent(c) == Len(replies[c]) + Reset(c)

Account(c) ==
  /\ c \notin refused => Sent(c) + unread[c] + Pending(c) <= sent[c]
  /\ c \notin running \cup done \cup refused => Sent(c) = 0
  /\ c \in refused => Sent(c) <= 1
  /\ c = incoming /\ main = "busy" => Sent(c) = 0

\* Each send() to a client leaves a reply with it, or finds it gone; the second
\* one to find it gone is the one that kills.
AccountInv ==
  /\ \A c \in Clients : Account(c)
  /\ killed => \E c \in Clients : sent[c] > 1

\* A number is in the hands of one handler, and larger than all that it has sent.
NumberInv ==
  /\ \A c \in Clients : \A i \in DOMAIN replies[c] :
       /\ replies[c][i] <= requestCounter
       /\ replies[c][i] = Busy => c \in refused
  /\ \A c \in Clients : handler[c] = "send" =>
       /\ requestId[c] \in 1..requestCounter
       /\ \A i \in DOMAIN replies[c] : replies[c][i] < requestId[c]
       /\ \A d \in Clients : \A j \in DOMAIN replies[d] : replies[d][j] # requestId[c]
       /\ \A d \in Clients : handler[d] = "send" /\ requestId[d] = requestId[c] => c = d
  /\ RequestNumbersUnique

\* Whom a handler leaves is gone, and who stays has heard of its refusal.
PeerInv ==
  \A c \in Clients :
    /\ peer[c] = "away" => link[c] = "none"
    /\ c \in done => peer[c] # "open"
    /\ c \in refused /\ peer[c] = "open" /\ ~(c = incoming /\ main = "busy") => replies[c] # <<>>

ServerInv == HandsInv /\ AccountInv /\ NumberInv

-----------------------------------------------------------------------------
(* The queue.                                                              *)

(* Appending an element that is not there keeps the queue free of repeats. *)
LEMMA AppendPlaces ==
  ASSUME NEW S, NEW s \in Seq(S), NEW t \in S, IsInjective(s), t \notin Range(s)
  PROVE  /\ Append(s, t) \in Seq(S)
         /\ Range(Append(s, t)) = Range(s) \cup {t}
         /\ IsInjective(Append(s, t))
<1> DEFINE r == Append(s, t)
<1>1. /\ r \in Seq(S)
      /\ Len(s) \in Nat /\ DOMAIN s = 1..Len(s) /\ DOMAIN r = 1..(Len(s) + 1)
      /\ \A i \in 1..Len(s) : r[i] = s[i]
      /\ r[Len(s) + 1] = t
  BY AppendProperties, LenProperties
<1> HIDE DEF r
<1>2. Range(r) = Range(s) \cup {t}
  BY <1>1 DEF Range
<1>3. IsInjective(r)
  BY <1>1 DEF IsInjective, Range
<1> QED
  BY <1>1, <1>2, <1>3 DEF r

(* The head of a queue free of repeats is not in its tail.                 *)
LEMMA TailPlaces ==
  ASSUME NEW S, NEW s \in Seq(S), s # <<>>, IsInjective(s)
  PROVE  /\ Tail(s) \in Seq(S) /\ Head(s) \in S
         /\ Range(s) = Range(Tail(s)) \cup {Head(s)}
         /\ IsInjective(Tail(s)) /\ Head(s) \notin Range(Tail(s))
<1> DEFINE r == Tail(s)
<1>1. /\ r \in Seq(S) /\ Head(s) \in S
      /\ Len(s) \in Nat \ {0} /\ DOMAIN s = 1..Len(s) /\ DOMAIN r = 1..(Len(s) - 1)
      /\ \A i \in 1..(Len(s) - 1) : r[i] = s[i + 1]
      /\ Head(s) = s[1]
  BY HeadTailProperties, LenProperties, EmptySeq
<1> HIDE DEF r
<1>2. \A i \in DOMAIN s : i = 1 \/ (i - 1 \in DOMAIN r /\ s[i] = r[i - 1])
  BY <1>1
<1>3. \A i \in DOMAIN r : i + 1 \in DOMAIN s /\ i + 1 # 1 /\ r[i] = s[i + 1]
  BY <1>1
<1>4. Range(s) = Range(r) \cup {s[1]}
  <2>1. \A i \in DOMAIN s : s[i] \in Range(r) \cup {s[1]}
    BY <1>2 DEF Range
  <2>2. \A i \in DOMAIN r : r[i] \in Range(s)
    BY <1>3 DEF Range
  <2>3. s[1] \in Range(s)
    BY <1>1 DEF Range
  <2> QED
    BY <2>1, <2>2, <2>3 DEF Range
<1>5. IsInjective(r)
  BY <1>1, <1>3 DEF IsInjective
<1>6. s[1] \notin Range(r)
  BY <1>1, <1>3 DEF IsInjective, Range
<1> QED
  BY <1>1, <1>4, <1>5, <1>6 DEF r

-----------------------------------------------------------------------------
(* HandsInv.                                                               *)

(* Nothing is accepted at first.                                           *)
LEMMA InitHands == Init => HandsInv
<1> SUFFICES ASSUME Init PROVE HandsInv
  OBVIOUS
<1>1. queue = <<>> /\ queue \in Seq(Tasks) /\ DOMAIN queue = {} /\ Range(queue) = {}
  BY EmptySeq DEF Init, Pool!Init, Range
<1>2. TypeOK
  BY <1>1, EmptySeq DEF Init, Pool!Init, TypeOK
<1> QED
  BY <1>1, <1>2, TokenAssumption
     DEF Init, Pool!Init, HandsInv, Apart, MainHolds, LinkFollows, HandlersRun,
         IsInjective, Tasks

(* What send() leaves alone and what it may do, whatever the client did.   *)
LEMMA SendEffect ==
  ASSUME TypeOK, NEW c \in Clients, NEW message \in Nat, Send(c, message)
  PROVE  /\ replies' \in [Clients -> Seq(Nat)]
         /\ peer' \in [Clients -> {"away", "open", "closed", "aborted", "reset"}]
         /\ killed' \in BOOLEAN /\ (killed' <=> peer[c] = "reset")
         /\ \A d \in Clients \ {c} : replies'[d] = replies[d] /\ peer'[d] = peer[d]
         /\ \/ replies'[c] = Append(replies[c], message) /\ peer'[c] = peer[c]
            \/ replies'[c] = replies[c]
<1>1. Append(replies[c], message) \in Seq(Nat)
  BY AppendProperties DEF TypeOK
<1> QED
  BY <1>1 DEF TypeOK, Send

(* accept() gives main() a connection that nobody else has.                *)
LEMMA AcceptHands ==
  ASSUME HandsInv,
         \/ \E c \in Clients : AcceptClient(c)
         \/ \E x \in FailedAccepts : AcceptFails(x)
  PROVE  HandsInv'
<1> USE TokenAssumption
    DEF HandsInv, TypeOK, Apart, MainHolds, LinkFollows, HandlersRun, Tasks, poolVars
<1>1. ASSUME NEW c \in Clients, AcceptClient(c) PROVE HandsInv'
  BY <1>1 DEF AcceptClient
<1>2. ASSUME NEW x \in FailedAccepts, AcceptFails(x) PROVE HandsInv'
  BY <1>2 DEF AcceptFails
<1> QED
  BY <1>1, <1>2

(* main() gives it to the queue, or keeps it until it has closed it.       *)
LEMMA MainHands == ASSUME HandsInv, Main PROVE HandsInv'
<1>1. CASE EnqueueAccepted
  <2>1. /\ incoming \in Tasks /\ incoming \notin Range(queue) \cup running \cup done \cup refused
        /\ queue' = Append(queue, incoming)
    BY <1>1 DEF EnqueueAccepted, Pool!Accept, HandsInv, TypeOK, MainHolds
  <2>2. /\ queue' \in Seq(Tasks) /\ IsInjective(queue')
        /\ Range(queue') = Range(queue) \cup {incoming}
    BY <2>1, AppendPlaces DEF HandsInv, TypeOK, Apart
  <2> QED
    BY <1>1, <2>1, <2>2, TokenAssumption
       DEF EnqueueAccepted, Pool!Accept, HandsInv, TypeOK, Apart, MainHolds, LinkFollows,
           HandlersRun, Tasks
<1>2. CASE EnqueueRefused
  BY <1>2, TokenAssumption
     DEF EnqueueRefused, Pool!Refuse, HandsInv, TypeOK, Apart, MainHolds, LinkFollows,
         HandlersRun, Tasks
<1>3. CASE SendBusy
  <2>1. /\ replies' \in [Clients -> Seq(Nat)]
        /\ peer' \in [Clients -> {"away", "open", "closed", "aborted", "reset"}]
        /\ killed' \in BOOLEAN
    BY <1>3, SendEffect DEF SendBusy, Busy, HandsInv, TypeOK
  <2> QED
    BY <1>3, <2>1
       DEF SendBusy, poolVars, HandsInv, TypeOK, Apart, MainHolds, LinkFollows, HandlersRun
<1>4. CASE CloseRefused
  BY <1>4, TokenAssumption
     DEF CloseRefused, poolVars, HandsInv, TypeOK, Apart, MainHolds, LinkFollows,
         HandlersRun, Tasks
<1> QED
  BY <1>1, <1>2, <1>3, <1>4 DEF Main

(* A worker takes the oldest connection out of the queue, for itself.      *)
LEMMA StartHands == ASSUME HandsInv, StartHandler PROVE HandsInv'
<1>1. queue \in Seq(Tasks) /\ queue # <<>> /\ IsInjective(queue) /\ queue' = Tail(queue)
  BY DEF StartHandler, Pool!Start, HandsInv, TypeOK, Apart
<1>2. /\ queue' \in Seq(Tasks) /\ Head(queue) \in Tasks /\ IsInjective(queue')
      /\ Range(queue) = Range(queue') \cup {Head(queue)}
      /\ Head(queue) \notin Range(queue')
  BY <1>1, TailPlaces
<1> QED
  BY <1>2
     DEF StartHandler, Pool!Start, HandsInv, TypeOK, Apart, MainHolds, LinkFollows,
         HandlersRun, Tasks

(* A handler's turns of its loop leave every connection where it is, and   *)
(* its end closes its own.                                                 *)
LEMMA HandlerHands ==
  ASSUME HandsInv,
         \/ \E c \in Clients : HandlerStep(c)
         \/ \E t \in Tasks : EndHandler(t)
  PROVE  HandsInv'
<1> USE DEF HandsInv, TypeOK, Apart, MainHolds, LinkFollows, HandlersRun, Tasks, poolVars
<1>1. ASSUME NEW c \in Clients, Recv(c) PROVE HandsInv'
  BY <1>1 DEF Recv
<1>2. ASSUME NEW c \in Clients, TakeNumber(c) PROVE HandsInv'
  BY <1>2 DEF TakeNumber
<1>3. ASSUME NEW c \in Clients, SendReply(c) PROVE HandsInv'
  <2>1. /\ replies' \in [Clients -> Seq(Nat)]
        /\ peer' \in [Clients -> {"away", "open", "closed", "aborted", "reset"}]
        /\ killed' \in BOOLEAN
    BY <1>3, SendEffect DEF SendReply
  <2> QED
    BY <1>3, <2>1 DEF SendReply
<1>4. ASSUME NEW t \in Tasks, EndHandler(t) PROVE HandsInv'
  BY <1>4, TokenAssumption DEF EndHandler, Pool!Finish
<1> QED
  BY <1>1, <1>2, <1>3, <1>4 DEF HandlerStep

(* What a client does changes no hand.                                     *)
LEMMA ClientHands == ASSUME HandsInv, NEW c \in Clients, Client(c) PROVE HandsInv'
<1>1. /\ peer' \in [Clients -> {"away", "open", "closed", "aborted", "reset"}]
      /\ sent' \in [Clients -> Nat] /\ unread' \in [Clients -> Nat]
  <2> USE DEF HandsInv, TypeOK
  <2>1. CASE ClientConnects(c)
    BY <2>1 DEF ClientConnects
  <2>2. CASE ClientSends(c)
    BY <2>2 DEF ClientSends
  <2>3. CASE ClientLeaves(c)
    BY <2>3 DEF ClientLeaves
  <2> QED
    BY <2>1, <2>2, <2>3 DEF Client
<1> QED
  BY <1>1
     DEF Client, poolVars, HandsInv, TypeOK, Apart, MainHolds, LinkFollows, HandlersRun

(* Every step keeps each connection in one hand.                           *)
LEMMA NextHands == HandsInv /\ [Next]_vars => HandsInv'
<1> SUFFICES ASSUME HandsInv, [Next]_vars PROVE HandsInv'
  OBVIOUS
<1>1. CASE UNCHANGED vars
  BY <1>1 DEF vars, poolVars, HandsInv, TypeOK, Apart, MainHolds, LinkFollows, HandlersRun
<1> QED
  BY <1>1, AcceptHands, MainHands, StartHands, HandlerHands, ClientHands DEF Next, Rest

(* Where every connection is, at all times.                                *)
THEOREM HandsInvHolds == Spec => []HandsInv
  BY InitHands, NextHands, PTL DEF Spec

(* The descriptor of a connection is open as long as one and only one of   *)
(* main(), the queue and the handlers has it.                              *)
LEMMA HandsAreOne == HandsInv => OneHand
<1> SUFFICES ASSUME HandsInv, NEW c \in Clients
             PROVE  LET hands == {h \in {"main", "queue", "handler"} :
                                    \/ h = "main" /\ incoming = c
                                    \/ h = "queue" /\ c \in Range(queue)
                                    \/ h = "handler" /\ c \in running}
                    IN  IF main = "enqueue" \/ c # incoming
                        THEN Cardinality(hands) = IF link[c] = "open" THEN 1 ELSE 0
                        ELSE hands = {"main"} /\ link[c] = "open"
  BY DEF OneHand
<1> DEFINE hands == {h \in {"main", "queue", "handler"} :
                       \/ h = "main" /\ incoming = c
                       \/ h = "queue" /\ c \in Range(queue)
                       \/ h = "handler" /\ c \in running}
<1>1. Cardinality({}) = 0 /\ \A h : Cardinality({h}) = 1
  BY FS_EmptySet, FS_Singleton
<1> USE TokenAssumption
    DEF HandsInv, TypeOK, Apart, MainHolds, LinkFollows, Tasks
<1>2. CASE incoming = c
  <2>1. c \notin Range(queue) \cup running /\ link[c] = "open"
    BY <1>2
  <2>2. hands = {"main"}
    BY <1>2, <2>1
  <2> QED
    BY <1>1, <1>2, <2>1, <2>2
<1>3. CASE incoming # c /\ c \in Range(queue)
  <2>1. c \notin running /\ link[c] = "open"
    BY <1>3
  <2>2. hands = {"queue"}
    BY <1>3, <2>1
  <2> QED
    BY <1>1, <1>3, <2>1, <2>2
<1>4. CASE incoming # c /\ c \in running
  <2>1. c \notin Range(queue) /\ link[c] = "open"
    BY <1>4
  <2>2. hands = {"handler"}
    BY <1>4, <2>1
  <2> QED
    BY <1>1, <1>4, <2>1, <2>2
<1>5. CASE incoming # c /\ c \notin Range(queue) \cup running
  <2>1. link[c] # "open"
    BY <1>5
  <2>2. hands = {}
    BY <1>5
  <2> QED
    BY <1>1, <1>5, <2>1, <2>2
<1> QED
  BY <1>2, <1>3, <1>4, <1>5

(* An accepted connection is in one hand and its descriptor is open just   *)
(* as long: none is leaked, none is closed under a handler.                *)
THEOREM ConnectionsHaveOneOwner == Spec => []OneHand
  BY HandsInvHolds, HandsAreOne, PTL

-----------------------------------------------------------------------------
(* AccountInv.                                                             *)

(* What the terms of an account are.                                       *)
LEMMA AccountTypes ==
  ASSUME TypeOK, NEW c \in Clients
  PROVE  /\ Len(replies[c]) \in Nat /\ unread[c] \in Nat /\ sent[c] \in Nat
         /\ Pending(c) \in {0, 1}
         /\ Sent(c) \in {Len(replies[c]), Len(replies[c]) + 1}
         /\ peer[c] = "reset" => Sent(c) = Len(replies[c]) + 1
<1>1. replies[c] \in Seq(Nat) /\ unread[c] \in Nat /\ sent[c] \in Nat
  BY DEF TypeOK
<1>2. Len(replies[c]) \in Nat
  BY <1>1, LenProperties
<1>3. Pending(c) \in {0, 1} /\ Reset(c) \in {0, 1} /\ (peer[c] = "reset" => Reset(c) = 1)
  BY DEF Pending, Reset
<1> QED
  BY <1>1, <1>2, <1>3 DEF Sent

(* Nothing has been sent at first.                                         *)
LEMMA InitAccount == Init => AccountInv
<1> SUFFICES ASSUME Init PROVE (\A c \in Clients : Account(c)) /\ ~killed
  BY DEF AccountInv
<1>1. ~killed
  BY DEF Init
<1>2. ASSUME NEW c \in Clients PROVE Account(c)
  <2>1. Len(replies[c]) = 0 /\ Reset(c) = 0 /\ Pending(c) = 0
    BY EmptySeq DEF Init, Reset, Pending, Tasks
  <2>2. Sent(c) = 0 /\ unread[c] = 0 /\ sent[c] = 0
    BY <2>1 DEF Init, Sent
  <2> QED
    BY <2>1, <2>2 DEF Account
<1> QED
  BY <1>1, <1>2

(* A send() to a client adds one at most to what it has received or shown  *)
(* by its reset, and kills only when there was such a reset.               *)
LEMMA SendAccount ==
  ASSUME TypeOK, NEW c \in Clients, NEW message \in Nat, Send(c, message)
  PROVE  /\ Sent(c)' \in Nat /\ Sent(c)' <= Sent(c) + 1
         /\ \A d \in Clients \ {c} : Sent(d)' = Sent(d)
         /\ killed' => Sent(c) >= 1
<1>1. Len(replies[c]) \in Nat /\ Len(Append(replies[c], message)) = Len(replies[c]) + 1
  BY AppendProperties, AccountTypes DEF TypeOK
<1>2. /\ killed' <=> peer[c] = "reset"
      /\ \A d \in Clients \ {c} : replies'[d] = replies[d] /\ peer'[d] = peer[d]
      /\ \/ replies'[c] = Append(replies[c], message) /\ peer'[c] = peer[c]
         \/ replies'[c] = replies[c]
  BY SendEffect
<1>3. /\ Reset(c) \in {0, 1} /\ Reset(c)' \in {0, 1}
      /\ peer'[c] = peer[c] => Reset(c)' = Reset(c)
      /\ killed' => Reset(c) = 1
      /\ \A d \in Clients \ {c} : Reset(d)' = Reset(d)
  BY <1>2 DEF Reset
<1>4. CASE replies'[c] = Append(replies[c], message) /\ peer'[c] = peer[c]
  BY <1>1, <1>2, <1>3, <1>4 DEF Sent
<1>5. CASE replies'[c] = replies[c]
  BY <1>1, <1>2, <1>3, <1>5 DEF Sent
<1> QED
  BY <1>2, <1>4, <1>5

(* main() sends to refused clients only, and once.                         *)
LEMMA MainAccount == ASSUME HandsInv, AccountInv, Main PROVE AccountInv'
<1>1. CASE SendBusy /\ incoming \in Clients
  <2>1. PICK c \in Clients : c = incoming
    BY <1>1
  <2>2. c \in refused /\ Send(c, Busy) /\ Busy \in Nat
    BY <1>1, <2>1 DEF SendBusy, HandsInv, MainHolds, Busy
  <2>3. /\ Sent(c)' \in Nat /\ Sent(c)' <= Sent(c) + 1
        /\ \A d \in Clients \ {c} : Sent(d)' = Sent(d)
        /\ killed' => Sent(c) >= 1
    BY <2>2, SendAccount DEF HandsInv
  <2>4. Sent(c) = 0 /\ c \notin running \cup done
    BY <1>1, <2>1, <2>2 DEF SendBusy, AccountInv, Account, HandsInv, Apart, TypeOK, Tasks
  <2>5. ASSUME NEW d \in Clients PROVE Account(d)'
    <3>1. Account(d)
      BY DEF AccountInv
    <3>2. /\ UNCHANGED <<refused, running, done, unread, sent, handler, incoming>>
          /\ main' = "close" /\ Pending(d)' = Pending(d)
      BY <1>1 DEF SendBusy, poolVars, Pending
    <3>3. CASE d = c
      BY <2>2, <2>3, <2>4, <3>2, <3>3 DEF Account
    <3>4. CASE d # c
      BY <2>3, <3>1, <3>2, <3>4 DEF Account
    <3> QED
      BY <3>3, <3>4
  <2> QED
    BY <2>3, <2>4, <2>5 DEF AccountInv
<1>2. CASE SendBusy /\ incoming \notin Clients
  BY <1>2 DEF SendBusy, poolVars, AccountInv, Account, Sent, Reset, Pending
<1>3. CASE EnqueueAccepted
  <2>1. ASSUME NEW d \in Clients PROVE Account(d)'
    <3>1. Account(d)
      BY DEF AccountInv
    <3>2. /\ UNCHANGED <<refused, running, done, unread, sent, handler>> /\ main' = "accept"
          /\ Pending(d)' = Pending(d) /\ Sent(d)' = Sent(d)
      BY <1>3 DEF EnqueueAccepted, Pool!Accept, Pending, Sent, Reset
    <3> QED
      BY <3>1, <3>2 DEF Account
  <2> QED
    BY <1>3, <2>1 DEF AccountInv, EnqueueAccepted
<1>4. CASE EnqueueRefused
  <2>1. incoming \notin running \cup done \cup refused
    BY <1>4 DEF EnqueueRefused, HandsInv, MainHolds
  <2>2. ASSUME NEW d \in Clients PROVE Account(d)'
    <3>1. Account(d)
      BY DEF AccountInv
    <3>2. /\ refused' = refused \cup {incoming}
          /\ UNCHANGED <<running, done, unread, sent, handler, incoming>>
          /\ Pending(d)' = Pending(d) /\ Sent(d)' = Sent(d)
      BY <1>4 DEF EnqueueRefused, Pool!Refuse, Pending, Sent, Reset
    <3> QED
      BY <2>1, <3>1, <3>2 DEF Account
  <2> QED
    BY <1>4, <2>2 DEF AccountInv, EnqueueRefused
<1>5. CASE CloseRefused
  <2>1. ASSUME NEW d \in Clients PROVE Account(d)'
    <3>1. Account(d)
      BY DEF AccountInv
    <3>2. /\ UNCHANGED <<refused, running, done, unread, sent, handler>> /\ main' = "accept"
          /\ Pending(d)' = Pending(d) /\ Sent(d)' = Sent(d)
      BY <1>5 DEF CloseRefused, poolVars, Pending, Sent, Reset
    <3> QED
      BY <3>1, <3>2 DEF Account
  <2> QED
    BY <1>5, <2>1 DEF AccountInv, CloseRefused
<1> QED
  BY <1>1, <1>2, <1>3, <1>4, <1>5 DEF Main

(* A handler sends once for each recv() that returned a message.           *)
LEMMA HandlerAccount ==
  ASSUME HandsInv, AccountInv, NEW c \in Clients, HandlerStep(c) PROVE AccountInv'
<1>1. TypeOK /\ c \in Tasks /\ Account(c)
  BY DEF HandsInv, AccountInv, Tasks
<1>2. /\ UNCHANGED <<queue, refused, running, done, sent, incoming, main>>
      /\ \A d \in Clients \ {c} :
            unread'[d] = unread[d] /\ Pending(d)' = Pending(d) /\ Sent(d)' = Sent(d)
  <2>1. CASE Recv(c)
    BY <1>1, <2>1 DEF Recv, poolVars, TypeOK, Pending, Sent, Reset
  <2>2. CASE TakeNumber(c)
    BY <1>1, <2>2 DEF TakeNumber, poolVars, TypeOK, Pending, Sent, Reset
  <2>3. CASE SendReply(c)
    <3>1. \A d \in Clients \ {c} : replies'[d] = replies[d] /\ peer'[d] = peer[d]
      BY <1>1, <2>3, SendEffect DEF SendReply, TypeOK
    <3>2. /\ UNCHANGED <<queue, refused, running, done, sent, incoming, main, unread>>
          /\ handler' = [handler EXCEPT ![c] = "recv"]
      BY <2>3 DEF SendReply, poolVars
    <3>3. \A d \in Clients \ {c} : handler'[d] = handler[d]
      BY <1>1, <3>2 DEF TypeOK, Tasks
    <3> QED
      BY <3>1, <3>2, <3>3 DEF Pending, Sent, Reset
  <2> QED
    BY <2>1, <2>2, <2>3 DEF HandlerStep
<1>3. c \in running /\ c \notin refused /\ c # incoming
  BY <1>1, TokenAssumption
     DEF HandlerStep, Recv, TakeNumber, SendReply, HandsInv, HandlersRun, Apart, MainHolds,
         TypeOK
<1>4. /\ Len(replies[c]) \in Nat /\ unread[c] \in Nat /\ sent[c] \in Nat
      /\ Pending(c) \in {0, 1} /\ Sent(c) \in Nat
  BY <1>1, AccountTypes
<1>5. /\ Sent(c)' + unread'[c] + Pending(c)' <= sent[c]
      /\ killed' => sent[c] > 1
  <2>1. Sent(c) + unread[c] + Pending(c) <= sent[c]
    BY <1>1, <1>3 DEF Account
  <2>2. CASE Recv(c)
    <3>1. PICK n \in 1..unread[c] : unread' = [unread EXCEPT ![c] = @ - n]
      BY <2>2 DEF Recv
    <3>2. n \in Nat /\ n >= 1 /\ n <= unread[c] /\ unread'[c] = unread[c] - n
      BY <1>1, <1>4, <3>1 DEF TypeOK
    <3>3. Pending(c) = 0 /\ Pending(c)' = 1 /\ Sent(c)' = Sent(c) /\ ~killed'
      BY <1>1, <2>2 DEF Recv, TypeOK, Pending, Sent, Reset
    <3> QED
      BY <1>4, <2>1, <3>2, <3>3
  <2>3. CASE TakeNumber(c)
    <3>1. /\ Pending(c)' = Pending(c) /\ Sent(c)' = Sent(c) /\ ~killed'
          /\ unread'[c] = unread[c]
      BY <1>1, <2>3 DEF TakeNumber, TypeOK, Pending, Sent, Reset
    <3> QED
      BY <1>4, <2>1, <3>1
  <2>4. CASE SendReply(c)
    <3>1. /\ Sent(c)' \in Nat /\ Sent(c)' <= Sent(c) + 1
          /\ killed' => Sent(c) >= 1
      BY <1>1, <2>4, SendAccount DEF SendReply, TypeOK
    <3>2. Pending(c) = 1 /\ Pending(c)' = 0 /\ unread'[c] = unread[c]
      BY <1>1, <2>4 DEF SendReply, TypeOK, Pending
    <3> QED
      BY <1>4, <2>1, <3>1, <3>2
  <2> QED
    BY <2>2, <2>3, <2>4 DEF HandlerStep
<1>6. ASSUME NEW d \in Clients PROVE Account(d)'
  <2>1. CASE d = c
    BY <1>2, <1>3, <1>5, <2>1 DEF Account
  <2>2. CASE d # c
    <3>1. Account(d)
      BY DEF AccountInv
    <3> QED
      BY <1>2, <2>2, <3>1 DEF Account
  <2> QED
    BY <2>1, <2>2
<1> QED
  BY <1>2, <1>5, <1>6 DEF AccountInv

(* Every step keeps the accounts.                                          *)
LEMMA NextAccount == HandsInv /\ AccountInv /\ [Next]_vars => AccountInv'
<1> SUFFICES ASSUME HandsInv, AccountInv, [Next]_vars PROVE AccountInv'
  OBVIOUS
<1> SUFFICES (\A d \in Clients : Account(d)') /\ (killed' => \E d \in Clients : sent'[d] > 1)
  BY DEF AccountInv
<1>0. (\A d \in Clients : Account(d)) /\ (killed => \E d \in Clients : sent[d] > 1)
  BY DEF AccountInv
<1> USE DEF HandsInv
<1>1. CASE UNCHANGED vars
  BY <1>0, <1>1 DEF vars, poolVars, Account, Sent, Reset, Pending
<1>2. ASSUME NEW c \in Clients, AcceptClient(c) PROVE AccountInv'
  BY <1>0, <1>2 DEF AcceptClient, poolVars, AccountInv, Account, Sent, Reset, Pending
<1>3. ASSUME NEW x \in FailedAccepts, AcceptFails(x) PROVE AccountInv'
  BY <1>0, <1>3 DEF AcceptFails, poolVars, AccountInv, Account, Sent, Reset, Pending
<1>4. CASE StartHandler
  <2>1. /\ UNCHANGED <<refused, done, incoming, main, sent, unread, killed>>
        /\ running \subseteq running'
        /\ \A d \in Clients : Pending(d)' = Pending(d) /\ Sent(d)' = Sent(d)
    <3>1. Head(queue) \notin running
      BY <1>4, TailPlaces DEF StartHandler, Pool!Start, TypeOK, Apart
    <3>2. \A d \in Clients : handler[d] # handler'[d] =>
                               handler[d] = "none" /\ handler'[d] = "recv"
      BY <1>4, <3>1, TailPlaces
         DEF StartHandler, Pool!Start, TypeOK, Apart, HandlersRun, Tasks
    <3> QED
      BY <1>4, <3>2 DEF StartHandler, Pool!Start, Pending, Sent, Reset
  <2> QED
    BY <1>0, <2>1 DEF Account
<1>5. ASSUME NEW t \in Tasks, EndHandler(t) PROVE AccountInv'
  <2>1. /\ UNCHANGED <<refused, incoming, main, sent, unread, killed>>
        /\ running' \cup done' = running \cup done
        /\ \A d \in Clients : Pending(d)' = Pending(d) /\ Sent(d)' = Sent(d)
    BY <1>5 DEF EndHandler, Pool!Finish, TypeOK, Pending, Sent, Reset, Tasks
  <2> QED
    BY <1>0, <2>1 DEF AccountInv, Account
<1>6. ASSUME NEW c \in Clients, Client(c) PROVE AccountInv'
  <2>1. /\ UNCHANGED <<refused, running, done, incoming, main, handler, replies, killed>>
        /\ \A d \in Clients : Pending(d)' = Pending(d)
    BY <1>6 DEF Client, poolVars, Pending
  <2>2. \A d \in Clients :
          /\ Sent(d)' = Sent(d)
          /\ \/ unread'[d] = unread[d] /\ sent'[d] = sent[d]
             \/ unread'[d] = unread[d] + 1 /\ sent'[d] = sent[d] + 1
    <3>1. CASE ClientConnects(c)
      BY <2>1, <3>1 DEF ClientConnects, TypeOK, Sent, Reset
    <3>2. CASE ClientSends(c)
      BY <2>1, <3>2 DEF ClientSends, TypeOK, Sent, Reset
    <3>3. CASE ClientLeaves(c)
      BY <2>1, <3>3 DEF ClientLeaves, TypeOK, Sent, Reset
    <3> QED
      BY <1>6, <3>1, <3>2, <3>3 DEF Client
  <2>3. \A d \in Clients : /\ unread[d] \in Nat /\ sent[d] \in Nat
                           /\ Pending(d) \in Nat /\ Sent(d) \in Nat
    BY AccountTypes
  <2>4. \A d \in Clients : Account(d)'
    BY <1>0, <2>1, <2>2, <2>3 DEF Account
  <2>5. \A d \in Clients : sent[d] > 1 => sent'[d] > 1
    BY <2>2, <2>3
  <2> QED
    BY <1>0, <2>1, <2>4, <2>5 DEF AccountInv
<1> QED
  BY <1>1, <1>2, <1>3, <1>4, <1>5, <1>6, MainAccount, HandlerAccount DEF Next, Rest, AccountInv

(* What has been sent to every client, at all times.                       *)
THEOREM AccountInvHolds == Spec => []AccountInv
  BY InitAccount, NextAccount, HandsInvHolds, PTL DEF Spec

(* No client gets more replies than it sent messages.                      *)
THEOREM RepliesAreAsked == Spec => []NoUnaskedReply
<1>1. HandsInv /\ AccountInv => NoUnaskedReply
  <2> SUFFICES ASSUME HandsInv, AccountInv, NEW c \in Clients \ refused
               PROVE  Len(replies[c]) + unread[c] + Pending(c) <= sent[c]
    BY DEF NoUnaskedReply, Pending
  <2>1. Sent(c) + unread[c] + Pending(c) <= sent[c]
    BY DEF AccountInv, Account
  <2> QED
    BY <2>1, AccountTypes DEF HandsInv
<1> QED
  BY <1>1, HandsInvHolds, AccountInvHolds, PTL

-----------------------------------------------------------------------------
(* NumberInv.                                                              *)

(* No number has been given at first.                                      *)
LEMMA InitNumber == Init => NumberInv
<1> SUFFICES ASSUME Init PROVE NumberInv
  OBVIOUS
<1>1. \A c \in Clients : DOMAIN replies[c] = {} /\ handler[c] # "send"
  BY EmptySeq DEF Init, Tasks
<1> QED
  BY <1>1 DEF NumberInv, RequestNumbersUnique, Numbers

(* The numbers stay in order as long as none is taken and none is sent.    *)
LEMMA NumberFrame ==
  ASSUME NumberInv, UNCHANGED <<replies, requestCounter, requestId>>, refused \subseteq refused',
         \A c \in Clients : handler'[c] = "send" <=> handler[c] = "send"
  PROVE  NumberInv'
  BY DEF NumberInv, RequestNumbersUnique, Numbers

(* Where the elements of a list are after a message has been appended.     *)
LEMMA ReplyPlaces ==
  ASSUME TypeOK, NEW c \in Clients, NEW message \in Nat,
         replies'[c] = Append(replies[c], message)
  PROVE  /\ Len(replies[c]) \in Nat
         /\ DOMAIN replies[c] = 1..Len(replies[c])
         /\ DOMAIN replies'[c] = 1..(Len(replies[c]) + 1)
         /\ \A i \in DOMAIN replies[c] :
               i \in DOMAIN replies'[c] /\ replies'[c][i] = replies[c][i] /\ replies[c][i] \in Nat
         /\ replies'[c][Len(replies[c]) + 1] = message
<1>1. replies[c] \in Seq(Nat)
  BY DEF TypeOK
<1> QED
  BY <1>1, AppendProperties, LenProperties, ElementOfSeq

(* The number that a handler takes is larger than all that were given.     *)
LEMMA TakeKeepsNumbers ==
  ASSUME HandsInv, NumberInv, NEW c \in Clients, TakeNumber(c) PROVE NumberInv'
<1>1. /\ UNCHANGED <<refused, replies>>
      /\ requestCounter \in Nat /\ requestCounter' = requestCounter + 1
      /\ requestId'[c] = requestCounter + 1 /\ handler'[c] = "send"
      /\ \A d \in Clients \ {c} : requestId'[d] = requestId[d] /\ handler'[d] = handler[d]
  BY DEF TakeNumber, poolVars, HandsInv, TypeOK, Tasks
<1>2. \A d \in Clients : \A i \in DOMAIN replies[d] : replies[d][i] \in Nat
  BY ElementOfSeq DEF HandsInv, TypeOK
<1>3. \A d \in Clients : \A i \in DOMAIN replies[d] :
         /\ replies[d][i] <= requestCounter
         /\ replies[d][i] = Busy => d \in refused
  BY DEF NumberInv
<1>4. ASSUME NEW d \in Clients, handler'[d] = "send"
      PROVE  /\ requestId'[d] \in 1..requestCounter'
             /\ \A i \in DOMAIN replies[d] : replies[d][i] < requestId'[d]
             /\ \A e \in Clients : \A j \in DOMAIN replies[e] : replies[e][j] # requestId'[d]
             /\ \A e \in Clients : handler'[e] = "send" /\ requestId'[e] = requestId'[d] => d = e
  <2>1. \A e \in Clients : handler[e] = "send" => requestId[e] \in 1..requestCounter
    BY DEF NumberInv
  <2>2. CASE d = c
    BY <1>1, <1>2, <1>3, <2>1, <2>2
  <2>3. CASE d # c
    <3>1. /\ requestId[d] \in 1..requestCounter
          /\ \A i \in DOMAIN replies[d] : replies[d][i] < requestId[d]
          /\ \A e \in Clients : \A j \in DOMAIN replies[e] : replies[e][j] # requestId[d]
          /\ \A e \in Clients : handler[e] = "send" /\ requestId[e] = requestId[d] => d = e
      BY <1>1, <1>4, <2>3 DEF NumberInv
    <3> QED
      BY <1>1, <2>3, <3>1
  <2> QED
    BY <2>2, <2>3
<1>5. RequestNumbersUnique'
  BY <1>1 DEF NumberInv, RequestNumbersUnique, Numbers
<1> QED
  BY <1>1, <1>2, <1>3, <1>4, <1>5 DEF NumberInv

(* The number that a handler sends was given to it alone.                  *)
LEMMA SendKeepsNumbers ==
  ASSUME HandsInv, NumberInv, NEW c \in Clients, SendReply(c) PROVE NumberInv'
<1> DEFINE message == requestId[c]
<1>1. /\ UNCHANGED <<refused, requestCounter>> /\ handler[c] = "send" /\ handler'[c] = "recv"
      /\ \A d \in Clients \ {c} : requestId'[d] = requestId[d] /\ handler'[d] = handler[d]
      /\ message \in Nat /\ requestCounter \in Nat
  BY DEF SendReply, poolVars, HandsInv, TypeOK, Tasks
<1>2. /\ \A d \in Clients \ {c} : replies'[d] = replies[d]
      /\ replies'[c] = Append(replies[c], message) \/ replies'[c] = replies[c]
  BY SendEffect DEF SendReply, HandsInv, TypeOK
<1>3. CASE replies'[c] = replies[c]
  <2>1. \A d \in Clients : replies'[d] = replies[d]
    BY <1>2, <1>3
  <2>2. \A d \in Clients : handler'[d] = "send" => handler[d] = "send" /\ requestId'[d] = requestId[d]
    BY <1>1
  <2> QED
    BY <1>1, <2>1, <2>2 DEF NumberInv, RequestNumbersUnique, Numbers
<1>4. CASE replies'[c] = Append(replies[c], message)
  <2> DEFINE n == Len(replies[c]) + 1
  <2>1. /\ n \in Nat \ {0} /\ DOMAIN replies[c] = 1..(n - 1) /\ DOMAIN replies'[c] = 1..n
        /\ \A i \in 1..(n - 1) : replies'[c][i] = replies[c][i] /\ replies[c][i] \in Nat
        /\ replies'[c][n] = message
    BY <1>1, <1>4, ReplyPlaces DEF HandsInv
  <2>2. /\ message \in 1..requestCounter
        /\ \A i \in 1..(n - 1) : replies[c][i] < message
        /\ \A d \in Clients : \A j \in DOMAIN replies[d] : replies[d][j] # message
        /\ \A d \in Clients \ {c} : handler[d] = "send" => requestId[d] # message
    BY <1>1, <2>1 DEF NumberInv
  <2> HIDE DEF message, n
  <2>3. \A d \in Clients : \A i \in DOMAIN replies'[d] :
           \/ d = c /\ i = n /\ replies'[d][i] = message
           \/ i \in DOMAIN replies[d] /\ (d = c => i < n) /\ replies'[d][i] = replies[d][i]
    BY <1>2, <2>1
  <2>4. \A d \in Clients : \A i \in DOMAIN replies'[d] :
           /\ replies'[d][i] <= requestCounter
           /\ replies'[d][i] = Busy => d \in refused
    <3>1. \A d \in Clients : \A i \in DOMAIN replies[d] :
             /\ replies[d][i] <= requestCounter
             /\ replies[d][i] = Busy => d \in refused
      BY DEF NumberInv
    <3>2. message <= requestCounter /\ message # Busy
      BY <1>1, <2>2 DEF Busy
    <3> QED
      BY <2>3, <3>1, <3>2
  <2>5. ASSUME NEW d \in Clients, handler'[d] = "send"
        PROVE  /\ requestId'[d] \in 1..requestCounter
               /\ \A i \in DOMAIN replies'[d] : replies'[d][i] < requestId'[d]
               /\ \A e \in Clients : \A j \in DOMAIN replies'[e] : replies'[e][j] # requestId'[d]
               /\ \A e \in Clients : handler'[e] = "send" /\ requestId'[e] = requestId'[d] => d = e
    <3>1. d # c /\ handler[d] = "send" /\ requestId'[d] = requestId[d] /\ requestId[d] # message
      BY <1>1, <2>2, <2>5
    <3>2. /\ requestId[d] \in 1..requestCounter
          /\ \A i \in DOMAIN replies[d] : replies[d][i] < requestId[d]
          /\ \A e \in Clients : \A j \in DOMAIN replies[e] : replies[e][j] # requestId[d]
          /\ \A e \in Clients : handler[e] = "send" /\ requestId[e] = requestId[d] => d = e
      BY <3>1 DEF NumberInv
    <3>3. \A e \in Clients : handler'[e] = "send" => e # c /\ handler[e] = "send" /\ requestId'[e] = requestId[e]
      BY <1>1
    <3> QED
      BY <1>2, <2>3, <3>1, <3>2, <3>3
  <2>6. RequestNumbersUnique'
    <3>1. \A d \in Clients : \A i \in Numbers(d)' :
             \/ d = c /\ i = n /\ replies'[d][i] = message
             \/ i \in Numbers(d) /\ (d = c => i < n) /\ replies'[d][i] = replies[d][i]
      BY <2>3 DEF Numbers
    <3>2. \A d \in Clients : \A i \in Numbers(d) : replies[d][i] # message
      BY <2>2 DEF Numbers
    <3>3. \A d, e \in Clients : \A i \in Numbers(d)', j \in Numbers(e)' :
             replies'[d][i] = replies'[e][j] => d = e /\ i = j
      BY <3>1, <3>2 DEF NumberInv, RequestNumbersUnique
    <3>4. ASSUME NEW d \in Clients, NEW i \in Numbers(d)', NEW j \in Numbers(d)', i < j
          PROVE  replies'[d][i] < replies'[d][j]
      <4>1. CASE d = c /\ j = n
        <5>1. i # n
          BY <2>1, <3>4, <4>1
        <5>2. i \in DOMAIN replies[c] /\ replies'[c][i] = replies[c][i]
          BY <3>1, <4>1, <5>1 DEF Numbers
        <5> QED
          BY <2>1, <2>2, <4>1, <5>2
      <4>2. CASE ~(d = c /\ j = n)
        <5>1. j \in Numbers(d) /\ (d = c => j < n) /\ replies'[d][j] = replies[d][j]
          BY <3>1, <4>2
        <5>2. ~(d = c /\ i = n)
          <6> SUFFICES ASSUME d = c, i = n PROVE FALSE
            OBVIOUS
          <6>1. j \in 1..(n - 1)
            BY <2>1, <5>1 DEF Numbers
          <6> QED
            BY <2>1, <3>4, <6>1
        <5>3. i \in Numbers(d) /\ replies'[d][i] = replies[d][i]
          BY <3>1, <5>2
        <5> QED
          BY <3>4, <5>1, <5>3 DEF NumberInv, RequestNumbersUnique
      <4> QED
        BY <4>1, <4>2
    <3> QED
      BY <3>3, <3>4 DEF RequestNumbersUnique
  <2> QED
    BY <1>1, <2>4, <2>5, <2>6 DEF NumberInv
<1> QED
  BY <1>2, <1>3, <1>4

(* "Server busy" is no number and goes to a refused client.                *)
LEMMA BusyKeepsNumbers == ASSUME HandsInv, NumberInv, SendBusy PROVE NumberInv'
<1>1. UNCHANGED <<refused, requestCounter, requestId, handler>>
  BY DEF SendBusy, poolVars
<1>2. CASE incoming \notin Clients
  BY <1>1, <1>2, NumberFrame DEF SendBusy
<1>3. CASE incoming \in Clients
  <2>1. PICK c \in Clients : c = incoming
    BY <1>3
  <2>2. c \in refused /\ Send(c, Busy) /\ Busy \in Nat /\ requestCounter \in Nat
    BY <1>3, <2>1 DEF SendBusy, HandsInv, TypeOK, MainHolds, Busy
  <2>3. /\ \A d \in Clients \ {c} : replies'[d] = replies[d]
        /\ replies'[c] = Append(replies[c], Busy) \/ replies'[c] = replies[c]
    BY <2>2, SendEffect DEF HandsInv
  <2>4. \A d \in Clients : \A i \in DOMAIN replies'[d] :
           \/ replies'[d][i] = Busy /\ d = c
           \/ i \in DOMAIN replies[d] /\ replies'[d][i] = replies[d][i]
    <3>1. CASE replies'[c] = replies[c]
      BY <2>3, <3>1
    <3>2. CASE replies'[c] = Append(replies[c], Busy)
      BY <2>2, <2>3, <3>2, ReplyPlaces DEF HandsInv
    <3> QED
      BY <2>3, <3>1, <3>2
  <2>5. \A d \in Clients : \A i \in DOMAIN replies'[d] :
           /\ replies'[d][i] <= requestCounter
           /\ replies'[d][i] = Busy => d \in refused
    BY <2>2, <2>4 DEF NumberInv, Busy
  <2>6. c \notin running /\ handler[c] # "send"
    BY <2>2 DEF HandsInv, TypeOK, Apart, HandlersRun, Tasks
  <2>7. ASSUME NEW d \in Clients, handler[d] = "send"
        PROVE  /\ requestId[d] \in 1..requestCounter
               /\ \A i \in DOMAIN replies'[d] : replies'[d][i] < requestId[d]
               /\ \A e \in Clients : \A j \in DOMAIN replies'[e] : replies'[e][j] # requestId[d]
               /\ \A e \in Clients : handler[e] = "send" /\ requestId[e] = requestId[d] => d = e
    <3>1. /\ requestId[d] \in 1..requestCounter
          /\ \A i \in DOMAIN replies[d] : replies[d][i] < requestId[d]
          /\ \A e \in Clients : \A j \in DOMAIN replies[e] : replies[e][j] # requestId[d]
          /\ \A e \in Clients : handler[e] = "send" /\ requestId[e] = requestId[d] => d = e
      BY <2>7 DEF NumberInv
    <3>2. Busy < requestId[d]
      BY <2>2, <3>1 DEF Busy
    <3> QED
      BY <2>2, <2>4, <3>1, <3>2
  <2>8. RequestNumbersUnique'
    <3>1. \A d \in Clients : \A i \in Numbers(d)' :
             i \in Numbers(d) /\ replies'[d][i] = replies[d][i]
      BY <2>4 DEF Numbers
    <3> QED
      BY <3>1 DEF NumberInv, RequestNumbersUnique
  <2> QED
    BY <1>1, <2>5, <2>7, <2>8 DEF NumberInv
<1> QED
  BY <1>2, <1>3

(* Every step keeps the numbers apart.                                     *)
LEMMA NextNumber == HandsInv /\ NumberInv /\ [Next]_vars => NumberInv'
<1> SUFFICES ASSUME HandsInv, NumberInv, [Next]_vars PROVE NumberInv'
  OBVIOUS
<1> USE DEF poolVars
<1>1. CASE UNCHANGED vars
  BY <1>1, NumberFrame DEF vars
<1>2. ASSUME NEW c \in Clients, AcceptClient(c) PROVE NumberInv'
  BY <1>2, NumberFrame DEF AcceptClient
<1>3. ASSUME NEW x \in FailedAccepts, AcceptFails(x) PROVE NumberInv'
  BY <1>3, NumberFrame DEF AcceptFails
<1>4. CASE StartHandler
  <2>1. Head(queue) \in Tasks /\ Head(queue) \notin running
    BY <1>4, TailPlaces DEF StartHandler, Pool!Start, HandsInv, TypeOK, Apart
  <2>2. \A c \in Clients : handler'[c] = "send" <=> handler[c] = "send"
    BY <1>4, <2>1 DEF StartHandler, HandsInv, TypeOK, HandlersRun, Tasks
  <2> QED
    BY <1>4, <2>2, NumberFrame DEF StartHandler, Pool!Start
<1>5. ASSUME NEW t \in Tasks, EndHandler(t) PROVE NumberInv'
  <2>1. \A c \in Clients : handler'[c] = "send" <=> handler[c] = "send"
    BY <1>5 DEF EndHandler, HandsInv, TypeOK, Tasks
  <2> QED
    BY <1>5, <2>1, NumberFrame DEF EndHandler, Pool!Finish
<1>6. ASSUME NEW c \in Clients, Client(c) PROVE NumberInv'
  BY <1>6, NumberFrame DEF Client
<1>7. ASSUME NEW c \in Clients, HandlerStep(c) PROVE NumberInv'
  <2>1. CASE Recv(c)
    <3>1. \A d \in Clients : handler'[d] = "send" <=> handler[d] = "send"
      BY <2>1 DEF Recv, HandsInv, TypeOK, Tasks
    <3> QED
      BY <2>1, <3>1, NumberFrame DEF Recv
  <2> QED
    BY <1>7, <2>1, TakeKeepsNumbers, SendKeepsNumbers DEF HandlerStep
<1>8. CASE Main
  <2>1. CASE EnqueueAccepted
    BY <2>1, NumberFrame DEF EnqueueAccepted, Pool!Accept
  <2>2. CASE EnqueueRefused
    BY <2>2, NumberFrame DEF EnqueueRefused, Pool!Refuse
  <2>3. CASE CloseRefused
    BY <2>3, NumberFrame DEF CloseRefused
  <2> QED
    BY <1>8, <2>1, <2>2, <2>3, BusyKeepsNumbers DEF Main
<1> QED
  BY <1>1, <1>2, <1>3, <1>4, <1>5, <1>6, <1>7, <1>8 DEF Next, Rest

(* The numbers given and sent so far, at all times.                        *)
THEOREM NumberInvHolds == Spec => []NumberInv
  BY InitNumber, NextNumber, HandsInvHolds, PTL DEF Spec

(* No request number is given twice and a client sees its own grow.        *)
THEOREM NumbersAreUnique == Spec => []RequestNumbersUnique
<1>1. NumberInv => RequestNumbersUnique
  BY DEF NumberInv
<1> QED
  BY <1>1, NumberInvHolds, PTL

(* "Server busy" is the only reply of a refused client, which is never     *)
(* handled, and whose connection main() closes before it goes on.          *)
THEOREM BusyIsTheOnlyReply == Spec => []BusyIsFinal
<1>1. ServerInv => BusyIsFinal
  <2> SUFFICES ASSUME ServerInv, NEW c \in Clients
               PROVE  /\ Busy \in Range(replies[c]) => c \in refused
                      /\ c \in refused =>
                            Len(replies[c]) <= 1 /\ handler[c] = "none" /\ c \notin done
                      /\ c \in refused /\ main = "accept" => link[c] = "closed"
    BY DEF BusyIsFinal
  <2>1. Busy \in Range(replies[c]) => c \in refused
    BY DEF ServerInv, NumberInv, Range
  <2>2. ASSUME c \in refused PROVE Len(replies[c]) <= 1
    <3>1. Sent(c) <= 1
      BY <2>2 DEF ServerInv, AccountInv, Account
    <3> QED
      BY <3>1, AccountTypes DEF ServerInv, HandsInv
  <2>3. ASSUME c \in refused PROVE handler[c] = "none" /\ c \notin done
    BY <2>3 DEF ServerInv, HandsInv, TypeOK, Apart, HandlersRun, Tasks
  <2>4. ASSUME c \in refused, main = "accept" PROVE link[c] = "closed"
    <3>1. incoming = Nothing /\ c # Nothing
      BY <2>4, TokenAssumption DEF ServerInv, HandsInv, MainHolds
    <3> QED
      BY <2>4, <3>1 DEF ServerInv, HandsInv, LinkFollows
  <2> QED
    BY <2>1, <2>2, <2>3, <2>4
<1> QED
  BY <1>1, HandsInvHolds, AccountInvHolds, NumberInvHolds, PTL DEF ServerInv

-----------------------------------------------------------------------------
(* PeerInv.                                                                *)

(* Nobody is connected at first.                                           *)
LEMMA InitPeer == Init => PeerInv
  BY DEF Init, Pool!Init, PeerInv

(* send() finds out about a peer that is gone and changes nothing of one   *)
(* that is there, which has the message.                                   *)
LEMMA SendPeer ==
  ASSUME TypeOK, NEW c \in Clients, NEW message \in Nat, Send(c, message)
  PROVE  \A d \in Clients :
           /\ peer[d] = "open" <=> peer'[d] = "open"
           /\ peer[d] = "away" <=> peer'[d] = "away"
           /\ peer[d] = "open" => replies'[d] = IF d = c THEN Append(replies[c], message)
                                                ELSE replies[d]
  BY DEF Send, TypeOK

(* A list that was appended to is not empty.                               *)
LEMMA AppendedIsSome ==
  ASSUME NEW S, NEW s \in Seq(S), NEW e \in S PROVE Append(s, e) # <<>>
<1>1. Len(Append(s, e)) = Len(s) + 1 /\ Len(s) \in Nat /\ Len(<<>>) = 0
  BY AppendProperties, LenProperties, EmptySeq
<1> QED
  BY <1>1

(* Every step keeps what a peer can rely on.                               *)
LEMMA NextPeer == HandsInv /\ PeerInv /\ [Next]_vars => PeerInv'
<1> SUFFICES ASSUME HandsInv, PeerInv, [Next]_vars PROVE PeerInv'
  OBVIOUS
<1> USE DEF PeerInv, HandsInv, TypeOK, Tasks
<1>1. CASE UNCHANGED vars
  BY <1>1 DEF vars, poolVars
<1>2. ASSUME NEW c \in Clients, AcceptClient(c) PROVE PeerInv'
  BY <1>2 DEF AcceptClient, poolVars, MainHolds
<1>3. ASSUME NEW x \in FailedAccepts, AcceptFails(x) PROVE PeerInv'
  BY <1>3 DEF AcceptFails, poolVars, MainHolds
<1>4. CASE StartHandler
  BY <1>4 DEF StartHandler, Pool!Start
<1>5. ASSUME NEW t \in Tasks, EndHandler(t) PROVE PeerInv'
  <2>1. /\ UNCHANGED <<refused, main, incoming, peer, replies>> /\ done' = done \cup {t}
        /\ \A c \in Clients : link'[c] = "none" <=> link[c] = "none"
    BY <1>5, TokenAssumption
       DEF EndHandler, Pool!Finish, HandlersRun, LinkFollows
  <2>2. t \in Clients => peer[t] # "open"
    BY <1>5, TokenAssumption DEF EndHandler, Gone
  <2> QED
    BY <2>1, <2>2
<1>6. ASSUME NEW c \in Clients, Client(c) PROVE PeerInv'
  <2>1. UNCHANGED <<refused, done, main, incoming, link, replies>>
    BY <1>6 DEF Client, poolVars
  <2>2. CASE ClientConnects(c)
    <3>1. c \notin done \cup refused
      BY <2>2 DEF ClientConnects, LinkFollows
    <3> QED
      BY <2>1, <2>2, <3>1 DEF ClientConnects
  <2>3. CASE ClientSends(c)
    BY <2>1, <2>3 DEF ClientSends
  <2>4. CASE ClientLeaves(c)
    BY <2>1, <2>4 DEF ClientLeaves
  <2> QED
    BY <1>6, <2>2, <2>3, <2>4 DEF Client
<1>7. ASSUME NEW c \in Clients, HandlerStep(c) PROVE PeerInv'
  <2>1. CASE Recv(c) \/ TakeNumber(c)
    BY <2>1 DEF Recv, TakeNumber, poolVars
  <2>2. CASE SendReply(c)
    <3>1. /\ UNCHANGED <<refused, done, main, incoming, link>>
          /\ Send(c, requestId[c]) /\ requestId[c] \in Nat /\ replies[c] \in Seq(Nat)
      BY <2>2 DEF SendReply, poolVars
    <3>2. \A d \in Clients :
             /\ peer[d] = "open" <=> peer'[d] = "open"
             /\ peer[d] = "away" <=> peer'[d] = "away"
             /\ peer[d] = "open" => replies'[d] = IF d = c THEN Append(replies[c], requestId[c])
                                                  ELSE replies[d]
      BY <3>1, SendPeer
    <3>3. Append(replies[c], requestId[c]) # <<>>
      BY <3>1, AppendedIsSome
    <3> QED
      BY <3>1, <3>2, <3>3
  <2> QED
    BY <1>7, <2>1, <2>2 DEF HandlerStep
<1>8. CASE Main
  <2>1. CASE EnqueueAccepted
    BY <2>1 DEF EnqueueAccepted, Pool!Accept
  <2>2. CASE EnqueueRefused
    BY <2>2 DEF EnqueueRefused, Pool!Refuse
  <2>3. CASE SendBusy
    <3>1. /\ UNCHANGED <<refused, done, incoming, link>> /\ main = "busy" /\ main' = "close"
      BY <2>3 DEF SendBusy, poolVars
    <3>2. CASE incoming \in Clients
      <4>1. PICK c \in Clients : c = incoming
        BY <3>2
      <4>2. Send(c, Busy) /\ Busy \in Nat /\ replies[c] \in Seq(Nat)
        BY <2>3, <4>1 DEF SendBusy, Busy
      <4>3. \A d \in Clients :
               /\ peer[d] = "open" <=> peer'[d] = "open"
               /\ peer[d] = "away" <=> peer'[d] = "away"
               /\ peer[d] = "open" => replies'[d] = IF d = c THEN Append(replies[c], Busy)
                                                    ELSE replies[d]
        BY <4>2, SendPeer
      <4>4. Append(replies[c], Busy) # <<>>
        BY <4>2, AppendedIsSome
      <4> QED
        BY <3>1, <4>1, <4>3, <4>4
    <3>3. CASE incoming \notin Clients
      BY <2>3, <3>1, <3>3 DEF SendBusy
    <3> QED
      BY <3>2, <3>3
  <2>4. CASE CloseRefused
    <3>1. /\ UNCHANGED <<refused, done, peer, replies>> /\ main = "close" /\ main' = "accept"
          /\ incoming \in refused
          /\ \A c \in Clients : link'[c] = IF c = incoming THEN "closed" ELSE link[c]
      BY <2>4 DEF CloseRefused, poolVars, MainHolds
    <3>2. \A c \in Clients : c = incoming => link[c] # "none"
      BY <2>4, TokenAssumption DEF CloseRefused, LinkFollows
    <3> QED
      BY <3>1, <3>2
  <2> QED
    BY <1>8, <2>1, <2>2, <2>3, <2>4 DEF Main
<1> QED
  BY <1>1, <1>2, <1>3, <1>4, <1>5, <1>6, <1>7, <1>8 DEF Next, Rest

(* What a peer can rely on, at all times.                                  *)
THEOREM PeerInvHolds == Spec => []PeerInv
  BY InitPeer, NextPeer, HandsInvHolds, PTL DEF Spec

-----------------------------------------------------------------------------
(* VersionClients: the two client programs are clients of PoolServer, so    *)
(* that all that is proved above holds of them, and what their own calls    *)
(* may return.                                                              *)

(* A client's socket that is closed is, to the server, a client that leaves *)
(* or nothing it can see.                                                  *)
LEMMA HangUpIsLeaving ==
  ASSUME NEW c \in Clients, HangUp(c), UNCHANGED <<serverVars, sent, unread>>
  PROVE  Client(c) \/ UNCHANGED vars
<1>1. CASE peer' = peer
  BY <1>1 DEF serverVars, vars, poolVars
<1>2. CASE peer' # peer
  <2>1. /\ peer[c] = "open" /\ link[c] # "closed"
        /\ \E p \in {"closed", "aborted"} : peer' = [peer EXCEPT ![c] = p]
    BY <1>2 DEF HangUp, Down
  <2> QED
    BY <2>1 DEF Client, ClientLeaves, serverVars, poolVars
<1> QED
  BY <1>1, <1>2

(* Each step of a client program is one of a client of PoolServer, or none. *)
LEMMA ClientStepIsClient ==
  ASSUME NEW c \in Clients, ClientStep(c) PROVE Client(c) \/ UNCHANGED vars
<1>1. CASE Connects(c) /\ UNCHANGED serverVars
  BY <1>1 DEF Connects, Client, serverVars, poolVars
<1>2. CASE Sends(c) /\ UNCHANGED serverVars
  BY <1>2 DEF Sends, Client, serverVars, poolVars, vars
<1>3. CASE /\ ConnectFails(c) \/ Receives(c) \/ ServerClosed(c)
           /\ UNCHANGED serverVars
  BY <1>3 DEF ConnectFails, Receives, ServerClosed, serverVars, poolVars, vars
<1>4. CASE /\ SendFails(c) \/ SendKills(c) \/ ReceiveFails(c) \/ Closes(c) \/ ClientKilled(c)
           /\ UNCHANGED serverVars
  <2>1. HangUp(c) /\ UNCHANGED <<sent, unread>>
    BY <1>4 DEF SendFails, SendKills, ReceiveFails, Closes, ClientKilled
  <2> QED
    BY <1>4, <2>1, HangUpIsLeaving
<1> QED
  BY <1>1, <1>2, <1>3, <1>4 DEF ClientStep, ClientProceeds

(* So is every step of the server and its clients.                         *)
LEMMA NextIsPoolServer == [ClientsNext]_clientsAndServer => [Next]_vars
<1>1. ServerStep => Next
  BY DEF ServerStep, Next
<1>2. (\E c \in Clients : ClientStep(c)) => [Next]_vars
  BY ClientStepIsClient DEF Next
<1> QED
  BY <1>1, <1>2 DEF ClientsNext, clientsAndServer

(* The server with these clients is a PoolServer: what is proved of any    *)
(* peers holds of the two programs.                                        *)
THEOREM ClientsAreClients == ClientsSpec => Spec
<1>1. ClientsInit => Init
  BY DEF ClientsInit
<1> QED
  BY <1>1, NextIsPoolServer, PTL DEF ClientsSpec, Spec

(* Only a client that sends more than once can end the server: one reply   *)
(* or one refusal is not enough for SIGPIPE.                               *)
THEOREM WholeMessagesAreHarmless == ClientsSpec => []ServerSurvives
<1>1. AccountInv => ServerSurvives
  BY DEF AccountInv, ServerSurvives
<1> QED
  BY <1>1, ClientsAreClients, AccountInvHolds, PTL

-----------------------------------------------------------------------------
(* What the calls of a client return.                                      *)

Places == {"connect", "send", "receive", "close", "ended", "crashed", "killed"}

\* A client is connected from connect() to close(), and reads something else
\* than an answer only from a server that is dead.
ClientAt(c) ==
  /\ cpc[c] = "connect" => peer[c] = "away"
  /\ cpc[c] \in {"send", "receive", "close"} => peer[c] = "open"
  /\ cpc[c] = "close" /\ outcome[c] # "answer" => killed
  /\ cpc[c] = "ended" /\ peer[c] # "away" /\ outcome[c] # "answer" =>
       killed \/ (c \in refused /\ version[c] = "Version_2")
  /\ cpc[c] = "crashed" => killed

ClientInv ==
  /\ cpc \in [Clients -> Places]
  /\ outcome \in [Clients -> {"none", "answer", "closed", "error"}]
  /\ \A c \in Clients : ClientAt(c)

(* No client has begun at first.                                           *)
LEMMA InitClient == ClientsInit => ClientInv
  BY DEF ClientsInit, Init, ClientInv, ClientAt, Places

(* The server closes a connection under a client that is still there only  *)
(* when it has refused it, and has told it so.                             *)
LEMMA DownIsRefused ==
  ASSUME HandsInv, PeerInv, NEW c \in Clients, peer[c] = "open", Down(c), ~killed
  PROVE  c \in refused /\ replies[c] # <<>>
<1>1. link[c] = "closed"
  BY DEF Down
<1>2. c \in refused /\ c # incoming
  BY <1>1 DEF HandsInv, LinkFollows, PeerInv
<1> QED
  BY <1>2 DEF PeerInv

(* A step of one client leaves the others where they are.                  *)
LEMMA StepClient ==
  ASSUME HandsInv, PeerInv, ClientInv, NEW c \in Clients, ClientStep(c)
  PROVE  ClientInv'
<1> USE DEF ClientInv, At, Goto, Places
<1>1. UNCHANGED <<refused, killed, version>>
  BY DEF ClientStep, ClientProceeds, serverVars, poolVars, Connects, ConnectFails, Sends,
         SendFails, SendKills, Receives, ServerClosed, ReceiveFails, Closes, ClientKilled
<1>2. /\ cpc' \in [Clients -> Places]
      /\ outcome' \in [Clients -> {"none", "answer", "closed", "error"}]
      /\ \A d \in Clients \ {c} :
            cpc'[d] = cpc[d] /\ outcome'[d] = outcome[d] /\ peer'[d] = peer[d]
  <2>1. peer' = peer \/ \E p : peer' = [peer EXCEPT ![c] = p]
    BY DEF ClientStep, ClientProceeds, Connects, ClientConnects, ConnectFails, Sends,
           ClientSends, SendFails, SendKills, Receives, ServerClosed, ReceiveFails, Closes,
           ClientKilled, HangUp
  <2>2. cpc' = cpc \/ \E p \in Places : cpc' = [cpc EXCEPT ![c] = p]
    BY DEF ClientStep, ClientProceeds, Connects, ConnectFails, Sends, SendFails, SendKills,
           Receives, ServerClosed, ReceiveFails, Closes, ClientKilled
  <2>3. \/ outcome' = outcome
        \/ \E o \in {"answer", "closed", "error"} : outcome' = [outcome EXCEPT ![c] = o]
    BY DEF ClientStep, ClientProceeds, Connects, ConnectFails, Sends, SendFails, SendKills,
           Receives, ServerClosed, ReceiveFails, Closes, ClientKilled
  <2>4. peer \in [Clients -> {"away", "open", "closed", "aborted", "reset"}]
    BY DEF HandsInv, TypeOK
  <2> QED
    BY <2>1, <2>2, <2>3, <2>4
<1>3. ClientAt(c)'
  <2> USE DEF ClientAt
  <2>0. peer \in [Clients -> {"away", "open", "closed", "aborted", "reset"}]
    BY DEF HandsInv, TypeOK
  <2>1. CASE Connects(c)
    BY <2>0, <2>1 DEF Connects, ClientConnects
  <2>2. CASE ConnectFails(c)
    BY <2>2 DEF ConnectFails
  <2>3. CASE Sends(c)
    BY <2>3 DEF Sends, ClientSends
  <2>4. CASE SendFails(c)
    <3>1. killed \/ c \in refused
      BY <2>4, DownIsRefused DEF SendFails
    <3> QED
      BY <1>1, <2>4, <3>1 DEF SendFails
  <2>5. CASE SendKills(c)
    BY <2>5 DEF SendKills
  <2>6. CASE Receives(c)
    BY <2>6 DEF Receives
  <2>7. CASE ServerClosed(c)
    <3>1. killed
      BY <2>7, DownIsRefused DEF ServerClosed
    <3> QED
      BY <1>1, <2>7, <3>1 DEF ServerClosed
  <2>8. CASE ReceiveFails(c)
    <3>1. killed
      BY <2>8, DownIsRefused DEF ReceiveFails
    <3> QED
      BY <1>1, <2>8, <3>1 DEF ReceiveFails
  <2>9. CASE Closes(c)
    BY <1>1, <2>9 DEF Closes
  <2>10. CASE ClientKilled(c)
    BY <2>10 DEF ClientKilled
  <2> QED
    BY <2>1, <2>2, <2>3, <2>4, <2>5, <2>6, <2>7, <2>8, <2>9, <2>10 DEF ClientStep, ClientProceeds
<1>4. ASSUME NEW d \in Clients \ {c} PROVE ClientAt(d)'
  BY <1>1, <1>2 DEF ClientAt
<1> QED
  BY <1>2, <1>3, <1>4

(* A step of the server takes nothing away from a client.                  *)
LEMMA StepServer ==
  ASSUME HandsInv, ClientInv, ServerStep PROVE ClientInv'
<1>1. UNCHANGED <<version, cpc, outcome>>
  BY DEF ServerStep, clientVars
<1>2. /\ refused \subseteq refused'
      /\ killed => killed'
      /\ \A c \in Clients : /\ peer[c] = "open" <=> peer'[c] = "open"
                            /\ peer[c] = "away" <=> peer'[c] = "away"
  <2> DEFINE Kept == /\ refused \subseteq refused'
                     /\ killed => killed'
                     /\ \A c \in Clients : /\ peer[c] = "open" <=> peer'[c] = "open"
                                           /\ peer[c] = "away" <=> peer'[c] = "away"
  <2>1. ASSUME NEW c \in Clients, AcceptClient(c) PROVE Kept
    BY <2>1 DEF AcceptClient, poolVars
  <2>2. ASSUME NEW c \in Clients, HandlerStep(c) PROVE Kept
    <3>1. CASE Recv(c) \/ TakeNumber(c)
      BY <3>1 DEF Recv, TakeNumber, poolVars
    <3>2. CASE SendReply(c)
      BY <3>2, SendPeer DEF SendReply, poolVars, HandsInv, TypeOK
    <3> QED
      BY <2>2, <3>1, <3>2 DEF HandlerStep
  <2>3. ASSUME NEW x \in FailedAccepts, AcceptFails(x) PROVE Kept
    BY <2>3 DEF AcceptFails, poolVars
  <2>4. ASSUME NEW t \in Tasks, EndHandler(t) PROVE Kept
    BY <2>4 DEF EndHandler, Pool!Finish
  <2>5. CASE Main
    <3>1. CASE EnqueueAccepted \/ EnqueueRefused
      BY <3>1 DEF EnqueueAccepted, EnqueueRefused, Pool!Accept, Pool!Refuse
    <3>2. CASE SendBusy
      BY <3>2, SendPeer DEF SendBusy, Busy, poolVars, HandsInv
    <3>3. CASE CloseRefused
      BY <3>3 DEF CloseRefused, poolVars
    <3> QED
      BY <2>5, <3>1, <3>2, <3>3 DEF Main
  <2>6. CASE StartHandler
    BY <2>6 DEF StartHandler, Pool!Start
  <2>7. CASE Rest
    BY <2>7 DEF Rest, vars, poolVars
  <2> QED
    BY <2>1, <2>2, <2>3, <2>4, <2>5, <2>6, <2>7 DEF ServerStep
<1>3. ASSUME NEW c \in Clients PROVE ClientAt(c)'
  <2>1. ClientAt(c)
    BY DEF ClientInv
  <2>2. /\ cpc'[c] = cpc[c] /\ outcome'[c] = outcome[c] /\ version'[c] = version[c]
        /\ peer[c] = "open" <=> peer'[c] = "open"
        /\ peer[c] = "away" <=> peer'[c] = "away"
    BY <1>1, <1>2
  <2> QED
    BY <1>2, <2>1, <2>2 DEF ClientAt
<1> QED
  BY <1>1, <1>3 DEF ClientInv

(* Every step of the server and its clients keeps the clients' places.     *)
LEMMA NextClient ==
  HandsInv /\ PeerInv /\ ClientInv /\ [ClientsNext]_clientsAndServer => ClientInv'
<1> SUFFICES ASSUME HandsInv, PeerInv, ClientInv, [ClientsNext]_clientsAndServer
             PROVE  ClientInv'
  OBVIOUS
<1>1. CASE UNCHANGED clientsAndServer
  BY <1>1 DEF clientsAndServer, clientVars, vars, poolVars, ClientInv, ClientAt
<1> QED
  BY <1>1, StepClient, StepServer DEF ClientsNext

(* Where each client is and what it has read, at all times.                *)
THEOREM ClientInvHolds == ClientsSpec => []ClientInv
  BY InitClient, NextClient, ClientsAreClients, HandsInvHolds, PeerInvHolds, PTL
     DEF ClientsSpec

(* A client that ran to its end over its connection has its answer, as     *)
(* long as the server lives, unless it was refused while it was sending;   *)
(* and Version1 never reads the -1 it would crash on.                      *)
THEOREM ClientsAreAnswered == ClientsSpec => []EveryoneIsAnswered
<1>1. ClientInv => EveryoneIsAnswered
  BY DEF ClientInv, ClientAt, EveryoneIsAnswered
<1> QED
  BY <1>1, ClientInvHolds, PTL
=============================================================================
