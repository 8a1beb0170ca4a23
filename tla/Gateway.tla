------------------------------ MODULE Gateway -------------------------------
(***************************************************************************)
(* A game gateway (service_netgames.cc) with its connection driver         *)
(* (unetdrive.cc), and of the socket server what the two depend on: the    *)
(* state of each socket, the pipe of commands and the service's queue of   *)
(* events, both first in first out.  Module Socket has the server itself.  *)
(* A handler of the service, and a command or event of the polling thread, *)
(* is one step: they share only the pipe, the queue and a socket's state,  *)
(* of which a handler reads one.                                           *)
(***************************************************************************)
EXTENDS Integers, Sequences, FiniteSets

CONSTANTS
  LastId,    \* bound: the last id reserveId gives out
  Limit,     \* the connections onAccept compares size() with, 2000
  TagFrom,   \* the first id with a tag in its upper half, 65536
  MaxExtra   \* bound: data, answers of the game, accepts that fail, together

ASSUME GatewayAssumption ==
  /\ LastId \in Nat \ {0} /\ Limit \in Nat /\ TagFrom \in Nat
  /\ MaxExtra \in Nat

VARIABLES
  sock,     \* sock[i]: status__ of socket i, "none" before and "gone" after
  pipe,     \* commands to the socket server
  queue,    \* events of the service
  conns,    \* netSocketMap__: whether the socket is connected
  replied,  \* sockets with an answer on its way out
  fd,       \* sck__ of the listening socket
  unlined,  \* unlined[c]: how often unLineProc was called for c
  used      \* how much of MaxExtra is used up

service == <<conns, unlined>>
vars == <<sock, pipe, queue, service, replied, fd, used>>

Bad      == -1            \* what a failed beginListen returns
Listener == 1
Clients  == 2 .. LastId
Ids      == {Bad, Listener} \cup Clients

Known(i)     == i \in DOMAIN conns
Connected(i) == Known(i) /\ conns[i]
Missing(i)   == sock[i] \in {"none", "gone"}
Tagged(i)    == i >= TagFrom

\* insert, and the assignment to connected
Entered(i, c) == [j \in DOMAIN conns \cup {i} |-> IF j = i THEN c ELSE conns[j]]
Erased(i)     == [j \in DOMAIN conns \ {i} |-> conns[j]]   \* earse

Post(x, i)  == pipe' = Append(pipe, [cmd |-> x, id |-> i])
Event(t, i) == [type |-> t, id |-> i, ud |-> 0]
Tell(t, i)  == queue' = Append(queue, Event(t, i))   \* forwardSocket
-----------------------------------------------------------------------------
(***************************************************************************)
(* The service: onEvent of the driver, onCallback of the gateway.          *)
(***************************************************************************)
Receives(t) == queue # <<>> /\ Head(queue).type = t /\ queue' = Tail(queue)
Here        == Head(queue).id

\* onStart: beginListen and beginAccept.
Start ==
  /\ Receives("start")
  /\ \E i \in {Bad, Listener} :
       /\ conns' = Entered(i, FALSE)
       /\ pipe' = pipe \o (IF i = Bad THEN <<>> ELSE <<[cmd |-> "L", id |-> i]>>)
                       \o <<[cmd |-> "S", id |-> i]>>
  /\ UNCHANGED <<sock, replied, fd, unlined, used>>

\* Mutant: the client that is too many is left alone.
OnAcceptLeaves ==
  LET c == Head(queue).ud IN
  /\ Receives("accept")
  /\ IF Connected(Here) /\ Cardinality(DOMAIN conns) <= Limit
     THEN conns' = Entered(c, FALSE) /\ Post("S", c)
     ELSE UNCHANGED <<conns, pipe>>
  /\ UNCHANGED <<sock, replied, fd, unlined, used>>

\* onAccept of the driver, which closes the listener if it does not know it
\* and does nothing if it has not opened; and of the gateway: endAccept and
\* beginRecv unless there are too many.
OnAccept ==
  LET c == Head(queue).ud IN
  /\ Receives("accept")
  /\ IF Connected(Here)
     THEN IF Cardinality(DOMAIN conns) > Limit
          THEN Post("K", c) /\ UNCHANGED conns
          ELSE conns' = Entered(c, FALSE) /\ Post("S", c)
     ELSE /\ IF Known(Here) THEN UNCHANGED pipe ELSE Post("K", Here)
          /\ UNCHANGED conns
  /\ UNCHANGED <<sock, replied, fd, unlined, used>>

OnOpen ==
  /\ Receives("open")
  /\ conns' = IF Known(Here) THEN Entered(Here, TRUE) ELSE conns
  /\ UNCHANGED <<sock, pipe, replied, fd, unlined, used>>

\* Mutant: a packet too long is answered by a shutdown.
OnDataAborts ==
  /\ Receives("data")
  /\ IF Connected(Here) THEN Post("H", Here) ELSE UNCHANGED pipe
  /\ UNCHANGED <<sock, conns, replied, fd, unlined, used>>

\* onData down to onRecv, which asks for a close when a packet is too long.
\* A request to the game manager changes nothing here.
OnData ==
  /\ Receives("data")
  /\ UNCHANGED pipe \/ (Connected(Here) /\ Post("K", Here))
  /\ UNCHANGED <<sock, conns, replied, fd, unlined, used>>

\* Mutant: the entry goes with the error.
OnErrorErases ==
  /\ Receives("err")
  /\ IF Known(Here) THEN Post("H", Here) /\ conns' = Erased(Here) ELSE UNCHANGED <<pipe, conns>>
  /\ UNCHANGED <<sock, replied, fd, unlined, used>>

\* onError: the shutdown is answered by a close event, also when there is no
\* such socket any more.
OnError ==
  /\ Receives("err")
  /\ IF Known(Here) THEN Post("H", Here) ELSE UNCHANGED pipe
  /\ UNCHANGED <<sock, conns, replied, fd, unlined, used>>

\* Mutant: the callback comes for every close event.
OnCloseAlways ==
  /\ Receives("close")
  /\ conns' = Erased(Here)
  /\ unlined' = IF Here \in Clients THEN [unlined EXCEPT ![Here] = @ + 1] ELSE unlined
  /\ UNCHANGED <<sock, pipe, replied, fd, used>>

\* onClose with unLineProc, for an id that is known.
OnClose ==
  /\ Receives("close")
  /\ conns' = Erased(Here)
  /\ unlined' = IF Known(Here) /\ Here \in Clients THEN [unlined EXCEPT ![Here] = @ + 1] ELSE unlined
  /\ UNCHANGED <<sock, pipe, replied, fd, used>>

\* loginBackProc and the other three: the caller frees what send() refuses,
\* and so does socketSend, when the socket is no more.
Answer ==
  /\ Receives("answer")
  /\ replied' = IF Connected(Here) /\ ~Missing(Here) THEN replied \cup {Here} ELSE replied
  /\ UNCHANGED <<sock, pipe, conns, fd, unlined, used>>

Handle == Start \/ OnAccept \/ OnOpen \/ OnData \/ OnError \/ OnClose \/ Answer
-----------------------------------------------------------------------------
(***************************************************************************)
(* The socket server, a thread of its own.                                 *)
(***************************************************************************)
Take(x) == pipe # <<>> /\ Head(pipe).cmd = x /\ pipe' = Tail(pipe)
What    == Head(pipe).id
Becomes(i, st) == sock' = [sock EXCEPT ![i] = st]

\* operListenSocket
ListenSocket ==
  /\ Take("L")
  /\ Becomes(What, "plisten")
  /\ UNCHANGED <<queue, service, replied, fd, used>>

\* operStartSocket; the poller may refuse the socket.  (The gateway starts
\* none twice.)
StartSocket ==
  /\ Take("S")
  /\ IF sock[What] \in {"plisten", "paccept"}
     THEN \/ Becomes(What, IF What = Listener THEN "listen" ELSE "open") /\ Tell("open", What)
          \/ Becomes(What, "gone") /\ Tell("err", What)
     ELSE /\ IF Missing(What) THEN Tell("err", What) ELSE UNCHANGED queue
          /\ UNCHANGED sock
  /\ UNCHANGED <<service, replied, fd, used>>

\* Mutant: no answer for a socket that is gone.
CloseSocketSilent ==
  /\ Take("K") \/ Take("H")
  /\ IF Missing(What) THEN UNCHANGED <<sock, queue>> ELSE Becomes(What, "gone") /\ Tell("close", What)
  /\ UNCHANGED <<service, replied, fd, used>>

\* operCloseSocket.  A close waits for what is to be sent, and in vain for a
\* socket with a tag that has nothing to send; "lame" is a half-closed
\* socket that was never registered with the poller.
CloseSocket ==
  LET i       == What
      hard    == Head(pipe).cmd = "H"
      sending == i \in replied
      vain    == Tagged(i) /\ sock[i] \notin {"half", "lame"}
  IN
  /\ Take("K") \/ Take("H")
  /\ \/ Missing(i) /\ Tell("close", i) /\ UNCHANGED sock
     \/ ~Missing(i) /\ (hard \/ sending \/ ~vain) /\ Becomes(i, "gone") /\ Tell("close", i)
     \/ /\ ~Missing(i) /\ ~hard /\ (sending \/ vain)
        /\ Becomes(i, IF sock[i] \in {"open", "half"} THEN "half" ELSE "lame")
        /\ UNCHANGED queue
  /\ UNCHANGED <<service, replied, fd, used>>

\* onReportAccept
Accept(c) ==
  /\ sock[Listener] = "listen"
  /\ sock[c] = "none" /\ \A d \in Clients : d < c => sock[d] # "none"
  /\ Becomes(c, "paccept")
  /\ queue' = Append(queue, [type |-> "accept", id |-> Listener, ud |-> c])
  /\ UNCHANGED <<pipe, service, replied, fd, used>>

\* ... out of descriptors: the event has the descriptor where the id belongs.
AcceptFails ==
  /\ sock[Listener] = "listen"
  /\ used < MaxExtra
  /\ used' = used + 1
  /\ Tell("err", fd)
  /\ UNCHANGED <<sock, pipe, service, replied, fd>>

\* onRecvMessage; a half-closed socket drops what it receives.
Data(c) ==
  /\ sock[c] = "open" /\ used < MaxExtra
  /\ used' = used + 1
  /\ Tell("data", c)
  /\ UNCHANGED <<sock, pipe, service, replied, fd>>

\* The peer closes, an error occurs, or the last bytes of a half-closed
\* socket have been sent.
End(c) ==
  /\ sock[c] \in {"open", "half"}
  /\ Becomes(c, "gone")
  /\ \E t \in {"close", "err"} : Tell(t, c)
  /\ UNCHANGED <<pipe, service, replied, fd, used>>

Serve == ListenSocket \/ StartSocket \/ CloseSocket

\* Another service answers a client the gateway has told it of.
Reply(c) ==
  /\ sock[c] # "none"
  /\ used < MaxExtra
  /\ used' = used + 1
  /\ Tell("answer", c)
  /\ UNCHANGED <<sock, pipe, service, replied, fd>>
-----------------------------------------------------------------------------
\* ucstart's start event is the first.
Init ==
  /\ sock = [i \in Ids |-> "none"]
  /\ pipe = <<>>
  /\ queue = <<Event("start", 0)>>
  /\ conns = [i \in {} |-> FALSE]
  /\ replied = {}
  /\ fd \in 0 .. LastId
  /\ unlined = [c \in Clients |-> 0]
  /\ used = 0

Next ==
  \/ Handle
  \/ Serve
  \/ AcceptFails
  \/ \E c \in Clients : Accept(c) \/ Data(c) \/ End(c) \/ Reply(c)

\* The service is served (EventsServed of Dispatch), and the polling thread
\* looks for commands before each poll.
Fairness == WF_vars(Handle) /\ WF_vars(Serve)

Spec == Init /\ [][Next]_vars /\ Fairness
-----------------------------------------------------------------------------
Told(t, i) == \E k \in DOMAIN queue : queue[k].type = t /\ queue[k].id = i
Asked(x, i) == \E k \in DOMAIN pipe : pipe[k] = [cmd |-> x, id |-> i]
Offered(c) == \E k \in DOMAIN queue : queue[k].type = "accept" /\ queue[k].ud = c

\* When an accepted client is handed to the service, the listener's entry is
\* there and open, so that onAccept neither closes the listener nor forgets
\* the client, although errors and closes of the listener race with it.
AcceptFindsListener ==
  queue # <<>> /\ Head(queue).type = "accept" => Connected(Listener)

\* No client is forgotten: the socket server has none open that neither the
\* driver's map nor an event or a command on its way knows of.
NoneForgotten ==
  \A c \in Clients :
    sock[c] \in {"paccept", "open", "half"} => Known(c) \/ Offered(c) \/ Asked("K", c)

\* What the driver takes for connected is so, or the end of it is on its way
\* to the service, if need be by way of the shutdown that onError asks for.
\* Only then can socketSend refuse an answer, which is freed twice.
ConnectedIsOpen ==
  \A c \in Clients :
    Connected(c) => sock[c] \in {"open", "half"} \/ Told("close", c) \/ Told("err", c) \/ Asked("H", c)

\* onError shuts down a socket that has ended by itself; the one exception is
\* the innocent one whose id is the listener's descriptor.
ShutdownsAreDue ==
  \A i \in Ids : Asked("H", i) => Missing(i) \/ i = fd

Game == INSTANCE Sessions WITH
  stage <- [c \in Clients |-> IF unlined[c] > 0 THEN "ended"
                              ELSE IF ~Known(c) THEN "outside"
                              ELSE IF conns[c] THEN "open" ELSE "admitted"],
  told  <- unlined,
  lost  <- {c \in Clients : sock[c] = "gone"}

\* However closes, errors, shutdowns and their answers cross, each session
\* runs its course and its end is reported once ...
ImplementsSessions == Game!SessionsSpec

\* ... and is reported indeed: onError leaves the entry to a close event, and
\* one comes for every socket, gone or not.
EndsReported == Game!Reported
=============================================================================
