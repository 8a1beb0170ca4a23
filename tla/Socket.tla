------------------------------- MODULE Socket -------------------------------
(***************************************************************************)
(* The socket server (usocket_server.cc, usocket.cc): a table of sockets   *)
(* that one polling thread works on, told what to do by commands in a      *)
(* pipe.  Services reserve slots and write to sockets from their own       *)
(* threads.  Only the write and the close itself are under a socket's      *)
(* lock; all other reads and writes of a slot are where the code has them. *)
(***************************************************************************)
EXTENDS Integers, Sequences, FiniteSets

CONSTANTS
  Services,  \* a socket belongs to one service, and a service makes one call at a time
  Size,      \* NT_MAX_SOCKET
  MaxId,     \* bound: ids handed out
  MaxCalls,  \* bound: starts, closes and shutdowns
  MaxSend,   \* bound: sends
  None

ASSUME SocketAssumption ==
  /\ Size \in Nat \ {0} /\ MaxId \in Nat /\ MaxCalls \in Nat /\ MaxSend \in Nat
  /\ IsFiniteSet(Services) /\ None \notin Services /\ None \notin Nat
  /\ None \notin {"close", "slot", "count", "size"}

VARIABLES
  sock,     \* sockAry__
  lock,     \* lock[s]: the service that has lock__ of slot s
  alloc,    \* sockAlloc__
  pipe,     \* the commands in uchannel's pipe
  call,     \* call[c]: where service c is in a call
  at,       \* where the polling thread is
  op,       \* with which slot and id, and whether for a shutdown
  check,    \* cCtrl__: look for commands before the next event
  ready,    \* the events of the last poll that are not handled
  owner,    \* owner[i]: opaque__, the service of socket i
  heard,    \* heard[i]: the kinds of events forwarded about i
  wire,     \* wire[i]: what was written to connection i, a message per part
  target,   \* target[m]: the socket message m was sent to
  calls,    \* starts, closes and shutdowns so far
  failed,   \* the assertion that has ended the process
  stale     \* history: a command or a sender has met a slot that was not its own any more

slotVars    == <<sock, lock, alloc>>
serviceVars == <<call, calls, target>>
pollVars    == <<at, op, check, ready>>
vars == <<slotVars, serviceVars, pollVars, pipe, owner, heard, wire, failed, stale>>

Slots == 0 .. Size - 1
Ids   == 1 .. MaxId
Pos(i) == i % Size      \* NT_IDTOPOS
Tag(i) == i \div Size   \* NT_ID_TAG16

\* doInit.  conn: not a listening socket.
Opened(i, st, conn) ==
  [id |-> i, status |-> st, tcp |-> TRUE, sck |-> i, conn |-> conn,
   tag |-> Tag(i), refs |-> 0, list |-> <<>>, buf |-> <<>>, size |-> 0,
   reg |-> FALSE, wr |-> FALSE]

\* isForward: (forwardIn__ && 0xffff) == 0 is the test for a forwardIn__ of zero,
\* its upper half, the tag, included.
Idle(k) == k.list = <<>> /\ k.buf = <<>> /\ k.tag = 0 /\ k.refs = 0

\* forwardSocket.  Closed and failed are the same to the receiver: the end.
Tell(i, kind) ==
  heard' = [heard EXCEPT ![i] = @ \cup ({kind} \ {"data"}) \cup
              (IF kind # "end" /\ "end" \in @ THEN {"late"} ELSE {})]

Alive == failed = None
-----------------------------------------------------------------------------
\* The slots reserveId can take, by the id it gives them.
Reservable == {i \in alloc + 1 .. alloc + Size :
                 sock[Pos(i)].status = "invalid" /\
                 \A j \in alloc + 1 .. i - 1 : sock[Pos(j)].status # "invalid"}

\* reserveId up to its compare-and-swap ...
Claim(i) ==
  /\ i \in Reservable
  /\ i <= MaxId
  /\ alloc' = i
  /\ sock' = [sock EXCEPT ![Pos(i)].status = "reserve"]
  /\ UNCHANGED lock

\* ... and after it.
Named(i) == [sock[Pos(i)] EXCEPT !.id = i, !.tcp = FALSE, !.sck = None]

\* socketListen
Listen(c) ==
  /\ Alive /\ call[c].pc = "idle"
  /\ \E i \in Ids :
       /\ Claim(i)
       /\ call' = [call EXCEPT ![c] = [pc |-> "reserved", id |-> i]]
  /\ UNCHANGED <<pollVars, pipe, owner, heard, wire, calls, target, failed, stale>>

ListenPost(c) ==
  LET i == call[c].id IN
  /\ Alive /\ call[c].pc = "reserved"
  /\ sock' = [sock EXCEPT ![Pos(i)] = Named(i)]
  /\ owner' = [owner EXCEPT ![i] = c]
  /\ pipe' = Append(pipe, [cmd |-> "L", id |-> i])
  /\ call' = [call EXCEPT ![c] = [pc |-> "idle", id |-> None]]
  /\ UNCHANGED <<lock, alloc, pollVars, heard, wire, target, calls, failed, stale>>

\* socketStart, socketClose, socketShutdown
Request(c, x, i) ==
  /\ Alive /\ call[c].pc = "idle" /\ calls < MaxCalls
  /\ owner[i] = c
  /\ pipe' = Append(pipe, [cmd |-> x, id |-> i])
  /\ calls' = calls + 1
  /\ UNCHANGED <<slotVars, pollVars, call, owner, heard, wire, target, failed, stale>>

\* socketSend.  unetdrive::send has seen the socket open, and need not have
\* seen it close.
Send(c, i) ==
  LET k == sock[Pos(i)] IN
  /\ Alive /\ call[c].pc = "idle" /\ Len(target) < MaxSend
  /\ owner[i] = c /\ "open" \in heard[i]
  /\ target' = Append(target, i)
  /\ call' = IF k.id # i \/ k.status = "invalid" THEN call
             ELSE [call EXCEPT ![c] = [pc |-> "probe", id |-> i]]
  /\ UNCHANGED <<slotVars, pollVars, pipe, owner, heard, wire, calls, failed, stale>>

Goto(c, pc) == call' = [call EXCEPT ![c].pc = pc]

\* isCanDirectWrite reads the lists first and then the counter and the
\* status; without the lock, and again with it.
Probe(c) ==
  LET k == sock[Pos(call[c].id)] IN
  /\ Alive /\ call[c].pc \in {"probe", "recheck"}
  /\ IF k.id = call[c].id /\ k.list = <<>> /\ k.buf = <<>>
     THEN Goto(c, IF call[c].pc = "probe" THEN "try" ELSE "verify") /\ UNCHANGED lock
     ELSE /\ Goto(c, "inc")
          /\ lock' = IF call[c].pc = "probe" THEN lock ELSE [lock EXCEPT ![Pos(call[c].id)] = None]
  /\ UNCHANGED <<sock, alloc, pollVars, pipe, owner, heard, wire, calls, target, failed, stale>>

Ready(k) == k.tag = 0 /\ k.refs = 0 /\ k.status = "connected"

\* Mutant: nothing is looked at again under the lock.
TryOnce(c) ==
  LET s == Pos(call[c].id) IN
  /\ Alive /\ call[c].pc = "try"
  /\ \/ /\ Ready(sock[s]) /\ lock[s] = None
        /\ Goto(c, "write")
        /\ lock' = [lock EXCEPT ![s] = c]
     \/ Goto(c, "inc") /\ UNCHANGED lock
  /\ UNCHANGED <<sock, alloc, pollVars, pipe, owner, heard, wire, calls, target, failed, stale>>

\* The polling thread may have the lock just now: what it does with it is one
\* step of this module.
Try(c) ==
  LET s == Pos(call[c].id) IN
  /\ Alive /\ call[c].pc = "try"
  /\ \/ /\ Ready(sock[s]) /\ lock[s] = None
        /\ Goto(c, "recheck")
        /\ lock' = [lock EXCEPT ![s] = c]
     \/ Goto(c, "inc") /\ UNCHANGED lock
  /\ UNCHANGED <<sock, alloc, pollVars, pipe, owner, heard, wire, calls, target, failed, stale>>

Verify(c) ==
  LET s == Pos(call[c].id) IN
  /\ Alive /\ call[c].pc = "verify"
  /\ IF Ready(sock[s])
     THEN Goto(c, "write") /\ UNCHANGED lock
     ELSE Goto(c, "inc") /\ lock' = [lock EXCEPT ![s] = None]
  /\ UNCHANGED <<sock, alloc, pollVars, pipe, owner, heard, wire, calls, target, failed, stale>>

\* The message that service c is sending.
Message(c) == CHOOSE m \in DOMAIN target :
  target[m] = call[c].id /\ \A n \in m + 1 .. Len(target) : target[n] # call[c].id

\* A message has two parts, and a write takes some of them.
Parts(ms) == [j \in 1 .. 2 * Len(ms) |-> ms[(j + 1) \div 2]]

\* onForwardData, and the unlock.
DirectWrite(c) ==
  LET s == Pos(call[c].id)
      m == Parts(<<Message(c)>>)
  IN
  /\ Alive /\ call[c].pc = "write"
  /\ \E n \in 0 .. 2 :
       /\ wire' = [wire EXCEPT ![sock[s].sck] = @ \o SubSeq(m, 1, n)]
       /\ sock' = [sock EXCEPT ![s].buf = SubSeq(m, n + 1, 2), ![s].wr = sock[s].reg /\ (@ \/ n < 2)]
  /\ lock' = [lock EXCEPT ![s] = None]
  /\ call' = [call EXCEPT ![c] = [pc |-> "idle", id |-> None]]
  /\ UNCHANGED <<alloc, pollVars, pipe, owner, heard, calls, target, failed, stale>>

\* incForwardRef, which asks for the socket that is in the slot now.
Inc(c) ==
  LET k == sock[Pos(call[c].id)] IN
  /\ Alive /\ call[c].pc = "inc"
  /\ sock' = IF k.tcp /\ k.tag = Tag(k.id)
             THEN [sock EXCEPT ![Pos(call[c].id)].refs = @ + 1] ELSE sock
  /\ stale' = (stale \/ k.id # call[c].id)
  /\ Goto(c, "post")
  /\ UNCHANGED <<lock, alloc, pollVars, pipe, owner, heard, wire, calls, target, failed>>

Post(c) ==
  /\ Alive /\ call[c].pc = "post"
  /\ pipe' = Append(pipe, [cmd |-> "D", id |-> call[c].id, msg |-> Message(c)])
  /\ call' = [call EXCEPT ![c] = [pc |-> "idle", id |-> None]]
  /\ UNCHANGED <<slotVars, pollVars, owner, heard, wire, calls, target, failed, stale>>
-----------------------------------------------------------------------------
(***************************************************************************)
(* The polling thread.                                                     *)
(***************************************************************************)
Keeps == UNCHANGED <<lock, serviceVars>>

At(s, i) == [slot |-> s, id |-> i, hard |-> FALSE]
Loop == at' = "loop" /\ op' = At(None, None)

\* onClose, up to the lock: what is not sent is dropped.
BeginClose(s, i) ==
  IF sock[s].status = "reserve"
  THEN failed' = "close" /\ UNCHANGED <<sock, at, op>>
  ELSE /\ sock' = [sock EXCEPT ![s].list = <<>>, ![s].reg = FALSE, ![s].wr = FALSE]
       /\ at' = "close"
       /\ op' = At(s, i)
       /\ UNCHANGED failed

\* onWait returns and forgets the events it has not handled.
Return == Loop /\ ready' = {}

Closed(k) == [k EXCEPT !.status = "invalid", !.list = <<>>, !.buf = <<>>, !.reg = FALSE, !.wr = FALSE]

\* Mutant: onClose does not wait for a service that writes.
CloseAnyway ==
  /\ Alive /\ at = "close"
  /\ sock' = [sock EXCEPT ![op.slot] = Closed(@)]
  /\ Tell(op.id, "end")
  /\ Return
  /\ UNCHANGED <<alloc, check, pipe, owner, wire, failed, stale>> /\ Keeps

\* Mutant: the events not handled are kept for the next call.
CloseKeeps ==
  /\ Alive /\ at = "close"
  /\ lock[op.slot] = None
  /\ sock' = [sock EXCEPT ![op.slot] = Closed(@)]
  /\ Tell(op.id, "end")
  /\ Loop
  /\ UNCHANGED <<alloc, check, ready, pipe, owner, wire, failed, stale>> /\ Keeps

\* Mutant: the status stays.
CloseForgets ==
  /\ Alive /\ at = "close"
  /\ lock[op.slot] = None
  /\ sock' = [sock EXCEPT ![op.slot].list = <<>>, ![op.slot].buf = <<>>]
  /\ Tell(op.id, "end")
  /\ Return
  /\ UNCHANGED <<alloc, check, pipe, owner, wire, failed, stale>> /\ Keeps

\* ... and under the lock, with the event that tells of it.
Close ==
  /\ Alive /\ at = "close"
  /\ lock[op.slot] = None
  /\ sock' = [sock EXCEPT ![op.slot] = Closed(@)]
  /\ Tell(op.id, "end")
  /\ Return
  /\ UNCHANGED <<alloc, check, pipe, owner, wire, failed, stale>> /\ Keeps

\* What is to be sent, when onForward has put forwardBuffer__ in front.
Queued(k) == k.buf \o k.list

\* onForward with the lock: some of it is sent, and a socket that waited for
\* its last bytes is closed; a failing write closes it as well.
Forward(s, i, next, rest) ==
  LET k == sock[s]
      q == Queued(k)
      Shut == /\ sock' = [sock EXCEPT ![s] = Closed(@)]
              /\ Tell(i, "end")
              /\ Return
              /\ UNCHANGED failed
  IN
  \/ \E n \in 0 .. (IF k.tcp /\ k.status # "reserve" THEN Len(q) ELSE 0) :
       LET left == SubSeq(q, n + 1, Len(q))
           size == k.size + Len(k.buf) - n
       IN
       /\ wire' = IF n = 0 THEN wire ELSE [wire EXCEPT ![k.sck] = @ \o SubSeq(q, 1, n)]
       /\ \/ /\ left = <<>> /\ size # 0
             /\ failed' = "size"
             /\ UNCHANGED <<sock, at, op, ready, heard>>
          \/ left = <<>> /\ size = 0 /\ k.status = "halfclose" /\ Shut
          \/ /\ left # <<>> \/ (size = 0 /\ k.status # "halfclose")
             /\ sock' = [sock EXCEPT ![s].list = left, ![s].buf = <<>>, ![s].size = size,
                                     ![s].wr = @ /\ left # <<>>]
             /\ next /\ ready' = rest
             /\ UNCHANGED <<heard, failed>>
  \/ /\ q # <<>> /\ k.tcp
     /\ \/ k.status = "reserve" /\ failed' = "close" /\ UNCHANGED <<sock, at, op, ready, heard>>
        \/ k.status # "reserve" /\ Shut
     /\ UNCHANGED wire

\* onChannelRecv
Take(x) == Alive /\ at = "loop" /\ check /\ pipe # <<>> /\ Head(pipe).cmd = x /\ pipe' = Tail(pipe)

Missing(k, i) == k.status = "invalid" \/ k.id # i
Meets(k, i) == stale' = (stale \/ (k.id = i /\ k.status = "reserve"))

\* operListenSocket
ListenSocket ==
  LET i == Head(pipe).id IN
  /\ Take("L")
  /\ IF sock[Pos(i)].status = "reserve"
     THEN sock' = [sock EXCEPT ![Pos(i)] = Opened(i, "plisten", FALSE)] /\ UNCHANGED failed
     ELSE failed' = "slot" /\ UNCHANGED sock
  /\ UNCHANGED <<alloc, at, op, check, ready, owner, heard, wire, stale>> /\ Keeps

\* operStartSocket; the registration with the poller may fail.
StartSocket ==
  LET i == Head(pipe).id
      s == Pos(i)
      k == sock[s]
      pending == ~Missing(k, i) /\ k.status \in {"paccept", "plisten"}
      Same == UNCHANGED <<sock, failed>>
  IN
  /\ Take("S")
  /\ \/ Missing(k, i) /\ Tell(i, "end") /\ Return /\ Same
     \/ /\ pending
        /\ sock' = [sock EXCEPT ![s].status = IF @ = "paccept" THEN "connected" ELSE "listen",
                                ![s].reg = TRUE]
        /\ Tell(i, "open") /\ Return
        /\ UNCHANGED failed
     \/ pending /\ BeginClose(s, i) /\ UNCHANGED <<ready, heard>>
     \/ ~Missing(k, i) /\ k.status = "connected" /\ Tell(i, "open") /\ Return /\ Same
     \/ /\ ~Missing(k, i) /\ k.status \notin {"paccept", "plisten", "connected"}
        /\ UNCHANGED <<at, op, ready, heard>> /\ Same
  /\ Meets(k, i)
  /\ UNCHANGED <<alloc, check, owner, wire>> /\ Keeps

\* Mutant: a packet that is dropped is not counted off.
SendSocketDrops ==
  LET i == Head(pipe).id
      s == Pos(i)
      k == sock[s]
      drop == Missing(k, i) \/ k.status \in {"halfclose", "paccept", "plisten", "listen"}
  IN
  /\ Take("D")
  /\ sock' = IF drop THEN sock
             ELSE [sock EXCEPT ![s].list = @ \o Parts(<<Head(pipe).msg>>), ![s].size = @ + 2,
                               ![s].wr = @ \/ (k.reg /\ k.list = <<>> /\ k.status = "connected")]
  /\ IF drop THEN UNCHANGED <<at, op>>
     ELSE at' = "dec" /\ op' = At(s, i)
  /\ Meets(k, i)
  /\ UNCHANGED <<alloc, check, ready, owner, heard, wire, failed>> /\ Keeps

\* operForwardSocket
SendSocket ==
  LET i == Head(pipe).id
      s == Pos(i)
      k == sock[s]
  IN
  /\ Take("D")
  /\ sock' = IF Missing(k, i) \/ k.status \in {"halfclose", "paccept", "plisten", "listen"} THEN sock
             ELSE [sock EXCEPT ![s].list = @ \o Parts(<<Head(pipe).msg>>), ![s].size = @ + 2,
                               ![s].wr = @ \/ (k.reg /\ k.list = <<>> /\ k.status = "connected")]
  /\ at' = "dec"
  /\ op' = At(s, i)
  /\ Meets(k, i)
  /\ UNCHANGED <<alloc, check, ready, owner, heard, wire, failed>> /\ Keeps

\* Mutant: whatever is in the slot.
DecAny ==
  /\ Alive /\ at = "dec"
  /\ Loop
  /\ IF sock[op.slot].tcp /\ sock[op.slot].refs # 0
     THEN sock' = [sock EXCEPT ![op.slot].refs = @ - 1] /\ UNCHANGED failed
     ELSE UNCHANGED sock /\ failed' = IF sock[op.slot].tcp THEN "count" ELSE failed
  /\ UNCHANGED <<alloc, check, ready, pipe, owner, heard, wire, stale>> /\ Keeps

\* operDecForwardSocket
Dec ==
  LET k == sock[op.slot] IN
  /\ Alive /\ at = "dec"
  /\ Loop
  /\ \/ (k.id # op.id \/ ~k.tcp) /\ UNCHANGED <<sock, failed>>
     \/ k.id = op.id /\ k.tcp /\ k.refs = 0 /\ failed' = "count" /\ UNCHANGED sock
     \/ k.id = op.id /\ k.tcp /\ k.refs # 0
        /\ sock' = [sock EXCEPT ![op.slot].refs = @ - 1] /\ UNCHANGED failed
  /\ UNCHANGED <<alloc, check, ready, pipe, owner, heard, wire, stale>> /\ Keeps

\* operCloseSocket: "K", and with shutdown "H".
CloseSocket(x) ==
  LET i == Head(pipe).id
      k == sock[Pos(i)]
  IN
  /\ Take(x)
  /\ IF Missing(k, i)
     THEN Tell(i, "end") /\ Return
     ELSE /\ at' = IF Idle(k) THEN "ask" ELSE "flush"
          /\ op' = [At(Pos(i), i) EXCEPT !.hard = (x = "H")]
          /\ UNCHANGED <<ready, heard>>
  /\ Meets(k, i)
  /\ UNCHANGED <<sock, alloc, check, owner, wire, failed>> /\ Keeps

CloseFlush ==
  /\ Alive /\ at = "flush"
  /\ IF lock[op.slot] = None
     THEN Forward(op.slot, sock[op.slot].id, at' = "ask" /\ UNCHANGED op, ready)
     ELSE at' = "ask" /\ UNCHANGED <<sock, op, ready, heard, wire, failed>>
  /\ UNCHANGED <<alloc, check, pipe, owner, stale>> /\ Keeps

CloseAsk ==
  LET k == sock[op.slot] IN
  /\ Alive /\ at = "ask"
  /\ IF op.hard \/ Idle(k)
     THEN BeginClose(op.slot, op.id)
     ELSE /\ sock' = [sock EXCEPT ![op.slot].status = "halfclose"]
          /\ Loop
          /\ UNCHANGED failed
  /\ UNCHANGED <<alloc, check, ready, pipe, owner, heard, wire, stale>> /\ Keeps

\* uchannel::onWait finds the pipe empty.
Drained ==
  /\ Alive /\ at = "loop" /\ check /\ pipe = <<>>
  /\ check' = FALSE
  /\ UNCHANGED <<slotVars, at, op, ready, pipe, owner, heard, wire, failed, stale>> /\ Keeps

\* The poll: some sockets have something to read, or room for what they have
\* to write; and the first event is handled before the pipe is looked at
\* again, unless it is the pipe's own.
Offers == {s \in Slots : sock[s].reg}
Wait ==
  /\ Alive /\ at = "loop" /\ ~check /\ ready = {}
  /\ \E r \in SUBSET Offers, w \in SUBSET {s \in Offers : sock[s].wr} :
       /\ r \cup w # {} \/ pipe # <<>>
       /\ ready' = {[slot |-> s, id |-> sock[s].id, r |-> s \in r, w |-> s \in w] : s \in r \cup w}
       /\ at' \in (IF r \cup w # {} THEN {"first"} ELSE {}) \cup (IF pipe # <<>> THEN {"loop"} ELSE {})
  /\ check' = TRUE
  /\ UNCHANGED <<slotVars, op, pipe, owner, heard, wire, failed, stale>> /\ Keeps

\* An event whose turn it is.  (Its slot is never invalid: see EventsAreFresh.)
Event(e) ==
  /\ Alive
  /\ at = "first" \/ (at = "loop" /\ ~check)
  /\ UNCHANGED <<check, pipe, stale>> /\ Keeps

\* What is left when e has been read; its write event comes by itself.
Rest(e) == IF e.w THEN (ready \ {e}) \cup {[e EXCEPT !.r = FALSE]} ELSE ready \ {e}

\* onReportAccept: a connection gets a slot, accept() fails in one way or
\* another, or there is no slot.  (The error for want of descriptors names the
\* descriptor of the listener in place of its id, and is left out.)
Accept(e) ==
  /\ Event(e)
  /\ sock[e.slot].status = "listen"
  /\ \/ \E i \in Ids : /\ Claim(i)
                       /\ at' = "accept"
                       /\ op' = At(e.slot, i)
                       /\ UNCHANGED ready
     \/ Return /\ UNCHANGED slotVars
     \/ Loop /\ ready' = ready \ {e} /\ UNCHANGED slotVars
     \/ /\ Reservable = {} /\ alloc + Size <= MaxId
        /\ alloc' = alloc + Size
        /\ Loop /\ ready' = ready \ {e} /\ UNCHANGED <<sock, lock>>
  /\ UNCHANGED <<owner, heard, wire, failed>>

Accepted ==
  /\ Alive /\ at = "accept"
  /\ sock' = [sock EXCEPT ![Pos(op.id)] = Opened(op.id, "paccept", TRUE)]
  /\ owner' = [owner EXCEPT ![op.id] = owner[sock[op.slot].id]]
  /\ Return
  /\ UNCHANGED <<alloc, check, pipe, heard, wire, failed, stale>> /\ Keeps

Busy(s) == sock[s].status \notin {"invalid", "listen"}

\* onRecvMessage: nothing to tell, some data, or the end of the connection.
Receive(e) ==
  LET s == e.slot
      k == sock[s]
  IN
  /\ Event(e) /\ e.r /\ Busy(s)
  /\ \/ Loop /\ ready' = Rest(e) /\ UNCHANGED <<sock, heard, failed>>
     \/ /\ k.tcp /\ k.conn /\ k.status # "halfclose"
        /\ Tell(k.id, "data") /\ Return
        /\ UNCHANGED <<sock, failed>>
     \/ k.tcp /\ BeginClose(s, k.id) /\ UNCHANGED <<ready, heard>>
  /\ UNCHANGED <<alloc, owner, wire>>

\* onForwardMessage on a write event
Write(e) ==
  /\ Event(e) /\ ~e.r /\ e.w /\ Busy(e.slot)
  /\ IF lock[e.slot] = None
     THEN Forward(e.slot, sock[e.slot].id, Loop, ready \ {e})
     ELSE Loop /\ ready' = ready \ {e} /\ UNCHANGED <<sock, heard, wire, failed>>
  /\ UNCHANGED <<alloc, owner>>

Init ==
  /\ sock = [s \in Slots |-> [Opened(0, "invalid", FALSE) EXCEPT !.id = None, !.tcp = FALSE, !.sck = None]]
  /\ lock = [s \in Slots |-> None]
  /\ alloc = 0
  /\ pipe = <<>>
  /\ call = [c \in Services |-> [pc |-> "idle", id |-> None]]
  /\ at = "loop"
  /\ op = At(None, None)
  /\ check = TRUE
  /\ ready = {}
  /\ owner = [i \in Ids |-> None]
  /\ heard = [i \in Ids |-> {}]
  /\ wire = [i \in Ids |-> <<>>]
  /\ target = <<>>
  /\ calls = 0
  /\ failed = None
  /\ stale = FALSE

Service(c) == Listen(c) \/ \E i \in Ids : Send(c, i) \/ \E x \in {"S", "K", "H"} : Request(c, x, i)
InCall(c) == ListenPost(c) \/ Probe(c) \/ Try(c) \/ Verify(c) \/ DirectWrite(c) \/ Inc(c) \/ Post(c)
Command == ListenSocket \/ StartSocket \/ SendSocket \/ (\E x \in {"K", "H"} : CloseSocket(x))
Inside == Close \/ Dec \/ CloseFlush \/ CloseAsk \/ Accepted \/ Drained
Handle(e) == Accept(e) \/ Receive(e) \/ Write(e)

Next ==
  \/ \E c \in Services : Service(c) \/ InCall(c)
  \/ Command \/ Inside \/ Wait \/ \E e \in ready : Handle(e)

Spec == Init /\ [][Next]_vars

\* The polling thread runs and a call goes on; what services and peers do is
\* up to them.
Polling == Command \/ Inside \/ Wait \/ \E e \in ready : Handle(e)
FairSpec == Spec /\ WF_vars(Polling) /\ \A c \in Services : WF_vars(InCall(c))
-----------------------------------------------------------------------------
(***************************************************************************)
(* Type correctness of the slots, the pipe and the polling thread.         *)
(***************************************************************************)
Status == {"invalid", "reserve", "plisten", "listen", "paccept", "connected", "halfclose"}
Socket == [id : Ids \cup {0, None}, status : Status, tcp : BOOLEAN, sck : Ids \cup {0, None},
           conn : BOOLEAN, tag : Nat, refs : Nat, list : Seq(Nat), buf : Seq(Nat), size : Int,
           reg : BOOLEAN, wr : BOOLEAN]
Places == {"loop", "first", "dec", "flush", "ask", "close", "accept"}
Steps == {"idle", "reserved", "probe", "try", "recheck", "verify", "write", "inc", "post"}
TypeOK ==
  /\ sock \in [Slots -> Socket]
  /\ lock \in [Slots -> Services \cup {None}]
  /\ alloc \in 0 .. MaxId
  /\ \A j \in DOMAIN pipe : pipe[j].cmd \in {"L", "S", "D", "K", "H"} /\ pipe[j].id \in Ids
  /\ \A c \in Services : call[c].pc \in Steps /\ call[c].id \in Ids \cup {None}
  /\ at \in Places /\ check \in BOOLEAN /\ stale \in BOOLEAN
  /\ failed \in {None, "close", "slot", "count", "size"}

(***************************************************************************)
(* The assertions of the socket server (newSocket, onClose, decForwardRef, *)
(* beginForward): the counter of packets never falls below zero; sizes and *)
(* statuses are as expected unless a command or a sender has met a slot    *)
(* in the instant between its reservation and its new id.                  *)
(***************************************************************************)
AssertionsHold ==
  /\ failed # "count"
  /\ failed # None => stale

(***************************************************************************)
(* No event of a poll is handled for another socket than it was reported   *)
(* for, although the event names the slot and slots are used again: onWait *)
(* gives up the rest of a poll whenever it closes a socket.  A stale close *)
(* can free a reserved slot, which then has two owners: nothing is said    *)
(* of what follows, here and below.                                        *)
(***************************************************************************)
EventsAreFresh == ~stale => \A e \in ready :
  /\ sock[e.slot].id = e.id
  /\ sock[e.slot].status \notin {"invalid", "reserve"}

\* The members of a finite set of numbers, in ascending order.
Ranked(M, k) == {m \in M : Cardinality({n \in M : n <= m}) = k}
Ascending(M) == [k \in 1 .. Cardinality(M) |-> CHOOSE m \in Ranked(M, k) : TRUE]

(***************************************************************************)
(* What a service has sent on an open connection is on the wire, or waits  *)
(* in the rest of a direct write, in the list, in the pipe or in the call, *)
(* whole, once and in this order, whichever thread writes.                 *)
(***************************************************************************)
Sent(i) == {m \in DOMAIN target : target[m] = i}
Packets(i) == {j \in DOMAIN pipe : pipe[j].cmd = "D" /\ pipe[j].id = i}
InPipe(i) == LET js == Ascending(Packets(i)) IN [k \in DOMAIN js |-> pipe[js[k]].msg]
Sending(i) == {c \in Services : call[c].id = i /\ call[c].pc \notin {"idle", "reserved"}}
InSend(i) == Ascending({Message(c) : c \in Sending(i)})
Closing(s) == at = "close" /\ op.slot = s
Conserved == ~stale => \A s \in Slots : LET k == sock[s] IN
  k.status = "connected" /\ ~Closing(s) =>
    wire[k.id] \o k.buf \o k.list \o Parts(InPipe(k.id) \o InSend(k.id)) = Parts(Ascending(Sent(k.id)))

(***************************************************************************)
(* forwardIn__ counts the packets on their way to a socket, through every  *)
(* reuse of the slot; only a sender that met the slot's next owner leaves  *)
(* it too high.                                                            *)
(***************************************************************************)
InFlight(i) == Cardinality({j \in DOMAIN pipe : pipe[j].cmd = "D" /\ pipe[j].id = i})
             + Cardinality({c \in Services : call[c].pc = "post" /\ call[c].id = i})
             + (IF at = "dec" /\ op.id = i THEN 1 ELSE 0)
Counted == \A s \in Slots : sock[s].tcp =>
  /\ sock[s].refs >= InFlight(sock[s].id)
  /\ sock[s].refs = InFlight(sock[s].id) \/ stale

(***************************************************************************)
(* A service that was told of the end of a socket is not told of data or   *)
(* of its opening afterwards: unetdrive deletes its buffers at the end.    *)
(***************************************************************************)
NothingAfterTheEnd == ~stale => \A i \in Ids : "late" \notin heard[i]

(***************************************************************************)
(* Nothing is written to a connection once its descriptor is closed, nor   *)
(* to the one that comes into its slot: a service that has passed its      *)
(* tests writes before the close or not at all.                            *)
(***************************************************************************)
Live(i) == \E s \in Slots : sock[s].sck = i /\ sock[s].status \notin {"invalid", "reserve"}
ClosedIsSilent == [][\A i \in Ids : wire'[i] # wire[i] => Live(i)]_vars

(***************************************************************************)
(* A close that a service asks for is answered: unetdrive waits for the    *)
(* answer to delete its resources.                                         *)
(***************************************************************************)
CloseAnswered == \A i \in Ids :
  (\E j \in DOMAIN pipe : pipe[j].cmd = "K" /\ pipe[j].id = i /\ "open" \in heard[i])
    ~> (failed # None \/ "end" \in heard[i])
=============================================================================
