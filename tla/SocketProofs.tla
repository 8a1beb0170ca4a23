---------------------------- MODULE SocketProofs ----------------------------
(***************************************************************************)
(* The socket server with any number of services, slots and ids: every     *)
(* step of a service between any two of the polling thread's.              *)
(***************************************************************************)
EXTENDS Socket, SequenceTheorems, FiniteSetTheorems, FunctionTheorems, TLAPS

(***************************************************************************)
(* The types of all that the code keeps.                                   *)
(***************************************************************************)
SlotIds  == Ids \cup {0, None}
Commands == [cmd : {"L", "S", "K", "H"}, id : Ids] \cup [cmd : {"D"}, id : Ids, msg : Nat]
Calls    == [pc : Steps, id : Ids \cup {None}]
Ops      == [slot : Slots \cup {None}, id : SlotIds, hard : BOOLEAN]
Reports  == [slot : Slots, id : SlotIds, r : BOOLEAN, w : BOOLEAN]
Notices  == {"open", "end", "late"}
Failures == {None, "close", "slot", "count", "size"}

SlotTypes ==
  /\ sock \in [Slots -> Socket]
  /\ lock \in [Slots -> Services \cup {None}]
  /\ alloc \in 0 .. MaxId
CallTypes ==
  /\ pipe \in Seq(Commands)
  /\ call \in [Services -> Calls]
  /\ target \in Seq(Ids)
  /\ owner \in [Ids -> Services \cup {None}]
  /\ heard \in [Ids -> SUBSET Notices]
  /\ DOMAIN wire = Ids
PollTypes ==
  /\ at \in Places /\ op \in Ops /\ check \in BOOLEAN
  /\ ready \in SUBSET Reports
  /\ failed \in Failures /\ stale \in BOOLEAN

\* A service that sends has a message, and which is the last for its socket.
SendSteps == {"probe", "try", "recheck", "verify", "write", "inc", "post"}
HasMessage(c) == \E m \in DOMAIN target :
  target[m] = call[c].id /\ \A n \in m + 1 .. Len(target) : target[n] # call[c].id
InHand ==
  /\ \A c \in Services : call[c].pc # "idle" => call[c].id \in Ids
  /\ \A c \in Services : call[c].pc \in SendSteps => HasMessage(c)
  /\ at \in {"flush", "ask", "close", "accept"} => op.slot \in Slots
  /\ at \in {"dec", "accept"} => op.id \in Ids
  /\ at = "dec" => op.slot = Pos(op.id)

Types == SlotTypes /\ CallTypes /\ PollTypes /\ InHand

(***************************************************************************)
(* A service that writes has the lock, and the socket stays as it is but   *)
(* for a soft close; the polling thread has no closed slot in hand.        *)
(***************************************************************************)
Locked ==
  /\ \A c \in Services : call[c].pc \in {"recheck", "verify", "write"} => lock[Pos(call[c].id)] = c
  /\ \A c \in Services : call[c].pc = "write" =>
       sock[Pos(call[c].id)].status \in {"connected", "halfclose"}
  /\ at = "flush" => sock[op.slot].status # "invalid"
  /\ at = "accept" => sock[Pos(op.id)].status = "reserve"

\* A slot whose socket is a TCP socket has it where its id says.
Tagged == \A s \in Slots : sock[s].tcp =>
  sock[s].id \in Ids /\ Pos(sock[s].id) = s /\ sock[s].tag = Tag(sock[s].id)

\* A slot that is in use has an id.
IsOpen(s) == sock[s].status \notin {"invalid", "reserve"}
Ided ==
  /\ \A s \in Slots : IsOpen(s) => sock[s].id \in Ids
  /\ at \in {"flush", "ask", "accept"} => sock[op.slot].id \in Ids

SlotsInv == Types /\ Ided /\ Locked /\ Tagged

(***************************************************************************)
(* An id is given out once, and nothing is asked, sent or told of it       *)
(* before it has an owner; its L is the first command about it.            *)
(***************************************************************************)
Owned ==
  /\ \A i \in Ids : owner[i] # None => i <= alloc
  /\ \A s \in Slots : IsOpen(s) => owner[sock[s].id] # None
  /\ at \in {"flush", "ask", "accept"} => owner[sock[op.slot].id] # None
  /\ at \in {"flush", "ask", "close"} => op.id \in Ids /\ owner[op.id] # None
Silent == \A i \in Ids : owner[i] = None => heard[i] = {}
Once ==
  /\ \A c \in Services : call[c].pc = "reserved" =>
       call[c].id <= alloc /\ owner[call[c].id] = None
  /\ \A c, d \in Services : call[c].pc = "reserved" /\ call[d].pc = "reserved" /\ c # d =>
       call[c].id # call[d].id
  /\ at = "accept" => op.id <= alloc /\ owner[op.id] = None
  /\ \A c \in Services : at = "accept" /\ call[c].pc = "reserved" => call[c].id # op.id
Listening(i) == \E j \in DOMAIN pipe : pipe[j].cmd = "L" /\ pipe[j].id = i
InOrder ==
  /\ \A j \in DOMAIN pipe : owner[pipe[j].id] # None
  /\ \A j, k \in DOMAIN pipe : j < k /\ pipe[k].cmd = "L" => pipe[j].id # pipe[k].id
Opening ==
  /\ \A i \in Ids : Listening(i) => "open" \notin heard[i]
  /\ \A c \in Services : call[c].pc \in SendSteps => "open" \in heard[call[c].id]
  /\ \A j \in DOMAIN pipe : pipe[j].cmd = "D" => "open" \in heard[pipe[j].id]
  /\ at = "dec" => "open" \in heard[op.id]

OnceInv == SlotsInv /\ Owned /\ Silent /\ Once /\ InOrder /\ Opening
CountInv == OnceInv /\ Counted /\ failed # "count"

(***************************************************************************)
(* Until a command meets the next owner of a slot: a reserved slot has one *)
(* claim on it, a socket is where its id says and has an owner, and what   *)
(* the polling thread has in hand is open.                                 *)
(***************************************************************************)
Claimed ==
  /\ \A c \in Services : call[c].pc = "reserved" => sock[Pos(call[c].id)].status = "reserve"
  /\ \A i \in Ids : Listening(i) => sock[Pos(i)].status = "reserve" /\ sock[Pos(i)].id = i
OneClaim ==
  /\ \A c, d \in Services : call[c].pc = "reserved" /\ call[d].pc = "reserved" /\ c # d =>
       Pos(call[c].id) # Pos(call[d].id)
  /\ \A c \in Services : at = "accept" /\ call[c].pc = "reserved" => Pos(call[c].id) # Pos(op.id)
  /\ \A c \in Services, i \in Ids : call[c].pc = "reserved" /\ Listening(i) =>
       Pos(call[c].id) # Pos(i)
  /\ \A i \in Ids : at = "accept" /\ Listening(i) => Pos(op.id) # Pos(i)
OpenSlots == \A s \in Slots :
  /\ IsOpen(s) => Pos(sock[s].id) = s
  /\ sock[s].reg => IsOpen(s)
  /\ IsOpen(s) /\ ~Closing(s) => sock[s].size = Len(sock[s].list)
OpenInHand ==
  /\ \A e \in ready : IsOpen(e.slot) /\ sock[e.slot].id = e.id
  /\ at \in {"flush", "ask", "close", "accept"} => IsOpen(op.slot)
  /\ at \in {"flush", "ask", "close"} => sock[op.slot].id = op.id
Has(i) == IsOpen(Pos(i)) /\ sock[Pos(i)].id = i
Ended == \A i \in Ids :
  /\ "end" \in heard[i] => ~Listening(i) /\ ~Has(i)
  /\ "late" \notin heard[i]
Sound == failed = None /\ Claimed /\ OneClaim /\ OpenSlots /\ OpenInHand /\ Ended
SocketInv == CountInv /\ (~stale => Sound)
-----------------------------------------------------------------------------
(***************************************************************************)
(* The operators the module is built from.                                 *)
(***************************************************************************)
LEMMA PosType ==
  /\ Size \in Nat /\ Size > 0 /\ MaxId \in Nat
  /\ \A i \in Ids : i \in Nat /\ Pos(i) \in Slots /\ Tag(i) \in Nat
  /\ \A s \in Slots : s \in Nat
  /\ None \notin Ids /\ None \notin Slots /\ None # 0 /\ None \notin Services
BY SocketAssumption DEF Ids, Slots, Pos, Tag

\* A message makes two parts.
LEMMA PartsType ==
  ASSUME NEW m \in Nat
  PROVE  /\ Parts(<<m>>) \in Seq(Nat) /\ Len(Parts(<<m>>)) = 2
         /\ \A n \in 0 .. 2 : SubSeq(Parts(<<m>>), 1, n) \in Seq(Nat)
                           /\ SubSeq(Parts(<<m>>), n + 1, 2) \in Seq(Nat)
<1> DEFINE q == Parts(<<m>>)
<1>1. q = [j \in 1 .. 2 |-> m]
  BY DEF Parts
<1>2. q \in Seq(Nat) /\ Len(q) = 2 /\ \A j \in 1 .. 2 : q[j] \in Nat
  <2> HIDE DEF q
  <2>1. 2 \in Nat /\ \A j \in 1 .. 2 : q[j] = m
    BY <1>1
  <2>2. q \in [1 .. 2 -> Nat]
    BY <1>1
  <2>3. q \in Seq(Nat)
    BY <2>2, SeqDef, 2 \in Nat
  <2> QED
    BY <2>1, <2>2, <2>3, LenProperties
<1>3. ASSUME NEW n \in 0 .. 2
      PROVE  SubSeq(q, 1, n) \in Seq(Nat) /\ SubSeq(q, n + 1, 2) \in Seq(Nat)
  <2> HIDE DEF q
  <2>1. \A j \in 1 .. n : q[j] \in Nat
    BY <1>2
  <2>2. \A j \in n + 1 .. 2 : q[j] \in Nat
    BY <1>2
  <2> QED
    BY <2>1, <2>2, SubSeqProperties
<1> QED
  BY <1>2, <1>3

LEMMA MessageType ==
  ASSUME target \in Seq(Ids), NEW c, HasMessage(c)
  PROVE  Message(c) \in Nat
BY DEF HasMessage, Message

\* The command at the head of the pipe, and the pipe without it.
LEMMA PipeHead ==
  ASSUME pipe \in Seq(Commands), pipe # <<>>
  PROVE  /\ Head(pipe) \in Commands /\ Head(pipe) = pipe[1] /\ 1 \in DOMAIN pipe
         /\ Head(pipe).id \in Ids
         /\ Head(pipe).cmd = "D" => Head(pipe).msg \in Nat
         /\ Tail(pipe) \in Seq(Commands)
         /\ Len(Tail(pipe)) = Len(pipe) - 1
         /\ \A j \in DOMAIN Tail(pipe) : j + 1 \in DOMAIN pipe /\ Tail(pipe)[j] = pipe[j + 1]
<1>1. Head(pipe) \in Commands /\ Head(pipe) = pipe[1] /\ 1 \in DOMAIN pipe
  OBVIOUS
<1>2. Head(pipe).id \in Ids /\ (Head(pipe).cmd = "D" => Head(pipe).msg \in Nat)
  BY <1>1 DEF Commands
<1>3. /\ Tail(pipe) \in Seq(Commands)
      /\ Len(Tail(pipe)) = Len(pipe) - 1
      /\ \A j \in 1 .. Len(Tail(pipe)) : Tail(pipe)[j] = pipe[j + 1]
  BY HeadTailProperties
<1> QED
  BY <1>1, <1>2, <1>3

LEMMA PipeTail ==
  ASSUME pipe \in Seq(Commands), NEW d \in Commands, pipe' = Append(pipe, d)
  PROVE  /\ pipe' \in Seq(Commands)
         /\ Len(pipe') = Len(pipe) + 1
         /\ \A j \in DOMAIN pipe : j \in DOMAIN pipe' /\ pipe'[j] = pipe[j]
         /\ \A j \in DOMAIN pipe' : j \in DOMAIN pipe \/ (j = Len(pipe) + 1 /\ pipe'[j] = d)
         /\ Len(pipe) + 1 \in DOMAIN pipe' /\ pipe'[Len(pipe) + 1] = d
BY AppendProperties

LEMMA SocketMade ==
  /\ \A i \in Ids, st \in Status, conn \in BOOLEAN : Opened(i, st, conn) \in Socket
  /\ \A k \in Socket : Closed(k) \in Socket
<1>1. \A i \in Ids, st \in Status, conn \in BOOLEAN : Opened(i, st, conn) \in Socket
  BY PosType DEF Opened, Socket
<1>2. ASSUME NEW k \in Socket
      PROVE  Closed(k) \in Socket
  <2>1. <<>> \in Seq(Nat) /\ "invalid" \in Status
    BY DEF Status
  <2> QED
    BY <2>1 DEF Closed, Socket
<1> QED
  BY <1>1, <1>2

(***************************************************************************)
(* What onForward does to a slot: some of its queue is gone, or it is      *)
(* closed, or an assertion has failed.                                     *)
(***************************************************************************)
Left(k, n) == SubSeq(Queued(k), n + 1, Len(Queued(k)))
Rested(k, n, w) == [k EXCEPT !.list = Left(k, n), !.buf = <<>>,
                             !.size = k.size + Len(k.buf) - n, !.wr = w]

LEMMA QueueType ==
  ASSUME NEW k \in Socket
  PROVE  /\ k.buf \in Seq(Nat) /\ k.list \in Seq(Nat) /\ k.size \in Int
         /\ Len(k.buf) \in Nat /\ Len(k.list) \in Nat
         /\ Queued(k) \in Seq(Nat) /\ Len(Queued(k)) = Len(k.buf) + Len(k.list)
<1>1. k.buf \in Seq(Nat) /\ k.list \in Seq(Nat) /\ k.size \in Int
  BY DEF Socket
<1>2. Queued(k) \in Seq(Nat) /\ Len(Queued(k)) = Len(k.buf) + Len(k.list)
  BY <1>1, ConcatProperties DEF Queued
<1>3. Len(k.buf) \in Nat /\ Len(k.list) \in Nat
  BY <1>1, LenProperties
<1> QED
  BY <1>1, <1>2, <1>3

\* What is left of a sequence of numbers.
LEMMA Suffix ==
  ASSUME NEW q \in Seq(Nat), NEW n \in 0 .. Len(q)
  PROVE  SubSeq(q, n + 1, Len(q)) \in Seq(Nat) /\ Len(SubSeq(q, n + 1, Len(q))) = Len(q) - n
<1>1. Len(q) \in Nat /\ \A i \in 1 .. Len(q) : q[i] \in Nat
  BY LenProperties
<1>2. n \in Int /\ n + 1 \in Int /\ Len(q) \in Int /\ n <= Len(q) /\ n >= 0
  BY <1>1
<1>3. \A i \in n + 1 .. Len(q) : q[i] \in Nat
  BY <1>1, <1>2
<1>4. SubSeq(q, n + 1, Len(q)) \in Seq(Nat)
      /\ Len(SubSeq(q, n + 1, Len(q))) = IF n + 1 <= Len(q) THEN Len(q) - (n + 1) + 1 ELSE 0
  BY <1>2, <1>3, SubSeqProperties
<1> QED
  BY <1>2, <1>4

LEMMA LeftType ==
  ASSUME NEW k \in Socket, NEW n \in 0 .. Len(Queued(k)), NEW w \in BOOLEAN
  PROVE  /\ Rested(k, n, w) \in Socket
         /\ k.size = Len(k.list) => k.size + Len(k.buf) - n = Len(Left(k, n))
<1>1. k.buf \in Seq(Nat) /\ k.list \in Seq(Nat) /\ k.size \in Int
      /\ Len(k.buf) \in Nat /\ Len(k.list) \in Nat
  BY QueueType
<1>2. Queued(k) \in Seq(Nat) /\ Len(Queued(k)) = Len(k.buf) + Len(k.list)
  BY QueueType
<1>3. Left(k, n) \in Seq(Nat) /\ Len(Left(k, n)) = Len(Queued(k)) - n
  BY <1>2, Suffix DEF Left
<1>4. n \in Int
  <2>1. Len(Queued(k)) \in Nat
    BY <1>2, LenProperties
  <2> QED
    BY <2>1
<1>5. <<>> \in Seq(Nat) /\ k.size + Len(k.buf) - n \in Int
  BY <1>1, <1>4
<1>6. Rested(k, n, w) \in Socket
  BY <1>1, <1>3, <1>5 DEF Rested, Socket
<1>7. k.size = Len(k.list) => k.size + Len(k.buf) - n = Len(Left(k, n))
  <2>1. PICK a, b \in Nat : a = Len(k.buf) /\ b = Len(k.list)
    BY <1>1
  <2>2. Len(Left(k, n)) = a + b - n
    BY <1>2, <1>3, <2>1
  <2>3. SUFFICES ASSUME k.size = Len(k.list)
                 PROVE  k.size + Len(k.buf) - n = Len(Left(k, n))
    OBVIOUS
  <2>4. k.size = b /\ Len(k.buf) = a
    BY <2>1, <2>3
  <2>5. k.size + Len(k.buf) - n = b + a - n
    BY <2>4
  <2>6. b + a - n = a + b - n
    BY <1>4
  <2> QED
    BY <2>2, <2>5, <2>6
<1> QED
  BY <1>6, <1>7

\* The slot keeps its socket, and how it stands; the first n parts of its queue are written.
Passes(s, k) == \E n \in 0 .. Len(Queued(sock[s])) :
  /\ Queued(k) = Left(sock[s], n)
  /\ wire' = IF n = 0 THEN wire ELSE [wire EXCEPT ![sock[s].sck] = @ \o SubSeq(Queued(sock[s]), 1, n)]
Slight(s, r) == \E k \in Socket :
  /\ sock' = [sock EXCEPT ![s] = k] /\ Passes(s, k)
  /\ k.id = sock[s].id /\ k.tcp = sock[s].tcp /\ k.sck = sock[s].sck
  /\ k.tag = sock[s].tag /\ k.refs = r
  /\ k.status = sock[s].status /\ k.reg = sock[s].reg
  /\ sock[s].size = Len(sock[s].list) => k.size = Len(k.list)
Shuts(s) ==
  /\ sock[s].status # "reserve"
  /\ sock' = [sock EXCEPT ![s] = Closed(@)]
  /\ Tell(sock[s].id, "end") /\ Return
  /\ failed' = failed
Fails(s) ==
  /\ sock' = sock /\ at' = at /\ op' = op /\ ready' = ready /\ heard' = heard
  /\ \/ failed' = "close" /\ sock[s].status = "reserve"
     \/ failed' = "size" /\ sock[s].size # Len(sock[s].list)
Wires(s) ==
  /\ DOMAIN wire' = DOMAIN wire
  /\ \A i \in DOMAIN wire : wire'[i] # wire[i] =>
       /\ sock[s].sck = i /\ sock[s].status # "reserve"
       /\ \E n \in 1 .. Len(Queued(sock[s])) : wire'[i] = wire[i] \o SubSeq(Queued(sock[s]), 1, n)

LEMMA AllLeft ==
  ASSUME NEW k \in Socket
  PROVE  Left(k, 0) = Queued(k) /\ 0 \in 0 .. Len(Queued(k))
         /\ \A n \in 0 .. Len(Queued(k)) : \A w : Queued(Rested(k, n, w)) = Left(k, n)
<1>1. Queued(k) \in Seq(Nat) /\ Len(Queued(k)) \in Nat
  BY QueueType, LenProperties
<1>2. SubSeq(Queued(k), 1, Len(Queued(k))) = Queued(k)
  BY <1>1, SubSeqFull
<1>3. ASSUME NEW n \in 0 .. Len(Queued(k)), NEW w
      PROVE  Queued(Rested(k, n, w)) = Left(k, n)
  <2>1. Left(k, n) \in Seq(Nat)
    BY <1>1, Suffix DEF Left
  <2>2. Rested(k, n, w).buf = <<>> /\ Rested(k, n, w).list = Left(k, n)
    BY DEF Rested, Socket
  <2>3. <<>> \o Left(k, n) = Left(k, n)
    BY <2>1, ConcatEmptySeq
  <2> QED
    BY <2>2, <2>3 DEF Queued
<1> QED
  BY <1>1, <1>2, <1>3 DEF Left

LEMMA WriteEffect ==
  ASSUME Types, NEW e \in ready, Write(e)
  PROVE  /\ e.slot \in Slots /\ Busy(e.slot) /\ Wires(e.slot)
         /\ UNCHANGED <<lock, alloc, pipe, call, target, calls, owner, check, stale>>
         /\ \/ /\ Slight(e.slot, sock[e.slot].refs)
               /\ Loop /\ ready' = ready \ {e}
               /\ UNCHANGED <<heard, failed>>
            \/ lock[e.slot] = None /\ Shuts(e.slot)
            \/ Fails(e.slot)
<1> DEFINE s == e.slot
           k == sock[s]
           q == Queued(k)
<1>1. s \in Slots /\ k \in Socket
  BY DEF Types, SlotTypes, PollTypes, Reports
<1>2. /\ Busy(s)
      /\ UNCHANGED <<lock, alloc, pipe, call, target, calls, owner, check, stale>>
  BY DEF Write, Event, Keeps, serviceVars
<1>3. CASE lock[s] # None
  <2>1. sock' = [sock EXCEPT ![s] = k] /\ wire' = wire
    BY <1>1, <1>3 DEF Write, Types, SlotTypes
  <2>2. Passes(s, k)
    BY <1>1, <2>1, AllLeft DEF Passes
  <2> QED
    BY <1>1, <1>2, <1>3, <2>1, <2>2 DEF Write, Slight, Wires
<1>4. CASE lock[s] = None
  <2>1. Forward(s, k.id, Loop, ready \ {e})
    BY <1>4 DEF Write
  <2>2. CASE \E n \in 0 .. (IF k.tcp /\ k.status # "reserve" THEN Len(q) ELSE 0) :
              LET left == SubSeq(q, n + 1, Len(q))
                  size == k.size + Len(k.buf) - n
              IN
              /\ wire' = IF n = 0 THEN wire ELSE [wire EXCEPT ![k.sck] = @ \o SubSeq(q, 1, n)]
              /\ \/ /\ left = <<>> /\ size # 0
                    /\ failed' = "size"
                    /\ UNCHANGED <<sock, at, op, ready, heard>>
                 \/ /\ left = <<>> /\ size = 0 /\ k.status = "halfclose"
                    /\ sock' = [sock EXCEPT ![s] = Closed(@)]
                    /\ Tell(k.id, "end") /\ Return /\ UNCHANGED failed
                 \/ /\ left # <<>> \/ (size = 0 /\ k.status # "halfclose")
                    /\ sock' = [sock EXCEPT ![s].list = left, ![s].buf = <<>>, ![s].size = size,
                                            ![s].wr = @ /\ left # <<>>]
                    /\ Loop /\ ready' = ready \ {e}
                    /\ UNCHANGED <<heard, failed>>
    <3>1. PICK n \in 0 .. (IF k.tcp /\ k.status # "reserve" THEN Len(q) ELSE 0) :
              /\ wire' = IF n = 0 THEN wire ELSE [wire EXCEPT ![k.sck] = @ \o SubSeq(q, 1, n)]
              /\ \/ /\ Left(k, n) = <<>> /\ k.size + Len(k.buf) - n # 0
                    /\ failed' = "size"
                    /\ UNCHANGED <<sock, at, op, ready, heard>>
                 \/ /\ k.status = "halfclose"
                    /\ sock' = [sock EXCEPT ![s] = Closed(@)]
                    /\ Tell(k.id, "end") /\ Return /\ UNCHANGED failed
                 \/ /\ sock' = [sock EXCEPT ![s].list = Left(k, n), ![s].buf = <<>>,
                                  ![s].size = k.size + Len(k.buf) - n,
                                  ![s].wr = @ /\ Left(k, n) # <<>>]
                    /\ Loop /\ ready' = ready \ {e}
                    /\ UNCHANGED <<heard, failed>>
      BY <2>2 DEF Left
    <3>2. n \in 0 .. Len(q) /\ (n # 0 => k.status # "reserve")
      <4>1. Len(q) \in Nat
        BY <1>1, QueueType
      <4> QED
        BY <4>1
    <3>3. Wires(s)
      <4>1. n = 0 \/ n \in 1 .. Len(q)
        <5>1. Len(q) \in Nat
          BY <1>1, QueueType
        <5> QED
          BY <3>2, <5>1
      <4> HIDE DEF s, k, q
      <4>2. wire' = IF n = 0 THEN wire ELSE [wire EXCEPT ![k.sck] = @ \o SubSeq(q, 1, n)]
        BY <3>1
      <4>3. DOMAIN wire' = DOMAIN wire
        BY <4>2
      <4>4. \A i \in DOMAIN wire : wire'[i] # wire[i] =>
              k.sck = i /\ n # 0 /\ wire'[i] = wire[i] \o SubSeq(q, 1, n)
        BY <4>2
      <4> QED
        BY <3>2, <4>1, <4>3, <4>4 DEF Wires, s, k, q
    <3>4. CASE Left(k, n) = <<>> /\ k.size + Len(k.buf) - n # 0 /\ failed' = "size"
               /\ UNCHANGED <<sock, at, op, ready, heard>>
      BY <1>1, <1>2, <3>2, <3>3, <3>4, LeftType DEF Fails
    <3>5. CASE /\ k.status = "halfclose"
               /\ sock' = [sock EXCEPT ![s] = Closed(@)]
               /\ Tell(k.id, "end") /\ Return /\ UNCHANGED failed
      BY <1>1, <1>2, <1>4, <3>3, <3>5 DEF Shuts
    <3>6. CASE /\ sock' = [sock EXCEPT ![s].list = Left(k, n), ![s].buf = <<>>,
                             ![s].size = k.size + Len(k.buf) - n,
                             ![s].wr = @ /\ Left(k, n) # <<>>]
               /\ Loop /\ ready' = ready \ {e}
               /\ UNCHANGED <<heard, failed>>
      <4> DEFINE w == k.wr /\ Left(k, n) # <<>>
      <4>1. sock' = [sock EXCEPT ![s] = Rested(k, n, w)]
        BY <1>1, <3>6 DEF Rested, Types, SlotTypes
      <4>2. w \in BOOLEAN
        BY <1>1 DEF Socket
      <4>3. Rested(k, n, w) \in Socket
            /\ (k.size = Len(k.list) => k.size + Len(k.buf) - n = Len(Left(k, n)))
        <5> HIDE DEF w
        <5> QED
          BY <1>1, <3>2, <4>2, LeftType
      <4>4. Slight(s, k.refs)
        <5>1. Passes(s, Rested(k, n, w))
          <6> HIDE DEF w
          <6>1. Queued(Rested(k, n, w)) = Left(k, n)
            BY <1>1, <3>2, AllLeft
          <6> QED
            BY <3>1, <3>2, <6>1 DEF Passes
        <5> HIDE DEF w
        <5> QED
          BY <1>1, <4>1, <4>3, <5>1 DEF Slight, Rested, Socket
      <4> QED
        BY <1>1, <1>2, <3>3, <3>6, <4>4
    <3> QED
      BY <3>1, <3>4, <3>5, <3>6
  <2>3. CASE /\ q # <<>> /\ k.tcp
             /\ \/ k.status = "reserve" /\ failed' = "close" /\ UNCHANGED <<sock, at, op, ready, heard>>
                \/ /\ k.status # "reserve"
                   /\ sock' = [sock EXCEPT ![s] = Closed(@)]
                   /\ Tell(k.id, "end") /\ Return /\ UNCHANGED failed
             /\ UNCHANGED wire
    BY <1>1, <1>2, <1>4, <2>3 DEF Fails, Shuts, Wires
  <2> QED
    BY <2>1, <2>2, <2>3 DEF Forward
<1> QED
  BY <1>3, <1>4

LEMMA FlushEffect ==
  ASSUME Types, CloseFlush
  PROVE  /\ at = "flush" /\ op.slot \in Slots /\ Wires(op.slot)
         /\ UNCHANGED <<lock, alloc, pipe, call, target, calls, owner, check, stale>>
         /\ \/ /\ Slight(op.slot, sock[op.slot].refs)
               /\ at' = "ask" /\ op' = op /\ ready' = ready
               /\ UNCHANGED <<heard, failed>>
            \/ lock[op.slot] = None /\ Shuts(op.slot)
            \/ Fails(op.slot)
<1> DEFINE s == op.slot
           k == sock[s]
           q == Queued(k)
<1>1. s \in Slots /\ k \in Socket
  BY DEF CloseFlush, Types, SlotTypes, InHand
<1>2. /\ at = "flush"
      /\ UNCHANGED <<lock, alloc, pipe, call, target, calls, owner, check, stale>>
  BY DEF CloseFlush, Keeps, serviceVars
<1>3. CASE lock[s] # None
  <2>1. sock' = [sock EXCEPT ![s] = k] /\ wire' = wire
    BY <1>1, <1>3 DEF CloseFlush, Types, SlotTypes
  <2>2. Passes(s, k)
    BY <1>1, <2>1, AllLeft DEF Passes
  <2> QED
    BY <1>1, <1>2, <1>3, <2>1, <2>2 DEF CloseFlush, Slight, Wires
<1>4. CASE lock[s] = None
  <2>1. Forward(s, k.id, at' = "ask" /\ UNCHANGED op, ready)
    BY <1>4 DEF CloseFlush
  <2>2. CASE \E n \in 0 .. (IF k.tcp /\ k.status # "reserve" THEN Len(q) ELSE 0) :
              LET left == SubSeq(q, n + 1, Len(q))
                  size == k.size + Len(k.buf) - n
              IN
              /\ wire' = IF n = 0 THEN wire ELSE [wire EXCEPT ![k.sck] = @ \o SubSeq(q, 1, n)]
              /\ \/ /\ left = <<>> /\ size # 0
                    /\ failed' = "size"
                    /\ UNCHANGED <<sock, at, op, ready, heard>>
                 \/ /\ left = <<>> /\ size = 0 /\ k.status = "halfclose"
                    /\ sock' = [sock EXCEPT ![s] = Closed(@)]
                    /\ Tell(k.id, "end") /\ Return /\ UNCHANGED failed
                 \/ /\ left # <<>> \/ (size = 0 /\ k.status # "halfclose")
                    /\ sock' = [sock EXCEPT ![s].list = left, ![s].buf = <<>>, ![s].size = size,
                                            ![s].wr = @ /\ left # <<>>]
                    /\ at' = "ask" /\ UNCHANGED op /\ ready' = ready
                    /\ UNCHANGED <<heard, failed>>
    <3>1. PICK n \in 0 .. (IF k.tcp /\ k.status # "reserve" THEN Len(q) ELSE 0) :
              /\ wire' = IF n = 0 THEN wire ELSE [wire EXCEPT ![k.sck] = @ \o SubSeq(q, 1, n)]
              /\ \/ /\ Left(k, n) = <<>> /\ k.size + Len(k.buf) - n # 0
                    /\ failed' = "size"
                    /\ UNCHANGED <<sock, at, op, ready, heard>>
                 \/ /\ k.status = "halfclose"
                    /\ sock' = [sock EXCEPT ![s] = Closed(@)]
                    /\ Tell(k.id, "end") /\ Return /\ UNCHANGED failed
                 \/ /\ sock' = [sock EXCEPT ![s].list = Left(k, n), ![s].buf = <<>>,
                                  ![s].size = k.size + Len(k.buf) - n,
                                  ![s].wr = @ /\ Left(k, n) # <<>>]
                    /\ at' = "ask" /\ UNCHANGED op /\ ready' = ready
                    /\ UNCHANGED <<heard, failed>>
      BY <2>2 DEF Left
    <3>2. n \in 0 .. Len(q) /\ (n # 0 => k.status # "reserve")
      <4>1. Len(q) \in Nat
        BY <1>1, QueueType
      <4> QED
        BY <4>1
    <3>3. Wires(s)
      <4>1. n = 0 \/ n \in 1 .. Len(q)
        <5>1. Len(q) \in Nat
          BY <1>1, QueueType
        <5> QED
          BY <3>2, <5>1
      <4> HIDE DEF s, k, q
      <4>2. wire' = IF n = 0 THEN wire ELSE [wire EXCEPT ![k.sck] = @ \o SubSeq(q, 1, n)]
        BY <3>1
      <4>3. DOMAIN wire' = DOMAIN wire
        BY <4>2
      <4>4. \A i \in DOMAIN wire : wire'[i] # wire[i] =>
              k.sck = i /\ n # 0 /\ wire'[i] = wire[i] \o SubSeq(q, 1, n)
        BY <4>2
      <4> QED
        BY <3>2, <4>1, <4>3, <4>4 DEF Wires, s, k, q
    <3>4. CASE Left(k, n) = <<>> /\ k.size + Len(k.buf) - n # 0 /\ failed' = "size"
               /\ UNCHANGED <<sock, at, op, ready, heard>>
      BY <1>1, <1>2, <3>2, <3>3, <3>4, LeftType DEF Fails
    <3>5. CASE /\ k.status = "halfclose"
               /\ sock' = [sock EXCEPT ![s] = Closed(@)]
               /\ Tell(k.id, "end") /\ Return /\ UNCHANGED failed
      BY <1>1, <1>2, <1>4, <3>3, <3>5 DEF Shuts
    <3>6. CASE /\ sock' = [sock EXCEPT ![s].list = Left(k, n), ![s].buf = <<>>,
                             ![s].size = k.size + Len(k.buf) - n,
                             ![s].wr = @ /\ Left(k, n) # <<>>]
               /\ at' = "ask" /\ UNCHANGED op /\ ready' = ready
               /\ UNCHANGED <<heard, failed>>
      <4> DEFINE w == k.wr /\ Left(k, n) # <<>>
      <4>1. sock' = [sock EXCEPT ![s] = Rested(k, n, w)]
        BY <1>1, <3>6 DEF Rested, Types, SlotTypes
      <4>2. w \in BOOLEAN
        BY <1>1 DEF Socket
      <4>3. Rested(k, n, w) \in Socket
            /\ (k.size = Len(k.list) => k.size + Len(k.buf) - n = Len(Left(k, n)))
        <5> HIDE DEF w
        <5> QED
          BY <1>1, <3>2, <4>2, LeftType
      <4>4. Slight(s, k.refs)
        <5>1. Passes(s, Rested(k, n, w))
          <6> HIDE DEF w
          <6>1. Queued(Rested(k, n, w)) = Left(k, n)
            BY <1>1, <3>2, AllLeft
          <6> QED
            BY <3>1, <3>2, <6>1 DEF Passes
        <5> HIDE DEF w
        <5> QED
          BY <1>1, <4>1, <4>3, <5>1 DEF Slight, Rested, Socket
      <4> QED
        BY <1>1, <1>2, <3>3, <3>6, <4>4
    <3> QED
      BY <3>1, <3>4, <3>5, <3>6
  <2>3. CASE /\ q # <<>> /\ k.tcp
             /\ \/ k.status = "reserve" /\ failed' = "close" /\ UNCHANGED <<sock, at, op, ready, heard>>
                \/ /\ k.status # "reserve"
                   /\ sock' = [sock EXCEPT ![s] = Closed(@)]
                   /\ Tell(k.id, "end") /\ Return /\ UNCHANGED failed
             /\ UNCHANGED wire
    BY <1>1, <1>2, <1>4, <2>3 DEF Fails, Shuts, Wires
  <2> QED
    BY <2>1, <2>2, <2>3 DEF Forward
<1> QED
  BY <1>3, <1>4

(***************************************************************************)
(* What each action does to a slot, as one value put in it.                *)
(***************************************************************************)
Puts(s, k) == s \in Slots /\ k \in Socket /\ sock' = [sock EXCEPT ![s] = k]
AsReserved(k)       == [k EXCEPT !.status = "reserve"]
AsNamed(k, i)       == [k EXCEPT !.id = i, !.tcp = FALSE, !.sck = None]
AsWritten(k, b, w)  == [k EXCEPT !.buf = b, !.wr = w]
AsCounted(k, r)     == [k EXCEPT !.refs = r]
AsStarted(k, st)    == [k EXCEPT !.status = st, !.reg = TRUE]
AsQueued(k, l, w)   == [k EXCEPT !.list = l, !.size = k.size + 2, !.wr = w]
AsClosing(k)        == [k EXCEPT !.list = <<>>, !.reg = FALSE, !.wr = FALSE]
AsHalf(k)           == [k EXCEPT !.status = "halfclose"]

LEMMA Updates ==
  ASSUME NEW k \in Socket
  PROVE  /\ AsReserved(k) \in Socket /\ AsHalf(k) \in Socket /\ AsClosing(k) \in Socket
         /\ \A i \in Ids : AsNamed(k, i) \in Socket
         /\ \A b \in Seq(Nat), w \in BOOLEAN : AsWritten(k, b, w) \in Socket
         /\ \A r \in Nat : AsCounted(k, r) \in Socket
         /\ \A st \in Status : AsStarted(k, st) \in Socket
         /\ \A l \in Seq(Nat), w \in BOOLEAN : AsQueued(k, l, w) \in Socket
<1>1. "reserve" \in Status /\ "halfclose" \in Status /\ <<>> \in Seq(Nat)
  BY DEF Status
<1>2. AsReserved(k) \in Socket /\ AsHalf(k) \in Socket
  BY <1>1 DEF AsReserved, AsHalf, Socket
<1>3. AsClosing(k) \in Socket
  BY <1>1 DEF AsClosing, Socket
<1>4. \A i \in Ids : AsNamed(k, i) \in Socket
  BY DEF AsNamed, Socket
<1>5. \A b \in Seq(Nat), w \in BOOLEAN : AsWritten(k, b, w) \in Socket
  BY DEF AsWritten, Socket
<1>6. \A r \in Nat : AsCounted(k, r) \in Socket
  BY DEF AsCounted, Socket
<1>7. \A st \in Status : AsStarted(k, st) \in Socket
  BY DEF AsStarted, Socket
<1>8. \A l \in Seq(Nat), w \in BOOLEAN : AsQueued(k, l, w) \in Socket
  <2> TAKE l \in Seq(Nat), w \in BOOLEAN
  <2>1. k.size + 2 \in Int
    BY DEF Socket
  <2> QED
    BY <2>1 DEF AsQueued, Socket
<1> QED
  BY <1>2, <1>3, <1>4, <1>5, <1>6, <1>7, <1>8

LEMMA PutsMeans ==
  ASSUME Types, NEW s, NEW k, Puts(s, k)
  PROVE  /\ sock' \in [Slots -> Socket]
         /\ sock'[s] = k
         /\ \A t \in Slots : t # s => sock'[t] = sock[t]
BY DEF Types, SlotTypes, Puts

LEMMA TellMeans ==
  ASSUME heard \in [Ids -> SUBSET Notices], NEW i, NEW kind \in {"open", "data", "end"}, Tell(i, kind)
  PROVE  /\ heard' \in [Ids -> SUBSET Notices]
         /\ \A j \in Ids : heard[j] \subseteq heard'[j]
         /\ \A j \in Ids : j # i => heard'[j] = heard[j]
         /\ \A j \in Ids : "open" \in heard'[j] => "open" \in heard[j] \/ (j = i /\ kind = "open")
         /\ \A j \in Ids : "end" \in heard'[j] => "end" \in heard[j] \/ (j = i /\ kind = "end")
         /\ \A j \in Ids : "late" \in heard'[j] =>
              "late" \in heard[j] \/ (j = i /\ kind # "end" /\ "end" \in heard[j])
         /\ kind = "open" /\ i \in Ids => "open" \in heard'[i]
         /\ kind = "end" /\ i \in Ids => "end" \in heard'[i]
<1> DEFINE new == heard[i] \cup ({kind} \ {"data"}) \cup
                    (IF kind # "end" /\ "end" \in heard[i] THEN {"late"} ELSE {})
<1>1. heard' = [heard EXCEPT ![i] = new]
  BY DEF Tell
<1>2. i \in Ids => new \in SUBSET Notices
  BY DEF Notices
<1>3. \A j \in Ids : heard'[j] = IF j = i THEN new ELSE heard[j]
  BY <1>1
<1>4. heard' \in [Ids -> SUBSET Notices]
  <2> HIDE DEF new
  <2> QED
    BY <1>1, <1>2
<1> QED
  BY <1>3, <1>4

\* A call or a command that leaves a service's message in hand as it is.
LEMMA MessagesStay ==
  ASSUME Types, NEW c \in Services, NEW y \in Calls, call' = [call EXCEPT ![c] = y], target' = target,
         y.pc \in SendSteps => y.id = call[c].id /\ call[c].pc \in SendSteps,
         y.pc # "idle" => y.id \in Ids
  PROVE  /\ call' \in [Services -> Calls]
         /\ \A d \in Services : call'[d].pc # "idle" => call'[d].id \in Ids
         /\ \A d \in Services : call'[d].pc \in SendSteps => HasMessage(d)'
<1>1. call \in [Services -> Calls] /\ InHand
  BY DEF Types, CallTypes
<1>2. call'[c] = y /\ \A d \in Services : d # c => call'[d] = call[d]
  BY <1>1
<1>3. call' \in [Services -> Calls]
  BY <1>1
<1>4. ASSUME NEW d \in Services, call'[d].pc \in SendSteps
      PROVE  HasMessage(d)'
  <2>1. call[d].pc \in SendSteps /\ call'[d].id = call[d].id
    BY <1>2, <1>4
  <2>2. HasMessage(d)
    BY <1>1, <2>1 DEF InHand
  <2> QED
    BY <2>1, <2>2 DEF HasMessage
<1>5. \A d \in Services : call'[d].pc # "idle" => call'[d].id \in Ids
  BY <1>1, <1>2 DEF InHand
<1> QED
  BY <1>3, <1>4, <1>5

\* The fields after each of these: whose socket it is, how it stands, what it queues.
Alike(a, b)  == a.id = b.id /\ a.tcp = b.tcp /\ a.tag = b.tag /\ a.sck = b.sck
Stands(a, b) == a.status = b.status /\ a.reg = b.reg
Queues(a, b) == a.size = b.size /\ a.list = b.list /\ a.buf = b.buf
Whole(a, b)  == Alike(a, b) /\ Stands(a, b) /\ Queues(a, b)

LEMMA Fields ==
  ASSUME NEW k \in Socket
  PROVE  /\ LET a == AsReserved(k) IN
              Alike(a, k) /\ Queues(a, k) /\ a.refs = k.refs /\ a.reg = k.reg /\ a.status = "reserve"
         /\ \A i \in Ids : LET a == AsNamed(k, i) IN
              Stands(a, k) /\ Queues(a, k) /\ a.refs = k.refs /\ a.tag = k.tag /\ a.id = i /\ ~a.tcp
         /\ \A b, w : LET a == AsWritten(k, b, w) IN
              Alike(a, k) /\ Stands(a, k) /\ a.refs = k.refs /\ a.buf = b /\ a.list = k.list /\ a.size = k.size
         /\ \A r : LET a == AsCounted(k, r) IN Whole(a, k) /\ a.refs = r
         /\ \A st : LET a == AsStarted(k, st) IN
              Alike(a, k) /\ Queues(a, k) /\ a.refs = k.refs /\ a.status = st /\ a.reg
         /\ \A l, w : LET a == AsQueued(k, l, w) IN
              Alike(a, k) /\ Stands(a, k) /\ a.refs = k.refs /\ a.list = l /\ a.buf = k.buf /\ a.size = k.size + 2
         /\ LET a == AsClosing(k) IN
              Alike(a, k) /\ a.refs = k.refs /\ a.status = k.status /\ ~a.reg /\ a.list = <<>> /\ a.buf = k.buf
         /\ LET a == AsHalf(k) IN
              Alike(a, k) /\ Queues(a, k) /\ a.refs = k.refs /\ a.reg = k.reg /\ a.status = "halfclose"
         /\ LET a == Closed(k) IN
              Alike(a, k) /\ a.refs = k.refs /\ a.status = "invalid" /\ ~a.reg
<1> USE DEF Alike, Stands, Queues, Whole
<1>1. LET a == AsReserved(k) IN
        Alike(a, k) /\ Queues(a, k) /\ a.refs = k.refs /\ a.reg = k.reg /\ a.status = "reserve"
  BY DEF AsReserved, Socket
<1>2. \A i \in Ids : LET a == AsNamed(k, i) IN
        Stands(a, k) /\ Queues(a, k) /\ a.refs = k.refs /\ a.tag = k.tag /\ a.id = i /\ ~a.tcp
  BY DEF AsNamed, Socket
<1>3. \A b, w : LET a == AsWritten(k, b, w) IN
        Alike(a, k) /\ Stands(a, k) /\ a.refs = k.refs /\ a.buf = b /\ a.list = k.list /\ a.size = k.size
  BY DEF AsWritten, Socket
<1>4. \A r : LET a == AsCounted(k, r) IN Whole(a, k) /\ a.refs = r
  BY DEF AsCounted, Socket
<1>5. \A st : LET a == AsStarted(k, st) IN
        Alike(a, k) /\ Queues(a, k) /\ a.refs = k.refs /\ a.status = st /\ a.reg
  BY DEF AsStarted, Socket
<1>6. \A l, w : LET a == AsQueued(k, l, w) IN
        Alike(a, k) /\ Stands(a, k) /\ a.refs = k.refs /\ a.list = l /\ a.buf = k.buf /\ a.size = k.size + 2
  BY DEF AsQueued, Socket
<1>7. LET a == AsClosing(k) IN
        Alike(a, k) /\ a.refs = k.refs /\ a.status = k.status /\ ~a.reg /\ a.list = <<>> /\ a.buf = k.buf
  BY DEF AsClosing, Socket
<1>8. LET a == AsHalf(k) IN
        Alike(a, k) /\ Queues(a, k) /\ a.refs = k.refs /\ a.reg = k.reg /\ a.status = "halfclose"
  BY DEF AsHalf, Socket
<1>9. LET a == Closed(k) IN
        Alike(a, k) /\ a.refs = k.refs /\ a.status = "invalid" /\ ~a.reg
  BY DEF Closed, Socket
<1> QED
  BY <1>1, <1>2, <1>3, <1>4, <1>5, <1>6, <1>7, <1>8, <1>9

LEMMA OpenedFields ==
  \A i, st, conn :
    LET k == Opened(i, st, conn)
    IN  /\ k.id = i /\ k.status = st /\ k.tcp /\ k.tag = Tag(i)
        /\ k.refs = 0 /\ k.size = 0 /\ k.list = <<>> /\ k.buf = <<>> /\ ~k.reg /\ k.sck = i
BY DEF Opened

(***************************************************************************)
(* What a step does to the slots, the calls, the pipe and the owners,      *)
(* place by place.                                                         *)
(***************************************************************************)
Others(s) == s \in Slots /\ \A t \in Slots : t # s => sock'[t] = sock[t]
Reserving(s) ==
  /\ Others(s) /\ Alike(sock'[s], sock[s]) /\ Queues(sock'[s], sock[s])
  /\ sock'[s].refs = sock[s].refs /\ sock'[s].reg = sock[s].reg /\ sock'[s].status = "reserve"
Naming(s, i) ==
  /\ Others(s) /\ Stands(sock'[s], sock[s]) /\ Queues(sock'[s], sock[s])
  /\ sock'[s].id = i /\ ~sock'[s].tcp
Tending(s) ==
  /\ Others(s) /\ Alike(sock'[s], sock[s]) /\ Stands(sock'[s], sock[s])
  /\ sock'[s].refs = sock[s].refs
  /\ sock[s].size = Len(sock[s].list) => sock'[s].size = Len(sock'[s].list)
Counting(s, r) == Others(s) /\ Whole(sock'[s], sock[s]) /\ sock'[s].refs = r
Making(i, st) ==
  LET k == sock'[Pos(i)] IN
  /\ Others(Pos(i)) /\ k.id = i /\ k.tcp /\ k.tag = Tag(i) /\ k.refs = 0
  /\ k.status = st /\ ~k.reg /\ k.size = Len(k.list)
  /\ k.sck = i /\ k.list = <<>> /\ k.buf = <<>>
Starting(s) ==
  /\ Others(s) /\ Alike(sock'[s], sock[s]) /\ Queues(sock'[s], sock[s])
  /\ sock'[s].refs = sock[s].refs /\ sock'[s].status \in {"connected", "listen"}
Ending(s) ==
  /\ Others(s) /\ Alike(sock'[s], sock[s]) /\ sock'[s].refs = sock[s].refs
  /\ sock'[s].status = sock[s].status /\ ~sock'[s].reg
  /\ sock'[s].list = <<>> /\ sock'[s].buf = sock[s].buf
Halving(s) ==
  /\ Others(s) /\ Alike(sock'[s], sock[s]) /\ Queues(sock'[s], sock[s])
  /\ sock'[s].refs = sock[s].refs /\ sock'[s].reg = sock[s].reg /\ sock'[s].status = "halfclose"
Shutting(s) ==
  /\ Others(s) /\ Alike(sock'[s], sock[s]) /\ sock'[s].refs = sock[s].refs
  /\ sock'[s].status = "invalid" /\ ~sock'[s].reg

LEMMA Shapes ==
  ASSUME Types, NEW s
  PROVE  /\ Puts(s, AsReserved(sock[s])) => Reserving(s)
         /\ \A i \in Ids : Puts(s, AsNamed(sock[s], i)) => Naming(s, i)
         /\ \A b, w : Puts(s, AsWritten(sock[s], b, w)) =>
              Tending(s) /\ sock'[s].buf = b /\ sock'[s].list = sock[s].list
         /\ \A r : Puts(s, AsCounted(sock[s], r)) => Counting(s, r)
         /\ \A st \in {"connected", "listen"} : Puts(s, AsStarted(sock[s], st)) => Starting(s)
         /\ \A l, w : Puts(s, AsQueued(sock[s], l, w)) /\ Len(l) = Len(sock[s].list) + 2 =>
              Tending(s) /\ sock'[s].list = l /\ sock'[s].buf = sock[s].buf
         /\ Puts(s, AsClosing(sock[s])) => Ending(s)
         /\ Puts(s, AsHalf(sock[s])) => Halving(s)
         /\ Puts(s, Closed(sock[s])) => Shutting(s)
         /\ \A i \in Ids : \A st, conn : s = Pos(i) /\ Puts(s, Opened(i, st, conn)) => Making(i, st)
<1>1. \A k : Puts(s, k) => Others(s) /\ sock'[s] = k /\ sock[s] \in Socket
  BY PutsMeans DEF Others, Puts, Types, SlotTypes
<1>2. Puts(s, AsReserved(sock[s])) => Reserving(s)
  BY <1>1, Fields DEF Reserving
<1>3. \A i \in Ids : Puts(s, AsNamed(sock[s], i)) => Naming(s, i)
  BY <1>1, Fields DEF Naming
<1>4. \A b, w : Puts(s, AsWritten(sock[s], b, w)) =>
        Tending(s) /\ sock'[s].buf = b /\ sock'[s].list = sock[s].list
  BY <1>1, Fields DEF Tending
<1>5. \A r : Puts(s, AsCounted(sock[s], r)) => Counting(s, r)
  BY <1>1, Fields DEF Counting
<1>6. \A st \in {"connected", "listen"} : Puts(s, AsStarted(sock[s], st)) => Starting(s)
  BY <1>1, Fields DEF Starting
<1>7. \A l, w : Puts(s, AsQueued(sock[s], l, w)) /\ Len(l) = Len(sock[s].list) + 2 =>
        Tending(s) /\ sock'[s].list = l /\ sock'[s].buf = sock[s].buf
  <2> TAKE l, w
  <2> HAVE Puts(s, AsQueued(sock[s], l, w)) /\ Len(l) = Len(sock[s].list) + 2
  <2>1. LET a == AsQueued(sock[s], l, w) IN
          /\ Alike(a, sock[s]) /\ Stands(a, sock[s]) /\ a.refs = sock[s].refs
          /\ a.list = l /\ a.buf = sock[s].buf /\ a.size = sock[s].size + 2
    BY <1>1, Fields
  <2>2. sock[s].size = Len(sock[s].list) =>
          AsQueued(sock[s], l, w).size = Len(AsQueued(sock[s], l, w).list)
    BY <2>1
  <2> QED
    BY <1>1, <2>1, <2>2 DEF Tending
<1>8. Puts(s, AsClosing(sock[s])) => Ending(s)
  BY <1>1, Fields DEF Ending
<1>9. Puts(s, AsHalf(sock[s])) => Halving(s)
  BY <1>1, Fields DEF Halving
<1>10. Puts(s, Closed(sock[s])) => Shutting(s)
  BY <1>1, Fields DEF Shutting
<1>11. \A i \in Ids : \A st, conn : s = Pos(i) /\ Puts(s, Opened(i, st, conn)) => Making(i, st)
  <2>1. Len(<<>>) = 0
    OBVIOUS
  <2> QED
    BY <1>1, <2>1, OpenedFields DEF Making
<1> QED
  BY <1>2, <1>3, <1>4, <1>5, <1>6, <1>7, <1>8, <1>9, <1>10, <1>11

\* Calls, the pipe, the owners and what services have heard.
Going(c, p, i) ==
  call'[c].pc = p /\ call'[c].id = i /\ \A d \in Services : d # c => call'[d] = call[d]
LEMMA GoingMeans ==
  ASSUME Types, NEW c \in Services, NEW p, NEW i, call' = [call EXCEPT ![c] = [pc |-> p, id |-> i]]
  PROVE  Going(c, p, i)
BY DEF Types, CallTypes, Going

Posting(d) ==
  /\ \A j \in DOMAIN pipe : j \in DOMAIN pipe' /\ pipe'[j] = pipe[j]
  /\ \A j \in DOMAIN pipe' : j \in DOMAIN pipe \/ (j = Len(pipe) + 1 /\ pipe'[j] = d)
  /\ Len(pipe) + 1 \in DOMAIN pipe' /\ pipe'[Len(pipe) + 1] = d
  /\ Len(pipe) \in Nat /\ DOMAIN pipe = 1 .. Len(pipe)
Taking(x, i) ==
  /\ i \in Ids /\ at = "loop"
  /\ 1 \in DOMAIN pipe /\ pipe[1].cmd = x /\ pipe[1].id = i
  /\ DOMAIN pipe \subseteq Nat /\ DOMAIN pipe' \subseteq Nat \ {0}
  /\ \A j \in DOMAIN pipe' : j + 1 \in DOMAIN pipe /\ pipe'[j] = pipe[j + 1]
  /\ \A j \in DOMAIN pipe : j = 1 \/ (j - 1 \in DOMAIN pipe' /\ pipe'[j - 1] = pipe[j])

Owning(i, o) == owner'[i] = o /\ \A j \in Ids : j # i => owner'[j] = owner[j]

Told(i, kind) ==
  /\ \A j \in Ids : heard[j] \subseteq heard'[j]
  /\ \A j \in Ids : j # i => heard'[j] = heard[j]
  /\ \A j \in Ids : "open" \in heard'[j] => "open" \in heard[j] \/ (j = i /\ kind = "open")
  /\ \A j \in Ids : "end" \in heard'[j] => "end" \in heard[j] \/ (j = i /\ kind = "end")
  /\ \A j \in Ids : "late" \in heard'[j] =>
       "late" \in heard[j] \/ (j = i /\ kind # "end" /\ "end" \in heard[j])

Holding(t, o) == lock'[t] = o /\ \A u \in Slots : u # t => lock'[u] = lock[u]

LEMMA Posted ==
  ASSUME Types, NEW d \in Commands, pipe' = Append(pipe, d)
  PROVE  Posting(d)
<1>1. pipe \in Seq(Commands)
  BY DEF Types, CallTypes
<1>2. Len(pipe) \in Nat /\ DOMAIN pipe = 1 .. Len(pipe)
  BY <1>1, LenProperties
<1> QED
  BY <1>1, <1>2, PipeTail DEF Posting

LEMMA Owns ==
  ASSUME Types, NEW i \in Ids, NEW o, owner' = [owner EXCEPT ![i] = o]
  PROVE  Owning(i, o)
BY DEF Types, CallTypes, Owning

LEMMA ToldMeans ==
  ASSUME Types, NEW i, NEW kind \in {"open", "data", "end"}, Tell(i, kind)
  PROVE  Told(i, kind)
<1>1. heard \in [Ids -> SUBSET Notices]
  BY DEF Types, CallTypes
<1> QED
  BY <1>1, TellMeans DEF Told

(***************************************************************************)
(* The types are kept, and what the steps of a service do.                 *)
(***************************************************************************)
Elsewhere == UNCHANGED <<pollVars, heard, wire, failed>>

LEMMA ListenStep ==
  ASSUME Types, NEW c \in Services, Listen(c)
  PROVE  /\ Types'
         /\ call[c].pc = "idle"
         /\ \E i \in Ids :
              /\ alloc < i /\ alloc' = i /\ sock[Pos(i)].status = "invalid"
              /\ Reserving(Pos(i))
              /\ Going(c, "reserved", i)
         /\ Elsewhere /\ UNCHANGED <<lock, pipe, owner, target, stale>>
<1>1. PICK i \in Ids : Claim(i) /\ call' = [call EXCEPT ![c] = [pc |-> "reserved", id |-> i]]
  BY DEF Listen
<1>2. /\ call[c].pc = "idle" /\ Elsewhere
      /\ UNCHANGED <<lock, pipe, owner, target, stale>>
  BY <1>1 DEF Listen, Claim, Elsewhere
<1>3. alloc < i /\ alloc' = i /\ sock[Pos(i)].status = "invalid" /\ alloc' \in 0 .. MaxId
  BY <1>1, PosType DEF Claim, Reservable, Types, SlotTypes, Ids
<1>4. Puts(Pos(i), AsReserved(sock[Pos(i)]))
  <2>1. Pos(i) \in Slots /\ sock[Pos(i)] \in Socket
    BY PosType DEF Types, SlotTypes
  <2>2. sock' = [sock EXCEPT ![Pos(i)] = AsReserved(sock[Pos(i)])]
    BY <1>1, <2>1 DEF Claim, AsReserved, Types, SlotTypes
  <2> QED
    BY <2>1, <2>2, Updates DEF Puts
<1>5. SlotTypes'
  BY <1>2, <1>3, <1>4, PutsMeans DEF Types, SlotTypes
<1>6. [pc |-> "reserved", id |-> i] \in Calls
  BY DEF Calls, Steps
<1>7. /\ call' \in [Services -> Calls]
      /\ \A d \in Services : call'[d].pc # "idle" => call'[d].id \in Ids
      /\ \A d \in Services : call'[d].pc \in SendSteps => HasMessage(d)'
  BY <1>1, <1>2, <1>6, MessagesStay DEF SendSteps
<1>8. CallTypes' /\ PollTypes'
  BY <1>2, <1>7 DEF Types, CallTypes, PollTypes, Elsewhere, pollVars
<1>9. InHand'
  BY <1>2, <1>7 DEF Types, InHand, Elsewhere, pollVars
<1> QED
  BY <1>1, <1>2, <1>3, <1>4, <1>5, <1>8, <1>9, Shapes, GoingMeans DEF Types

LEMMA ListenPostStep ==
  ASSUME Types, NEW c \in Services, ListenPost(c)
  PROVE  /\ Types'
         /\ call[c].pc = "reserved" /\ call[c].id \in Ids
         /\ Naming(Pos(call[c].id), call[c].id)
         /\ Owning(call[c].id, c)
         /\ Posting([cmd |-> "L", id |-> call[c].id])
         /\ Going(c, "idle", None)
         /\ Elsewhere /\ UNCHANGED <<lock, alloc, target, stale>>
<1> DEFINE i == call[c].id
           d == [cmd |-> "L", id |-> i]
<1>1. i \in Ids /\ call[c].pc = "reserved"
  BY DEF ListenPost, Types, InHand
<1>2. /\ owner' = [owner EXCEPT ![i] = c]
      /\ pipe' = Append(pipe, d)
      /\ call' = [call EXCEPT ![c] = [pc |-> "idle", id |-> None]]
      /\ Elsewhere /\ UNCHANGED <<lock, alloc, target, stale>>
  BY DEF ListenPost, Elsewhere
<1>3. Puts(Pos(i), AsNamed(sock[Pos(i)], i))
  <2>1. Pos(i) \in Slots /\ sock[Pos(i)] \in Socket
    BY <1>1, PosType DEF Types, SlotTypes
  <2>2. sock' = [sock EXCEPT ![Pos(i)] = AsNamed(sock[Pos(i)], i)]
    BY DEF ListenPost, Named, AsNamed
  <2> QED
    BY <1>1, <2>1, <2>2, Updates DEF Puts
<1>4. SlotTypes'
  BY <1>2, <1>3, PutsMeans DEF Types, SlotTypes
<1>5. [pc |-> "idle", id |-> None] \in Calls
  BY DEF Calls, Steps
<1>6. /\ call' \in [Services -> Calls]
      /\ \A e \in Services : call'[e].pc # "idle" => call'[e].id \in Ids
      /\ \A e \in Services : call'[e].pc \in SendSteps => HasMessage(e)'
  BY <1>2, <1>5, MessagesStay DEF SendSteps
<1>7. d \in Commands
  BY <1>1 DEF Commands
<1>8. pipe' \in Seq(Commands)
  <2> HIDE DEF d
  <2> QED
    BY <1>2, <1>7, PipeTail DEF Types, CallTypes
<1>9. owner' \in [Ids -> Services \cup {None}]
  BY <1>2 DEF Types, CallTypes
<1>10. CallTypes' /\ PollTypes'
  BY <1>2, <1>6, <1>8, <1>9 DEF Types, CallTypes, PollTypes, Elsewhere, pollVars
<1>11. InHand'
  BY <1>2, <1>6 DEF Types, InHand, Elsewhere, pollVars
<1> QED
  BY <1>1, <1>2, <1>3, <1>4, <1>7, <1>10, <1>11, Shapes, GoingMeans, Posted, Owns DEF Types

LEMMA RequestStep ==
  ASSUME Types, NEW c \in Services, NEW x \in {"S", "K", "H"}, NEW i \in Ids, Request(c, x, i)
  PROVE  /\ Types'
         /\ owner[i] = c
         /\ Posting([cmd |-> x, id |-> i])
         /\ Elsewhere /\ UNCHANGED <<sock, lock, alloc, call, owner, target, stale>>
<1> DEFINE d == [cmd |-> x, id |-> i]
<1>1. /\ owner[i] = c
      /\ pipe' = Append(pipe, d)
      /\ Elsewhere /\ UNCHANGED <<sock, lock, alloc, call, owner, target, stale>>
  BY DEF Request, Elsewhere, slotVars
<1>2. d \in Commands
  BY DEF Commands
<1>3. pipe' \in Seq(Commands)
  <2> HIDE DEF d
  <2> QED
    BY <1>1, <1>2, PipeTail DEF Types, CallTypes
<1>4. SlotTypes' /\ CallTypes' /\ PollTypes'
  BY <1>1, <1>3 DEF Types, SlotTypes, CallTypes, PollTypes, Elsewhere, pollVars
<1>5. InHand'
  BY <1>1 DEF Types, InHand, HasMessage, Elsewhere, pollVars
<1> QED
  BY <1>1, <1>2, <1>4, <1>5, Posted DEF Types

LEMMA SendStep ==
  ASSUME Types, NEW c \in Services, NEW i \in Ids, Send(c, i)
  PROVE  /\ Types'
         /\ owner[i] = c /\ "open" \in heard[i] /\ call[c].pc = "idle"
         /\ target' = Append(target, i)
         /\ \/ Going(c, "probe", i)
            \/ call' = call /\ (sock[Pos(i)].id # i \/ sock[Pos(i)].status = "invalid")
         /\ Elsewhere /\ UNCHANGED <<sock, lock, alloc, pipe, owner, stale>>
<1>1. /\ owner[i] = c /\ "open" \in heard[i] /\ call[c].pc = "idle"
      /\ target' = Append(target, i)
      /\ \/ call' = [call EXCEPT ![c] = [pc |-> "probe", id |-> i]]
         \/ call' = call /\ (sock[Pos(i)].id # i \/ sock[Pos(i)].status = "invalid")
      /\ Elsewhere /\ UNCHANGED <<sock, lock, alloc, pipe, owner, stale>>
  BY DEF Send, Elsewhere, slotVars
<1>2. target \in Seq(Ids) /\ Len(target) \in Nat /\ call \in [Services -> Calls] /\ InHand
  BY DEF Types, CallTypes
<1>3. /\ target' \in Seq(Ids) /\ Len(target') = Len(target) + 1
      /\ \A n \in 1 .. Len(target) : target'[n] = target[n]
      /\ target'[Len(target) + 1] = i
  BY <1>1, <1>2, AppendProperties
<1>4. call' \in [Services -> Calls]
  BY <1>1, <1>2 DEF Calls, Steps
<1>5. \A d \in Services : call'[d] = call[d] \/ (d = c /\ call'[d].pc = "probe" /\ call'[d].id = i)
  BY <1>1, <1>2
<1>6. ASSUME NEW d \in Services, call'[d].pc \in SendSteps
      PROVE  HasMessage(d)'
  <2>1. CASE call'[d].id = i
    <3>1. Len(target) + 1 \in DOMAIN target'
      BY <1>2, <1>3
    <3>2. \A n \in Len(target) + 2 .. Len(target') : target'[n] # i
      BY <1>2, <1>3
    <3>3. Len(target) + 1 + 1 = Len(target) + 2
      BY <1>2
    <3> QED
      BY <1>3, <2>1, <3>1, <3>2, <3>3 DEF HasMessage
  <2>2. CASE call'[d].id # i
    <3>1. call'[d] = call[d] /\ HasMessage(d)
      BY <1>2, <1>5, <1>6, <2>2 DEF InHand
    <3>2. PICK m \in DOMAIN target :
            target[m] = call[d].id /\ \A n \in m + 1 .. Len(target) : target[n] # call[d].id
      BY <3>1 DEF HasMessage
    <3>3. m \in DOMAIN target' /\ target'[m] = call'[d].id /\ m \in Nat
      BY <1>2, <1>3, <3>1, <3>2
    <3>4. \A n \in m + 1 .. Len(target') : target'[n] # call'[d].id
      <4> TAKE n \in m + 1 .. Len(target')
      <4>1. n \in m + 1 .. Len(target) \/ n = Len(target) + 1
        BY <1>2, <1>3, <3>3
      <4>2. CASE n \in m + 1 .. Len(target)
        <5>1. n \in 1 .. Len(target)
          BY <1>2, <3>3, <4>2
        <5> QED
          BY <1>3, <3>1, <3>2, <4>2, <5>1
      <4>3. CASE n = Len(target) + 1
        BY <1>3, <2>2, <4>3
      <4> QED
        BY <4>1, <4>2, <4>3
    <3> QED
      BY <3>3, <3>4 DEF HasMessage
  <2> QED
    BY <2>1, <2>2
<1>7. SlotTypes' /\ CallTypes' /\ PollTypes'
  BY <1>1, <1>3, <1>4 DEF Types, SlotTypes, CallTypes, PollTypes, Elsewhere, pollVars
<1>8. InHand'
  BY <1>1, <1>2, <1>5, <1>6 DEF InHand, Elsewhere, pollVars
<1> QED
  BY <1>1, <1>7, <1>8, GoingMeans DEF Types

\* A call goes on with the same socket.
Moves(c, p) == call' = [call EXCEPT ![c] = [pc |-> p, id |-> call[c].id]]
LEMMA GotoMeans ==
  ASSUME Types, NEW c \in Services, NEW p \in Steps, Goto(c, p)
  PROVE  Moves(c, p) /\ [pc |-> p, id |-> call[c].id] \in Calls
<1>1. call \in [Services -> Calls]
  BY DEF Types, CallTypes
<1>2. call[c] \in Calls
  BY <1>1
<1>3. [call[c] EXCEPT !.pc = p] = [pc |-> p, id |-> call[c].id]
      /\ [pc |-> p, id |-> call[c].id] \in Calls
  BY <1>2 DEF Calls
<1>4. call' = [call EXCEPT ![c] = [call[c] EXCEPT !.pc = p]]
  BY <1>1 DEF Goto
<1> QED
  BY <1>3, <1>4 DEF Moves

LEMMA MovesTypes ==
  ASSUME Types, NEW c \in Services, NEW p \in SendSteps \cup {"idle"}, Moves(c, p), call[c].pc \in SendSteps,
         target' = target, [pc |-> p, id |-> call[c].id] \in Calls
  PROVE  /\ call' \in [Services -> Calls]
         /\ \A d \in Services : call'[d].pc # "idle" => call'[d].id \in Ids
         /\ \A d \in Services : call'[d].pc \in SendSteps => HasMessage(d)'
<1>1. call[c].id \in Ids
  BY DEF Types, InHand, SendSteps
<1>2. PICK y \in Calls : call' = [call EXCEPT ![c] = y] /\ y.pc = p /\ y.id = call[c].id
  BY DEF Moves
<1> QED
  BY <1>1, <1>2, MessagesStay

\* The lock stays, or the service takes or leaves it: then it was free, or its own.
Locks(c, old, new) == lock[Pos(call[c].id)] = old /\ lock' = [lock EXCEPT ![Pos(call[c].id)] = new]
Takes(c)  == LET s == Pos(call[c].id) IN lock[s] = None /\ Holding(s, c)
Leaves(c) == LET s == Pos(call[c].id) IN lock[s] = c /\ Holding(s, None)

Empty(k, i) == k.id = i /\ k.list = <<>> /\ k.buf = <<>>

LEMMA ProbeStep ==
  ASSUME Types, Locked, NEW c \in Services, Probe(c) \/ Try(c) \/ Verify(c)
  PROVE  /\ Types'
         /\ call[c].pc \in SendSteps
         /\ \/ Going(c, "try", call[c].id) /\ lock' = lock /\ call[c].pc = "probe"
            \/ Going(c, "recheck", call[c].id) /\ Takes(c) /\ Ready(sock[Pos(call[c].id)])
            \/ /\ Going(c, "verify", call[c].id) /\ lock' = lock /\ call[c].pc = "recheck"
               /\ Empty(sock[Pos(call[c].id)], call[c].id)
            \/ /\ Going(c, "write", call[c].id) /\ lock' = lock /\ call[c].pc = "verify"
               /\ sock[Pos(call[c].id)].status = "connected"
            \/ Going(c, "inc", call[c].id) /\ lock' = lock /\ call[c].pc \in {"probe", "try"}
            \/ Going(c, "inc", call[c].id) /\ Leaves(c)
         /\ Elsewhere /\ UNCHANGED <<sock, alloc, pipe, owner, target, stale>>
<1>1. /\ call[c].pc \in SendSteps
      /\ Elsewhere /\ UNCHANGED <<sock, alloc, pipe, owner, target, stale>>
  BY DEF Probe, Try, Verify, SendSteps, Elsewhere
<1>2. call[c].id \in Ids /\ Pos(call[c].id) \in Slots
  BY <1>1, PosType DEF Types, InHand, SendSteps
<1>3. \A p \in Steps : Goto(c, p) => Moves(c, p) /\ [pc |-> p, id |-> call[c].id] \in Calls
  BY GotoMeans
<1>4. call[c].pc \in {"recheck", "verify"} => lock[Pos(call[c].id)] = c
  BY DEF Locked
<1>5. \/ Moves(c, "try") /\ lock' = lock /\ call[c].pc = "probe"
      \/ Moves(c, "recheck") /\ Locks(c, None, c) /\ Ready(sock[Pos(call[c].id)])
      \/ /\ Moves(c, "verify") /\ lock' = lock /\ call[c].pc = "recheck"
         /\ Empty(sock[Pos(call[c].id)], call[c].id)
      \/ /\ Moves(c, "write") /\ lock' = lock /\ call[c].pc = "verify"
         /\ sock[Pos(call[c].id)].status = "connected"
      \/ Moves(c, "inc") /\ lock' = lock /\ call[c].pc \in {"probe", "try"}
      \/ Moves(c, "inc") /\ Locks(c, c, None)
  <2>1. {"try", "recheck", "verify", "write", "inc"} \subseteq Steps
    BY DEF Steps
  <2>2. CASE Probe(c)
    BY <1>3, <1>4, <2>1, <2>2 DEF Probe, Locks, Empty
  <2>3. CASE Try(c)
    BY <1>3, <2>1, <2>3 DEF Try, Locks
  <2>4. CASE Verify(c)
    BY <1>3, <1>4, <2>1, <2>4 DEF Verify, Locks, Ready
  <2> QED
    BY <2>2, <2>3, <2>4
<1>6. PICK p \in SendSteps : Moves(c, p) /\ [pc |-> p, id |-> call[c].id] \in Calls
  <2>1. call[c].id \in Ids
    BY <1>2
  <2>2. \A p \in Steps : [pc |-> p, id |-> call[c].id] \in Calls
    BY <2>1 DEF Calls
  <2> QED
    BY <1>5, <2>2 DEF SendSteps, Steps
<1>7. /\ call' \in [Services -> Calls]
      /\ \A d \in Services : call'[d].pc # "idle" => call'[d].id \in Ids
      /\ \A d \in Services : call'[d].pc \in SendSteps => HasMessage(d)'
  BY <1>1, <1>6, MovesTypes
<1>8. lock' \in [Slots -> Services \cup {None}]
  <2>1. lock \in [Slots -> Services \cup {None}]
    BY DEF Types, SlotTypes
  <2> QED
    BY <1>2, <1>5, <2>1 DEF Locks
<1>9. SlotTypes' /\ CallTypes' /\ PollTypes' /\ InHand'
  BY <1>1, <1>7, <1>8 DEF Types, SlotTypes, CallTypes, PollTypes, InHand, Elsewhere, pollVars
<1>10. /\ \A q : Moves(c, q) => Going(c, q, call[c].id)
       /\ Locks(c, None, c) => Takes(c)
       /\ Locks(c, c, None) => Leaves(c)
  BY <1>2, GoingMeans DEF Moves, Locks, Takes, Leaves, Holding, Types, SlotTypes
<1> QED
  BY <1>1, <1>5, <1>9, <1>10 DEF Types

\* n parts of the message are written, and the others stay.
Writing(s, m) == \E n \in 0 .. 2 :
  /\ wire' = [wire EXCEPT ![sock[s].sck] = @ \o SubSeq(m, 1, n)]
  /\ sock'[s].buf = SubSeq(m, n + 1, 2) /\ sock'[s].list = sock[s].list

LEMMA DirectWriteStep ==
  ASSUME Types, NEW c \in Services, DirectWrite(c)
  PROVE  LET s == Pos(call[c].id) IN
         /\ Types'
         /\ call[c].pc = "write" /\ call[c].id \in Ids /\ s \in Slots
         /\ Tending(s) /\ Writing(s, Parts(<<Message(c)>>))
         /\ Holding(s, None)
         /\ Going(c, "idle", None)
         /\ DOMAIN wire' = DOMAIN wire
         /\ \A i \in DOMAIN wire : wire'[i] # wire[i] => sock[s].sck = i
         /\ UNCHANGED <<pollVars, heard, failed, alloc, pipe, owner, target, stale>>
<1> DEFINE s == Pos(call[c].id)
           m == Parts(<<Message(c)>>)
<1>1. /\ call[c].pc = "write"
      /\ lock' = [lock EXCEPT ![s] = None]
      /\ call' = [call EXCEPT ![c] = [pc |-> "idle", id |-> None]]
      /\ UNCHANGED <<pollVars, heard, failed, alloc, pipe, owner, target, stale>>
  BY DEF DirectWrite
<1>2. call[c].id \in Ids /\ s \in Slots /\ HasMessage(c)
  BY <1>1, PosType DEF Types, InHand, SendSteps
<1>3. PICK n \in 0 .. 2 :
        /\ wire' = [wire EXCEPT ![sock[s].sck] = @ \o SubSeq(m, 1, n)]
        /\ sock' = [sock EXCEPT ![s].buf = SubSeq(m, n + 1, 2), ![s].wr = sock[s].reg /\ (@ \/ n < 2)]
  BY DEF DirectWrite
<1>4. DOMAIN wire' = DOMAIN wire /\ \A i \in DOMAIN wire : wire'[i] # wire[i] => sock[s].sck = i
  <2> HIDE DEF s, m
  <2> QED
    BY <1>3
<1>5. \E b \in Seq(Nat), w \in BOOLEAN :
        Puts(s, AsWritten(sock[s], b, w)) /\ b = SubSeq(m, n + 1, 2)
  <2> DEFINE b == SubSeq(m, n + 1, 2)
             w == sock[s].reg /\ (sock[s].wr \/ n < 2)
  <2>1. b \in Seq(Nat)
    BY <1>2, MessageType, PartsType DEF Types, CallTypes
  <2>2. sock \in [Slots -> Socket] /\ sock[s] \in Socket
    BY <1>2 DEF Types, SlotTypes
  <2>3. sock[s].reg \in BOOLEAN /\ sock[s].wr \in BOOLEAN
    BY <2>2 DEF Socket
  <2>4. w \in BOOLEAN
    BY <2>3
  <2>5. sock' = [sock EXCEPT ![s] = AsWritten(sock[s], b, w)]
    BY <1>2, <1>3, <2>2 DEF AsWritten
  <2>6. b = SubSeq(m, n + 1, 2)
    OBVIOUS
  <2> HIDE DEF b, w, m
  <2> QED
    BY <1>2, <2>1, <2>2, <2>4, <2>5, <2>6, Updates DEF Puts
<1>6. SlotTypes'
  BY <1>1, <1>2, <1>5, PutsMeans DEF Types, SlotTypes
<1>7. [pc |-> "idle", id |-> None] \in Calls
  BY DEF Calls, Steps
<1>8. /\ call' \in [Services -> Calls]
      /\ \A e \in Services : call'[e].pc # "idle" => call'[e].id \in Ids
      /\ \A e \in Services : call'[e].pc \in SendSteps => HasMessage(e)'
  BY <1>1, <1>7, MessagesStay DEF SendSteps
<1>9. CallTypes' /\ PollTypes' /\ InHand'
  BY <1>1, <1>4, <1>8 DEF Types, CallTypes, PollTypes, InHand, pollVars
<1>10. Tending(s) /\ Holding(s, None) /\ Going(c, "idle", None)
  BY <1>1, <1>2, <1>5, Shapes, GoingMeans DEF Holding, Types, SlotTypes
<1>11. Writing(s, m)
  <2>1. sock'[s].buf = SubSeq(m, n + 1, 2) /\ sock'[s].list = sock[s].list
    BY <1>5, Shapes
  <2> QED
    BY <1>3, <2>1 DEF Writing
<1> QED
  BY <1>1, <1>2, <1>4, <1>6, <1>9, <1>10, <1>11 DEF Types

LEMMA IncStep ==
  ASSUME Types, NEW c \in Services, Inc(c)
  PROVE  LET i == call[c].id
             k == sock[Pos(i)]
         IN
         /\ Types'
         /\ call[c].pc = "inc" /\ i \in Ids
         /\ IF k.tcp /\ k.tag = Tag(k.id) THEN Counting(Pos(i), k.refs + 1) ELSE sock' = sock
         /\ stale' = (stale \/ k.id # i)
         /\ Going(c, "post", i)
         /\ Elsewhere /\ UNCHANGED <<lock, alloc, pipe, owner, target>>
<1> DEFINE i == call[c].id
           k == sock[Pos(i)]
<1>1. /\ call[c].pc = "inc" /\ Goto(c, "post")
      /\ stale' = (stale \/ k.id # i)
      /\ Elsewhere /\ UNCHANGED <<lock, alloc, pipe, owner, target>>
  BY DEF Inc, Elsewhere
<1>2. i \in Ids /\ Pos(i) \in Slots /\ sock \in [Slots -> Socket] /\ k \in Socket
  BY <1>1, PosType DEF Types, SlotTypes, InHand
<1>3. Moves(c, "post") /\ [pc |-> "post", id |-> i] \in Calls
  BY <1>1, GotoMeans DEF Steps
<1>4. IF k.tcp /\ k.tag = Tag(k.id) THEN Puts(Pos(i), AsCounted(k, k.refs + 1)) ELSE sock' = sock
  <2>1. k.refs + 1 \in Nat
    BY <1>2 DEF Socket
  <2>2. CASE k.tcp /\ k.tag = Tag(k.id)
    <3>1. sock' = [sock EXCEPT ![Pos(i)] = AsCounted(k, k.refs + 1)]
      BY <1>2, <2>2 DEF Inc, AsCounted
    <3> QED
      BY <1>2, <2>1, <2>2, <3>1, Updates DEF Puts
  <2> QED
    BY <2>2 DEF Inc
<1>5. sock' \in [Slots -> Socket]
  BY <1>2, <1>4, PutsMeans
<1>6. /\ call' \in [Services -> Calls]
      /\ \A e \in Services : call'[e].pc # "idle" => call'[e].id \in Ids
      /\ \A e \in Services : call'[e].pc \in SendSteps => HasMessage(e)'
  BY <1>1, <1>3, MovesTypes DEF SendSteps
<1>7. stale' \in BOOLEAN
  BY <1>1 DEF Types, PollTypes
<1>8. SlotTypes' /\ CallTypes' /\ PollTypes' /\ InHand'
  BY <1>1, <1>5, <1>6, <1>7 DEF Types, SlotTypes, CallTypes, PollTypes, InHand, Elsewhere, pollVars
<1>9. Going(c, "post", i)
  BY <1>3, GoingMeans DEF Moves
<1>10. Puts(Pos(i), AsCounted(k, k.refs + 1)) => Counting(Pos(i), k.refs + 1)
  BY Shapes
<1> QED
  BY <1>1, <1>2, <1>4, <1>8, <1>9, <1>10 DEF Types

LEMMA PostStep ==
  ASSUME Types, NEW c \in Services, Post(c)
  PROVE  LET d == [cmd |-> "D", id |-> call[c].id, msg |-> Message(c)] IN
         /\ Types'
         /\ call[c].pc = "post" /\ call[c].id \in Ids
         /\ Posting(d)
         /\ Going(c, "idle", None)
         /\ Elsewhere /\ UNCHANGED <<sock, lock, alloc, owner, target, stale>>
<1> DEFINE d == [cmd |-> "D", id |-> call[c].id, msg |-> Message(c)]
<1>1. /\ call[c].pc = "post"
      /\ pipe' = Append(pipe, d)
      /\ call' = [call EXCEPT ![c] = [pc |-> "idle", id |-> None]]
      /\ Elsewhere /\ UNCHANGED <<sock, lock, alloc, owner, target, stale>>
  BY DEF Post, Elsewhere, slotVars
<1>2. call[c].id \in Ids /\ Message(c) \in Nat
  BY <1>1, MessageType DEF Types, CallTypes, InHand, SendSteps
<1>3. d \in Commands
  BY <1>2 DEF Commands
<1>4. pipe' \in Seq(Commands)
  <2> HIDE DEF d
  <2> QED
    BY <1>1, <1>3, PipeTail DEF Types, CallTypes
<1>5. [pc |-> "idle", id |-> None] \in Calls
  BY DEF Calls, Steps
<1>6. /\ call' \in [Services -> Calls]
      /\ \A e \in Services : call'[e].pc # "idle" => call'[e].id \in Ids
      /\ \A e \in Services : call'[e].pc \in SendSteps => HasMessage(e)'
  BY <1>1, <1>5, MessagesStay DEF SendSteps
<1>7. SlotTypes' /\ CallTypes' /\ PollTypes' /\ InHand'
  BY <1>1, <1>4, <1>6 DEF Types, SlotTypes, CallTypes, PollTypes, InHand, Elsewhere, pollVars
<1>8. Going(c, "idle", None)
  BY <1>1, GoingMeans
<1>9. Posting(d)
  <2> HIDE DEF d
  <2> QED
    BY <1>1, <1>3, Posted
<1> QED
  BY <1>1, <1>2, <1>7, <1>8, <1>9 DEF Types

(***************************************************************************)
(* The steps of the polling thread.                                        *)
(***************************************************************************)
Apart == UNCHANGED <<lock, call, target>>

LEMMA PollTyped ==
  ASSUME Types, Apart,
         sock' \in [Slots -> Socket], alloc' \in 0 .. MaxId,
         pipe' \in Seq(Commands), owner' \in [Ids -> Services \cup {None}],
         heard' \in [Ids -> SUBSET Notices], DOMAIN wire' = Ids,
         at' \in Places, op' \in Ops, check' \in BOOLEAN, ready' \in SUBSET Reports,
         failed' \in Failures, stale' \in BOOLEAN,
         at' \in {"flush", "ask", "close", "accept"} => op'.slot \in Slots,
         at' \in {"dec", "accept"} => op'.id \in Ids,
         at' = "dec" => op'.slot = Pos(op'.id)
  PROVE  Types'
<1>1. SlotTypes' /\ CallTypes' /\ PollTypes'
  BY DEF Types, SlotTypes, CallTypes, PollTypes, Apart
<1>2. InHand'
  BY DEF Types, InHand, HasMessage, Apart
<1> QED
  BY <1>1, <1>2 DEF Types

LEMMA Loops ==
  ASSUME Loop
  PROVE  at' = "loop" /\ at' \in Places /\ op' \in Ops
BY DEF Loop, At, Places, Ops, SlotIds

LEMMA AtType ==
  \A s \in Slots, i \in SlotIds : At(s, i) \in Ops /\ At(s, i).slot = s /\ At(s, i).id = i
BY DEF At, Ops

Closes(s, i) ==
  /\ Puts(s, AsClosing(sock[s])) /\ sock[s].status # "reserve"
  /\ at' = "close" /\ op' = At(s, i) /\ failed' = failed
ClosesNot(s) ==
  sock[s].status = "reserve" /\ failed' = "close" /\ UNCHANGED <<sock, at, op>>
LEMMA BeginCloseMeans ==
  ASSUME Types, NEW s \in Slots, NEW i, BeginClose(s, i)
  PROVE  Closes(s, i) \/ ClosesNot(s)
<1>1. sock \in [Slots -> Socket] /\ sock[s] \in Socket
  BY DEF Types, SlotTypes
<1>2. CASE sock[s].status = "reserve"
  BY <1>2 DEF BeginClose, ClosesNot
<1>3. CASE sock[s].status # "reserve"
  <2>1. sock' = [sock EXCEPT ![s].list = <<>>, ![s].reg = FALSE, ![s].wr = FALSE]
        /\ at' = "close" /\ op' = At(s, i) /\ failed' = failed
    BY <1>3 DEF BeginClose
  <2>2. sock' = [sock EXCEPT ![s] = AsClosing(sock[s])]
    BY <1>1, <2>1 DEF AsClosing
  <2> QED
    BY <1>1, <1>3, <2>1, <2>2, Updates DEF Puts, Closes
<1> QED
  BY <1>2, <1>3

\* The command taken.
Taken(x, i) ==
  /\ at = "loop" /\ pipe # <<>> /\ pipe' = Tail(pipe)
  /\ Head(pipe).cmd = x /\ Head(pipe).id = i /\ i \in Ids
LEMMA TakeMeans ==
  ASSUME Types, NEW x, Take(x)
  PROVE  Taken(x, Head(pipe).id) /\ pipe' \in Seq(Commands)
BY PipeHead DEF Types, CallTypes, Take, Taken

LEMMA Took ==
  ASSUME Types, NEW x, NEW i, Taken(x, i)
  PROVE  Taking(x, i)
<1>1. pipe \in Seq(Commands)
  BY DEF Types, CallTypes
<1>2. Len(pipe) \in Nat /\ Len(pipe) # 0 /\ DOMAIN pipe = 1 .. Len(pipe)
  BY <1>1, LenProperties DEF Taken
<1>3. /\ Head(pipe) = pipe[1] /\ 1 \in DOMAIN pipe
      /\ Len(pipe') = Len(pipe) - 1 /\ DOMAIN pipe' = 1 .. Len(pipe')
      /\ \A j \in DOMAIN pipe' : j + 1 \in DOMAIN pipe /\ pipe'[j] = pipe[j + 1]
  BY <1>1, PipeHead, LenProperties DEF Taken
<1>4. ASSUME NEW j \in DOMAIN pipe, j # 1
      PROVE  j - 1 \in DOMAIN pipe' /\ pipe'[j - 1] = pipe[j]
  <2>1. j - 1 \in DOMAIN pipe' /\ (j - 1) + 1 = j
    BY <1>2, <1>3, <1>4
  <2> QED
    BY <1>3, <2>1
<1>5. DOMAIN pipe \subseteq Nat /\ DOMAIN pipe' \subseteq Nat \ {0}
  BY <1>2, <1>3
<1> QED
  BY <1>3, <1>4, <1>5 DEF Taken, Taking

\* How closing begins, and what Return leaves behind.
Ends(s, i) ==
  /\ Ending(s) /\ sock[s].status # "reserve"
  /\ at' = "close" /\ op'.slot = s /\ op'.id = i /\ failed' = failed
Back == at' = "loop" /\ ready' = {}
LEMMA EndsMeans ==
  ASSUME Types
  PROVE  /\ \A s \in Slots, i \in SlotIds : Closes(s, i) => Ends(s, i)
         /\ Loop => at' = "loop"
         /\ Return => Back
BY Shapes, AtType DEF Closes, Ends, Back, Return, Loop

LEMMA ListenSocketStep ==
  ASSUME Types, ListenSocket
  PROVE  /\ Types'
         /\ \E i \in Ids :
              /\ Taking("L", i)
              /\ \/ /\ sock[Pos(i)].status = "reserve" /\ failed' = failed
                    /\ Making(i, "plisten")
                 \/ sock[Pos(i)].status # "reserve" /\ failed' = "slot" /\ sock' = sock
         /\ Apart /\ UNCHANGED <<alloc, at, op, ready, owner, heard, wire, stale>>
<1> DEFINE i == Head(pipe).id
<1>1. Taken("L", i) /\ i \in Ids /\ pipe' \in Seq(Commands)
  BY TakeMeans DEF ListenSocket, Taken
<1>2. /\ Apart
      /\ UNCHANGED <<alloc, at, op, ready, owner, heard, wire, stale, check>>
  BY DEF ListenSocket, Keeps, Apart, serviceVars
<1>3. \/ /\ sock[Pos(i)].status = "reserve" /\ failed' = failed
         /\ Puts(Pos(i), Opened(i, "plisten", FALSE))
      \/ sock[Pos(i)].status # "reserve" /\ failed' = "slot" /\ sock' = sock
  <2>1. Opened(i, "plisten", FALSE) \in Socket /\ Pos(i) \in Slots
    BY <1>1, SocketMade, PosType DEF Status
  <2> QED
    BY <2>1 DEF ListenSocket, Puts
<1>4. sock' \in [Slots -> Socket]
  BY <1>3, PutsMeans DEF Types, SlotTypes
<1>5. failed' \in Failures
  BY <1>3 DEF Types, PollTypes, Failures
<1>6. Types'
  BY <1>1, <1>2, <1>4, <1>5, PollTyped DEF Types, SlotTypes, CallTypes, PollTypes, InHand
<1>7. Taking("L", i) /\ (Puts(Pos(i), Opened(i, "plisten", FALSE)) => Making(i, "plisten"))
  BY <1>1, Took, Shapes, PosType
<1> QED
  BY <1>1, <1>2, <1>3, <1>6, <1>7

LEMMA MeetsType ==
  ASSUME Types, NEW k, NEW i, Meets(k, i)
  PROVE  stale' \in BOOLEAN /\ (stale' = (stale \/ (k.id = i /\ k.status = "reserve")))
BY DEF Types, PollTypes, Meets

LEMMA StartSocketStep ==
  ASSUME Types, StartSocket
  PROVE  /\ Types'
         /\ \E i \in Ids : LET k == sock[Pos(i)] IN
              /\ Taking("S", i) /\ Meets(k, i)
              /\ \/ Missing(k, i) /\ Told(i, "end") /\ Back /\ UNCHANGED <<sock, failed>>
                 \/ /\ ~Missing(k, i) /\ k.status \in {"paccept", "plisten"}
                    /\ Starting(Pos(i))
                    /\ Told(i, "open") /\ Back /\ failed' = failed
                 \/ ~Missing(k, i) /\ Ends(Pos(i), i) /\ UNCHANGED <<ready, heard>>
                 \/ /\ ~Missing(k, i) /\ k.status = "connected"
                    /\ Told(i, "open") /\ Back /\ UNCHANGED <<sock, failed>>
                 \/ UNCHANGED <<at, op, ready, heard, sock, failed>>
         /\ Apart /\ UNCHANGED <<alloc, owner, wire>>
<1> DEFINE i == Head(pipe).id
           s == Pos(i)
           k == sock[s]
<1>1. Taken("S", i) /\ i \in Ids /\ pipe' \in Seq(Commands)
  BY TakeMeans DEF StartSocket, Taken
<1>2. s \in Slots /\ sock \in [Slots -> Socket] /\ k \in Socket
  BY <1>1, PosType DEF Types, SlotTypes
<1>3. /\ Meets(k, i) /\ Apart
      /\ UNCHANGED <<alloc, check, owner, wire>>
  BY DEF StartSocket, Keeps, Apart, serviceVars
<1>4. \/ Missing(k, i) /\ Tell(i, "end") /\ Return /\ UNCHANGED <<sock, failed>>
      \/ /\ ~Missing(k, i) /\ k.status \in {"paccept", "plisten"}
         /\ sock' = [sock EXCEPT ![s].status = IF @ = "paccept" THEN "connected" ELSE "listen",
                                 ![s].reg = TRUE]
         /\ Tell(i, "open") /\ Return /\ failed' = failed
      \/ /\ ~Missing(k, i) /\ k.status \in {"paccept", "plisten"}
         /\ BeginClose(s, i) /\ UNCHANGED <<ready, heard>>
      \/ /\ ~Missing(k, i) /\ k.status = "connected"
         /\ Tell(i, "open") /\ Return /\ UNCHANGED <<sock, failed>>
      \/ UNCHANGED <<at, op, ready, heard, sock, failed>>
  BY DEF StartSocket
<1>5. ASSUME ~Missing(k, i), k.status \in {"paccept", "plisten"},
             sock' = [sock EXCEPT ![s].status = IF @ = "paccept" THEN "connected" ELSE "listen",
                                  ![s].reg = TRUE]
      PROVE  \E st \in {"connected", "listen"} : Puts(s, AsStarted(k, st))
  <2> DEFINE st == IF k.status = "paccept" THEN "connected" ELSE "listen"
  <2>1. sock' = [sock EXCEPT ![s] = AsStarted(k, st)]
    BY <1>2, <1>5 DEF AsStarted
  <2>2. st \in Status /\ st \in {"connected", "listen"}
    BY DEF Status
  <2> HIDE DEF st
  <2> QED
    BY <1>2, <2>1, <2>2, Updates DEF Puts
<1>6. ASSUME k.status \in {"paccept", "plisten"}, BeginClose(s, i)
      PROVE  Closes(s, i)
  BY <1>2, <1>6, BeginCloseMeans DEF ClosesNot
<1>7. \/ Missing(k, i) /\ Tell(i, "end") /\ Return /\ UNCHANGED <<sock, failed>>
      \/ /\ ~Missing(k, i) /\ k.status \in {"paccept", "plisten"}
         /\ \E st \in {"connected", "listen"} : Puts(s, AsStarted(k, st))
         /\ Tell(i, "open") /\ Return /\ failed' = failed
      \/ ~Missing(k, i) /\ Closes(s, i) /\ UNCHANGED <<ready, heard>>
      \/ /\ ~Missing(k, i) /\ k.status = "connected"
         /\ Tell(i, "open") /\ Return /\ UNCHANGED <<sock, failed>>
      \/ UNCHANGED <<at, op, ready, heard, sock, failed>>
  BY <1>4, <1>5, <1>6
<1>8. Types'
  <2>1. sock' \in [Slots -> Socket]
    BY <1>2, <1>7, PutsMeans DEF Closes
  <2>2. heard' \in [Ids -> SUBSET Notices]
    BY <1>7, TellMeans DEF Types, CallTypes
  <2>3. At(s, i) \in Ops /\ At(s, i).slot = s
    BY <1>1, <1>2, AtType DEF SlotIds
  <2>4. at' \in Places /\ op' \in Ops /\ ready' \in SUBSET Reports /\ failed' \in Failures
    BY <1>7, <2>3, Loops DEF Return, Closes, Places, Types, PollTypes
  <2>5. stale' \in BOOLEAN
    BY <1>3, MeetsType
  <2>6. (at' = "loop" /\ TRUE) \/ (at' = "close" /\ op'.slot = s)
    BY <1>1, <1>7, <2>3, Loops DEF Return, Closes, Taken
  <2> QED
    BY <1>1, <1>2, <1>3, <2>1, <2>2, <2>4, <2>5, <2>6, PollTyped DEF Types, SlotTypes, CallTypes, PollTypes
<1>9. /\ Taking("S", i)
      /\ (\E st \in {"connected", "listen"} : Puts(s, AsStarted(k, st))) => Starting(s)
      /\ Tell(i, "open") => Told(i, "open")
      /\ Tell(i, "end") => Told(i, "end")
      /\ Closes(s, i) => Ends(s, i)
      /\ Return => Back
  BY <1>1, <1>2, Took, Shapes, ToldMeans, EndsMeans DEF SlotIds
<1> HIDE DEF i, s, k
<1>10. \/ Missing(k, i) /\ Told(i, "end") /\ Back /\ UNCHANGED <<sock, failed>>
       \/ /\ ~Missing(k, i) /\ k.status \in {"paccept", "plisten"}
          /\ Starting(s)
          /\ Told(i, "open") /\ Back /\ failed' = failed
       \/ ~Missing(k, i) /\ Ends(s, i) /\ UNCHANGED <<ready, heard>>
       \/ /\ ~Missing(k, i) /\ k.status = "connected"
          /\ Told(i, "open") /\ Back /\ UNCHANGED <<sock, failed>>
       \/ UNCHANGED <<at, op, ready, heard, sock, failed>>
  BY <1>7, <1>9
<1> QED
  BY <1>1, <1>3, <1>8, <1>9, <1>10 DEF s, k

Queueing(s, m) == sock'[s].list = sock[s].list \o Parts(<<m>>) /\ sock'[s].buf = sock[s].buf

LEMMA SendSocketStep ==
  ASSUME Types, SendSocket
  PROVE  /\ Types'
         /\ \E i \in Ids : LET k == sock[Pos(i)] IN
              /\ Taking("D", i) /\ Meets(k, i)
              /\ \/ sock' = sock /\ (Missing(k, i) \/ k.status # "connected")
                 \/ /\ ~Missing(k, i)
                    /\ Tending(Pos(i)) /\ Queueing(Pos(i), pipe[1].msg)
                    /\ k.status \in {"connected", "reserve"}
              /\ pipe[1].msg \in Nat
              /\ at' = "dec" /\ op'.slot = Pos(i) /\ op'.id = i
         /\ Apart /\ UNCHANGED <<alloc, ready, owner, heard, wire, failed>>
<1> DEFINE i == Head(pipe).id
           s == Pos(i)
           k == sock[s]
           m == Head(pipe).msg
           l == k.list \o Parts(<<m>>)
           w == k.wr \/ (k.reg /\ k.list = <<>> /\ k.status = "connected")
<1>1. Taken("D", i) /\ i \in Ids /\ pipe' \in Seq(Commands)
  BY TakeMeans DEF SendSocket, Taken
<1>2. s \in Slots /\ sock \in [Slots -> Socket] /\ k \in Socket
  BY <1>1, PosType DEF Types, SlotTypes
<1>3. /\ Meets(k, i) /\ Apart
      /\ at' = "dec" /\ op' = At(s, i)
      /\ UNCHANGED <<alloc, check, ready, owner, heard, wire, failed>>
  BY DEF SendSocket, Keeps, Apart, serviceVars
<1>4. k.list \in Seq(Nat) /\ k.wr \in BOOLEAN /\ k.reg \in BOOLEAN
  BY <1>2 DEF Socket
<1>5. l \in Seq(Nat) /\ Len(l) = Len(k.list) + 2
  <2>1. m \in Nat
    BY <1>1, PipeHead DEF Types, CallTypes, Taken
  <2>2. Parts(<<m>>) \in Seq(Nat) /\ Len(Parts(<<m>>)) = 2
    BY <2>1, PartsType
  <2> QED
    <3>1. l \in Seq(Nat) /\ Len(l) = Len(k.list) + Len(Parts(<<m>>))
      BY <1>4, <2>2, ConcatProperties
    <3> HIDE DEF l
    <3> QED
      BY <2>2, <3>1
<1>6. \/ sock' = sock /\ (Missing(k, i) \/ k.status # "connected")
      \/ ~Missing(k, i) /\ k.status \in {"connected", "reserve"} /\ Puts(s, AsQueued(k, l, w))
  <2>0. k.status \in Status /\ (Missing(k, i) \/ k.status # "invalid")
    BY <1>2 DEF Socket, Missing
  <2>1. CASE Missing(k, i) \/ k.status \in {"halfclose", "paccept", "plisten", "listen"}
    BY <2>1 DEF SendSocket
  <2>2. CASE ~(Missing(k, i) \/ k.status \in {"halfclose", "paccept", "plisten", "listen"})
    <3>1. sock' = [sock EXCEPT ![s].list = @ \o Parts(<<m>>), ![s].size = @ + 2,
                     ![s].wr = @ \/ (k.reg /\ k.list = <<>> /\ k.status = "connected")]
      BY <2>2 DEF SendSocket
    <3>2. sock' = [sock EXCEPT ![s] = AsQueued(k, l, w)]
      BY <1>2, <3>1 DEF AsQueued
    <3>3. w \in BOOLEAN
      BY <1>4
    <3>4. AsQueued(k, l, w) \in Socket
      <4> HIDE DEF l, w
      <4> QED
        BY <1>2, <1>5, <3>3, Updates
    <3> QED
      BY <1>2, <2>0, <2>2, <3>2, <3>4 DEF Puts, Status
  <2> QED
    BY <2>1, <2>2
<1>7. \/ sock' = sock /\ (Missing(k, i) \/ k.status # "connected")
      \/ /\ ~Missing(k, i) /\ k.status \in {"connected", "reserve"}
         /\ \E l1 \in Seq(Nat), w1 \in BOOLEAN :
              Len(l1) = Len(k.list) + 2 /\ Puts(s, AsQueued(k, l1, w1)) /\ l1 = l
  <2>1. w \in BOOLEAN
    BY <1>4
  <2> HIDE DEF l, w
  <2> QED
    BY <1>5, <1>6, <2>1
<1>8. At(s, i) \in Ops /\ At(s, i).slot = s /\ At(s, i).id = i
  BY <1>1, <1>2, AtType DEF SlotIds
<1>9. Types'
  <2>1. sock' \in [Slots -> Socket]
    BY <1>2, <1>7, PutsMeans
  <2>2. stale' \in BOOLEAN
    BY <1>3, MeetsType
  <2>3. at' \in Places
    BY <1>3 DEF Places
  <2> HIDE DEF s, k, l, w, m
  <2> QED
    BY <1>1, <1>2, <1>3, <1>8, <2>1, <2>2, <2>3, PollTyped DEF Types, SlotTypes, CallTypes, PollTypes, s
<1>10. \/ sock' = sock /\ (Missing(k, i) \/ k.status # "connected")
       \/ /\ ~Missing(k, i) /\ k.status \in {"connected", "reserve"}
          /\ Tending(s) /\ sock'[s].list = l /\ sock'[s].buf = k.buf
  <2> HIDE DEF l
  <2> QED
    BY <1>7, Shapes
<1>11. Taking("D", i) /\ m = pipe[1].msg /\ m \in Nat
  BY <1>1, Took, PipeHead DEF Types, CallTypes, Taken
<1>12. \/ sock' = sock /\ (Missing(k, i) \/ k.status # "connected")
       \/ /\ ~Missing(k, i) /\ k.status \in {"connected", "reserve"}
          /\ Tending(s) /\ Queueing(s, pipe[1].msg)
  BY <1>10, <1>11 DEF Queueing
<1> HIDE DEF l, w, m
<1> QED
  BY <1>1, <1>3, <1>8, <1>9, <1>11, <1>12

LEMMA CloseSocketStep ==
  ASSUME Types, NEW x \in {"K", "H"}, CloseSocket(x)
  PROVE  /\ Types'
         /\ \E i \in Ids : LET k == sock[Pos(i)] IN
              /\ Taking(x, i) /\ Meets(k, i)
              /\ \/ Missing(k, i) /\ Told(i, "end") /\ Back
                 \/ /\ ~Missing(k, i) /\ at' \in {"ask", "flush"}
                    /\ op'.slot = Pos(i) /\ op'.id = i
                    /\ UNCHANGED <<ready, heard>>
         /\ Apart /\ UNCHANGED <<sock, alloc, owner, wire, failed>>
<1> DEFINE i == Head(pipe).id
           s == Pos(i)
           k == sock[s]
<1>1. Taken(x, i) /\ i \in Ids /\ pipe' \in Seq(Commands)
  BY TakeMeans DEF CloseSocket, Taken
<1>2. s \in Slots
  BY <1>1, PosType
<1>3. /\ Meets(k, i) /\ Apart
      /\ UNCHANGED <<sock, alloc, check, owner, wire, failed>>
      /\ \/ Missing(k, i) /\ Tell(i, "end") /\ Return
         \/ /\ ~Missing(k, i) /\ at' \in {"ask", "flush"}
            /\ op' = [At(s, i) EXCEPT !.hard = (x = "H")]
            /\ UNCHANGED <<ready, heard>>
  BY DEF CloseSocket, Keeps, Apart, serviceVars
<1>4. \A b \in BOOLEAN : LET o == [At(s, i) EXCEPT !.hard = b]
                         IN  o \in Ops /\ o.slot = s /\ o.id = i
  BY <1>1, <1>2 DEF At, Ops, SlotIds
<1>5. \/ Missing(k, i) /\ Tell(i, "end") /\ Return
      \/ /\ ~Missing(k, i) /\ at' \in {"ask", "flush"}
         /\ op' \in Ops /\ op'.slot = s /\ op'.id = i
         /\ UNCHANGED <<ready, heard>>
  <2>1. (x = "H") \in BOOLEAN
    OBVIOUS
  <2>2. PICK b \in BOOLEAN : b = (x = "H")
    BY <2>1
  <2>3. [At(s, i) EXCEPT !.hard = (x = "H")] = [At(s, i) EXCEPT !.hard = b]
    BY <2>2
  <2>4. PICK o : o = [At(s, i) EXCEPT !.hard = (x = "H")]
    OBVIOUS
  <2>5. o \in Ops /\ o.slot = s /\ o.id = i
    BY <1>4, <2>3, <2>4
  <2>6. \/ Missing(k, i) /\ Tell(i, "end") /\ Return
        \/ /\ ~Missing(k, i) /\ at' \in {"ask", "flush"} /\ op' = o
           /\ UNCHANGED <<ready, heard>>
    BY <1>3, <2>4
  <2> QED
    BY <2>5, <2>6
<1>6. Types'
  <2>1. heard' \in [Ids -> SUBSET Notices]
    BY <1>5, TellMeans DEF Types, CallTypes
  <2>2. at' \in Places /\ op' \in Ops /\ ready' \in SUBSET Reports
    BY <1>5, Loops DEF Return, Places, Types, PollTypes
  <2>3. stale' \in BOOLEAN
    BY <1>3, MeetsType
  <2>4. at' = "loop" \/ (at' \in {"ask", "flush"} /\ op'.slot = s)
    BY <1>5, Loops DEF Return
  <2> QED
    BY <1>1, <1>2, <1>3, <2>1, <2>2, <2>3, <2>4, PollTyped DEF Types, SlotTypes, CallTypes, PollTypes
<1>7. /\ Taking(x, i)
      /\ Tell(i, "end") => Told(i, "end")
      /\ Return => Back
  BY <1>1, Took, ToldMeans, EndsMeans
<1> QED
  BY <1>1, <1>3, <1>5, <1>6, <1>7

LEMMA CloseStep ==
  ASSUME Types, Close
  PROVE  /\ Types'
         /\ at = "close" /\ op.slot \in Slots /\ lock[op.slot] = None
         /\ Shutting(op.slot)
         /\ Told(op.id, "end") /\ Back
         /\ Apart /\ UNCHANGED <<alloc, pipe, owner, wire, failed, stale>>
<1>1. /\ at = "close" /\ lock[op.slot] = None
      /\ sock' = [sock EXCEPT ![op.slot] = Closed(@)]
      /\ Tell(op.id, "end") /\ Return
      /\ Apart /\ UNCHANGED <<alloc, check, pipe, owner, wire, failed, stale>>
  BY DEF Close, Keeps, Apart, serviceVars
<1>2. op.slot \in Slots /\ sock \in [Slots -> Socket] /\ sock[op.slot] \in Socket
  BY <1>1 DEF Types, SlotTypes, InHand
<1>3. Puts(op.slot, Closed(sock[op.slot]))
  BY <1>1, <1>2, SocketMade DEF Puts
<1>4. Types'
  <2>1. sock' \in [Slots -> Socket]
    BY <1>3, PutsMeans
  <2>2. heard' \in [Ids -> SUBSET Notices]
    BY <1>1, TellMeans DEF Types, CallTypes
  <2>3. at' = "loop" /\ at' \in Places /\ op' \in Ops /\ ready' = {}
    BY <1>1, Loops DEF Return
  <2> QED
    BY <1>1, <2>1, <2>2, <2>3, PollTyped DEF Types, SlotTypes, CallTypes, PollTypes
<1>5. Shutting(op.slot) /\ Told(op.id, "end") /\ Back
  BY <1>1, <1>3, Shapes, ToldMeans, EndsMeans
<1> QED
  BY <1>1, <1>2, <1>4, <1>5

LEMMA DecStep ==
  ASSUME Types, Dec
  PROVE  LET k == sock[op.slot] IN
         /\ Types'
         /\ at = "dec" /\ op.id \in Ids /\ op.slot = Pos(op.id) /\ at' = "loop"
         /\ \/ (k.id # op.id \/ ~k.tcp) /\ UNCHANGED <<sock, failed>>
            \/ k.id = op.id /\ k.tcp /\ k.refs = 0 /\ failed' = "count" /\ UNCHANGED sock
            \/ /\ k.id = op.id /\ k.tcp /\ k.refs # 0 /\ failed' = failed
               /\ k.refs - 1 \in Nat /\ Counting(op.slot, k.refs - 1)
         /\ Apart /\ UNCHANGED <<alloc, ready, pipe, owner, heard, wire, stale>>
<1> DEFINE k == sock[op.slot]
<1>1. /\ at = "dec" /\ Loop
      /\ \/ (k.id # op.id \/ ~k.tcp) /\ UNCHANGED <<sock, failed>>
         \/ k.id = op.id /\ k.tcp /\ k.refs = 0 /\ failed' = "count" /\ UNCHANGED sock
         \/ /\ k.id = op.id /\ k.tcp /\ k.refs # 0 /\ failed' = failed
            /\ sock' = [sock EXCEPT ![op.slot].refs = @ - 1]
      /\ Apart /\ UNCHANGED <<alloc, check, ready, pipe, owner, heard, wire, stale>>
  BY DEF Dec, Keeps, Apart, serviceVars
<1>2. op.id \in Ids /\ op.slot = Pos(op.id) /\ op.slot \in Slots
      /\ sock \in [Slots -> Socket] /\ k \in Socket
  BY <1>1, PosType DEF Types, SlotTypes, InHand
<1>3. \/ (k.id # op.id \/ ~k.tcp) /\ UNCHANGED <<sock, failed>>
      \/ k.id = op.id /\ k.tcp /\ k.refs = 0 /\ failed' = "count" /\ UNCHANGED sock
      \/ /\ k.id = op.id /\ k.tcp /\ k.refs # 0 /\ failed' = failed
         /\ k.refs - 1 \in Nat /\ Puts(op.slot, AsCounted(k, k.refs - 1))
  <2>1. ASSUME k.refs # 0, sock' = [sock EXCEPT ![op.slot].refs = @ - 1]
        PROVE  k.refs - 1 \in Nat /\ Puts(op.slot, AsCounted(k, k.refs - 1))
    <3>1. k.refs \in Nat /\ k.refs - 1 \in Nat
      BY <1>2, <2>1 DEF Socket
    <3>2. sock' = [sock EXCEPT ![op.slot] = AsCounted(k, k.refs - 1)]
      BY <1>2, <2>1 DEF AsCounted
    <3> QED
      BY <1>2, <3>1, <3>2, Updates DEF Puts
  <2> QED
    BY <1>1, <2>1
<1>4. Types'
  <2>1. sock' \in [Slots -> Socket]
    BY <1>2, <1>3, PutsMeans
  <2>2. at' = "loop" /\ at' \in Places /\ op' \in Ops
    BY <1>1, Loops
  <2>3. failed' \in Failures
    BY <1>3 DEF Types, PollTypes, Failures
  <2> QED
    BY <1>1, <2>1, <2>2, <2>3, PollTyped DEF Types, SlotTypes, CallTypes, PollTypes
<1>5. Puts(op.slot, AsCounted(k, k.refs - 1)) => Counting(op.slot, k.refs - 1)
  BY Shapes
<1>6. at' = "loop"
  BY <1>1, Loops
<1> QED
  BY <1>1, <1>2, <1>3, <1>4, <1>5, <1>6

ShutsSlot(s) ==
  /\ Shutting(s) /\ sock[s].status # "reserve"
  /\ Told(sock[s].id, "end") /\ Back /\ failed' = failed

LEMMA SlightMeans ==
  ASSUME Types, NEW s \in Slots, NEW r, Slight(s, r)
  PROVE  /\ sock' \in [Slots -> Socket]
         /\ \A t \in Slots : t # s => sock'[t] = sock[t]
         /\ sock'[s].id = sock[s].id /\ sock'[s].tcp = sock[s].tcp /\ sock'[s].tag = sock[s].tag
         /\ sock'[s].refs = r /\ sock'[s].sck = sock[s].sck /\ Passes(s, sock'[s])
         /\ sock'[s].status = sock[s].status /\ sock'[s].reg = sock[s].reg
         /\ sock[s].size = Len(sock[s].list) => sock'[s].size = Len(sock'[s].list)
<1>1. PICK k \in Socket :
        /\ sock' = [sock EXCEPT ![s] = k] /\ Passes(s, k)
        /\ k.id = sock[s].id /\ k.tcp = sock[s].tcp /\ k.sck = sock[s].sck
        /\ k.tag = sock[s].tag /\ k.refs = r
        /\ k.status = sock[s].status /\ k.reg = sock[s].reg
        /\ sock[s].size = Len(sock[s].list) => k.size = Len(k.list)
  BY DEF Slight
<1>2. sock \in [Slots -> Socket]
  BY DEF Types, SlotTypes
<1>3. sock'[s] = k /\ \A t \in Slots : t # s => sock'[t] = sock[t]
  BY <1>1, <1>2
<1>4. sock' \in [Slots -> Socket]
  BY <1>1, <1>2
<1> QED
  BY <1>1, <1>3, <1>4

LEMMA ForwardMeans ==
  ASSUME Types, NEW s \in Slots
  PROVE  /\ Slight(s, sock[s].refs) => Tending(s) /\ Passes(s, sock'[s])
         /\ Shuts(s) => ShutsSlot(s)
<1>1. Slight(s, sock[s].refs) => Tending(s) /\ Passes(s, sock'[s])
  BY SlightMeans DEF Tending, Others, Alike, Stands
<1>2. Shuts(s) => ShutsSlot(s)
  <2>1. sock[s] \in Socket
    BY DEF Types, SlotTypes
  <2>2. sock' = [sock EXCEPT ![s] = Closed(@)] => Puts(s, Closed(sock[s]))
    BY <2>1, SocketMade DEF Puts
  <2> QED
    BY <2>2, Shapes, ToldMeans, EndsMeans DEF Shuts, ShutsSlot
<1> QED
  BY <1>1, <1>2

\* The three ways onForward ends keep the types.
LEMMA ForwardTyped ==
  ASSUME Types, Apart, NEW s \in Slots, Wires(s),
         UNCHANGED <<alloc, pipe, owner, check, stale>>,
         \/ /\ Slight(s, sock[s].refs) /\ UNCHANGED <<heard, failed>>
            /\ at' \in {"loop", "ask"} /\ op' \in Ops /\ ready' \subseteq ready
            /\ at' = "ask" => op'.slot \in Slots
         \/ Shuts(s)
         \/ Fails(s)
  PROVE  Types'
<1>1. sock \in [Slots -> Socket] /\ sock[s] \in Socket
  BY DEF Types, SlotTypes
<1>2. sock' \in [Slots -> Socket]
  BY <1>1, SlightMeans, SocketMade DEF Shuts, Fails
<1>3. heard' \in [Ids -> SUBSET Notices]
  BY TellMeans DEF Shuts, Fails, Types, CallTypes
<1>4. at' \in Places /\ op' \in Ops /\ ready' \in SUBSET Reports /\ failed' \in Failures
  BY Loops DEF Shuts, Fails, Return, Types, PollTypes, Places, Failures
<1>5. DOMAIN wire' = Ids
  BY DEF Wires, Types, CallTypes
<1>6. (at' = at /\ op' = op) \/ at' = "loop" \/ (at' = "ask" /\ op'.slot \in Slots)
  BY Loops DEF Shuts, Fails, Return
<1> QED
  BY <1>2, <1>3, <1>4, <1>5, <1>6, PollTyped DEF Types, SlotTypes, CallTypes, PollTypes, InHand

LEMMA CloseFlushStep ==
  ASSUME Types, CloseFlush
  PROVE  /\ Types'
         /\ at = "flush" /\ op.slot \in Slots /\ Wires(op.slot)
         /\ Apart /\ UNCHANGED <<alloc, pipe, owner, stale>>
         /\ \/ /\ Tending(op.slot) /\ Passes(op.slot, sock'[op.slot])
               /\ at' = "ask" /\ op' = op /\ ready' = ready
               /\ UNCHANGED <<heard, failed>>
            \/ lock[op.slot] = None /\ ShutsSlot(op.slot)
            \/ Fails(op.slot)
<1>1. /\ at = "flush" /\ op.slot \in Slots /\ Wires(op.slot) /\ Apart
      /\ UNCHANGED <<alloc, pipe, owner, check, stale>>
      /\ \/ /\ Slight(op.slot, sock[op.slot].refs)
            /\ at' = "ask" /\ op' = op /\ ready' = ready
            /\ UNCHANGED <<heard, failed>>
         \/ lock[op.slot] = None /\ Shuts(op.slot)
         \/ Fails(op.slot)
  BY FlushEffect DEF Apart
<1>2. op \in Ops
  BY DEF Types, PollTypes
<1>3. Types'
  BY <1>1, <1>2, ForwardTyped
<1> QED
  BY <1>1, <1>3, ForwardMeans

LEMMA WriteStep ==
  ASSUME Types, NEW e \in ready, Write(e)
  PROVE  /\ Types'
         /\ e.slot \in Slots /\ Busy(e.slot) /\ at \in {"loop", "first"} /\ Wires(e.slot)
         /\ Apart /\ UNCHANGED <<alloc, pipe, owner, stale>>
         /\ \/ /\ Tending(e.slot) /\ Passes(e.slot, sock'[e.slot])
               /\ at' = "loop" /\ ready' \subseteq ready
               /\ UNCHANGED <<heard, failed>>
            \/ lock[e.slot] = None /\ ShutsSlot(e.slot)
            \/ Fails(e.slot)
<1>1. /\ e.slot \in Slots /\ Busy(e.slot) /\ at \in {"loop", "first"}
      /\ Wires(e.slot) /\ Apart
      /\ UNCHANGED <<alloc, pipe, owner, check, stale>>
      /\ \/ /\ Slight(e.slot, sock[e.slot].refs)
            /\ Loop /\ ready' = ready \ {e}
            /\ UNCHANGED <<heard, failed>>
         \/ lock[e.slot] = None /\ Shuts(e.slot)
         \/ Fails(e.slot)
  BY WriteEffect DEF Apart, Write, Event
<1>2. Types'
  BY <1>1, ForwardTyped, Loops
<1> QED
  BY <1>1, <1>2, ForwardMeans, EndsMeans

LEMMA CloseAskStep ==
  ASSUME Types, CloseAsk
  PROVE  /\ Types'
         /\ at = "ask" /\ op.slot \in Slots
         /\ \/ Ends(op.slot, op.id)
            \/ ClosesNot(op.slot)
            \/ Halving(op.slot) /\ at' = "loop" /\ failed' = failed
         /\ Apart /\ UNCHANGED <<alloc, ready, pipe, owner, heard, wire, stale>>
<1> DEFINE s == op.slot
<1>1. /\ at = "ask"
      /\ \/ BeginClose(s, op.id)
         \/ sock' = [sock EXCEPT ![s].status = "halfclose"] /\ Loop /\ failed' = failed
      /\ Apart /\ UNCHANGED <<alloc, check, ready, pipe, owner, heard, wire, stale>>
  BY DEF CloseAsk, Keeps, Apart, serviceVars
<1>2. s \in Slots /\ sock \in [Slots -> Socket] /\ sock[s] \in Socket /\ op.id \in SlotIds
  BY <1>1 DEF Types, SlotTypes, PollTypes, InHand, Ops
<1>3. ASSUME sock' = [sock EXCEPT ![s].status = "halfclose"]
      PROVE  Puts(s, AsHalf(sock[s]))
  <2>1. sock' = [sock EXCEPT ![s] = AsHalf(sock[s])]
    BY <1>2, <1>3 DEF AsHalf
  <2> QED
    BY <1>2, <2>1, Updates DEF Puts
<1>4. \/ Closes(s, op.id)
      \/ ClosesNot(s)
      \/ Puts(s, AsHalf(sock[s])) /\ Loop /\ failed' = failed
  BY <1>1, <1>2, <1>3, BeginCloseMeans
<1>5. Types'
  <2>1. sock' \in [Slots -> Socket]
    BY <1>2, <1>4, PutsMeans DEF Closes, ClosesNot
  <2>2. at' \in Places /\ op' \in Ops /\ failed' \in Failures
    BY <1>2, <1>4, AtType, Loops DEF Closes, ClosesNot, Types, PollTypes, Places, Failures
  <2>3. at' = "loop" \/ (at' \in {"ask", "close"} /\ op'.slot = s)
    BY <1>1, <1>2, <1>4, AtType, Loops DEF Closes, ClosesNot
  <2> QED
    BY <1>1, <1>2, <2>1, <2>2, <2>3, PollTyped DEF Types, SlotTypes, CallTypes, PollTypes
<1>6. /\ Closes(s, op.id) => Ends(s, op.id)
      /\ Puts(s, AsHalf(sock[s])) => Halving(s)
      /\ Loop => at' = "loop"
  BY <1>2, Shapes, EndsMeans
<1> QED
  BY <1>1, <1>2, <1>4, <1>5, <1>6

LEMMA AcceptedStep ==
  ASSUME Types, at = "accept" => sock[op.slot].id \in Ids, Accepted
  PROVE  /\ Types'
         /\ at = "accept" /\ op.slot \in Slots /\ op.id \in Ids /\ sock[op.slot].id \in Ids
         /\ Making(op.id, "paccept")
         /\ Owning(op.id, owner[sock[op.slot].id])
         /\ Back
         /\ Apart /\ UNCHANGED <<alloc, pipe, heard, wire, failed, stale>>
<1>1. /\ at = "accept"
      /\ sock' = [sock EXCEPT ![Pos(op.id)] = Opened(op.id, "paccept", TRUE)]
      /\ owner' = [owner EXCEPT ![op.id] = owner[sock[op.slot].id]]
      /\ Return
      /\ Apart /\ UNCHANGED <<alloc, check, pipe, heard, wire, failed, stale>>
  BY DEF Accepted, Keeps, Apart, serviceVars
<1>2. op.slot \in Slots /\ op.id \in Ids /\ Pos(op.id) \in Slots
  BY <1>1, PosType DEF Types, InHand
<1>3. Puts(Pos(op.id), Opened(op.id, "paccept", TRUE))
  BY <1>1, <1>2, SocketMade DEF Puts, Status
<1>4. Types'
  <2>1. sock' \in [Slots -> Socket]
    BY <1>3, PutsMeans
  <2>2. at' = "loop" /\ at' \in Places /\ op' \in Ops /\ ready' = {}
    BY <1>1, Loops DEF Return
  <2>3. owner' \in [Ids -> Services \cup {None}]
    BY <1>1, <1>2 DEF Types, CallTypes
  <2> QED
    BY <1>1, <2>1, <2>2, <2>3, PollTyped DEF Types, SlotTypes, CallTypes, PollTypes
<1>5. Making(op.id, "paccept") /\ Owning(op.id, owner[sock[op.slot].id]) /\ Back
  BY <1>1, <1>2, <1>3, Shapes, Owns, EndsMeans
<1> QED
  BY <1>1, <1>2, <1>4, <1>5

LEMMA DrainedStep ==
  ASSUME Types, Drained
  PROVE  /\ Types'
         /\ Apart /\ UNCHANGED <<sock, alloc, at, op, ready, pipe, owner, heard, wire, failed, stale>>
<1>1. /\ Apart /\ check' = FALSE
      /\ UNCHANGED <<sock, alloc, at, op, ready, pipe, owner, heard, wire, failed, stale>>
  BY DEF Drained, Keeps, Apart, serviceVars, slotVars
<1> QED
  BY <1>1, PollTyped DEF Types, SlotTypes, CallTypes, PollTypes, InHand

LEMMA WaitStep ==
  ASSUME Types, Wait
  PROVE  /\ Types'
         /\ at' \in {"first", "loop"} /\ at = "loop"
         /\ \A e \in ready' : e.slot \in Slots /\ sock[e.slot].reg /\ e.id = sock[e.slot].id
         /\ Apart /\ UNCHANGED <<sock, alloc, op, pipe, owner, heard, wire, failed, stale>>
<1>1. PICK r \in SUBSET Offers, w \in SUBSET {s \in Offers : sock[s].wr} :
        /\ ready' = {[slot |-> s, id |-> sock[s].id, r |-> s \in r, w |-> s \in w] : s \in r \cup w}
        /\ at' \in {"first", "loop"}
  BY DEF Wait
<1>2. /\ check' = TRUE /\ Apart /\ at = "loop"
      /\ UNCHANGED <<sock, alloc, op, pipe, owner, heard, wire, failed, stale>>
  BY DEF Wait, Keeps, Apart, serviceVars, slotVars
<1>3. sock \in [Slots -> Socket]
  BY DEF Types, SlotTypes
<1>4. \A s \in r \cup w : s \in Slots /\ sock[s].reg /\ sock[s].id \in SlotIds
  BY <1>3 DEF Offers, Socket, SlotIds
<1>5. ready' \in SUBSET Reports
  <2>1. ASSUME NEW s \in r \cup w
        PROVE  [slot |-> s, id |-> sock[s].id, r |-> s \in r, w |-> s \in w] \in Reports
    <3>1. (s \in r) \in BOOLEAN /\ (s \in w) \in BOOLEAN
      OBVIOUS
    <3>2. s \in Slots /\ sock[s].id \in SlotIds
      BY <1>4
    <3> QED
      BY <3>1, <3>2 DEF Reports
  <2> QED
    BY <1>1, <2>1
<1>6. \A e \in ready' : e.slot \in Slots /\ sock[e.slot].reg /\ e.id = sock[e.slot].id
  BY <1>1, <1>4
<1>7. Types'
  BY <1>1, <1>2, <1>5, PollTyped DEF Types, SlotTypes, CallTypes, PollTypes, Places
<1> QED
  BY <1>1, <1>2, <1>6, <1>7

LEMMA AcceptStep ==
  ASSUME Types, NEW e \in ready, Accept(e)
  PROVE  /\ Types'
         /\ e.slot \in Slots /\ sock[e.slot].status = "listen" /\ at \in {"loop", "first"}
         /\ \/ \E i \in Ids :
                 /\ alloc < i /\ alloc' = i /\ sock[Pos(i)].status = "invalid"
                 /\ Reserving(Pos(i))
                 /\ at' = "accept" /\ op'.slot = e.slot /\ op'.id = i /\ ready' = ready
            \/ sock' = sock /\ alloc <= alloc' /\ at' = "loop" /\ ready' \subseteq ready
         /\ Apart /\ UNCHANGED <<pipe, owner, heard, wire, failed, stale>>
<1>1. /\ sock[e.slot].status = "listen" /\ at \in {"loop", "first"}
      /\ Apart /\ UNCHANGED <<check, pipe, owner, heard, wire, failed, stale>>
  BY DEF Accept, Event, Keeps, Claim, Apart, serviceVars, slotVars
<1>2. e.slot \in Slots /\ sock \in [Slots -> Socket] /\ alloc \in Nat /\ alloc <= MaxId
  BY PosType DEF Types, SlotTypes, PollTypes, Reports
<1>3. \/ \E i \in Ids :
           /\ alloc < i /\ alloc' = i /\ sock[Pos(i)].status = "invalid"
           /\ Puts(Pos(i), AsReserved(sock[Pos(i)]))
           /\ at' = "accept" /\ op' = At(e.slot, i) /\ ready' = ready
      \/ sock' = sock /\ alloc <= alloc' /\ alloc' \in 0 .. MaxId /\ Loop /\ ready' \subseteq ready
  <2>1. ASSUME NEW i \in Ids, Claim(i)
        PROVE  /\ alloc < i /\ alloc' = i /\ sock[Pos(i)].status = "invalid"
               /\ Puts(Pos(i), AsReserved(sock[Pos(i)]))
    <3>1. Pos(i) \in Slots /\ sock[Pos(i)] \in Socket
      BY <1>2, PosType
    <3>2. sock' = [sock EXCEPT ![Pos(i)] = AsReserved(sock[Pos(i)])]
      BY <1>2, <2>1, <3>1 DEF Claim, AsReserved
    <3>3. alloc < i /\ alloc' = i /\ sock[Pos(i)].status = "invalid"
      BY <1>2, <2>1, PosType DEF Claim, Reservable
    <3> QED
      BY <3>1, <3>2, <3>3, Updates DEF Puts
  <2>2. alloc <= alloc /\ alloc \in 0 .. MaxId /\ alloc <= alloc + Size
        /\ (alloc + Size <= MaxId => alloc + Size \in 0 .. MaxId)
    BY <1>2, PosType
  <2>3. \/ \E i \in Ids : Claim(i) /\ at' = "accept" /\ op' = At(e.slot, i) /\ ready' = ready
        \/ Return /\ sock' = sock /\ alloc' = alloc
        \/ Loop /\ ready' = ready \ {e} /\ sock' = sock /\ alloc' = alloc
        \/ alloc + Size <= MaxId /\ alloc' = alloc + Size
           /\ Loop /\ ready' = ready \ {e} /\ sock' = sock
    BY DEF Accept, slotVars
  <2>4. Return => Loop /\ ready' \subseteq ready
    BY DEF Return
  <2>5. CASE \E i \in Ids : Claim(i) /\ at' = "accept" /\ op' = At(e.slot, i) /\ ready' = ready
    BY <2>1, <2>5
  <2>6. CASE ~\E i \in Ids : Claim(i) /\ at' = "accept" /\ op' = At(e.slot, i) /\ ready' = ready
    BY <2>2, <2>3, <2>4, <2>6
  <2> QED
    BY <2>5, <2>6
<1>4. \/ \E i \in Ids :
           /\ alloc < i /\ alloc' = i /\ sock[Pos(i)].status = "invalid"
           /\ Puts(Pos(i), AsReserved(sock[Pos(i)]))
           /\ at' = "accept" /\ op' \in Ops /\ op'.slot = e.slot /\ op'.id = i /\ ready' = ready
      \/ sock' = sock /\ alloc <= alloc' /\ alloc' \in 0 .. MaxId /\ Loop /\ ready' \subseteq ready
  <2>1. \A i \in Ids : At(e.slot, i) \in Ops /\ At(e.slot, i).slot = e.slot /\ At(e.slot, i).id = i
    BY <1>2, AtType DEF SlotIds
  <2> QED
    BY <1>3, <2>1
<1>5. Types'
  <2>1. sock' \in [Slots -> Socket] /\ alloc' \in 0 .. MaxId
    <3>1. \A i \in Ids : i \in 0 .. MaxId
      BY DEF Ids
    <3> QED
      BY <1>2, <1>4, <3>1, PutsMeans
  <2>2. at' \in Places /\ op' \in Ops /\ ready' \in SUBSET Reports
    BY <1>4, Loops DEF Places, Types, PollTypes
  <2>3. at' = "loop" \/ (at' = "accept" /\ op'.slot \in Slots /\ op'.id \in Ids)
    BY <1>2, <1>4, Loops
  <2> QED
    BY <1>1, <2>1, <2>2, <2>3, PollTyped DEF Types, SlotTypes, CallTypes, PollTypes
<1>6. (\A i \in Ids : Puts(Pos(i), AsReserved(sock[Pos(i)])) => Reserving(Pos(i))) /\ (Loop => at' = "loop")
  BY Shapes, EndsMeans
<1> QED
  BY <1>1, <1>2, <1>4, <1>5, <1>6

LEMMA ReceiveStep ==
  ASSUME Types, NEW e \in ready, Receive(e)
  PROVE  LET s == e.slot IN
         /\ Types'
         /\ s \in Slots /\ Busy(s) /\ at \in {"loop", "first"}
         /\ \/ /\ at' = "loop" /\ UNCHANGED <<sock, heard, failed>>
               /\ \A n \in ready' : \E o \in ready : n.slot = o.slot /\ n.id = o.id
            \/ Told(sock[s].id, "data") /\ Back /\ UNCHANGED <<sock, failed>>
            \/ Ends(s, sock[s].id) /\ UNCHANGED <<ready, heard>>
            \/ ClosesNot(s) /\ UNCHANGED <<ready, heard>>
         /\ Apart /\ UNCHANGED <<alloc, pipe, owner, wire, stale>>
<1> DEFINE s == e.slot
           k == sock[s]
<1>1. /\ Busy(s) /\ at \in {"loop", "first"}
      /\ \/ Loop /\ ready' = Rest(e) /\ UNCHANGED <<sock, heard, failed>>
         \/ Tell(k.id, "data") /\ Return /\ UNCHANGED <<sock, failed>>
         \/ BeginClose(s, k.id) /\ UNCHANGED <<ready, heard>>
      /\ Apart /\ UNCHANGED <<alloc, check, pipe, owner, wire, stale>>
  BY DEF Receive, Event, Keeps, Apart, serviceVars
<1>2. s \in Slots /\ sock \in [Slots -> Socket] /\ k.id \in SlotIds /\ e \in Reports
  BY DEF Types, SlotTypes, PollTypes, Reports, Socket, SlotIds
<1>3. /\ Rest(e) \in SUBSET Reports
      /\ \A n \in Rest(e) : \E o \in ready : n.slot = o.slot /\ n.id = o.id
  <2>1. /\ [e EXCEPT !.r = FALSE] \in Reports
        /\ [e EXCEPT !.r = FALSE].slot = e.slot /\ [e EXCEPT !.r = FALSE].id = e.id
    BY <1>2 DEF Reports
  <2>2. Rest(e) \subseteq ready \cup {[e EXCEPT !.r = FALSE]}
    BY DEF Rest
  <2> QED
    BY <2>1, <2>2 DEF Types, PollTypes
<1>4. \/ /\ Loop /\ UNCHANGED <<sock, heard, failed>>
         /\ ready' \in SUBSET Reports
         /\ \A n \in ready' : \E o \in ready : n.slot = o.slot /\ n.id = o.id
      \/ Tell(k.id, "data") /\ Return /\ UNCHANGED <<sock, failed>>
      \/ Closes(s, k.id) /\ UNCHANGED <<ready, heard>>
      \/ ClosesNot(s) /\ UNCHANGED <<ready, heard>>
  BY <1>1, <1>2, <1>3, BeginCloseMeans
<1>5. Types'
  <2>1. sock' \in [Slots -> Socket]
    BY <1>2, <1>4, PutsMeans DEF Closes, ClosesNot
  <2>2. heard' \in [Ids -> SUBSET Notices]
    BY <1>4, TellMeans DEF Types, CallTypes
  <2>3. at' \in Places /\ op' \in Ops /\ ready' \in SUBSET Reports /\ failed' \in Failures
    BY <1>2, <1>4, AtType, Loops DEF Closes, ClosesNot, Return, Types, PollTypes, Places, Failures
  <2>4. at' \in {"loop", "first"} \/ (at' = "close" /\ op'.slot = s)
    BY <1>1, <1>2, <1>4, AtType, Loops DEF Closes, ClosesNot, Return
  <2> QED
    BY <1>1, <1>2, <2>1, <2>2, <2>3, <2>4, PollTyped DEF Types, SlotTypes, CallTypes, PollTypes
<1>6. /\ Closes(s, k.id) => Ends(s, k.id)
      /\ Tell(k.id, "data") => Told(k.id, "data")
      /\ Loop => at' = "loop"
      /\ Return => Back
  BY <1>2, ToldMeans, EndsMeans
<1> QED
  BY <1>1, <1>2, <1>4, <1>5, <1>6

\* The slots that services and the polling thread have in hand.
LEMMA Hands ==
  ASSUME Types
  PROVE  /\ \A c \in Services : call[c].pc # "idle" =>
              call[c].id \in Ids /\ Pos(call[c].id) \in Slots
         /\ at \in {"flush", "ask", "close", "accept"} => op.slot \in Slots
         /\ at = "accept" => op.id \in Ids /\ Pos(op.id) \in Slots
BY PosType DEF Types, InHand

LEMMA SlotsNext ==
  ASSUME SlotsInv, [Next]_vars
  PROVE  SlotsInv'
<1> USE DEF SlotsInv
<1>1. ASSUME NEW c \in Services, Listen(c)
      PROVE  SlotsInv'
  <2>1. Ided'
    BY <1>1, ListenStep, PosType, Hands DEF Ided, Alike, Elsewhere, Going, IsOpen, Others, Reserving, Stands, pollVars
  <2>2. Locked'
    BY <1>1, ListenStep, PosType, Hands DEF Locked, Alike, Elsewhere, Going, Others, Reserving, Stands, pollVars
  <2>3. Tagged'
    BY <1>1, ListenStep, PosType, Hands DEF Tagged, Alike, Elsewhere, Going, Others, Reserving, Stands, pollVars
  <2>4. Types'
    BY <1>1, ListenStep
  <2> QED
    BY <2>1, <2>2, <2>3, <2>4
<1>2. ASSUME NEW c \in Services, ListenPost(c)
      PROVE  SlotsInv'
  <2> DEFINE s == Pos(call[c].id)
  <2>1. /\ Types' /\ call[c].pc = "reserved" /\ call[c].id \in Ids /\ s \in Slots
        /\ Others(s) /\ Stands(sock'[s], sock[s]) /\ sock'[s].id = call[c].id /\ ~sock'[s].tcp
        /\ Going(c, "idle", None)
        /\ Elsewhere /\ lock' = lock
    BY <1>2, ListenPostStep, Hands DEF Naming
  <2>2. Ided'
    <3> HIDE DEF s
    <3> QED
      BY <2>1, Hands DEF Ided, IsOpen, Others, Stands, Elsewhere, pollVars
  <2>3. Locked'
    <3>1. \A t \in Slots : sock'[t].status = sock[t].status
      BY <2>1 DEF Others, Stands
    <3>2. \A d \in Services : call'[d] = call[d] \/ call'[d].pc = "idle"
      BY <2>1 DEF Going
    <3> HIDE DEF s
    <3> QED
      BY <2>1, <3>1, <3>2, Hands DEF Locked, Elsewhere, pollVars
  <2>4. Tagged'
    <3> HIDE DEF s
    <3> QED
      BY <2>1 DEF Tagged, Others
  <2> QED
    BY <2>1, <2>2, <2>3, <2>4
<1>3. ASSUME NEW c \in Services, NEW x \in {"S", "K", "H"}, NEW i \in Ids, Request(c, x, i)
      PROVE  SlotsInv'
  <2>1. Ided'
    BY <1>3, RequestStep, PosType, Hands DEF Ided, Alike, Elsewhere, IsOpen, Others, Stands, pollVars
  <2>2. Locked'
    BY <1>3, RequestStep, PosType, Hands DEF Locked, Alike, Elsewhere, Others, Stands, pollVars
  <2>3. Tagged'
    BY <1>3, RequestStep, PosType, Hands DEF Tagged, Alike, Elsewhere, Others, Stands, pollVars
  <2>4. Types'
    BY <1>3, RequestStep
  <2> QED
    BY <2>1, <2>2, <2>3, <2>4
<1>4. ASSUME NEW c \in Services, NEW i \in Ids, Send(c, i)
      PROVE  SlotsInv'
  <2>1. Ided'
    BY <1>4, SendStep, PosType, Hands DEF Ided, Alike, Elsewhere, Going, IsOpen, Others, Stands, pollVars
  <2>2. Locked'
    BY <1>4, SendStep, PosType, Hands DEF Locked, Alike, Elsewhere, Going, Others, Stands, pollVars
  <2>3. Tagged'
    BY <1>4, SendStep, PosType, Hands DEF Tagged, Alike, Elsewhere, Going, Others, Stands, pollVars
  <2>4. Types'
    BY <1>4, SendStep
  <2> QED
    BY <2>1, <2>2, <2>3, <2>4
<1>5. ASSUME NEW c \in Services, Probe(c) \/ Try(c) \/ Verify(c)
      PROVE  SlotsInv'
  <2>1. Ided'
    BY <1>5, ProbeStep, PosType, Hands DEF Ided, Alike, Elsewhere, Going, Holding, IsOpen, Leaves, Others, Stands, Takes, pollVars
  <2>2. Locked'
    BY <1>5, ProbeStep, PosType, Hands DEF Locked, Alike, Elsewhere, Going, Holding, Leaves, Others, Stands, Takes, pollVars
  <2>3. Tagged'
    BY <1>5, ProbeStep, PosType, Hands DEF Tagged, Alike, Elsewhere, Going, Holding, Leaves, Others, Stands, Takes, pollVars
  <2>4. Types'
    BY <1>5, ProbeStep
  <2> QED
    BY <2>1, <2>2, <2>3, <2>4
<1>6. ASSUME NEW c \in Services, DirectWrite(c)
      PROVE  SlotsInv'
  <2>0. LET s == Pos(call[c].id) IN
        /\ call[c].pc = "write" /\ call[c].id \in Ids /\ s \in Slots
        /\ Tending(s) /\ Holding(s, None) /\ Going(c, "idle", None)
        /\ UNCHANGED <<pollVars, heard, failed, alloc, pipe, owner, target, stale>>
    BY <1>6, DirectWriteStep
  <2>1. Ided'
    BY <2>0, PosType, Hands DEF Ided, Alike, Going, Holding, IsOpen, Others, Stands, Tending, pollVars
  <2>2. Locked'
    BY <2>0, PosType, Hands DEF Locked, Alike, Going, Holding, Others, Stands, Tending, pollVars
  <2>3. Tagged'
    BY <2>0, PosType, Hands DEF Tagged, Alike, Going, Holding, Others, Stands, Tending, pollVars
  <2>4. Types'
    BY <1>6, DirectWriteStep
  <2> QED
    BY <2>1, <2>2, <2>3, <2>4
<1>7. ASSUME NEW c \in Services, Inc(c)
      PROVE  SlotsInv'
  <2>1. Ided'
    BY <1>7, IncStep, PosType, Hands DEF Ided, Alike, Counting, Elsewhere, Going, IsOpen, Others, Stands, Whole, pollVars
  <2>2. Locked'
    BY <1>7, IncStep, PosType, Hands DEF Locked, Alike, Counting, Elsewhere, Going, Others, Stands, Whole, pollVars
  <2>3. Tagged'
    BY <1>7, IncStep, PosType, Hands DEF Tagged, Alike, Counting, Elsewhere, Going, Others, Stands, Whole, pollVars
  <2>4. Types'
    BY <1>7, IncStep
  <2> QED
    BY <2>1, <2>2, <2>3, <2>4
<1>8. ASSUME NEW c \in Services, Post(c)
      PROVE  SlotsInv'
  <2>1. Ided'
    BY <1>8, PostStep, PosType, Hands DEF Ided, Alike, Elsewhere, Going, IsOpen, Others, Stands, pollVars
  <2>2. Locked'
    BY <1>8, PostStep, PosType, Hands DEF Locked, Alike, Elsewhere, Going, Others, Stands, pollVars
  <2>3. Tagged'
    BY <1>8, PostStep, PosType, Hands DEF Tagged, Alike, Elsewhere, Going, Others, Stands, pollVars
  <2>4. Types'
    BY <1>8, PostStep
  <2> QED
    BY <2>1, <2>2, <2>3, <2>4
<1>9. ASSUME ListenSocket
      PROVE  SlotsInv'
  <2>1. Ided'
    BY <1>9, ListenSocketStep, PosType, Hands DEF Ided, Alike, Apart, IsOpen, Making, Others, Stands, Taking
  <2>2. Locked'
    BY <1>9, ListenSocketStep, PosType, Hands DEF Locked, Alike, Apart, Making, Others, Stands, Taking
  <2>3. Tagged'
    BY <1>9, ListenSocketStep, PosType, Hands DEF Tagged, Alike, Apart, Making, Others, Stands, Taking
  <2>4. Types'
    BY <1>9, ListenSocketStep
  <2> QED
    BY <2>1, <2>2, <2>3, <2>4
<1>10. ASSUME StartSocket
      PROVE  SlotsInv'
  <2>1. Ided'
    BY <1>10, StartSocketStep, PosType, Hands DEF Ided, Alike, Apart, Back, Ending, Ends, IsOpen, Others, Stands, Starting, Taking
  <2>2. Locked'
    BY <1>10, StartSocketStep, PosType, Hands DEF Locked, Alike, Apart, Back, Ending, Ends, Others, Stands, Starting, Taking
  <2>3. Tagged'
    BY <1>10, StartSocketStep, PosType, Hands DEF Tagged, Alike, Apart, Back, Ending, Ends, Others, Stands, Starting, Taking
  <2>4. Types'
    BY <1>10, StartSocketStep
  <2> QED
    BY <2>1, <2>2, <2>3, <2>4
<1>11. ASSUME SendSocket
      PROVE  SlotsInv'
  <2>1. Ided'
    BY <1>11, SendSocketStep, PosType, Hands DEF Ided, Alike, Apart, IsOpen, Others, Stands, Taking, Tending
  <2>2. Locked'
    BY <1>11, SendSocketStep, PosType, Hands DEF Locked, Alike, Apart, Others, Stands, Taking, Tending
  <2>3. Tagged'
    BY <1>11, SendSocketStep, PosType, Hands DEF Tagged, Alike, Apart, Others, Stands, Taking, Tending
  <2>4. Types'
    BY <1>11, SendSocketStep
  <2> QED
    BY <2>1, <2>2, <2>3, <2>4
<1>12. ASSUME NEW x \in {"K", "H"}, CloseSocket(x)
      PROVE  SlotsInv'
  <2>1. Ided'
    BY <1>12, CloseSocketStep, PosType, Hands DEF Ided, Alike, Apart, Back, IsOpen, Missing, Others, Stands, Taking
  <2>2. Locked'
    BY <1>12, CloseSocketStep, PosType, Hands DEF Locked, Alike, Apart, Back, Missing, Others, Stands, Taking
  <2>3. Tagged'
    BY <1>12, CloseSocketStep, PosType, Hands DEF Tagged, Alike, Apart, Back, Missing, Others, Stands, Taking
  <2>4. Types'
    BY <1>12, CloseSocketStep
  <2> QED
    BY <2>1, <2>2, <2>3, <2>4
<1>13. ASSUME Close
      PROVE  SlotsInv'
  <2>1. Ided'
    BY <1>13, CloseStep, PosType, Hands DEF Ided, Alike, Apart, Back, IsOpen, Others, Shutting, Stands
  <2>2. Locked'
    BY <1>13, CloseStep, PosType, Hands DEF Locked, Alike, Apart, Back, Others, Shutting, Stands
  <2>3. Tagged'
    BY <1>13, CloseStep, PosType, Hands DEF Tagged, Alike, Apart, Back, Others, Shutting, Stands
  <2>4. Types'
    BY <1>13, CloseStep
  <2> QED
    BY <2>1, <2>2, <2>3, <2>4
<1>14. ASSUME Dec
      PROVE  SlotsInv'
  <2>1. Ided'
    BY <1>14, DecStep, PosType, Hands DEF Ided, Alike, Apart, Counting, IsOpen, Others, Stands, Whole
  <2>2. Locked'
    BY <1>14, DecStep, PosType, Hands DEF Locked, Alike, Apart, Counting, Others, Stands, Whole
  <2>3. Tagged'
    BY <1>14, DecStep, PosType, Hands DEF Tagged, Alike, Apart, Counting, Others, Stands, Whole
  <2>4. Types'
    BY <1>14, DecStep
  <2> QED
    BY <2>1, <2>2, <2>3, <2>4
<1>15. ASSUME CloseFlush
      PROVE  SlotsInv'
  <2>1. Ided'
    BY <1>15, CloseFlushStep, PosType, Hands DEF Ided, Alike, Apart, Back, Fails, IsOpen, Others, ShutsSlot, Shutting, Stands, Tending
  <2>2. Locked'
    BY <1>15, CloseFlushStep, PosType, Hands DEF Locked, Alike, Apart, Back, Fails, Others, ShutsSlot, Shutting, Stands, Tending
  <2>3. Tagged'
    BY <1>15, CloseFlushStep, PosType, Hands DEF Tagged, Alike, Apart, Back, Fails, Others, ShutsSlot, Shutting, Stands, Tending
  <2>4. Types'
    BY <1>15, CloseFlushStep
  <2> QED
    BY <2>1, <2>2, <2>3, <2>4
<1>16. ASSUME CloseAsk
      PROVE  SlotsInv'
  <2>1. Ided'
    BY <1>16, CloseAskStep, PosType, Hands DEF Ided, Alike, Apart, ClosesNot, Ending, Ends, Halving, IsOpen, Others, Stands
  <2>2. Locked'
    BY <1>16, CloseAskStep, PosType, Hands DEF Locked, Alike, Apart, ClosesNot, Ending, Ends, Halving, Others, Stands
  <2>3. Tagged'
    BY <1>16, CloseAskStep, PosType, Hands DEF Tagged, Alike, Apart, ClosesNot, Ending, Ends, Halving, Others, Stands
  <2>4. Types'
    BY <1>16, CloseAskStep
  <2> QED
    BY <2>1, <2>2, <2>3, <2>4
<1>17. ASSUME Accepted
      PROVE  SlotsInv'
  <2>1. Ided'
    BY <1>17, AcceptedStep, PosType, Hands DEF Ided, Alike, Apart, Back, IsOpen, Making, Others, Stands
  <2>2. Locked'
    BY <1>17, AcceptedStep, PosType, Hands DEF Ided, Locked, Alike, Apart, Back, Making, Others, Stands
  <2>3. Tagged'
    BY <1>17, AcceptedStep, PosType, Hands DEF Ided, Tagged, Alike, Apart, Back, Making, Others, Stands
  <2>4. Types'
    BY <1>17, AcceptedStep DEF Ided
  <2> QED
    BY <2>1, <2>2, <2>3, <2>4
<1>18. ASSUME Drained
      PROVE  SlotsInv'
  <2>1. Ided'
    BY <1>18, DrainedStep, PosType, Hands DEF Ided, Alike, Apart, IsOpen, Others, Stands
  <2>2. Locked'
    BY <1>18, DrainedStep, PosType, Hands DEF Locked, Alike, Apart, Others, Stands
  <2>3. Tagged'
    BY <1>18, DrainedStep, PosType, Hands DEF Tagged, Alike, Apart, Others, Stands
  <2>4. Types'
    BY <1>18, DrainedStep
  <2> QED
    BY <2>1, <2>2, <2>3, <2>4
<1>19. ASSUME Wait
      PROVE  SlotsInv'
  <2>1. Ided'
    BY <1>19, WaitStep, PosType, Hands DEF Ided, Alike, Apart, IsOpen, Others, Stands
  <2>2. Locked'
    BY <1>19, WaitStep, PosType, Hands DEF Locked, Alike, Apart, Others, Stands
  <2>3. Tagged'
    BY <1>19, WaitStep, PosType, Hands DEF Tagged, Alike, Apart, Others, Stands
  <2>4. Types'
    BY <1>19, WaitStep
  <2> QED
    BY <2>1, <2>2, <2>3, <2>4
<1>20. ASSUME NEW e \in ready, Accept(e)
      PROVE  SlotsInv'
  <2>1. Ided'
    BY <1>20, AcceptStep, PosType, Hands DEF Ided, Alike, Apart, Busy, IsOpen, Others, Reserving, Stands
  <2>2. Locked'
    BY <1>20, AcceptStep, PosType, Hands DEF Locked, Alike, Apart, Busy, Others, Reserving, Stands
  <2>3. Tagged'
    BY <1>20, AcceptStep, PosType, Hands DEF Tagged, Alike, Apart, Busy, Others, Reserving, Stands
  <2>4. Types'
    BY <1>20, AcceptStep
  <2> QED
    BY <2>1, <2>2, <2>3, <2>4
<1>21. ASSUME NEW e \in ready, Receive(e)
      PROVE  SlotsInv'
  <2>1. Ided'
    BY <1>21, ReceiveStep, PosType, Hands DEF Ided, Alike, Apart, Back, Busy, ClosesNot, Ending, Ends, IsOpen, Others, Stands
  <2>2. Locked'
    BY <1>21, ReceiveStep, PosType, Hands DEF Locked, Alike, Apart, Back, Busy, ClosesNot, Ending, Ends, Others, Stands
  <2>3. Tagged'
    BY <1>21, ReceiveStep, PosType, Hands DEF Tagged, Alike, Apart, Back, Busy, ClosesNot, Ending, Ends, Others, Stands
  <2>4. Types'
    BY <1>21, ReceiveStep
  <2> QED
    BY <2>1, <2>2, <2>3, <2>4
<1>22. ASSUME NEW e \in ready, Write(e)
      PROVE  SlotsInv'
  <2>1. Ided'
    BY <1>22, WriteStep, PosType, Hands DEF Ided, Alike, Apart, Back, Busy, Fails, IsOpen, Others, ShutsSlot, Shutting, Stands, Tending
  <2>2. Locked'
    BY <1>22, WriteStep, PosType, Hands DEF Locked, Alike, Apart, Back, Busy, Fails, Others, ShutsSlot, Shutting, Stands, Tending
  <2>3. Tagged'
    BY <1>22, WriteStep, PosType, Hands DEF Tagged, Alike, Apart, Back, Busy, Fails, Others, ShutsSlot, Shutting, Stands, Tending
  <2>4. Types'
    BY <1>22, WriteStep
  <2> QED
    BY <2>1, <2>2, <2>3, <2>4
<1>23. CASE UNCHANGED vars
  BY <1>23 DEF vars, slotVars, serviceVars, pollVars, Ided, IsOpen, Locked, Tagged, Types, SlotTypes, CallTypes, PollTypes, InHand, HasMessage
<1> QED
  BY <1>1, <1>2, <1>3, <1>4, <1>5, <1>6, <1>7, <1>8, <1>9, <1>10, <1>11, <1>12, <1>13, <1>14, <1>15, <1>16, <1>17, <1>18, <1>19, <1>20, <1>21, <1>22, <1>23 DEF Next, Service, InCall, Command, Inside, Handle

LEMMA SlotsInit ==
  ASSUME Init
  PROVE  SlotsInv
<1>1. sock \in [Slots -> Socket] /\ \A s \in Slots : sock[s].status = "invalid" /\ ~sock[s].tcp
  <2> DEFINE k == [Opened(0, "invalid", FALSE) EXCEPT !.id = None, !.tcp = FALSE, !.sck = None]
  <2>1. k \in Socket /\ k.status = "invalid" /\ ~k.tcp
    <3>1. Tag(0) \in Nat
      BY PosType DEF Tag
    <3>2. <<>> \in Seq(Nat) /\ "invalid" \in Status
      BY DEF Status
    <3>3. PICK t : t = Tag(0) /\ t \in Nat
      BY <3>1
    <3>4. Opened(0, "invalid", FALSE) \in Socket
      BY <3>2, <3>3 DEF Opened, Socket
    <3>5. Opened(0, "invalid", FALSE).status = "invalid"
      BY DEF Opened
    <3>6. PICK o \in Socket : o = Opened(0, "invalid", FALSE) /\ o.status = "invalid"
      BY <3>4, <3>5
    <3>7. k = [o EXCEPT !.id = None, !.tcp = FALSE, !.sck = None]
      BY <3>6
    <3> HIDE DEF k
    <3> QED
      BY <3>6, <3>7 DEF Socket
  <2>2. sock = [s \in Slots |-> k]
    BY DEF Init
  <2> HIDE DEF k
  <2> QED
    BY <2>1, <2>2
<1>2. /\ lock \in [Slots -> Services \cup {None}] /\ alloc \in 0 .. MaxId
      /\ pipe \in Seq(Commands) /\ target \in Seq(Ids)
      /\ owner \in [Ids -> Services \cup {None}] /\ heard \in [Ids -> SUBSET Notices]
      /\ DOMAIN wire = Ids
      /\ check \in BOOLEAN /\ ready \in SUBSET Reports /\ failed \in Failures /\ stale \in BOOLEAN
  <2>1. 0 \in 0 .. MaxId
    BY PosType
  <2>2. lock \in [Slots -> Services \cup {None}] /\ owner \in [Ids -> Services \cup {None}]
        /\ heard \in [Ids -> SUBSET Notices] /\ DOMAIN wire = Ids
    BY DEF Init
  <2>3. check \in BOOLEAN /\ ready \in SUBSET Reports /\ failed \in Failures /\ stale \in BOOLEAN
    BY DEF Init, Failures
  <2>4. pipe \in Seq(Commands) /\ target \in Seq(Ids)
    BY DEF Init
  <2> QED
    BY <2>1, <2>2, <2>3, <2>4 DEF Init
<1>3. call \in [Services -> Calls] /\ \A c \in Services : call[c].pc = "idle"
  BY DEF Init, Calls, Steps
<1>4. at = "loop" /\ at \in Places /\ op \in Ops
  BY DEF Init, Places, Ops, SlotIds, At
<1>5. Types
  BY <1>1, <1>2, <1>3, <1>4 DEF Types, SlotTypes, CallTypes, PollTypes, InHand, SendSteps
<1> QED
  BY <1>1, <1>3, <1>4, <1>5 DEF SlotsInv, Ided, IsOpen, Locked, Tagged

LEMMA SlotsSound == Spec => []SlotsInv
<1>1. Init => SlotsInv
  BY SlotsInit
<1>2. SlotsInv /\ [Next]_vars => SlotsInv'
  BY SlotsNext
<1> QED
  BY <1>1, <1>2, PTL DEF Spec

(***************************************************************************)
(* The slots, the pipe, the calls and the polling thread have their types. *)
(***************************************************************************)
THEOREM SocketIsTyped == Spec => []TypeOK
<1>1. SlotsInv => TypeOK
  <2>1. SlotsInv => \A j \in DOMAIN pipe : pipe[j] \in Commands
    BY LenProperties DEF SlotsInv, Types, CallTypes
  <2>2. \A d \in Commands : d.cmd \in {"L", "S", "D", "K", "H"} /\ d.id \in Ids
    BY DEF Commands
  <2>3. SlotsInv => \A c \in Services : call[c].pc \in Steps /\ call[c].id \in Ids \cup {None}
    BY DEF SlotsInv, Types, CallTypes, Calls
  <2> QED
    BY <2>1, <2>2, <2>3 DEF SlotsInv, Types, SlotTypes, PollTypes, TypeOK, Failures
<1> QED
  BY <1>1, SlotsSound, PTL

(***************************************************************************)
(* ClosedIsSilent: whatever a service has tested, it writes to a slot only *)
(* with its lock, and under the lock it has seen the slot connected; the   *)
(* close waits for the lock, and the polling thread writes to the slot it  *)
(* has in hand, which it has not closed.                                   *)
(***************************************************************************)
THEOREM WritesAreToTheLiving == Spec => ClosedIsSilent
<1> DEFINE A == \A i \in Ids : wire'[i] # wire[i] => Live(i)
<1>1. SlotsInv /\ [Next]_vars => A
  <2> SUFFICES ASSUME SlotsInv, [Next]_vars, NEW i \in Ids, wire'[i] # wire[i]
               PROVE  Live(i)
    OBVIOUS
  <2> USE DEF SlotsInv
  <2>1. DOMAIN wire = Ids
    BY DEF Types, CallTypes
  <2>2. ASSUME NEW c \in Services, DirectWrite(c)
        PROVE  Live(i)
    BY <2>1, <2>2, DirectWriteStep DEF Live, Locked
  <2>3. CASE CloseFlush
    BY <2>1, <2>3, CloseFlushStep DEF Live, Wires, Locked
  <2>4. ASSUME NEW e \in ready, Write(e)
        PROVE  Live(i)
    BY <2>1, <2>4, WriteStep DEF Live, Wires, Busy
  <2>5. \A c \in Services :
          /\ Service(c) => wire' = wire
          /\ InCall(c) /\ ~DirectWrite(c) => wire' = wire
    BY DEF Service, Listen, Send, Request, InCall, ListenPost, Probe, Try, Verify, Inc, Post
  <2>6. Command \/ Wait => wire' = wire
    BY DEF Command, ListenSocket, StartSocket, SendSocket, CloseSocket, Wait
  <2>7. Inside /\ ~CloseFlush => wire' = wire
    BY DEF Inside, Close, Dec, CloseAsk, Accepted, Drained
  <2>8. \A e \in ready : Handle(e) /\ ~Write(e) => wire' = wire
    BY DEF Handle, Accept, Receive
  <2>9. UNCHANGED vars => wire' = wire
    BY DEF vars
  <2> QED
    BY <2>2, <2>3, <2>4, <2>5, <2>6, <2>7, <2>8, <2>9 DEF Next
<1>2. SlotsInv /\ [Next]_vars => [A]_vars
  BY <1>1
<1>3. Spec => [][A]_vars
  <2> HIDE DEF A
  <2> QED
    BY <1>2, SlotsSound, PTL DEF Spec
<1> QED
  BY <1>3 DEF ClosedIsSilent

(***************************************************************************)
(* The pipe: a command more at its end, or one less at its head.           *)
(***************************************************************************)
PipeOnly == \A j \in DOMAIN pipe' : \E k \in DOMAIN pipe : pipe'[j] = pipe[k]
Heeds == \A i \in Ids : heard[i] \subseteq heard'[i]

LEMMA PipeIds ==
  ASSUME Types
  PROVE  \A j \in DOMAIN pipe : pipe[j].id \in Ids
<1>1. \A d \in Commands : d.id \in Ids
  BY DEF Commands
<1>2. \A j \in DOMAIN pipe : pipe[j] \in Commands
  BY LenProperties DEF Types, CallTypes
<1> QED
  BY <1>1, <1>2

LEMMA Taker ==
  ASSUME NEW x, NEW i, Taking(x, i)
  PROVE  /\ PipeOnly
         /\ \A n \in Ids : Listening(n)' => Listening(n)
         /\ InOrder => ~Listening(i)'
<1>1. PipeOnly
  BY DEF Taking, PipeOnly
<1>2. \A n \in Ids : Listening(n)' => Listening(n)
  BY DEF Taking, Listening
<1>3. ASSUME InOrder, Listening(i)'
      PROVE  FALSE
  <2>1. PICK j \in DOMAIN pipe' : pipe'[j].cmd = "L" /\ pipe'[j].id = i
    BY <1>3 DEF Listening
  <2>2. j + 1 \in DOMAIN pipe /\ 1 \in DOMAIN pipe /\ 1 < j + 1
        /\ pipe[j + 1].cmd = "L" /\ pipe[j + 1].id = i /\ pipe[1].id = i
    BY <2>1 DEF Taking
  <2> QED
    BY <1>3, <2>2 DEF InOrder
<1> QED
  BY <1>1, <1>2, <1>3

LEMMA InOrderPosted ==
  ASSUME InOrder, Types, NEW d, Posting(d),
         \A i \in Ids : owner[i] # None => owner'[i] # None,
         owner'[d.id] # None, d.cmd = "L" => owner[d.id] = None
  PROVE  InOrder'
<1>1. \A j \in DOMAIN pipe : pipe[j].id \in Ids /\ j < Len(pipe) + 1 /\ j \in Nat
  BY PipeIds DEF Posting
<1>2. ASSUME NEW j \in DOMAIN pipe'
      PROVE  owner'[pipe'[j].id] # None
  BY <1>1 DEF Posting, InOrder
<1>3. ASSUME NEW j \in DOMAIN pipe', NEW k \in DOMAIN pipe', j < k, pipe'[k].cmd = "L"
      PROVE  pipe'[j].id # pipe'[k].id
  <2>1. CASE k \in DOMAIN pipe
    <3>1. j \in DOMAIN pipe
      BY <1>1, <1>3, <2>1 DEF Posting
    <3> QED
      BY <1>3, <2>1, <3>1 DEF Posting, InOrder
  <2>2. CASE k = Len(pipe) + 1
    <3>1. j \in DOMAIN pipe /\ pipe'[k] = d
      BY <1>1, <1>3, <2>2 DEF Posting
    <3> QED
      BY <1>3, <3>1 DEF Posting, InOrder
  <2> QED
    BY <2>1, <2>2 DEF Posting
<1> QED
  BY <1>2, <1>3 DEF InOrder

LEMMA OpeningPosted ==
  ASSUME Opening, Types, NEW d, Posting(d), UNCHANGED <<heard, at, op>>,
         \A c \in Services : call'[c].pc \in SendSteps => call'[c] = call[c],
         d.cmd = "L" => "open" \notin heard[d.id],
         d.cmd = "D" => "open" \in heard[d.id]
  PROVE  Opening'
<1>1. \A j \in DOMAIN pipe' : pipe'[j] = d \/ (j \in DOMAIN pipe /\ pipe'[j] = pipe[j])
  BY DEF Posting
<1>2. \A i \in Ids : Listening(i)' => Listening(i) \/ (d.cmd = "L" /\ d.id = i)
  BY <1>1 DEF Listening
<1>3. \A j \in DOMAIN pipe' : pipe'[j].cmd = "D" => "open" \in heard'[pipe'[j].id]
  BY <1>1 DEF Opening
<1> QED
  BY <1>2, <1>3 DEF Opening

LEMMA OpeningStays ==
  ASSUME Opening, Types, PipeOnly, Heeds, call' = call, at' # "dec",
         \A i \in Ids : "open" \in heard'[i] => "open" \in heard[i] \/ ~Listening(i)'
  PROVE  Opening'
<1>1. \A i \in Ids : Listening(i)' => Listening(i)
  BY DEF PipeOnly, Listening
<1>2. \A c \in Services : call[c].pc \in SendSteps => call[c].id \in Ids
  BY DEF Types, InHand, SendSteps
<1>3. \A j \in DOMAIN pipe' : pipe'[j].cmd = "D" => "open" \in heard'[pipe'[j].id]
  BY PipeIds DEF Opening, PipeOnly, Heeds
<1> QED
  BY <1>1, <1>2, <1>3 DEF Opening, Heeds

LEMMA ToldHeeds ==
  \A i, kind : Told(i, kind) =>
    Heeds /\ (kind # "open" => \A n \in Ids : "open" \in heard'[n] => "open" \in heard[n])
BY DEF Told, Heeds

LEMMA OnceNext ==
  ASSUME OnceInv, [Next]_vars
  PROVE  OnceInv'
<1> USE DEF OnceInv, SlotsInv
<1>0. SlotsInv'
  BY SlotsNext
<1>1. ASSUME NEW c \in Services, Listen(c)
      PROVE  Owned' /\ Silent' /\ Once' /\ InOrder' /\ Opening'
  <2>1. PICK i \in Ids :
          /\ alloc < i /\ alloc' = i /\ sock[Pos(i)].status = "invalid" /\ Pos(i) \in Slots
          /\ Reserving(Pos(i)) /\ Going(c, "reserved", i) /\ Types'
          /\ Elsewhere /\ UNCHANGED <<pipe, owner>>
    BY <1>1, ListenStep, PosType
  <2>2. alloc \in Nat /\ i \in Nat /\ owner[i] = None /\ \A n \in Ids : n \in Nat
    BY <2>1, PosType DEF Types, SlotTypes, Owned
  <2>3. Owned'
    <3>1. \A n \in Ids : owner'[n] # None => n <= alloc'
      BY <2>1, <2>2 DEF Owned
    <3>2. \A s \in Slots : sock'[s].id = sock[s].id /\ (IsOpen(s)' => IsOpen(s))
      BY <2>1 DEF Reserving, Others, Alike, IsOpen
    <3> QED
      BY <2>1, <3>1, <3>2, Hands DEF Owned, Elsewhere, pollVars
  <2>4. Silent'
    BY <2>1 DEF Silent, Elsewhere
  <2>5. Once'
    <3>1. \A d \in Services : d # c => call'[d] = call[d]
      BY <2>1 DEF Going
    <3>2. \A d \in Services : call[d].pc = "reserved" => call[d].id \in Nat /\ call[d].id < i
      <4>1. \A d \in Services : call[d].pc = "reserved" => call[d].id \in Ids /\ call[d].id <= alloc
        BY Hands DEF Once
      <4>2. \A n \in Ids : n <= alloc => n < i
        <5>1. alloc < i
          BY <2>1
        <5> QED
          BY <2>2, <5>1
      <4> QED
        BY <2>2, <4>1, <4>2
    <3>3. at = "accept" => op.id \in Nat /\ op.id < i
      <4>1. at = "accept" => op.id \in Ids /\ op.id <= alloc
        BY Hands DEF Once
      <4>2. \A n \in Ids : n <= alloc => n < i
        <5>1. alloc < i
          BY <2>1
        <5> QED
          BY <2>2, <5>1
      <4> QED
        BY <2>2, <4>1, <4>2
    <3> QED
      BY <2>1, <2>2, <3>1, <3>2, <3>3 DEF Once, Going, Elsewhere, pollVars
  <2>6. InOrder' /\ Opening'
    <3>1. \A d \in Services : call'[d].pc \in SendSteps => call'[d] = call[d]
      BY <2>1 DEF Going, SendSteps
    <3> QED
      BY <2>1, <3>1 DEF InOrder, Opening, Listening, Elsewhere, pollVars
  <2> QED
    BY <2>3, <2>4, <2>5, <2>6
<1>2. ASSUME NEW c \in Services, ListenPost(c)
      PROVE  Owned' /\ Silent' /\ Once' /\ InOrder' /\ Opening'
  <2>1. PICK i, d :
          /\ call[c].pc = "reserved" /\ call[c].id = i /\ i \in Ids /\ Pos(i) \in Slots
          /\ d.cmd = "L" /\ d.id = i
          /\ Naming(Pos(i), i) /\ Owning(i, c) /\ Posting(d) /\ Going(c, "idle", None)
          /\ Elsewhere /\ alloc' = alloc
    BY <1>2, ListenPostStep, Hands
  <2>2. c # None /\ owner[i] = None /\ i <= alloc
    BY <2>1, PosType DEF Once
  <2>3. \A n \in Ids : owner'[n] # None <=> owner[n] # None \/ n = i
    BY <2>1, <2>2 DEF Owning
  <2>4. Owned'
    <3>1. \A s \in Slots : (IsOpen(s)' <=> IsOpen(s)) /\ (sock'[s].id = sock[s].id \/ sock'[s].id = i)
      BY <2>1 DEF Naming, Others, Stands, IsOpen
    <3> QED
      BY <2>1, <2>2, <2>3, <3>1, Hands DEF Owned, Ided, IsOpen, Elsewhere, pollVars
  <2>5. Silent'
    BY <2>1, <2>3 DEF Silent, Elsewhere
  <2>6. Once'
    <3>1. \A e \in Services : call'[e].pc = "reserved" => e # c /\ call'[e] = call[e]
      BY <2>1 DEF Going
    <3>2. \A e \in Services : call'[e].pc = "reserved" => call[e].id # i /\ call[e].id \in Ids
      BY <2>1, <3>1, Hands DEF Once
    <3>3. at = "accept" => op.id # i /\ op.id \in Ids
      BY <2>1, Hands DEF Once
    <3> QED
      BY <2>1, <2>3, <3>1, <3>2, <3>3 DEF Once, Elsewhere, pollVars
  <2>7. InOrder'
    BY <2>1, <2>2, <2>3, InOrderPosted
  <2>8. Opening'
    <3>1. \A e \in Services : call'[e].pc \in SendSteps => call'[e] = call[e]
      BY <2>1 DEF Going, SendSteps
    <3>2. "open" \notin heard[i]
      BY <2>1, <2>2 DEF Silent
    <3> QED
      BY <2>1, <3>1, <3>2, OpeningPosted DEF Elsewhere, pollVars
  <2> QED
    BY <2>4, <2>5, <2>6, <2>7, <2>8
<1>3. ASSUME NEW c \in Services, NEW x \in {"S", "K", "H"}, NEW i \in Ids, Request(c, x, i)
      PROVE  Owned' /\ Silent' /\ Once' /\ InOrder' /\ Opening'
  <2>1. PICK d :
          /\ d.cmd = x /\ d.cmd \notin {"L", "D"} /\ d.id = i /\ call' = call
          /\ owner[d.id] # None
          /\ Posting(d)
          /\ Elsewhere /\ UNCHANGED <<sock, alloc, owner>>
    <3>1. owner[i] = c /\ c # None
      BY <1>3, RequestStep, PosType
    <3>2. LET d == [cmd |-> x, id |-> i] IN
            /\ d.cmd = x /\ d.cmd \notin {"L", "D"} /\ d.id = i /\ call' = call /\ Posting(d)
            /\ Elsewhere /\ UNCHANGED <<sock, alloc, owner>>
      BY <1>3, RequestStep
    <3> QED
      BY <3>1, <3>2
  <2>2. \A e \in Services : call'[e] = call[e] \/ call'[e].pc = "idle"
    BY <2>1 DEF Going
  <2>3. Owned' /\ Silent'
    BY <2>1 DEF Owned, IsOpen, Silent, Elsewhere, pollVars
  <2>4. Once'
    BY <2>1, <2>2 DEF Once, Elsewhere, pollVars
  <2>5. InOrder'
    BY <2>1, InOrderPosted
  <2>6. Opening'
    <3>1. \A e \in Services : call'[e].pc \in SendSteps => call'[e] = call[e]
      BY <2>2 DEF SendSteps
    <3> QED
      BY <2>1, <3>1, OpeningPosted DEF Elsewhere, pollVars
  <2> QED
    BY <2>3, <2>4, <2>5, <2>6
<1>4. ASSUME NEW c \in Services, NEW i \in Ids, Send(c, i)
      PROVE  Owned' /\ Silent' /\ Once' /\ InOrder' /\ Opening'
  <2>1. Owned'
    BY <1>4, SendStep, PosType, Hands DEF Owned, IsOpen, Once, InOrder, Ided, Locked, Missing, Notices, Others, Alike, Stands, Going, Elsewhere, pollVars
  <2>2. Silent'
    BY <1>4, SendStep, PosType, Hands DEF Silent, IsOpen, Owned, InOrder, Ided, Locked, Others, Alike, Stands, Going, Elsewhere, pollVars
  <2>3. Once'
    <3>1. /\ call' = call \/ Going(c, "probe", i)
          /\ Elsewhere /\ UNCHANGED <<sock, lock, alloc, pipe, owner, stale>>
      BY <1>4, SendStep
    <3> QED
      BY <3>1, PosType, Hands DEF Once, Going, Elsewhere, pollVars
  <2>4. InOrder'
    BY <1>4, SendStep, PosType, Hands DEF InOrder, Once, Owned, Others, Alike, Stands, Going, Elsewhere, pollVars
  <2>5. Opening'
    BY <1>4, SendStep, PosType, Hands DEF Opening, Listening, Silent, Once, InOrder, SendSteps, Others, Alike, Stands, Going, Elsewhere, pollVars
  <2> QED
    BY <2>1, <2>2, <2>3, <2>4, <2>5
<1>5. ASSUME NEW c \in Services, Probe(c) \/ Try(c) \/ Verify(c)
      PROVE  Owned' /\ Silent' /\ Once' /\ InOrder' /\ Opening'
  <2>1. Owned'
    BY <1>5, ProbeStep, PosType, Hands DEF Owned, IsOpen, Once, InOrder, Ided, Locked, Missing, Notices, Others, Alike, Stands, Going, Takes, Leaves, Holding, Elsewhere, pollVars
  <2>2. Silent'
    BY <1>5, ProbeStep, PosType, Hands DEF Silent, IsOpen, Owned, InOrder, Ided, Locked, Others, Alike, Stands, Going, Takes, Leaves, Holding, Elsewhere, pollVars
  <2>3. Once'
    BY <1>5, ProbeStep, PosType, Hands DEF Once, Owned, InOrder, Ided, Others, Alike, Stands, Going, Takes, Leaves, Holding, Elsewhere, pollVars
  <2>4. InOrder'
    BY <1>5, ProbeStep, PosType, Hands DEF InOrder, Once, Owned, Others, Alike, Stands, Going, Takes, Leaves, Holding, Elsewhere, pollVars
  <2>5. Opening'
    BY <1>5, ProbeStep, PosType, Hands DEF Opening, Listening, Silent, Once, InOrder, SendSteps, Others, Alike, Stands, Going, Takes, Leaves, Holding, Elsewhere, pollVars
  <2> QED
    BY <2>1, <2>2, <2>3, <2>4, <2>5
<1>6. ASSUME NEW c \in Services, DirectWrite(c)
      PROVE  Owned' /\ Silent' /\ Once' /\ InOrder' /\ Opening'
  <2>1. /\ Tending(Pos(call[c].id)) /\ Going(c, "idle", None)
        /\ UNCHANGED <<pollVars, heard, alloc, pipe, owner>>
    BY <1>6, DirectWriteStep
  <2>2. \A e \in Services : call'[e] = call[e] \/ call'[e].pc = "idle"
    BY <2>1 DEF Going
  <2>3. \A s \in Slots : sock'[s].id = sock[s].id /\ (IsOpen(s)' <=> IsOpen(s))
    BY <2>1 DEF Tending, Others, Alike, Stands, IsOpen
  <2>4. Owned'
    BY <2>1, <2>3, Hands DEF Owned, pollVars
  <2>5. Silent' /\ InOrder'
    BY <2>1 DEF Silent, InOrder
  <2>6. Once'
    BY <2>1, <2>2 DEF Once, pollVars
  <2>7. Opening'
    <3>1. \A e \in Services : call'[e].pc \in SendSteps => call'[e] = call[e]
      BY <2>2 DEF SendSteps
    <3> QED
      BY <2>1, <3>1 DEF Opening, Listening, pollVars
  <2> QED
    BY <2>4, <2>5, <2>6, <2>7
<1>7. ASSUME NEW c \in Services, Inc(c)
      PROVE  Owned' /\ Silent' /\ Once' /\ InOrder' /\ Opening'
  <2>1. Owned'
    BY <1>7, IncStep, PosType, Hands DEF Owned, IsOpen, Once, InOrder, Ided, Locked, Missing, Notices, Others, Alike, Stands, Counting, Whole, Going, Elsewhere, pollVars
  <2>2. Silent'
    BY <1>7, IncStep, PosType, Hands DEF Silent, IsOpen, Owned, InOrder, Ided, Locked, Others, Alike, Stands, Counting, Whole, Going, Elsewhere, pollVars
  <2>3. Once'
    BY <1>7, IncStep, PosType, Hands DEF Once, Owned, InOrder, Ided, Others, Alike, Stands, Counting, Whole, Going, Elsewhere, pollVars
  <2>4. InOrder'
    BY <1>7, IncStep, PosType, Hands DEF InOrder, Once, Owned, Others, Alike, Stands, Counting, Whole, Going, Elsewhere, pollVars
  <2>5. Opening'
    BY <1>7, IncStep, PosType, Hands DEF Opening, Listening, Silent, Once, InOrder, SendSteps, Others, Alike, Stands, Counting, Whole, Going, Elsewhere, pollVars
  <2> QED
    BY <2>1, <2>2, <2>3, <2>4, <2>5
<1>8. ASSUME NEW c \in Services, Post(c)
      PROVE  Owned' /\ Silent' /\ Once' /\ InOrder' /\ Opening'
  <2>1. PICK d :
          /\ d.cmd = "D" /\ "open" \in heard[d.id] /\ Going(c, "idle", None)
          /\ owner[d.id] # None
          /\ Posting(d)
          /\ Elsewhere /\ UNCHANGED <<sock, alloc, owner>>
    <3>1. call[c].id \in Ids /\ "open" \in heard[call[c].id]
      BY <1>8, PostStep DEF Opening, SendSteps
    <3>2. owner[call[c].id] # None
      BY <3>1 DEF Silent
    <3>3. LET d == [cmd |-> "D", id |-> call[c].id, msg |-> Message(c)] IN
            /\ d.cmd = "D" /\ d.id = call[c].id /\ Posting(d) /\ Going(c, "idle", None)
            /\ Elsewhere /\ UNCHANGED <<sock, alloc, owner>>
      BY <1>8, PostStep
    <3> QED
      BY <3>1, <3>2, <3>3
  <2>2. \A e \in Services : call'[e] = call[e] \/ call'[e].pc = "idle"
    BY <2>1 DEF Going
  <2>3. Owned' /\ Silent'
    BY <2>1 DEF Owned, IsOpen, Silent, Elsewhere, pollVars
  <2>4. Once'
    BY <2>1, <2>2 DEF Once, Elsewhere, pollVars
  <2>5. InOrder'
    BY <2>1, InOrderPosted
  <2>6. Opening'
    <3>1. \A e \in Services : call'[e].pc \in SendSteps => call'[e] = call[e]
      BY <2>2 DEF SendSteps
    <3> QED
      BY <2>1, <3>1, OpeningPosted DEF Elsewhere, pollVars
  <2> QED
    BY <2>3, <2>4, <2>5, <2>6
<1>9. ASSUME ListenSocket
      PROVE  Owned' /\ Silent' /\ Once' /\ InOrder' /\ Opening'
  <2>1. Owned'
    BY <1>9, ListenSocketStep, PosType, Hands DEF Owned, IsOpen, Once, InOrder, Ided, Locked, Missing, Notices, Others, Alike, Stands, Making, Apart, Taking
  <2>2. Silent'
    BY <1>9, ListenSocketStep, PosType, Hands DEF Silent, IsOpen, Owned, InOrder, Ided, Locked, Others, Alike, Stands, Making, Apart, Taking
  <2>3. Once'
    BY <1>9, ListenSocketStep, PosType, Hands DEF Once, Owned, InOrder, Ided, Others, Alike, Stands, Making, Apart, Taking
  <2>4. InOrder'
    BY <1>9, ListenSocketStep, PosType, Hands DEF InOrder, Once, Owned, Others, Alike, Stands, Making, Apart, Taking
  <2>5. Opening'
    BY <1>9, ListenSocketStep, PosType, Hands DEF Opening, Listening, Silent, Once, InOrder, SendSteps, Others, Alike, Stands, Making, Apart, Taking
  <2> QED
    BY <2>1, <2>2, <2>3, <2>4, <2>5
<1>10. ASSUME StartSocket
      PROVE  Owned' /\ Silent' /\ Once' /\ InOrder' /\ Opening'
  <2>1. Owned'
    BY <1>10, StartSocketStep, PosType, Hands DEF Owned, IsOpen, Once, InOrder, Ided, Locked, Missing, Notices, Others, Alike, Stands, Starting, Ends, Ending, Back, Apart, Taking, Told
  <2>2. Silent'
    BY <1>10, StartSocketStep, PosType, Hands DEF Silent, IsOpen, Owned, InOrder, Ided, Locked, Others, Alike, Stands, Starting, Ends, Ending, Back, Apart, Taking, Told
  <2>3. Once'
    BY <1>10, StartSocketStep, PosType, Hands DEF Once, Owned, InOrder, Ided, Others, Alike, Stands, Starting, Ends, Ending, Back, Apart, Taking, Told
  <2>4. InOrder'
    BY <1>10, StartSocketStep, PosType, Hands DEF InOrder, Once, Owned, Others, Alike, Stands, Starting, Ends, Ending, Back, Apart, Taking, Told
  <2>5. Opening'
    <3>1. PICK i \in Ids :
            /\ Taking("S", i)
            /\ heard' = heard \/ Told(i, "open") \/ Told(i, "end")
            /\ call' = call /\ at' # "dec"
      BY <1>10, StartSocketStep DEF Apart, Ends, Back, Taking
    <3>2. PipeOnly /\ ~Listening(i)'
      BY <3>1, Taker
    <3>3. Heeds /\ \A n \in Ids : "open" \in heard'[n] => "open" \in heard[n] \/ n = i
      BY <3>1 DEF Told, Heeds
    <3> QED
      BY <3>1, <3>2, <3>3, OpeningStays
  <2> QED
    BY <2>1, <2>2, <2>3, <2>4, <2>5
<1>11. ASSUME SendSocket
      PROVE  Owned' /\ Silent' /\ Once' /\ InOrder' /\ Opening'
  <2>1. Owned'
    BY <1>11, SendSocketStep, PosType, Hands DEF Owned, IsOpen, Once, InOrder, Ided, Locked, Missing, Notices, Others, Alike, Stands, Tending, Apart, Taking
  <2>2. Silent'
    BY <1>11, SendSocketStep, PosType, Hands DEF Silent, IsOpen, Owned, InOrder, Ided, Locked, Others, Alike, Stands, Tending, Apart, Taking
  <2>3. Once'
    BY <1>11, SendSocketStep, PosType, Hands DEF Once, Owned, InOrder, Ided, Others, Alike, Stands, Tending, Apart, Taking
  <2>4. InOrder'
    BY <1>11, SendSocketStep, PosType, Hands DEF InOrder, Once, Owned, Others, Alike, Stands, Tending, Apart, Taking
  <2>5. Opening'
    BY <1>11, SendSocketStep, PosType, Hands DEF Opening, Listening, Silent, Once, InOrder, SendSteps, Others, Alike, Stands, Tending, Apart, Taking
  <2> QED
    BY <2>1, <2>2, <2>3, <2>4, <2>5
<1>12. ASSUME NEW x \in {"K", "H"}, CloseSocket(x)
      PROVE  Owned' /\ Silent' /\ Once' /\ InOrder' /\ Opening'
  <2>1. Owned'
    BY <1>12, CloseSocketStep, PosType, Hands DEF Owned, IsOpen, Once, InOrder, Ided, Locked, Missing, Notices, Others, Alike, Stands, Back, Apart, Taking, Told
  <2>2. Silent'
    BY <1>12, CloseSocketStep, PosType, Hands DEF Silent, IsOpen, Owned, InOrder, Ided, Locked, Others, Alike, Stands, Missing, Back, Apart, Taking, Told
  <2>3. Once'
    BY <1>12, CloseSocketStep, PosType, Hands DEF Once, Owned, InOrder, Ided, Others, Alike, Stands, Missing, Back, Apart, Taking, Told
  <2>4. InOrder'
    BY <1>12, CloseSocketStep, PosType, Hands DEF InOrder, Once, Owned, Others, Alike, Stands, Missing, Back, Apart, Taking, Told
  <2>5. Opening'
    <3>1. call' = call /\ at' # "dec" /\ Types
      BY <1>12, CloseSocketStep DEF Apart, Back
    <3>2. PipeOnly
      BY <1>12, CloseSocketStep, Taker DEF PipeOnly
    <3>3. Heeds /\ \A i \in Ids : "open" \in heard'[i] => "open" \in heard[i]
      BY <1>12, CloseSocketStep, ToldHeeds DEF Heeds, Back
    <3> QED
      BY <3>1, <3>2, <3>3, OpeningStays
  <2> QED
    BY <2>1, <2>2, <2>3, <2>4, <2>5
<1>13. ASSUME Close
      PROVE  Owned' /\ Silent' /\ Once' /\ InOrder' /\ Opening'
  <2>1. Owned'
    BY <1>13, CloseStep, PosType, Hands DEF Owned, IsOpen, Once, InOrder, Ided, Locked, Missing, Notices, Others, Alike, Stands, Shutting, Back, Apart, Told
  <2>2. Silent'
    BY <1>13, CloseStep, PosType, Hands DEF Silent, IsOpen, Owned, InOrder, Ided, Locked, Others, Alike, Stands, Shutting, Back, Apart, Told
  <2>3. Once'
    BY <1>13, CloseStep, PosType, Hands DEF Once, Owned, InOrder, Ided, Others, Alike, Stands, Shutting, Back, Apart, Told
  <2>4. InOrder'
    BY <1>13, CloseStep, PosType, Hands DEF InOrder, Once, Owned, Others, Alike, Stands, Shutting, Back, Apart, Told
  <2>5. Opening'
    <3>1. call' = call /\ at' # "dec" /\ Types
      BY <1>13, CloseStep DEF Apart, Back
    <3>2. PipeOnly
      BY <1>13, CloseStep, Taker DEF PipeOnly
    <3>3. Heeds /\ \A i \in Ids : "open" \in heard'[i] => "open" \in heard[i]
      BY <1>13, CloseStep, ToldHeeds DEF Heeds, Back
    <3> QED
      BY <3>1, <3>2, <3>3, OpeningStays
  <2> QED
    BY <2>1, <2>2, <2>3, <2>4, <2>5
<1>14. ASSUME Dec
      PROVE  Owned' /\ Silent' /\ Once' /\ InOrder' /\ Opening'
  <2>1. Owned'
    BY <1>14, DecStep, PosType, Hands DEF Owned, IsOpen, Once, InOrder, Ided, Locked, Missing, Notices, Others, Alike, Stands, Counting, Whole, Apart
  <2>2. Silent'
    BY <1>14, DecStep, PosType, Hands DEF Silent, IsOpen, Owned, InOrder, Ided, Locked, Others, Alike, Stands, Counting, Whole, Apart
  <2>3. Once'
    BY <1>14, DecStep, PosType, Hands DEF Once, Owned, InOrder, Ided, Others, Alike, Stands, Counting, Whole, Apart
  <2>4. InOrder'
    BY <1>14, DecStep, PosType, Hands DEF InOrder, Once, Owned, Others, Alike, Stands, Counting, Whole, Apart
  <2>5. Opening'
    BY <1>14, DecStep, PosType, Hands DEF Opening, Listening, Silent, Once, InOrder, SendSteps, Others, Alike, Stands, Counting, Whole, Apart
  <2> QED
    BY <2>1, <2>2, <2>3, <2>4, <2>5
<1>15. ASSUME CloseFlush
      PROVE  Owned' /\ Silent' /\ Once' /\ InOrder' /\ Opening'
  <2>1. Owned'
    BY <1>15, CloseFlushStep, PosType, Hands DEF Owned, IsOpen, Once, InOrder, Ided, Locked, Missing, Notices, Others, Alike, Stands, Tending, ShutsSlot, Shutting, Fails, Back, Apart, Told
  <2>2. Silent'
    BY <1>15, CloseFlushStep, PosType, Hands DEF Silent, IsOpen, Owned, InOrder, Ided, Locked, Others, Alike, Stands, Tending, ShutsSlot, Shutting, Fails, Back, Apart, Told
  <2>3. Once'
    BY <1>15, CloseFlushStep, PosType, Hands DEF Once, Owned, InOrder, Ided, Others, Alike, Stands, Tending, ShutsSlot, Shutting, Fails, Back, Apart, Told
  <2>4. InOrder'
    BY <1>15, CloseFlushStep, PosType, Hands DEF InOrder, Once, Owned, Others, Alike, Stands, Tending, ShutsSlot, Shutting, Fails, Back, Apart, Told
  <2>5. Opening'
    <3>1. call' = call /\ at' # "dec" /\ Types
      BY <1>15, CloseFlushStep DEF Apart, Back, ShutsSlot, Fails
    <3>2. PipeOnly
      BY <1>15, CloseFlushStep, Taker DEF PipeOnly
    <3>3. Heeds /\ \A i \in Ids : "open" \in heard'[i] => "open" \in heard[i]
      BY <1>15, CloseFlushStep, ToldHeeds DEF Heeds, Back, ShutsSlot, Fails
    <3> QED
      BY <3>1, <3>2, <3>3, OpeningStays
  <2> QED
    BY <2>1, <2>2, <2>3, <2>4, <2>5
<1>16. ASSUME CloseAsk
      PROVE  Owned' /\ Silent' /\ Once' /\ InOrder' /\ Opening'
  <2>1. Owned'
    BY <1>16, CloseAskStep, PosType, Hands DEF Owned, IsOpen, Once, InOrder, Ided, Locked, Missing, Notices, Others, Alike, Stands, Ends, Ending, ClosesNot, Halving, Apart
  <2>2. Silent'
    BY <1>16, CloseAskStep, PosType, Hands DEF Silent, IsOpen, Owned, InOrder, Ided, Locked, Others, Alike, Stands, Ends, Ending, ClosesNot, Halving, Apart
  <2>3. Once'
    BY <1>16, CloseAskStep, PosType, Hands DEF Once, Owned, InOrder, Ided, Others, Alike, Stands, Ends, Ending, ClosesNot, Halving, Apart
  <2>4. InOrder'
    BY <1>16, CloseAskStep, PosType, Hands DEF InOrder, Once, Owned, Others, Alike, Stands, Ends, Ending, ClosesNot, Halving, Apart
  <2>5. Opening'
    BY <1>16, CloseAskStep, PosType, Hands DEF Opening, Listening, Silent, Once, InOrder, SendSteps, Others, Alike, Stands, Ends, Ending, ClosesNot, Halving, Apart
  <2> QED
    BY <2>1, <2>2, <2>3, <2>4, <2>5
<1>17. ASSUME Accepted
      PROVE  Owned' /\ Silent' /\ Once' /\ InOrder' /\ Opening'
  <2>1. PICK i, o :
          /\ at = "accept" /\ op.id = i /\ i \in Ids /\ Pos(i) \in Slots
          /\ o = owner[sock[op.slot].id] /\ o # None /\ i <= alloc /\ owner[i] = None
          /\ Making(i, "paccept") /\ Owning(i, o) /\ Back
          /\ Apart /\ UNCHANGED <<alloc, pipe, heard>>
    BY <1>17, AcceptedStep, Hands DEF Owned, Ided, Once
  <2>2. \A n \in Ids : owner'[n] # None <=> owner[n] # None \/ n = i
    BY <2>1 DEF Owning
  <2>3. Owned'
    <3>1. \A s \in Slots : sock'[s] = sock[s] \/ sock'[s].id = i
      BY <2>1 DEF Making, Others
    <3> QED
      BY <2>1, <2>2, <3>1 DEF Owned, Ided, IsOpen, Back
  <2>4. Silent'
    BY <2>1, <2>2 DEF Silent
  <2>5. Once'
    BY <2>1, <2>2, Hands DEF Once, Back, Apart
  <2>6. InOrder'
    BY <2>1, <2>2, PipeIds DEF InOrder
  <2>7. Opening'
    BY <2>1 DEF Opening, Listening, Back, Apart
  <2> QED
    BY <2>3, <2>4, <2>5, <2>6, <2>7
<1>18. ASSUME Drained
      PROVE  Owned' /\ Silent' /\ Once' /\ InOrder' /\ Opening'
  <2>1. Owned'
    BY <1>18, DrainedStep, PosType, Hands DEF Owned, IsOpen, Once, InOrder, Ided, Locked, Missing, Notices, Others, Alike, Stands, Apart
  <2>2. Silent'
    BY <1>18, DrainedStep, PosType, Hands DEF Silent, IsOpen, Owned, InOrder, Ided, Locked, Others, Alike, Stands, Apart
  <2>3. Once'
    BY <1>18, DrainedStep, PosType, Hands DEF Once, Owned, InOrder, Ided, Others, Alike, Stands, Apart
  <2>4. InOrder'
    BY <1>18, DrainedStep, PosType, Hands DEF InOrder, Once, Owned, Others, Alike, Stands, Apart
  <2>5. Opening'
    BY <1>18, DrainedStep, PosType, Hands DEF Opening, Listening, Silent, Once, InOrder, SendSteps, Others, Alike, Stands, Apart
  <2> QED
    BY <2>1, <2>2, <2>3, <2>4, <2>5
<1>19. ASSUME Wait
      PROVE  Owned' /\ Silent' /\ Once' /\ InOrder' /\ Opening'
  <2>1. Owned'
    BY <1>19, WaitStep, PosType, Hands DEF Owned, IsOpen, Once, InOrder, Ided, Locked, Missing, Notices, Others, Alike, Stands, Apart
  <2>2. Silent'
    BY <1>19, WaitStep, PosType, Hands DEF Silent, IsOpen, Owned, InOrder, Ided, Locked, Others, Alike, Stands, Apart
  <2>3. Once'
    BY <1>19, WaitStep, PosType, Hands DEF Once, Owned, InOrder, Ided, Others, Alike, Stands, Apart
  <2>4. InOrder'
    BY <1>19, WaitStep, PosType, Hands DEF InOrder, Once, Owned, Others, Alike, Stands, Apart
  <2>5. Opening'
    BY <1>19, WaitStep, PosType, Hands DEF Opening, Listening, Silent, Once, InOrder, SendSteps, Others, Alike, Stands, Apart
  <2> QED
    BY <2>1, <2>2, <2>3, <2>4, <2>5
<1>20. ASSUME NEW e \in ready, Accept(e)
      PROVE  Owned' /\ Silent' /\ Once' /\ InOrder' /\ Opening'
  <2>1. Owned'
    <3>1. \A s \in Slots : sock'[s].id = sock[s].id /\ (IsOpen(s)' => IsOpen(s))
      BY <1>20, AcceptStep DEF Reserving, Others, Alike, IsOpen
    <3>2. \A n \in Ids : owner[n] # None => n <= alloc'
      <4>1. alloc <= alloc' /\ alloc \in Nat /\ alloc' \in Nat
        BY <1>20, AcceptStep, PosType DEF Types, SlotTypes
      <4> QED
        BY <4>1, PosType DEF Owned
    <3>3. owner' = owner /\ IsOpen(e.slot) /\ e.slot \in Slots
          /\ (at' = "loop" \/ (at' = "accept" /\ op'.slot = e.slot))
      BY <1>20, AcceptStep DEF Apart, IsOpen
    <3> QED
      BY <3>1, <3>2, <3>3 DEF Owned
  <2>2. Silent'
    BY <1>20, AcceptStep, PosType, Hands DEF Silent, IsOpen, Owned, InOrder, Ided, Locked, Others, Alike, Stands, Reserving, Apart, Busy
  <2>3. Once'
    <3>1. /\ alloc <= alloc' /\ alloc \in Nat /\ alloc' \in Nat /\ call' = call /\ owner' = owner
          /\ at' = "loop" \/ (at' = "accept" /\ op'.id \in Ids /\ alloc < op'.id /\ alloc' = op'.id)
      BY <1>20, AcceptStep, PosType DEF Types, SlotTypes, Apart
    <3>2. \A d \in Services : call[d].pc = "reserved" => call[d].id \in Nat /\ call[d].id <= alloc
      BY Hands, PosType DEF Once
    <3>3. \A d \in Services : call[d].pc = "reserved" => call[d].id <= alloc'
      BY <3>1, <3>2
    <3>4. at' = "accept" => op'.id <= alloc' /\ owner[op'.id] = None
      BY <3>1, PosType DEF Owned
    <3>5. \A d \in Services : at' = "accept" /\ call[d].pc = "reserved" => call[d].id # op'.id
      BY <3>1, <3>2, PosType
    <3> QED
      BY <3>1, <3>3, <3>4, <3>5 DEF Once
  <2>4. InOrder'
    BY <1>20, AcceptStep, PosType, Hands DEF InOrder, Once, Owned, Others, Alike, Stands, Reserving, Apart, Busy
  <2>5. Opening'
    BY <1>20, AcceptStep, PosType, Hands DEF Opening, Listening, Silent, Once, InOrder, SendSteps, Others, Alike, Stands, Reserving, Apart, Busy
  <2> QED
    BY <2>1, <2>2, <2>3, <2>4, <2>5
<1>21. ASSUME NEW e \in ready, Receive(e)
      PROVE  Owned' /\ Silent' /\ Once' /\ InOrder' /\ Opening'
  <2>1. Owned'
    BY <1>21, ReceiveStep, PosType, Hands DEF Owned, IsOpen, Once, InOrder, Ided, Locked, Missing, Notices, Others, Alike, Stands, Ends, Ending, ClosesNot, Back, Apart, Busy, Told
  <2>2. Silent'
    <3>1. owner' = owner /\ heard' \in [Ids -> SUBSET Notices]
          /\ (heard' = heard \/ Told(sock[e.slot].id, "data"))
      BY <1>21, ReceiveStep DEF Ends, ClosesNot, Types, CallTypes
    <3>2. ASSUME NEW n \in Ids, heard[n] = {}
          PROVE  heard'[n] = {}
      <4>1. "open" \notin heard'[n] /\ "end" \notin heard'[n] /\ "late" \notin heard'[n]
        BY <3>1, <3>2 DEF Told
      <4> QED
        BY <3>1, <4>1 DEF Notices
    <3> QED
      BY <3>1, <3>2 DEF Silent
  <2>3. Once'
    BY <1>21, ReceiveStep, PosType, Hands DEF Once, Owned, InOrder, Ided, Others, Alike, Stands, Ends, Ending, ClosesNot, Back, Apart, Busy, Told
  <2>4. InOrder'
    BY <1>21, ReceiveStep, PosType, Hands DEF InOrder, Once, Owned, Others, Alike, Stands, Ends, Ending, ClosesNot, Back, Apart, Busy, Told
  <2>5. Opening'
    <3>1. call' = call /\ at' # "dec" /\ Types
      BY <1>21, ReceiveStep DEF Apart, Back, Ends, ClosesNot
    <3>2. PipeOnly
      BY <1>21, ReceiveStep, Taker DEF PipeOnly
    <3>3. Heeds /\ \A i \in Ids : "open" \in heard'[i] => "open" \in heard[i]
      BY <1>21, ReceiveStep, ToldHeeds DEF Heeds, Back, Ends, ClosesNot
    <3> QED
      BY <3>1, <3>2, <3>3, OpeningStays
  <2> QED
    BY <2>1, <2>2, <2>3, <2>4, <2>5
<1>22. ASSUME NEW e \in ready, Write(e)
      PROVE  Owned' /\ Silent' /\ Once' /\ InOrder' /\ Opening'
  <2>1. Owned'
    BY <1>22, WriteStep, PosType, Hands DEF Owned, IsOpen, Once, InOrder, Ided, Locked, Missing, Notices, Others, Alike, Stands, Tending, ShutsSlot, Shutting, Fails, Back, Apart, Busy, Told
  <2>2. Silent'
    BY <1>22, WriteStep, PosType, Hands DEF Silent, IsOpen, Owned, InOrder, Ided, Locked, Others, Alike, Stands, Tending, ShutsSlot, Shutting, Fails, Back, Apart, Busy, Told
  <2>3. Once'
    BY <1>22, WriteStep, PosType, Hands DEF Once, Owned, InOrder, Ided, Others, Alike, Stands, Tending, ShutsSlot, Shutting, Fails, Back, Apart, Busy, Told
  <2>4. InOrder'
    BY <1>22, WriteStep, PosType, Hands DEF InOrder, Once, Owned, Others, Alike, Stands, Tending, ShutsSlot, Shutting, Fails, Back, Apart, Busy, Told
  <2>5. Opening'
    <3>1. call' = call /\ at' # "dec" /\ Types
      BY <1>22, WriteStep DEF Apart, Back, ShutsSlot, Fails
    <3>2. PipeOnly
      BY <1>22, WriteStep, Taker DEF PipeOnly
    <3>3. Heeds /\ \A i \in Ids : "open" \in heard'[i] => "open" \in heard[i]
      BY <1>22, WriteStep, ToldHeeds DEF Heeds, Back, ShutsSlot, Fails
    <3> QED
      BY <3>1, <3>2, <3>3, OpeningStays
  <2> QED
    BY <2>1, <2>2, <2>3, <2>4, <2>5
<1>23. ASSUME UNCHANGED vars
      PROVE  Owned' /\ Silent' /\ Once' /\ InOrder' /\ Opening'
  BY <1>23 DEF vars, slotVars, serviceVars, pollVars, Owned, IsOpen, Silent, Once, InOrder, Opening, Listening
<1> QED
  BY <1>0, <1>1, <1>2, <1>3, <1>4, <1>5, <1>6, <1>7, <1>8, <1>9, <1>10, <1>11, <1>12, <1>13, <1>14, <1>15, <1>16, <1>17, <1>18, <1>19, <1>20, <1>21, <1>22, <1>23 DEF Next, Service, InCall, Command, Inside, Handle

LEMMA OnceInit ==
  ASSUME Init
  PROVE  OnceInv
<1>1. SlotsInv
  BY SlotsInit
<1>2. \A s \in Slots : sock[s].status = "invalid"
  <2> DEFINE k == [Opened(0, "invalid", FALSE) EXCEPT !.id = None, !.tcp = FALSE, !.sck = None]
  <2>1. k.status = "invalid"
    BY DEF Opened
  <2>2. sock = [s \in Slots |-> k]
    BY DEF Init
  <2> HIDE DEF k
  <2> QED
    BY <2>1, <2>2
<1>3. /\ \A c \in Services : call[c].pc = "idle"
      /\ at = "loop" /\ pipe = <<>>
      /\ \A i \in Ids : owner[i] = None /\ heard[i] = {}
  BY DEF Init
<1> QED
  BY <1>1, <1>2, <1>3 DEF OnceInv, Owned, IsOpen, Silent, Once, InOrder, Opening, Listening, SendSteps
-----------------------------------------------------------------------------
(***************************************************************************)
(* The packets on their way to a socket.                                   *)
(***************************************************************************)
Posters(i) == {c \in Services : call[c].pc = "post" /\ call[c].id = i}
Coming(i)  == IF at = "dec" /\ op.id = i THEN 1 ELSE 0

Flight(i) ==
  /\ IsFiniteSet(Packets(i)) /\ Cardinality(Packets(i)) \in Nat
  /\ IsFiniteSet(Posters(i)) /\ Cardinality(Posters(i)) \in Nat
  /\ Coming(i) \in Nat
  /\ InFlight(i) = Cardinality(Packets(i)) + Cardinality(Posters(i)) + Coming(i)
  /\ InFlight(i) \in Nat

LEMMA FlightTypes == Types => \A n : Flight(n)
<1> SUFFICES ASSUME Types, NEW i PROVE Flight(i)
  OBVIOUS
<1>1. IsFiniteSet(Packets(i)) /\ IsFiniteSet(Posters(i))
  <2>1. Len(pipe) \in Nat /\ DOMAIN pipe = 1 .. Len(pipe)
    BY LenProperties DEF Types, CallTypes
  <2>2. IsFiniteSet(DOMAIN pipe) /\ IsFiniteSet(Services)
    BY <2>1, FS_Interval, SocketAssumption
  <2>3. Packets(i) \in SUBSET DOMAIN pipe /\ Posters(i) \in SUBSET Services
    BY DEF Packets, Posters
  <2> QED
    BY <2>2, <2>3, FS_Subset
<1>2. Cardinality(Packets(i)) \in Nat /\ Cardinality(Posters(i)) \in Nat /\ Coming(i) \in Nat
  BY <1>1, FS_CardinalityType DEF Coming
<1>3. InFlight(i) = Cardinality(Packets(i)) + Cardinality(Posters(i)) + Coming(i)
  BY DEF InFlight, Packets, Posters, Coming
<1> QED
  BY <1>1, <1>2, <1>3 DEF Flight

LEMMA FlightTypesNext ==
  ASSUME Types', NEW i
  PROVE  Flight(i)'
<1>1. (Types => \A n : Flight(n))'
  BY FlightTypes, PTL
<1> QED
  BY <1>1

LEMMA PacketPosted ==
  ASSUME Types, NEW d, Posting(d), NEW i
  PROVE  Cardinality(Packets(i)') = Cardinality(Packets(i)) + (IF d.cmd = "D" /\ d.id = i THEN 1 ELSE 0)
<1> DEFINE n == Len(pipe) + 1
<1>1. n \notin DOMAIN pipe
  BY DEF Posting
<1>2. /\ \A j \in DOMAIN pipe : j \in DOMAIN pipe' /\ pipe'[j] = pipe[j]
      /\ \A j \in DOMAIN pipe' : j \in DOMAIN pipe \/ (j = n /\ pipe'[j] = d)
      /\ n \in DOMAIN pipe' /\ pipe'[n] = d
  BY DEF Posting
<1> HIDE DEF n
<1>3. IsFiniteSet(Packets(i)) /\ Cardinality(Packets(i)) \in Nat
  BY FlightTypes DEF Flight
<1>4. CASE d.cmd = "D" /\ d.id = i
  <2>1. Packets(i)' = Packets(i) \cup {n} /\ n \notin Packets(i)
    BY <1>1, <1>2, <1>4 DEF Packets
  <2> QED
    BY <1>3, <1>4, <2>1, FS_AddElement
<1>5. CASE ~(d.cmd = "D" /\ d.id = i)
  <2>1. Packets(i)' = Packets(i)
    BY <1>1, <1>2, <1>5 DEF Packets
  <2> QED
    BY <1>3, <1>5, <2>1
<1> QED
  BY <1>4, <1>5

LEMMA PacketTaken ==
  ASSUME Types, Types', NEW x, NEW i, Taking(x, i), NEW n
  PROVE  Cardinality(Packets(n)) = Cardinality(Packets(n)') + (IF x = "D" /\ n = i THEN 1 ELSE 0)
<1> DEFINE S == Packets(n)
           T == Packets(n)'
           f == [j \in T |-> j + 1]
<1>1. IsFiniteSet(S) /\ Cardinality(S) \in Nat /\ IsFiniteSet(T) /\ Cardinality(T) \in Nat
  <2>1. IsFiniteSet(S) /\ Cardinality(S) \in Nat
    BY FlightTypes DEF Flight
  <2>2. IsFiniteSet(T) /\ Cardinality(T) \in Nat
    BY FlightTypesNext DEF Flight
  <2> QED
    BY <2>1, <2>2
<1>2. \A j \in T : j \in Nat \ {0} /\ j + 1 \in S \ {1}
  BY DEF Taking, Packets
<1>3. \A j \in S \ {1} : j \in Nat /\ j - 1 \in T /\ (j - 1) + 1 = j
  BY DEF Taking, Packets
<1>4. 1 \in S <=> (x = "D" /\ n = i)
  BY DEF Taking, Packets
<1> HIDE DEF S, T
<1>5. f \in Bijection(T, S \ {1})
  <2>1. f \in [T -> S \ {1}]
    BY <1>2
  <2>2. \A a, b \in T : f[a] = f[b] => a = b
    BY <1>2
  <2>3. \A j \in S \ {1} : \E a \in T : f[a] = j
    BY <1>3
  <2> QED
    BY <2>1, <2>2, <2>3 DEF Bijection, Injection, Surjection, IsInjective
<1>6. ExistsBijection(T, S \ {1})
  BY <1>5 DEF ExistsBijection
<1>7. Cardinality(S \ {1}) = Cardinality(T)
  BY <1>1, <1>6, FS_Bijection
<1>8. Cardinality(S \ {1}) = IF 1 \in S THEN Cardinality(S) - 1 ELSE Cardinality(S)
  BY <1>1, FS_RemoveElement
<1> QED
  BY <1>1, <1>4, <1>7, <1>8 DEF S, T

\* An id that is not open has nothing on its way.
LEMMA NoneInFlight == Types /\ Opening => \A n \in Ids : "open" \notin heard[n] => InFlight(n) = 0
<1> SUFFICES ASSUME Types, Opening, NEW i \in Ids, "open" \notin heard[i]
             PROVE  InFlight(i) = 0
  OBVIOUS
<1>1. Packets(i) = {} /\ Posters(i) = {} /\ Coming(i) = 0
  BY DEF Opening, Packets, Posters, Coming, SendSteps
<1> QED
  BY <1>1, FlightTypes, FS_EmptySet DEF Flight

\* Counted, slot by slot and id by id.
LEMMA CountedMeans ==
  Counted <=> \A s \in Slots : \A i : sock[s].tcp /\ sock[s].id = i =>
                /\ sock[s].refs >= InFlight(i)
                /\ sock[s].refs = InFlight(i) \/ stale
BY DEF Counted
LEMMA CountedMeansNext ==
  (Counted <=> \A s \in Slots : \A i : sock[s].tcp /\ sock[s].id = i =>
                 /\ sock[s].refs >= InFlight(i)
                 /\ sock[s].refs = InFlight(i) \/ stale)'
BY CountedMeans, PTL

(***************************************************************************)
(* A step leaves the count right when the slots' counters and what is on   *)
(* its way are as they were, or a slot is made anew for an unopened id.    *)
(***************************************************************************)
SlotsKept == \A s \in Slots : sock'[s].tcp =>
  \/ sock[s].tcp /\ sock'[s].id = sock[s].id /\ sock'[s].refs = sock[s].refs
  \/ sock'[s].refs = 0 /\ sock'[s].id \in Ids /\ "open" \notin heard'[sock'[s].id]
FlightKept == \A i \in Ids : InFlight(i)' = InFlight(i)
PostersKept == \A i \in Ids : Posters(i)' = Posters(i)
ComingKept == \A i \in Ids : Coming(i)' = Coming(i)
PacketsKept ==
  \/ pipe' = pipe
  \/ \E d : Posting(d) /\ d.cmd # "D"
  \/ \E x, i : Taking(x, i) /\ x # "D"

LEMMA CountedStays ==
  ASSUME Counted, OnceInv, OnceInv', SlotsKept, FlightKept, stale => stale'
  PROVE  Counted'
<1>1. ASSUME NEW s \in Slots, NEW i, sock'[s].tcp, sock'[s].id = i
      PROVE  /\ sock'[s].refs >= InFlight(i)'
             /\ sock'[s].refs = InFlight(i)' \/ stale'
  <2>1. CASE sock[s].tcp /\ sock'[s].id = sock[s].id /\ sock'[s].refs = sock[s].refs
    <3>1. i \in Ids /\ sock[s].id = i
      BY <1>1, <2>1 DEF OnceInv, SlotsInv, Tagged
    <3>2. InFlight(i)' = InFlight(i)
      BY <3>1 DEF FlightKept
    <3> QED
      BY <2>1, <3>1, <3>2, CountedMeans
  <2>2. CASE sock'[s].refs = 0 /\ sock'[s].id \in Ids /\ "open" \notin heard'[sock'[s].id]
    <3>1. (Types /\ Opening => \A n \in Ids : "open" \notin heard[n] => InFlight(n) = 0)'
      BY NoneInFlight, PTL
    <3>2. InFlight(i)' = 0
      BY <1>1, <2>2, <3>1 DEF OnceInv, SlotsInv
    <3> QED
      BY <2>2, <3>2
  <2> QED
    BY <1>1, <2>1, <2>2 DEF SlotsKept
<1> QED
  BY <1>1, CountedMeansNext

LEMMA FlightStays ==
  ASSUME Types, Types', PostersKept, ComingKept, PacketsKept
  PROVE  FlightKept
<1>1. ASSUME NEW i \in Ids
      PROVE  InFlight(i)' = InFlight(i)
  <2>1. Cardinality(Packets(i)) \in Nat /\ Cardinality(Packets(i)') \in Nat
    BY FlightTypes, FlightTypesNext DEF Flight
  <2>2. Cardinality(Packets(i)') = Cardinality(Packets(i))
    <3>1. CASE pipe' = pipe
      BY <3>1 DEF Packets
    <3>2. ASSUME NEW d, Posting(d), d.cmd # "D"
          PROVE  Cardinality(Packets(i)') = Cardinality(Packets(i))
      BY <2>1, <3>2, PacketPosted
    <3>3. ASSUME NEW x, NEW n, Taking(x, n), x # "D"
          PROVE  Cardinality(Packets(i)') = Cardinality(Packets(i))
      BY <2>1, <3>3, PacketTaken
    <3> QED
      BY <3>1, <3>2, <3>3 DEF PacketsKept
  <2>3. Posters(i)' = Posters(i) /\ Coming(i)' = Coming(i)
    BY DEF PostersKept, ComingKept
  <2>4. InFlight(i) = Cardinality(Packets(i)) + Cardinality(Posters(i)) + Coming(i)
    BY FlightTypes DEF Flight
  <2>5. InFlight(i)' = Cardinality(Packets(i)') + Cardinality(Posters(i)') + Coming(i)'
    BY FlightTypesNext DEF Flight
  <2> QED
    BY <2>2, <2>3, <2>4, <2>5
<1> QED
  BY <1>1 DEF FlightKept

LEMMA CountNext ==
  ASSUME CountInv, [Next]_vars
  PROVE  CountInv'
<1> USE DEF CountInv, OnceInv, SlotsInv
<1>0. OnceInv'
  BY OnceNext
<1>1. ASSUME NEW c \in Services, Listen(c)
      PROVE  Counted' /\ failed' # "count"
  <2>1. SlotsKept
    BY <1>1, ListenStep, Hands DEF SlotsKept, Others, Alike, Stands, Reserving, Going
  <2>2. PostersKept
    BY <1>1, ListenStep DEF PostersKept, Posters, Going
  <2>3. ComingKept
    BY <1>1, ListenStep DEF ComingKept, Coming, Elsewhere, pollVars
  <2>4. PacketsKept
    BY <1>1, ListenStep DEF PacketsKept, Elsewhere, pollVars
  <2>5. (stale => stale') /\ failed' # "count"
    BY <1>1, ListenStep DEF Elsewhere, Meets
  <2> QED
    BY <1>0, <2>1, <2>2, <2>3, <2>4, <2>5, FlightStays, CountedStays
<1>2. ASSUME NEW c \in Services, ListenPost(c)
      PROVE  Counted' /\ failed' # "count"
  <2>1. SlotsKept
    BY <1>2, ListenPostStep, Hands DEF SlotsKept, Others, Alike, Stands, Naming, Going
  <2>2. PostersKept
    BY <1>2, ListenPostStep DEF PostersKept, Posters, Going
  <2>3. ComingKept
    BY <1>2, ListenPostStep DEF ComingKept, Coming, Elsewhere, pollVars
  <2>4. PacketsKept
    <3>1. Posting([cmd |-> "L", id |-> call[c].id])
      BY <1>2, ListenPostStep
    <3>2. [cmd |-> "L", id |-> call[c].id].cmd # "D"
      OBVIOUS
    <3> QED
      BY <3>1, <3>2 DEF PacketsKept
  <2>5. (stale => stale') /\ failed' # "count"
    BY <1>2, ListenPostStep DEF Elsewhere, Meets
  <2> QED
    BY <1>0, <2>1, <2>2, <2>3, <2>4, <2>5, FlightStays, CountedStays
<1>3. ASSUME NEW c \in Services, NEW x \in {"S", "K", "H"}, NEW i \in Ids, Request(c, x, i)
      PROVE  Counted' /\ failed' # "count"
  <2>1. SlotsKept
    BY <1>3, RequestStep, Hands DEF SlotsKept, Others, Alike, Stands
  <2>2. PostersKept
    BY <1>3, RequestStep DEF PostersKept, Posters
  <2>3. ComingKept
    BY <1>3, RequestStep DEF ComingKept, Coming, Elsewhere, pollVars
  <2>4. PacketsKept
    <3>1. Posting([cmd |-> x, id |-> i])
      BY <1>3, RequestStep
    <3>2. [cmd |-> x, id |-> i].cmd # "D"
      OBVIOUS
    <3> QED
      BY <3>1, <3>2 DEF PacketsKept
  <2>5. (stale => stale') /\ failed' # "count"
    BY <1>3, RequestStep DEF Elsewhere, Meets
  <2> QED
    BY <1>0, <2>1, <2>2, <2>3, <2>4, <2>5, FlightStays, CountedStays
<1>4. ASSUME NEW c \in Services, NEW i \in Ids, Send(c, i)
      PROVE  Counted' /\ failed' # "count"
  <2>1. SlotsKept
    BY <1>4, SendStep, Hands DEF SlotsKept, Others, Alike, Stands, Going
  <2>2. PostersKept
    BY <1>4, SendStep DEF PostersKept, Posters, Going
  <2>3. ComingKept
    BY <1>4, SendStep DEF ComingKept, Coming, Elsewhere, pollVars
  <2>4. PacketsKept
    BY <1>4, SendStep DEF PacketsKept, Elsewhere, pollVars
  <2>5. (stale => stale') /\ failed' # "count"
    BY <1>4, SendStep DEF Elsewhere, Meets
  <2> QED
    BY <1>0, <2>1, <2>2, <2>3, <2>4, <2>5, FlightStays, CountedStays
<1>5. ASSUME NEW c \in Services, Probe(c) \/ Try(c) \/ Verify(c)
      PROVE  Counted' /\ failed' # "count"
  <2>1. SlotsKept
    BY <1>5, ProbeStep, Hands DEF SlotsKept, Others, Alike, Stands, Going, Takes, Leaves, Holding
  <2>2. PostersKept
    <3>1. call[c].pc # "post"
      BY <1>5 DEF Probe, Try, Verify
    <3>2. \E p \in {"try", "recheck", "verify", "write", "inc"} : Going(c, p, call[c].id)
      BY <1>5, ProbeStep
    <3> QED
      BY <3>1, <3>2 DEF PostersKept, Posters, Going
  <2>3. ComingKept
    BY <1>5, ProbeStep DEF ComingKept, Coming, Elsewhere, pollVars
  <2>4. PacketsKept
    BY <1>5, ProbeStep DEF PacketsKept, Elsewhere, pollVars
  <2>5. (stale => stale') /\ failed' # "count"
    BY <1>5, ProbeStep DEF Elsewhere, Meets
  <2> QED
    BY <1>0, <2>1, <2>2, <2>3, <2>4, <2>5, FlightStays, CountedStays
<1>6. ASSUME NEW c \in Services, DirectWrite(c)
      PROVE  Counted' /\ failed' # "count"
  <2>1. SlotsKept
    BY <1>6, DirectWriteStep, Hands DEF SlotsKept, Others, Alike, Stands, Tending, Holding, Going
  <2>2. PostersKept
    BY <1>6, DirectWriteStep DEF PostersKept, Posters, Going
  <2>3. ComingKept
    BY <1>6, DirectWriteStep DEF ComingKept, Coming, pollVars
  <2>4. PacketsKept
    BY <1>6, DirectWriteStep DEF PacketsKept, pollVars
  <2>5. (stale => stale') /\ failed' # "count"
    BY <1>6, DirectWriteStep DEF Elsewhere, Meets
  <2> QED
    BY <1>0, <2>1, <2>2, <2>3, <2>4, <2>5, FlightStays, CountedStays
<1>7. ASSUME NEW c \in Services, Inc(c)
      PROVE  Counted' /\ failed' # "count"
  <2> DEFINE i == call[c].id
             s == Pos(i)
             k == sock[s]
  <2>1. /\ Types' /\ call[c].pc = "inc" /\ i \in Ids /\ s \in Slots
        /\ IF k.tcp /\ k.tag = Tag(k.id) THEN Counting(s, k.refs + 1) ELSE sock' = sock
        /\ stale' = (stale \/ k.id # i)
        /\ Going(c, "post", i)
        /\ Elsewhere /\ pipe' = pipe
    BY <1>7, IncStep, PosType
  <2>2. ASSUME NEW n \in Ids
        PROVE  InFlight(n)' = InFlight(n) + (IF n = i THEN 1 ELSE 0)
    <3>1. Packets(n)' = Packets(n) /\ Coming(n)' = Coming(n)
      BY <2>1 DEF Packets, Coming, Elsewhere, pollVars
    <3>2. Cardinality(Posters(n)') = Cardinality(Posters(n)) + (IF n = i THEN 1 ELSE 0)
      <4>1. CASE n = i
        <5>1. Posters(n)' = Posters(n) \cup {c} /\ c \notin Posters(n)
          BY <2>1, <4>1 DEF Posters, Going
        <5> QED
          BY <4>1, <5>1, FlightTypes, FS_AddElement DEF Flight
      <4>2. CASE n # i
        <5>1. Posters(n)' = Posters(n)
          BY <2>1, <4>2 DEF Posters, Going
        <5> QED
          BY <4>2, <5>1, FlightTypes DEF Flight
      <4> QED
        BY <4>1, <4>2
    <3> QED
      BY <2>1, <3>1, <3>2, FlightTypes, FlightTypesNext DEF Flight
  <2>3. \A n \in Ids : InFlight(n) \in Nat
    BY FlightTypes DEF Flight
  <2> HIDE DEF i, s, k
  <2>4. ASSUME NEW t \in Slots, NEW n, sock'[t].tcp, sock'[t].id = n
        PROVE  /\ sock'[t].refs >= InFlight(n)'
               /\ sock'[t].refs = InFlight(n)' \/ stale'
    <3>1. sock[t].tcp /\ sock[t].id = n /\ n \in Ids /\ Pos(n) = t /\ sock[t].tag = Tag(n)
      BY <2>1, <2>4 DEF Counting, Whole, Others, Alike, Tagged, k
    <3>2. sock[t].refs \in Nat /\ InFlight(n) \in Nat
      BY <2>3, <3>1 DEF Types, SlotTypes, Socket
    <3>3. sock[t].refs >= InFlight(n) /\ (sock[t].refs = InFlight(n) \/ stale)
      BY <3>1 DEF Counted
    <3>4. InFlight(n)' = InFlight(n) + (IF n = i THEN 1 ELSE 0)
      BY <2>2, <3>1
    <3>5. CASE t = s
      <4>1. sock'[t].refs = sock[t].refs + 1
        BY <2>1, <3>1, <3>5 DEF Counting, k
      <4>2. stale' = (stale \/ n # i)
        BY <2>1, <3>1, <3>5 DEF k
      <4>3. sock'[t].refs >= InFlight(n)' /\ (sock[t].refs = InFlight(n) /\ n = i => sock'[t].refs = InFlight(n)')
        BY <3>2, <3>3, <3>4, <4>1
      <4>4. stale' \/ (sock[t].refs = InFlight(n) /\ n = i)
        BY <3>3, <4>2
      <4> QED
        BY <4>3, <4>4
    <3>6. CASE t # s
      <4>1. n # i /\ sock'[t] = sock[t] /\ (stale => stale')
        BY <2>1, <3>1, <3>6 DEF s, Counting, Others
      <4> QED
        BY <3>2, <3>3, <3>4, <4>1
    <3> QED
      BY <3>5, <3>6
  <2> QED
    BY <2>1, <2>4, CountedMeansNext DEF Elsewhere
<1>8. ASSUME NEW c \in Services, Post(c)
      PROVE  Counted' /\ failed' # "count"
  <2>1. PICK d :
          /\ call[c].pc = "post" /\ d.cmd = "D" /\ d.id = call[c].id /\ d.id \in Ids
          /\ Posting(d) /\ Going(c, "idle", None)
          /\ Types' /\ Elsewhere /\ UNCHANGED <<sock, stale>>
    <3>1. LET d == [cmd |-> "D", id |-> call[c].id, msg |-> Message(c)] IN
            /\ d.cmd = "D" /\ d.id = call[c].id /\ Posting(d) /\ Going(c, "idle", None)
            /\ Elsewhere /\ UNCHANGED <<sock, stale>>
      BY <1>8, PostStep
    <3> QED
      BY <1>8, PostStep, <3>1
  <2>2. ASSUME NEW i \in Ids
        PROVE  InFlight(i)' = InFlight(i)
    <3>1. Coming(i)' = Coming(i)
      BY <2>1 DEF Coming, Elsewhere, pollVars
    <3>2. Cardinality(Packets(i)') = Cardinality(Packets(i)) + (IF i = d.id THEN 1 ELSE 0)
      BY <2>1, PacketPosted
    <3>3. Cardinality(Posters(i)') = Cardinality(Posters(i)) - (IF i = d.id THEN 1 ELSE 0)
      <4>1. CASE i = d.id
        <5>1. Posters(i)' = Posters(i) \ {c} /\ c \in Posters(i)
          BY <2>1, <4>1 DEF Posters, Going
        <5> QED
          BY <4>1, <5>1, FlightTypes, FS_RemoveElement DEF Flight
      <4>2. CASE i # d.id
        <5>1. Posters(i)' = Posters(i)
          BY <2>1, <4>2 DEF Posters, Going
        <5> QED
          BY <4>2, <5>1, FlightTypes DEF Flight
      <4> QED
        BY <4>1, <4>2
    <3>4. /\ InFlight(i) = Cardinality(Packets(i)) + Cardinality(Posters(i)) + Coming(i)
          /\ Cardinality(Packets(i)) \in Nat /\ Cardinality(Posters(i)) \in Nat /\ Coming(i) \in Nat
      BY FlightTypes DEF Flight
    <3>5. InFlight(i)' = Cardinality(Packets(i)') + Cardinality(Posters(i)') + Coming(i)'
      BY <2>1, FlightTypesNext DEF Flight
    <3> QED
      BY <3>1, <3>2, <3>3, <3>4, <3>5
  <2>3. SlotsKept /\ FlightKept
    BY <2>1, <2>2 DEF SlotsKept, FlightKept
  <2> QED
    BY <1>0, <2>1, <2>3, CountedStays DEF Elsewhere
<1>9. ASSUME ListenSocket
      PROVE  Counted' /\ failed' # "count"
  <2>1. SlotsKept
    <3>1. PICK i \in Ids :
            /\ Taking("L", i) /\ heard' = heard
            /\ sock' = sock \/ Making(i, "plisten")
      BY <1>9, ListenSocketStep
    <3>2. "open" \notin heard'[i]
      BY <3>1 DEF Taking, Listening, Opening
    <3> QED
      BY <3>1, <3>2 DEF SlotsKept, Making, Others
  <2>2. PostersKept
    BY <1>9, ListenSocketStep DEF PostersKept, Posters, Apart
  <2>3. ComingKept
    BY <1>9, ListenSocketStep DEF ComingKept, Coming, Taking
  <2>4. PacketsKept
    BY <1>9, ListenSocketStep DEF PacketsKept
  <2>5. (stale => stale') /\ failed' # "count"
    BY <1>9, ListenSocketStep DEF Elsewhere, Meets
  <2> QED
    BY <1>0, <2>1, <2>2, <2>3, <2>4, <2>5, FlightStays, CountedStays
<1>10. ASSUME StartSocket
      PROVE  Counted' /\ failed' # "count"
  <2>1. SlotsKept
    BY <1>10, StartSocketStep, Hands DEF SlotsKept, Others, Alike, Stands, Starting, Ends, Ending, Back, Apart, Taking
  <2>2. PostersKept
    BY <1>10, StartSocketStep DEF PostersKept, Posters, Apart
  <2>3. ComingKept
    BY <1>10, StartSocketStep DEF ComingKept, Coming, Ends, Back, Taking
  <2>4. PacketsKept
    BY <1>10, StartSocketStep DEF PacketsKept
  <2>5. (stale => stale') /\ failed' # "count"
    BY <1>10, StartSocketStep DEF Elsewhere, Ends, Back, Meets
  <2> QED
    BY <1>0, <2>1, <2>2, <2>3, <2>4, <2>5, FlightStays, CountedStays
<1>11. ASSUME SendSocket
      PROVE  Counted' /\ failed' # "count"
  <2>1. PICK i \in Ids :
          /\ Taking("D", i) /\ at' = "dec" /\ op'.id = i
          /\ sock' = sock \/ Tending(Pos(i))
          /\ Types' /\ Apart /\ (stale => stale') /\ failed' = failed
    BY <1>11, SendSocketStep DEF Meets
  <2>2. ASSUME NEW n \in Ids
        PROVE  InFlight(n)' = InFlight(n)
    <3>1. Coming(n) = 0 /\ Coming(n)' = IF n = i THEN 1 ELSE 0
      BY <2>1 DEF Coming, Taking
    <3>2. Cardinality(Packets(n)) = Cardinality(Packets(n)') + (IF n = i THEN 1 ELSE 0)
      BY <2>1, PacketTaken
    <3>3. Posters(n)' = Posters(n)
      BY <2>1 DEF Posters, Apart
    <3>4. /\ InFlight(n) = Cardinality(Packets(n)) + Cardinality(Posters(n)) + Coming(n)
          /\ Cardinality(Packets(n)) \in Nat /\ Cardinality(Posters(n)) \in Nat
      BY FlightTypes DEF Flight
    <3>5. InFlight(n)' = Cardinality(Packets(n)') + Cardinality(Posters(n)') + Coming(n)'
          /\ Cardinality(Packets(n)') \in Nat
      BY <2>1, FlightTypesNext DEF Flight
    <3> QED
      BY <3>1, <3>2, <3>3, <3>4, <3>5
  <2>3. SlotsKept
    BY <2>1 DEF SlotsKept, Tending, Others, Alike
  <2>4. FlightKept
    BY <2>2 DEF FlightKept
  <2> QED
    BY <1>0, <2>1, <2>3, <2>4, CountedStays
<1>12. ASSUME NEW x \in {"K", "H"}, CloseSocket(x)
      PROVE  Counted' /\ failed' # "count"
  <2>1. SlotsKept
    BY <1>12, CloseSocketStep, Hands DEF SlotsKept, Others, Alike, Stands, Missing, Back, Apart, Taking
  <2>2. PostersKept
    BY <1>12, CloseSocketStep DEF PostersKept, Posters, Apart
  <2>3. ComingKept
    BY <1>12, CloseSocketStep DEF ComingKept, Coming, Back, Taking
  <2>4. PacketsKept
    BY <1>12, CloseSocketStep DEF PacketsKept
  <2>5. (stale => stale') /\ failed' # "count"
    BY <1>12, CloseSocketStep DEF Elsewhere, Back, Meets
  <2> QED
    BY <1>0, <2>1, <2>2, <2>3, <2>4, <2>5, FlightStays, CountedStays
<1>13. ASSUME Close
      PROVE  Counted' /\ failed' # "count"
  <2>1. SlotsKept
    BY <1>13, CloseStep, Hands DEF SlotsKept, Others, Alike, Stands, Shutting, Back, Apart
  <2>2. PostersKept
    BY <1>13, CloseStep DEF PostersKept, Posters, Apart
  <2>3. ComingKept
    BY <1>13, CloseStep DEF ComingKept, Coming, Back
  <2>4. PacketsKept
    BY <1>13, CloseStep DEF PacketsKept
  <2>5. (stale => stale') /\ failed' # "count"
    BY <1>13, CloseStep DEF Elsewhere, Back, Meets
  <2> QED
    BY <1>0, <2>1, <2>2, <2>3, <2>4, <2>5, FlightStays, CountedStays
<1>14. ASSUME Dec
      PROVE  Counted' /\ failed' # "count"
  <2> DEFINE i == op.id
             s == Pos(i)
             k == sock[s]
  <2>1. /\ at = "dec" /\ i \in Ids /\ op.slot = s /\ s \in Slots /\ at' = "loop"
        /\ \/ (k.id # i \/ ~k.tcp) /\ UNCHANGED <<sock, failed>>
           \/ k.id = i /\ k.tcp /\ k.refs = 0 /\ failed' = "count" /\ UNCHANGED sock
           \/ /\ k.id = i /\ k.tcp /\ k.refs # 0 /\ failed' = failed
              /\ k.refs - 1 \in Nat /\ Counting(s, k.refs - 1)
        /\ Types' /\ Apart /\ UNCHANGED <<pipe, stale>>
    BY <1>14, DecStep, PosType
  <2>2. ASSUME NEW n \in Ids
        PROVE  InFlight(n)' = InFlight(n) - (IF n = i THEN 1 ELSE 0)
    <3>1. Packets(n)' = Packets(n) /\ Posters(n)' = Posters(n)
      BY <2>1 DEF Packets, Posters, Apart
    <3>2. Coming(n)' = 0 /\ Coming(n) = (IF n = i THEN 1 ELSE 0)
      BY <2>1 DEF Coming
    <3>3. /\ InFlight(n) = Cardinality(Packets(n)) + Cardinality(Posters(n)) + Coming(n)
          /\ Cardinality(Packets(n)) \in Nat /\ Cardinality(Posters(n)) \in Nat
      BY FlightTypes DEF Flight
    <3>4. InFlight(n)' = Cardinality(Packets(n)') + Cardinality(Posters(n)') + Coming(n)'
      BY <2>1, FlightTypesNext DEF Flight
    <3> QED
      BY <3>1, <3>2, <3>3, <3>4
  <2>3. \A n \in Ids : InFlight(n) \in Nat /\ InFlight(n)' \in Nat
    BY <2>1, FlightTypes, FlightTypesNext DEF Flight
  <2> HIDE DEF i, s, k
  <2>4. InFlight(i) >= 1
    BY <2>1, <2>2, <2>3
  <2>5. ASSUME k.id = i, k.tcp
        PROVE  k.refs >= 1
    <3>1. k.refs >= InFlight(i)
      BY <2>1, <2>5 DEF k, Counted
    <3>2. k.refs \in Nat /\ InFlight(i) \in Nat
      BY <2>1, <2>3 DEF k, Types, SlotTypes, Socket
    <3> QED
      BY <2>4, <3>1, <3>2
  <2>6. \/ (k.id # i \/ ~k.tcp) /\ UNCHANGED <<sock, failed>>
        \/ k.id = i /\ k.tcp /\ failed' = failed /\ Counting(s, k.refs - 1)
    BY <2>1, <2>5
  <2>7. ASSUME NEW t \in Slots, NEW n, sock'[t].tcp, sock'[t].id = n
        PROVE  /\ sock'[t].refs >= InFlight(n)'
               /\ sock'[t].refs = InFlight(n)' \/ stale'
    <3>1. sock[t].tcp /\ sock[t].id = n /\ n \in Ids /\ Pos(n) = t
      BY <2>6, <2>7 DEF Counting, Whole, Others, Alike, Tagged, k
    <3>2. sock[t].refs \in Nat /\ InFlight(n) \in Nat
      BY <2>3, <3>1 DEF Types, SlotTypes, Socket
    <3>3. sock[t].refs >= InFlight(n) /\ (sock[t].refs = InFlight(n) \/ stale')
      BY <2>1, <3>1 DEF Counted
    <3>4. CASE n = i
      <4>1. t = s /\ k.id = i /\ k.tcp
        BY <3>1, <3>4 DEF s, k
      <4>2. sock'[t].refs = sock[t].refs - 1
        BY <2>6, <4>1 DEF Counting, k
      <4>3. InFlight(n)' = InFlight(n) - 1
        BY <2>2, <3>1, <3>4
      <4> QED
        BY <3>2, <3>3, <4>2, <4>3
    <3>5. CASE n # i
      <4>1. sock'[t] = sock[t]
        BY <2>6, <3>1, <3>5 DEF Counting, Others, k
      <4>2. InFlight(n)' = InFlight(n)
        BY <2>2, <2>3, <3>1, <3>5
      <4> QED
        BY <3>2, <3>3, <4>1, <4>2
    <3> QED
      BY <3>4, <3>5
  <2> QED
    BY <2>6, <2>7, CountedMeansNext
<1>15. ASSUME CloseFlush
      PROVE  Counted' /\ failed' # "count"
  <2>1. SlotsKept
    BY <1>15, CloseFlushStep, Hands DEF SlotsKept, Others, Alike, Stands, Tending, ShutsSlot, Shutting, Fails, Back, Apart
  <2>2. PostersKept
    BY <1>15, CloseFlushStep DEF PostersKept, Posters, Apart
  <2>3. ComingKept
    BY <1>15, CloseFlushStep DEF ComingKept, Coming, ShutsSlot, Fails, Back
  <2>4. PacketsKept
    BY <1>15, CloseFlushStep DEF PacketsKept
  <2>5. (stale => stale') /\ failed' # "count"
    BY <1>15, CloseFlushStep DEF Elsewhere, ShutsSlot, Fails, Back, Meets
  <2> QED
    BY <1>0, <2>1, <2>2, <2>3, <2>4, <2>5, FlightStays, CountedStays
<1>16. ASSUME CloseAsk
      PROVE  Counted' /\ failed' # "count"
  <2>1. SlotsKept
    BY <1>16, CloseAskStep, Hands DEF SlotsKept, Others, Alike, Stands, Ends, Ending, ClosesNot, Halving, Apart
  <2>2. PostersKept
    BY <1>16, CloseAskStep DEF PostersKept, Posters, Apart
  <2>3. ComingKept
    BY <1>16, CloseAskStep DEF ComingKept, Coming, Ends, ClosesNot
  <2>4. PacketsKept
    BY <1>16, CloseAskStep DEF PacketsKept
  <2>5. (stale => stale') /\ failed' # "count"
    BY <1>16, CloseAskStep DEF Elsewhere, Ends, ClosesNot, Meets
  <2> QED
    BY <1>0, <2>1, <2>2, <2>3, <2>4, <2>5, FlightStays, CountedStays
<1>17. ASSUME Accepted
      PROVE  Counted' /\ failed' # "count"
  <2>1. SlotsKept
    <3>1. Making(op.id, "paccept") /\ heard' = heard /\ op.id \in Ids /\ at = "accept"
      BY <1>17, AcceptedStep DEF Ided
    <3>2. "open" \notin heard'[op.id]
      BY <3>1 DEF Once, Silent
    <3> QED
      BY <3>1, <3>2 DEF SlotsKept, Making, Others
  <2>2. PostersKept
    BY <1>17, AcceptedStep DEF PostersKept, Posters, Apart, Ided
  <2>3. ComingKept
    BY <1>17, AcceptedStep DEF ComingKept, Coming, Back, Ided
  <2>4. PacketsKept
    BY <1>17, AcceptedStep DEF PacketsKept, Ided
  <2>5. (stale => stale') /\ failed' # "count"
    BY <1>17, AcceptedStep DEF Elsewhere, Back, Meets, Ided
  <2> QED
    BY <1>0, <2>1, <2>2, <2>3, <2>4, <2>5, FlightStays, CountedStays
<1>18. ASSUME Drained
      PROVE  Counted' /\ failed' # "count"
  <2>1. SlotsKept
    BY <1>18, DrainedStep, Hands DEF SlotsKept, Others, Alike, Stands, Apart
  <2>2. PostersKept
    BY <1>18, DrainedStep DEF PostersKept, Posters, Apart
  <2>3. ComingKept
    BY <1>18, DrainedStep DEF ComingKept, Coming
  <2>4. PacketsKept
    BY <1>18, DrainedStep DEF PacketsKept
  <2>5. (stale => stale') /\ failed' # "count"
    BY <1>18, DrainedStep DEF Elsewhere, Meets
  <2> QED
    BY <1>0, <2>1, <2>2, <2>3, <2>4, <2>5, FlightStays, CountedStays
<1>19. ASSUME Wait
      PROVE  Counted' /\ failed' # "count"
  <2>1. SlotsKept
    BY <1>19, WaitStep, Hands DEF SlotsKept, Others, Alike, Stands, Apart
  <2>2. PostersKept
    BY <1>19, WaitStep DEF PostersKept, Posters, Apart
  <2>3. ComingKept
    BY <1>19, WaitStep DEF ComingKept, Coming
  <2>4. PacketsKept
    BY <1>19, WaitStep DEF PacketsKept
  <2>5. (stale => stale') /\ failed' # "count"
    BY <1>19, WaitStep DEF Elsewhere, Meets
  <2> QED
    BY <1>0, <2>1, <2>2, <2>3, <2>4, <2>5, FlightStays, CountedStays
<1>20. ASSUME NEW e \in ready, Accept(e)
      PROVE  Counted' /\ failed' # "count"
  <2>1. SlotsKept
    BY <1>20, AcceptStep, Hands DEF SlotsKept, Others, Alike, Stands, Reserving, Apart, Busy
  <2>2. PostersKept
    BY <1>20, AcceptStep DEF PostersKept, Posters, Apart
  <2>3. ComingKept
    BY <1>20, AcceptStep DEF ComingKept, Coming
  <2>4. PacketsKept
    BY <1>20, AcceptStep DEF PacketsKept
  <2>5. (stale => stale') /\ failed' # "count"
    BY <1>20, AcceptStep DEF Elsewhere, Meets
  <2> QED
    BY <1>0, <2>1, <2>2, <2>3, <2>4, <2>5, FlightStays, CountedStays
<1>21. ASSUME NEW e \in ready, Receive(e)
      PROVE  Counted' /\ failed' # "count"
  <2>1. SlotsKept
    BY <1>21, ReceiveStep, Hands DEF SlotsKept, Others, Alike, Stands, Ends, Ending, ClosesNot, Back, Apart, Busy
  <2>2. PostersKept
    BY <1>21, ReceiveStep DEF PostersKept, Posters, Apart
  <2>3. ComingKept
    BY <1>21, ReceiveStep DEF ComingKept, Coming, Ends, ClosesNot, Back
  <2>4. PacketsKept
    BY <1>21, ReceiveStep DEF PacketsKept
  <2>5. (stale => stale') /\ failed' # "count"
    BY <1>21, ReceiveStep DEF Elsewhere, Ends, ClosesNot, Back, Meets
  <2> QED
    BY <1>0, <2>1, <2>2, <2>3, <2>4, <2>5, FlightStays, CountedStays
<1>22. ASSUME NEW e \in ready, Write(e)
      PROVE  Counted' /\ failed' # "count"
  <2>1. SlotsKept
    BY <1>22, WriteStep, Hands DEF SlotsKept, Others, Alike, Stands, Tending, ShutsSlot, Shutting, Fails, Back, Apart, Busy
  <2>2. PostersKept
    BY <1>22, WriteStep DEF PostersKept, Posters, Apart
  <2>3. ComingKept
    BY <1>22, WriteStep DEF ComingKept, Coming, ShutsSlot, Fails, Back
  <2>4. PacketsKept
    BY <1>22, WriteStep DEF PacketsKept
  <2>5. (stale => stale') /\ failed' # "count"
    BY <1>22, WriteStep DEF Elsewhere, ShutsSlot, Fails, Back, Meets
  <2> QED
    BY <1>0, <2>1, <2>2, <2>3, <2>4, <2>5, FlightStays, CountedStays
<1>23. ASSUME UNCHANGED vars
      PROVE  Counted' /\ failed' # "count"
  BY <1>23 DEF vars, slotVars, serviceVars, pollVars, Counted, InFlight
<1> QED
  BY <1>0, <1>1, <1>2, <1>3, <1>4, <1>5, <1>6, <1>7, <1>8, <1>9, <1>10, <1>11, <1>12, <1>13, <1>14, <1>15, <1>16, <1>17, <1>18, <1>19, <1>20, <1>21, <1>22, <1>23 DEF Next, Service, InCall, Command, Inside, Handle

-----------------------------------------------------------------------------
(***************************************************************************)
(* Before the first stale step.  Most steps leave every slot with its      *)
(* socket, and how it stands.                                              *)
(***************************************************************************)
Faces == \A s \in Slots :
  /\ sock'[s].id = sock[s].id /\ sock'[s].status = sock[s].status /\ sock'[s].reg = sock[s].reg
  /\ sock[s].size = Len(sock[s].list) => sock'[s].size = Len(sock'[s].list)
ListeningKept == \A i \in Ids : Listening(i)' => Listening(i)
ReservedKept == \A c \in Services : call'[c].pc = "reserved" => call'[c] = call[c]
Fresh == \A e \in ready' : e.slot \in Slots /\ IsOpen(e.slot) /\ sock[e.slot].id = e.id

\* The polling thread goes on with nothing in hand, or with an open slot.
Idles == at # "close" /\ at' \in {"loop", "first", "dec"}
Holds(s) ==
  /\ at # "close" /\ at' \in {"flush", "ask"}
  /\ s \in Slots /\ IsOpen(s) /\ op'.slot = s /\ op'.id = sock[s].id

\* What may be told of socket i before the first stale step.
Tells(i, kind) ==
  /\ Told(i, kind)
  /\ kind = "end" => ~Listening(i)' /\ ~Has(i)
  /\ kind # "end" => i \in Ids /\ "end" \notin heard[i]

LEMMA ReadyOpen ==
  ASSUME Types, OpenInHand
  PROVE  \A e \in ready : e.slot \in Slots /\ IsOpen(e.slot) /\ sock[e.slot].id = e.id
<1>1. \A e \in ready : e \in Reports
  BY DEF Types, PollTypes
<1>2. \A e \in Reports : e.slot \in Slots
  BY DEF Reports
<1> QED
  BY <1>1, <1>2 DEF OpenInHand

LEMMA FacesMean ==
  ASSUME Types, Faces
  PROVE  /\ \A s \in Slots : IsOpen(s)' <=> IsOpen(s)
         /\ \A i \in Ids : Has(i)' <=> Has(i)
<1>1. \A s \in Slots : IsOpen(s)' <=> IsOpen(s)
  BY DEF Faces, IsOpen
<1>2. \A i \in Ids : Has(i)' <=> Has(i)
  BY <1>1, PosType DEF Has, Faces
<1> QED
  BY <1>1, <1>2

LEMMA SameFaces ==
  ASSUME Types
  PROVE  /\ sock' = sock => Faces
         /\ \A s : Tending(s) => Faces
         /\ \A s, r : Counting(s, r) => Faces
BY DEF Faces, Tending, Counting, Others, Alike, Stands, Whole, Queues

LEMMA Calm ==
  ASSUME Types, Sound, Faces, ListeningKept, ReservedKept, Fresh, failed' = failed,
         heard' = heard \/ (\E i, kind : Tells(i, kind)),
         (at' = at /\ op' = op) \/ Idles \/ (\E s : Holds(s))
  PROVE  Sound'
<1>1. /\ \A s \in Slots : IsOpen(s)' <=> IsOpen(s)
      /\ \A i \in Ids : Has(i)' <=> Has(i)
  BY FacesMean
<1>2. Claimed'
  BY Hands, PosType DEF Sound, Claimed, Faces, ListeningKept, ReservedKept
<1>3. at' = "accept" => at = "accept" /\ op' = op
  BY DEF Idles, Holds
<1>4. OneClaim'
  BY <1>3 DEF Sound, OneClaim, ListeningKept, ReservedKept
<1>5. \A s \in Slots : Closing(s) => Closing(s)'
  BY DEF Closing, Idles, Holds
<1>6. OpenSlots'
  BY <1>1, <1>5 DEF Sound, OpenSlots, Faces
<1>7. OpenInHand'
  <2>1. \A e \in ready' : IsOpen(e.slot)' /\ sock'[e.slot].id = e.id
    BY <1>1 DEF Fresh, Faces
  <2>2. CASE at' = at /\ op' = op
    BY <1>1, <2>1, <2>2, Hands DEF Sound, OpenInHand, Faces
  <2>3. CASE Idles
    BY <2>1, <2>3 DEF OpenInHand, Idles
  <2>4. ASSUME NEW s, Holds(s)
        PROVE  OpenInHand'
    BY <1>1, <2>1, <2>4 DEF OpenInHand, Holds, Faces
  <2> QED
    BY <2>2, <2>3, <2>4
<1>8. Ended'
  <2>1. CASE heard' = heard
    BY <1>1, <2>1 DEF Sound, Ended, ListeningKept
  <2>2. ASSUME NEW i, NEW kind, Tells(i, kind)
        PROVE  Ended'
    BY <1>1, <2>2 DEF Sound, Ended, ListeningKept, Tells, Told
  <2> QED
    BY <2>1, <2>2
<1> QED
  BY <1>2, <1>4, <1>6, <1>7, <1>8 DEF Sound

LEMMA OpenHas ==
  ASSUME Types, Ided, Sound, NEW s \in Slots, IsOpen(s)
  PROVE  /\ sock[s].id \in Ids /\ Pos(sock[s].id) = s /\ Has(sock[s].id)
         /\ ~Listening(sock[s].id) /\ "end" \notin heard[sock[s].id]
<1>1. sock[s].id \in Ids /\ Pos(sock[s].id) = s /\ Has(sock[s].id)
  BY DEF Sound, Ided, OpenSlots, Has
<1>2. ~Listening(sock[s].id)
  BY <1>1 DEF Sound, Claimed, IsOpen
<1> QED
  BY <1>1, <1>2 DEF Sound, Ended

\* A slot that is not reserved changes, and no claim is touched.
LEMMA ClaimsStay ==
  ASSUME Types, Sound, NEW s, Others(s), sock[s].status # "reserve",
         ListeningKept, ReservedKept, at' = "accept" => at = "accept" /\ op' = op
  PROVE  Claimed' /\ OneClaim'
<1>1. Claimed'
  BY Hands, PosType DEF Sound, Claimed, Others, ListeningKept, ReservedKept
<1>2. OneClaim'
  BY DEF Sound, OneClaim, ListeningKept, ReservedKept
<1> QED
  BY <1>1, <1>2

\* A socket is closed, and the events of the poll are given up.
LEMMA ShutSound ==
  ASSUME Types, Ided, Sound, NEW s \in Slots, IsOpen(s), Shutting(s), Told(sock[s].id, "end"), Back,
         at = "close" => op.slot = s, UNCHANGED <<pipe, call, failed>>
  PROVE  Sound'
<1>1. ListeningKept /\ ReservedKept
  BY DEF ListeningKept, ReservedKept, Listening
<1>2. Claimed' /\ OneClaim'
  BY <1>1, ClaimsStay DEF Shutting, IsOpen, Back
<1>3. \A t \in Slots : t # s => sock'[t] = sock[t]
  BY DEF Shutting, Others
<1>4. ~IsOpen(s)' /\ ~sock'[s].reg
  BY DEF Shutting, IsOpen
<1>5. OpenSlots'
  BY <1>3, <1>4 DEF Sound, OpenSlots, IsOpen, Closing, Back
<1>6. OpenInHand'
  BY DEF OpenInHand, Back
<1>7. \A i \in Ids : Has(i)' => Has(i) /\ i # sock[s].id
  <2> TAKE i \in Ids
  <2>1. Pos(i) \in Slots
    BY PosType
  <2> QED
    BY <1>3, <1>4, <2>1, OpenHas DEF Has, IsOpen
<1>8. PICK n \in Ids : n = sock[s].id /\ ~Listening(n)
  BY OpenHas
<1>9. Told(n, "end") /\ ~Listening(n)' /\ ~Has(n)'
  BY <1>1, <1>7, <1>8 DEF ListeningKept
<1>10. Ended'
  BY <1>1, <1>7, <1>9 DEF Sound, Ended, ListeningKept, Told
<1> QED
  BY <1>2, <1>5, <1>6, <1>10 DEF Sound

\* The polling thread begins to close the socket of a slot.
LEMMA EndSound ==
  ASSUME Types, Sound, NEW s \in Slots, IsOpen(s), Ends(s, sock[s].id), at # "close",
         ListeningKept, UNCHANGED <<ready, heard, call>>
  PROVE  Sound'
<1>1. /\ Others(s) /\ sock'[s].id = sock[s].id /\ sock'[s].status = sock[s].status /\ ~sock'[s].reg
      /\ at' = "close" /\ op'.slot = s /\ op'.id = sock[s].id /\ failed' = failed
  BY DEF Ends, Ending, Alike
<1>2. Claimed' /\ OneClaim'
  BY <1>1, ClaimsStay DEF ReservedKept, IsOpen
<1>3. \A t \in Slots : IsOpen(t)' = IsOpen(t) /\ sock'[t].id = sock[t].id
  BY <1>1 DEF Others, IsOpen
<1>4. OpenSlots'
  BY <1>1, <1>3 DEF Sound, OpenSlots, Others, Closing
<1>5. OpenInHand'
  BY <1>1, <1>3, ReadyOpen DEF Sound, OpenInHand
<1>6. \A i \in Ids : Has(i)' = Has(i)
  BY <1>3, PosType DEF Has
<1>7. Ended'
  BY <1>6 DEF Sound, Ended, ListeningKept
<1> QED
  BY <1>1, <1>2, <1>4, <1>5, <1>7 DEF Sound

\* A reserved slot gets its socket.
LEMMA MadeSound ==
  ASSUME Types, Sound, NEW i \in Ids, NEW st \in {"plisten", "paccept"}, Making(i, st),
         sock[Pos(i)].status = "reserve", ListeningKept, ~Listening(i)', "end" \notin heard[i],
         at' = "loop", at # "close", UNCHANGED <<heard, call, failed>>, ready' \subseteq ready,
         \A c \in Services : call[c].pc = "reserved" => Pos(call[c].id) # Pos(i),
         \A n \in Ids : Listening(n)' => Pos(n) # Pos(i)
  PROVE  Sound'
<1>1. /\ Pos(i) \in Slots /\ \A t \in Slots : t # Pos(i) => sock'[t] = sock[t]
      /\ sock'[Pos(i)].id = i /\ sock'[Pos(i)].status = st
      /\ ~sock'[Pos(i)].reg /\ sock'[Pos(i)].size = Len(sock'[Pos(i)].list)
  BY DEF Making, Others
<1>2. \A n \in Ids : Pos(n) \in Slots
  BY PosType
<1>3. Claimed'
  BY <1>1, <1>2, Hands DEF Sound, Claimed, ListeningKept
<1>4. OneClaim'
  BY DEF Sound, OneClaim, ListeningKept
<1>5. \A t \in Slots : IsOpen(t) => t # Pos(i) /\ IsOpen(t)' /\ sock'[t] = sock[t]
  BY <1>1 DEF IsOpen
<1>6. \A t \in Slots : IsOpen(t)' => t = Pos(i) \/ IsOpen(t)
  BY <1>1 DEF IsOpen
<1>7. OpenSlots'
  BY <1>1, <1>5, <1>6 DEF Sound, OpenSlots, Closing, IsOpen
<1>8. OpenInHand'
  BY <1>5, ReadyOpen DEF Sound, OpenInHand
<1>9. \A n \in Ids : Has(n)' => n = i \/ Has(n)
  BY <1>1, <1>2, <1>6 DEF Has
<1>10. Ended'
  BY <1>9 DEF Sound, Ended, ListeningKept
<1> QED
  BY <1>3, <1>4, <1>7, <1>8, <1>10 DEF Sound

\* A free slot is reserved.
LEMMA ReservedSound ==
  ASSUME Types, Sound, NEW i \in Ids, sock[Pos(i)].status = "invalid", Reserving(Pos(i)),
         UNCHANGED <<pipe, heard, failed>>, ready' = ready
  PROVE  /\ \A n \in Ids : sock[Pos(n)].status = "reserve" =>
              Pos(n) # Pos(i) /\ sock'[Pos(n)] = sock[Pos(n)]
         /\ sock'[Pos(i)].status = "reserve"
         /\ \A s \in Slots : IsOpen(s)' <=> IsOpen(s)
         /\ \A s \in Slots : sock'[s].id = sock[s].id
         /\ at' # "close" /\ at # "close" => OpenSlots'
         /\ (at' = at /\ op' = op) => OpenSlots' /\ OpenInHand'
         /\ Ended'
<1>1. /\ Pos(i) \in Slots /\ \A t \in Slots : t # Pos(i) => sock'[t] = sock[t]
      /\ sock'[Pos(i)].status = "reserve" /\ sock'[Pos(i)].id = sock[Pos(i)].id
      /\ sock'[Pos(i)].reg = sock[Pos(i)].reg
  BY DEF Reserving, Others, Alike
<1>2. \A n \in Ids : Pos(n) \in Slots
  BY PosType
<1>3. \A n \in Ids : sock[Pos(n)].status = "reserve" =>
        Pos(n) # Pos(i) /\ sock'[Pos(n)] = sock[Pos(n)]
  BY <1>1, <1>2
<1>4. \A s \in Slots : IsOpen(s)' <=> IsOpen(s)
  BY <1>1 DEF IsOpen
<1>5. \A s \in Slots : sock'[s].id = sock[s].id
  BY <1>1
<1>6. ~IsOpen(Pos(i)) /\ ~sock'[Pos(i)].reg
  BY <1>1 DEF Sound, OpenSlots, IsOpen
<1>7. at' # "close" /\ at # "close" => OpenSlots'
  BY <1>1, <1>4, <1>6 DEF Sound, OpenSlots, Closing
<1>8. at' = at /\ op' = op => OpenSlots' /\ OpenInHand'
  <2> HAVE at' = at /\ op' = op
  <2>1. OpenSlots'
    BY <1>1, <1>4, <1>6 DEF Sound, OpenSlots, Closing
  <2>2. OpenInHand'
    BY <1>4, <1>5, ReadyOpen, Hands DEF Sound, OpenInHand
  <2> QED
    BY <2>1, <2>2
<1>9. Ended'
  BY <1>2, <1>4, <1>5 DEF Sound, Ended, Has, Listening
<1> QED
  BY <1>1, <1>3, <1>4, <1>5, <1>7, <1>8, <1>9

LEMMA NoFailure ==
  ASSUME Types, Sound, NEW s \in Slots, IsOpen(s), at # "close"
  PROVE  ~Fails(s) /\ ~ClosesNot(s)
BY DEF Sound, OpenSlots, Closing, IsOpen, Fails, ClosesNot

LEMMA ListeningStays ==
  /\ pipe' = pipe => ListeningKept
  /\ \A d : Posting(d) /\ d.cmd # "L" => ListeningKept
  /\ \A x, i : Taking(x, i) => ListeningKept
<1>1. pipe' = pipe => ListeningKept
  BY DEF ListeningKept, Listening
<1>2. ASSUME NEW d, Posting(d), d.cmd # "L"
      PROVE  ListeningKept
  BY <1>2 DEF ListeningKept, Listening, Posting
<1>3. ASSUME NEW x, NEW i, Taking(x, i)
      PROVE  ListeningKept
  BY <1>3, Taker DEF ListeningKept
<1> QED
  BY <1>1, <1>2, <1>3

LEMMA ServiceSound ==
  ASSUME CountInv, Sound, ~stale', NEW c \in Services, Service(c) \/ InCall(c)
  PROVE  Sound'
<1> USE DEF CountInv, OnceInv, SlotsInv
<1>0. Fresh \/ ready' # ready
  BY ReadyOpen DEF Fresh, Sound
<1>1. CASE Listen(c)
  <2>1. PICK i \in Ids :
          /\ alloc < i /\ alloc' = i /\ sock[Pos(i)].status = "invalid"
          /\ Reserving(Pos(i)) /\ Going(c, "reserved", i)
    BY <1>1, ListenStep
  <2>2. UNCHANGED <<pipe, at, op, ready, heard, failed>>
    BY <1>1, ListenStep DEF Elsewhere, pollVars
  <2>3. OpenSlots' /\ OpenInHand' /\ Ended'
    BY <2>1, <2>2, ReservedSound
  <2>4. \A n \in Ids : sock[Pos(n)].status = "reserve" =>
          Pos(n) # Pos(i) /\ sock'[Pos(n)] = sock[Pos(n)]
    BY <2>1, <2>2, ReservedSound
  <2>5. sock'[Pos(i)].status = "reserve"
    BY <2>1, <2>2, ReservedSound
  <2>6. Claimed'
    BY <2>1, <2>2, <2>4, <2>5, Hands DEF Sound, Claimed, Going, Listening
  <2>7. \A d \in Services : d # c /\ call'[d].pc = "reserved" =>
          call[d].pc = "reserved" /\ call'[d].id = call[d].id /\ Pos(call[d].id) # Pos(i)
    BY <2>1, <2>4, Hands DEF Sound, Claimed, Going
  <2>8. at = "accept" => Pos(op.id) # Pos(i)
    BY <2>4, Hands DEF Locked
  <2>9. \A n \in Ids : Listening(n) => Pos(n) # Pos(i)
    BY <2>4 DEF Sound, Claimed
  <2>10. OneClaim'
    BY <2>1, <2>2, <2>7, <2>8, <2>9 DEF Sound, OneClaim, Going, Listening
  <2> QED
    BY <2>2, <2>3, <2>6, <2>10 DEF Sound
<1>2. CASE ListenPost(c)
  <2> DEFINE i == call[c].id
  <2>1. call[c].pc = "reserved" /\ i \in Ids /\ Naming(Pos(i), i) /\ Going(c, "idle", None)
    BY <1>2, ListenPostStep
  <2>2. UNCHANGED <<at, op, ready, heard, failed>>
    BY <1>2, ListenPostStep DEF Elsewhere, pollVars
  <2>3. PICK d : Posting(d) /\ d = [cmd |-> "L", id |-> i]
    BY <1>2, ListenPostStep
  <2>4. \A n \in Ids : Listening(n)' => Listening(n) \/ n = i
    BY <2>3 DEF Posting, Listening
  <2>5. sock[Pos(i)].status = "reserve" /\ Pos(i) \in Slots
    BY <2>1, PosType DEF Sound, Claimed
  <2>6. \A t \in Slots : t # Pos(i) => sock'[t] = sock[t]
    BY <2>1 DEF Naming, Others
  <2>7. sock'[Pos(i)].status = "reserve" /\ sock'[Pos(i)].id = i
        /\ sock'[Pos(i)].reg = sock[Pos(i)].reg
    BY <2>1, <2>5 DEF Naming, Stands
  <2>8. \A e \in Services : call'[e].pc = "reserved" =>
          e # c /\ call[e].pc = "reserved" /\ call'[e].id = call[e].id
    BY <2>1 DEF Going
  <2>9. \A e \in Services : call'[e].pc = "reserved" => Pos(call'[e].id) # Pos(i)
    BY <2>1, <2>8 DEF Sound, OneClaim
  <2>10. \A n \in Ids : Listening(n) => Pos(n) # Pos(i)
    BY <2>1 DEF Sound, OneClaim
  <2>11. Claimed'
    BY <2>4, <2>6, <2>7, <2>8, <2>9, <2>10, Hands, PosType DEF Sound, Claimed
  <2>12. OneClaim'
    <3>1. at = "accept" => Pos(op.id) # Pos(i)
      BY <2>1 DEF Sound, OneClaim
    <3> QED
      BY <2>2, <2>4, <2>8, <2>9, <3>1 DEF Sound, OneClaim
  <2>13. \A t \in Slots : IsOpen(t)' <=> IsOpen(t)
    BY <2>5, <2>6, <2>7 DEF IsOpen
  <2>14. \A t \in Slots : IsOpen(t) => sock'[t] = sock[t]
    BY <2>5, <2>6 DEF IsOpen
  <2>15. OpenSlots'
    <3>1. \A t \in Slots : sock'[t].reg = sock[t].reg
      BY <2>6, <2>7
    <3> QED
      BY <2>2, <2>13, <2>14, <3>1 DEF Sound, OpenSlots, Closing
  <2>16. OpenInHand'
    BY <2>2, <2>13, <2>14, ReadyOpen, Hands DEF Sound, OpenInHand
  <2>17. Ended'
    <3>1. \A n \in Ids : Has(n)' => Has(n)
      BY <2>13, <2>14, PosType DEF Has
    <3>2. heard[i] = {}
      BY <2>1 DEF Once, Silent
    <3> QED
      BY <2>2, <2>4, <3>1, <3>2 DEF Sound, Ended
  <2> QED
    BY <2>2, <2>11, <2>12, <2>15, <2>16, <2>17 DEF Sound
<1>3. ASSUME NEW i \in Ids, Send(c, i)
      PROVE  Sound'
  <2>1. UNCHANGED <<sock, pipe>> /\ (call' = call \/ Going(c, "probe", i))
    BY <1>3, SendStep
  <2>2. UNCHANGED <<at, op, ready, heard, failed>>
    BY <1>3, SendStep DEF Elsewhere, pollVars
  <2>3. ReservedKept
    BY <2>1 DEF ReservedKept, Going
  <2> QED
    BY <1>0, <2>1, <2>2, <2>3, SameFaces, ListeningStays, Calm
<1>4. ASSUME NEW i \in Ids, NEW x \in {"S", "K", "H"}, Request(c, x, i)
      PROVE  Sound'
  <2>1. UNCHANGED <<sock, call>>
    BY <1>4, RequestStep
  <2>2. UNCHANGED <<at, op, ready, heard, failed>>
    BY <1>4, RequestStep DEF Elsewhere, pollVars
  <2>3. PICK d : Posting(d) /\ d = [cmd |-> x, id |-> i]
    <3>1. Posting([cmd |-> x, id |-> i])
      BY <1>4, RequestStep
    <3> QED
      BY <3>1
  <2>4. d.cmd # "L"
    BY <2>3
  <2>5. ReservedKept
    BY <2>1 DEF ReservedKept
  <2> QED
    BY <1>0, <2>1, <2>2, <2>3, <2>4, <2>5, SameFaces, ListeningStays, Calm
<1>5. CASE Probe(c) \/ Try(c) \/ Verify(c)
  <2>1. UNCHANGED <<sock, pipe>> /\ (\E p \in SendSteps : Going(c, p, call[c].id))
    BY <1>5, ProbeStep DEF SendSteps
  <2>2. UNCHANGED <<at, op, ready, heard, failed>>
    BY <1>5, ProbeStep DEF Elsewhere, pollVars
  <2>3. ReservedKept
    BY <2>1 DEF ReservedKept, Going, SendSteps
  <2> QED
    BY <1>0, <2>1, <2>2, <2>3, SameFaces, ListeningStays, Calm
<1>6. CASE DirectWrite(c)
  <2>1. Tending(Pos(call[c].id)) /\ pipe' = pipe /\ Going(c, "idle", None)
    BY <1>6, DirectWriteStep
  <2>2. UNCHANGED <<at, op, ready, heard, failed>>
    BY <1>6, DirectWriteStep DEF pollVars
  <2>3. ReservedKept
    BY <2>1 DEF ReservedKept, Going
  <2> QED
    BY <1>0, <2>1, <2>2, <2>3, SameFaces, ListeningStays, Calm
<1>7. CASE Inc(c)
  <2>1. pipe' = pipe /\ Going(c, "post", call[c].id)
    BY <1>7, IncStep
  <2>2. Faces
    BY <1>7, IncStep, SameFaces
  <2>3. UNCHANGED <<at, op, ready, heard, failed>>
    BY <1>7, IncStep DEF Elsewhere, pollVars
  <2>4. ReservedKept
    BY <2>1 DEF ReservedKept, Going
  <2> QED
    BY <1>0, <2>1, <2>2, <2>3, <2>4, ListeningStays, Calm
<1>8. CASE Post(c)
  <2>1. sock' = sock /\ Going(c, "idle", None)
    BY <1>8, PostStep
  <2>2. UNCHANGED <<at, op, ready, heard, failed>>
    BY <1>8, PostStep DEF Elsewhere, pollVars
  <2>3. PICK d : Posting(d) /\ d = [cmd |-> "D", id |-> call[c].id, msg |-> Message(c)]
    BY <1>8, PostStep
  <2>4. d.cmd # "L"
    BY <2>3
  <2>5. ReservedKept
    BY <2>1 DEF ReservedKept, Going
  <2> QED
    BY <1>0, <2>1, <2>2, <2>3, <2>4, <2>5, SameFaces, ListeningStays, Calm
<1> QED
  BY <1>1, <1>2, <1>3, <1>4, <1>5, <1>6, <1>7, <1>8 DEF Service, InCall

LEMMA CommandSound ==
  ASSUME CountInv, Sound, ~stale', Command
  PROVE  Sound'
<1> USE DEF CountInv, OnceInv, SlotsInv
<1>0. (ready' = ready => Fresh) /\ (ready' = {} => Fresh)
  BY ReadyOpen DEF Fresh, Sound
<1>1. CASE ListenSocket
  <2>1. PICK i \in Ids :
          /\ Taking("L", i)
          /\ \/ /\ sock[Pos(i)].status = "reserve" /\ failed' = failed
                /\ Making(i, "plisten")
             \/ sock[Pos(i)].status # "reserve" /\ failed' = "slot" /\ sock' = sock
    BY <1>1, ListenSocketStep
  <2>2. UNCHANGED <<at, op, ready, heard, call>> /\ at = "loop"
    BY <1>1, <2>1, ListenSocketStep DEF Apart, Taking
  <2>3. Listening(i)
    BY <2>1 DEF Taking, Listening
  <2>4. sock[Pos(i)].status = "reserve" /\ sock[Pos(i)].id = i /\ "end" \notin heard[i]
    BY <2>3 DEF Sound, Claimed, Ended
  <2>5. ListeningKept /\ ~Listening(i)'
    BY <2>1, ListeningStays, Taker
  <2>6. \A c \in Services : call[c].pc = "reserved" => Pos(call[c].id) # Pos(i)
    BY <2>3 DEF Sound, OneClaim
  <2>7. \A n \in Ids : Listening(n)' => Pos(n) # Pos(i)
    <3> SUFFICES ASSUME NEW n \in Ids, Listening(n)', Pos(n) = Pos(i)
                 PROVE  FALSE
      OBVIOUS
    <3>1. sock[Pos(n)].id = n
      BY <2>5 DEF ListeningKept, Sound, Claimed
    <3>2. n = i
      BY <2>4, <3>1
    <3> QED
      BY <2>5, <3>2
  <2> QED
    BY <2>1, <2>2, <2>4, <2>5, <2>6, <2>7, MadeSound
<1>2. CASE StartSocket
  <2>1. PICK i \in Ids : LET k == sock[Pos(i)] IN
          /\ Taking("S", i) /\ Meets(k, i)
          /\ \/ Missing(k, i) /\ Told(i, "end") /\ Back /\ UNCHANGED <<sock, failed>>
             \/ /\ ~Missing(k, i) /\ k.status \in {"paccept", "plisten"}
                /\ Starting(Pos(i))
                /\ Told(i, "open") /\ Back /\ failed' = failed
             \/ ~Missing(k, i) /\ Ends(Pos(i), i) /\ UNCHANGED <<ready, heard>>
             \/ /\ ~Missing(k, i) /\ k.status = "connected"
                /\ Told(i, "open") /\ Back /\ UNCHANGED <<sock, failed>>
             \/ UNCHANGED <<at, op, ready, heard, sock, failed>>
    BY <1>2, StartSocketStep
  <2> DEFINE s == Pos(i)
             k == sock[s]
  <2>2. call' = call /\ at = "loop" /\ s \in Slots
    BY <1>2, <2>1, StartSocketStep, PosType DEF Apart, Taking
  <2>3. ListeningKept /\ ~Listening(i)' /\ ReservedKept
    BY <2>1, <2>2, ListeningStays, Taker DEF ReservedKept
  <2>4. ~Missing(k, i) => IsOpen(s) /\ k.id = i
    BY <2>1 DEF Missing, Meets, IsOpen
  <2>5. ~Missing(k, i) => "end" \notin heard[i]
    BY <2>2, <2>4, OpenHas
  <2>6. Missing(k, i) => ~Has(i)
    BY DEF Missing, Has, IsOpen
  <2>7. CASE Missing(k, i) /\ Told(i, "end") /\ Back /\ UNCHANGED <<sock, failed>>
    <3>1. Tells(i, "end") /\ Idles
      BY <2>2, <2>3, <2>6, <2>7 DEF Tells, Back, Idles
    <3> QED
      BY <1>0, <2>3, <2>7, <3>1, SameFaces, Calm DEF Back
  <2>8. CASE /\ ~Missing(k, i) /\ k.status \in {"paccept", "plisten"}
             /\ Starting(s)
             /\ Told(i, "open") /\ Back /\ failed' = failed
    <3>1. Others(s) /\ sock'[s].id = i /\ IsOpen(s)' /\ IsOpen(s)
          /\ sock'[s].size = sock[s].size /\ sock'[s].list = sock[s].list
      BY <2>4, <2>8 DEF Starting, Alike, Queues, IsOpen
    <3>2. Claimed' /\ OneClaim'
      BY <2>3, <2>8, <3>1, ClaimsStay DEF Back
    <3>3. \A t \in Slots : (IsOpen(t)' <=> IsOpen(t)) /\ sock'[t].id = sock[t].id
      BY <2>4, <2>8, <3>1 DEF Others, IsOpen
    <3>4. OpenSlots'
      BY <2>2, <2>8, <3>1, <3>3 DEF Sound, OpenSlots, Others, Closing, Back
    <3>5. OpenInHand'
      BY <2>8 DEF OpenInHand, Back
    <3>6. \A n \in Ids : Has(n)' <=> Has(n)
      BY <3>3, PosType DEF Has
    <3>7. Ended'
      BY <2>3, <2>5, <2>8, <3>6 DEF Sound, Ended, ListeningKept, Told
    <3> QED
      BY <2>8, <3>2, <3>4, <3>5, <3>7 DEF Sound
  <2>9. CASE ~Missing(k, i) /\ Ends(s, i) /\ UNCHANGED <<ready, heard>>
    BY <2>2, <2>3, <2>4, <2>9, EndSound
  <2>10. CASE /\ ~Missing(k, i) /\ k.status = "connected"
              /\ Told(i, "open") /\ Back /\ UNCHANGED <<sock, failed>>
    <3>1. Tells(i, "open") /\ Idles
      BY <2>2, <2>5, <2>10 DEF Tells, Back, Idles
    <3> QED
      BY <1>0, <2>3, <2>10, <3>1, SameFaces, Calm DEF Back
  <2>11. CASE UNCHANGED <<at, op, ready, heard, sock, failed>>
    BY <1>0, <2>3, <2>11, SameFaces, Calm
  <2> QED
    BY <2>1, <2>7, <2>8, <2>9, <2>10, <2>11
<1>3. CASE SendSocket
  <2>1. PICK i \in Ids : LET k == sock[Pos(i)] IN
          /\ Taking("D", i)
          /\ \/ sock' = sock
             \/ /\ ~Missing(k, i)
                /\ Tending(Pos(i))
          /\ at' = "dec"
    BY <1>3, SendSocketStep
  <2>2. UNCHANGED <<ready, heard, failed, call>>
    BY <1>3, SendSocketStep DEF Apart
  <2>3. Faces /\ ListeningKept
    BY <2>1, SameFaces, ListeningStays
  <2>4. Idles /\ ReservedKept
    BY <2>1, <2>2 DEF Idles, Taking, ReservedKept
  <2> QED
    BY <1>0, <2>2, <2>3, <2>4, Calm
<1>4. ASSUME NEW x \in {"K", "H"}, CloseSocket(x)
      PROVE  Sound'
  <2>1. PICK i \in Ids : LET k == sock[Pos(i)] IN
          /\ Taking(x, i) /\ Meets(k, i)
          /\ \/ Missing(k, i) /\ Told(i, "end") /\ Back
             \/ /\ ~Missing(k, i) /\ at' \in {"ask", "flush"}
                /\ op'.slot = Pos(i) /\ op'.id = i
                /\ UNCHANGED <<ready, heard>>
    BY <1>4, CloseSocketStep
  <2> DEFINE s == Pos(i)
             k == sock[s]
  <2>2. UNCHANGED <<sock, call, failed>> /\ at = "loop" /\ s \in Slots
    BY <1>4, <2>1, CloseSocketStep, PosType DEF Apart, Taking
  <2>3. Faces /\ ListeningKept /\ ~Listening(i)' /\ ReservedKept
    BY <2>1, <2>2, ListeningStays, SameFaces, Taker DEF ReservedKept
  <2>4. CASE Missing(k, i) /\ Told(i, "end") /\ Back
    <3>1. Tells(i, "end") /\ Idles
      BY <2>2, <2>3, <2>4 DEF Tells, Back, Idles, Missing, Has, IsOpen
    <3> QED
      BY <1>0, <2>2, <2>3, <2>4, <3>1, Calm DEF Back
  <2>5. CASE /\ ~Missing(k, i) /\ at' \in {"ask", "flush"}
             /\ op'.slot = s /\ op'.id = i
             /\ UNCHANGED <<ready, heard>>
    <3>1. Holds(s)
      BY <2>1, <2>2, <2>5 DEF Holds, Missing, Meets, IsOpen
    <3> QED
      BY <1>0, <2>2, <2>3, <2>5, <3>1, Calm
  <2> QED
    BY <2>1, <2>4, <2>5
<1> QED
  BY <1>1, <1>2, <1>3, <1>4 DEF Command

LEMMA InsideSound ==
  ASSUME CountInv, Sound, CountInv', Inside
  PROVE  Sound'
<1> USE DEF CountInv, OnceInv, SlotsInv
<1>0. (ready' = ready => Fresh) /\ (ready' = {} => Fresh)
  BY ReadyOpen DEF Fresh, Sound
<1>1. CASE Close
  <2>1. /\ at = "close" /\ op.slot \in Slots
        /\ Shutting(op.slot) /\ Told(op.id, "end") /\ Back
        /\ UNCHANGED <<pipe, call, failed>>
    BY <1>1, CloseStep DEF Apart
  <2>2. IsOpen(op.slot) /\ sock[op.slot].id = op.id
    BY <2>1 DEF Sound, OpenInHand
  <2> QED
    BY <2>1, <2>2, ShutSound
<1>2. CASE Dec
  <2>1. at = "dec" /\ at' = "loop" /\ UNCHANGED <<ready, pipe, heard, call>>
    BY <1>2, DecStep DEF Apart
  <2>2. Faces /\ failed' = failed
    BY <1>2, DecStep, SameFaces
  <2>3. ListeningKept /\ ReservedKept /\ Idles
    BY <2>1, ListeningStays DEF ReservedKept, Idles
  <2> QED
    BY <1>0, <2>1, <2>2, <2>3, Calm
<1>3. CASE CloseFlush
  <2>1. at = "flush" /\ op.slot \in Slots /\ UNCHANGED <<pipe, call>>
    BY <1>3, CloseFlushStep DEF Apart
  <2>2. IsOpen(op.slot) /\ sock[op.slot].id = op.id
    BY <2>1 DEF Sound, OpenInHand
  <2>3. CASE ShutsSlot(op.slot)
    BY <2>1, <2>2, <2>3, ShutSound DEF ShutsSlot
  <2>4. CASE /\ Tending(op.slot)
             /\ at' = "ask" /\ op' = op /\ ready' = ready
             /\ UNCHANGED <<heard, failed>>
    <3>1. Faces /\ ListeningKept /\ ReservedKept /\ Holds(op.slot)
      BY <2>1, <2>2, <2>4, SameFaces, ListeningStays DEF ReservedKept, Holds
    <3> QED
      BY <1>0, <2>4, <3>1, Calm
  <2> QED
    BY <1>3, <2>1, <2>2, <2>3, <2>4, CloseFlushStep, NoFailure
<1>4. CASE CloseAsk
  <2>1. at = "ask" /\ op.slot \in Slots /\ UNCHANGED <<ready, pipe, heard, call>>
    BY <1>4, CloseAskStep DEF Apart
  <2>2. IsOpen(op.slot) /\ sock[op.slot].id = op.id
    BY <2>1 DEF Sound, OpenInHand
  <2>3. ListeningKept /\ ReservedKept
    BY <2>1, ListeningStays DEF ReservedKept
  <2>4. CASE Ends(op.slot, op.id)
    BY <2>1, <2>2, <2>3, <2>4, EndSound
  <2>5. CASE Halving(op.slot) /\ at' = "loop" /\ failed' = failed
    <3>0. PICK s \in Slots : s = op.slot
      BY <2>1
    <3>1. /\ Others(s) /\ sock'[s].id = sock[s].id /\ sock'[s].reg = sock[s].reg
          /\ sock'[s].size = sock[s].size /\ sock'[s].list = sock[s].list
          /\ IsOpen(s) /\ IsOpen(s)'
      BY <2>2, <2>5, <3>0 DEF Halving, Alike, Queues, IsOpen
    <3>2. Claimed' /\ OneClaim'
      BY <2>2, <2>3, <2>5, <3>1, ClaimsStay DEF IsOpen
    <3>3. \A t \in Slots : (IsOpen(t)' <=> IsOpen(t)) /\ sock'[t].id = sock[t].id
      BY <3>1 DEF Others, IsOpen
    <3>4. OpenSlots'
      BY <2>1, <2>5, <3>1, <3>3 DEF Sound, OpenSlots, Others, Closing
    <3>5. OpenInHand'
      BY <2>1, <2>5, <3>3, ReadyOpen DEF Sound, OpenInHand
    <3>6. \A n \in Ids : Has(n)' <=> Has(n)
      BY <3>3, PosType DEF Has
    <3>7. Ended'
      BY <2>1, <2>3, <3>6 DEF Sound, Ended, ListeningKept
    <3> QED
      BY <2>5, <3>2, <3>4, <3>5, <3>7 DEF Sound
  <2> QED
    BY <1>4, <2>1, <2>2, <2>4, <2>5, CloseAskStep, NoFailure
<1>5. CASE Accepted
  <2>1. /\ at = "accept" /\ op.id \in Ids
        /\ Making(op.id, "paccept") /\ Back
        /\ UNCHANGED <<pipe, heard, call, failed>>
    BY <1>5, AcceptedStep DEF Apart, Ided
  <2>2. sock[Pos(op.id)].status = "reserve" /\ heard[op.id] = {}
    BY <2>1 DEF Locked, Once, Silent
  <2>3. ListeningKept
    BY <2>1, ListeningStays
  <2>4. \A c \in Services : call[c].pc = "reserved" => Pos(call[c].id) # Pos(op.id)
    BY <2>1 DEF Sound, OneClaim
  <2>5. \A n \in Ids : Listening(n) => Pos(n) # Pos(op.id)
    BY <2>1 DEF Sound, OneClaim
  <2>6. PICK i \in Ids : i = op.id
    BY <2>1
  <2>7. \A n \in Ids : Listening(n)' => Pos(n) # Pos(i)
    BY <2>3, <2>5, <2>6 DEF ListeningKept
  <2> QED
    BY <2>1, <2>2, <2>3, <2>4, <2>6, <2>7, MadeSound DEF Back
<1>6. CASE Drained
  <2>1. UNCHANGED <<sock, at, op, ready, pipe, heard, call, failed>>
    BY <1>6, DrainedStep DEF Apart
  <2>2. ReservedKept
    BY <2>1 DEF ReservedKept
  <2> QED
    BY <1>0, <2>1, <2>2, SameFaces, ListeningStays, Calm
<1> QED
  BY <1>1, <1>2, <1>3, <1>4, <1>5, <1>6 DEF Inside

LEMMA HandleSound ==
  ASSUME CountInv, Sound, Wait \/ \E e \in ready : Handle(e)
  PROVE  Sound'
<1> USE DEF CountInv, OnceInv, SlotsInv
<1>0. \A e \in ready : e.slot \in Slots /\ IsOpen(e.slot) /\ sock[e.slot].id = e.id
  BY ReadyOpen DEF Sound
<1>1. CASE Wait
  <2>1. /\ at' \in {"first", "loop"} /\ at = "loop"
        /\ UNCHANGED <<sock, pipe, heard, call, failed>>
    BY <1>1, WaitStep DEF Apart
  <2>2. \A e \in ready' : e.slot \in Slots /\ sock[e.slot].reg /\ e.id = sock[e.slot].id
    BY <1>1, WaitStep
  <2>3. Fresh
    BY <2>2 DEF Fresh, Sound, OpenSlots
  <2>4. ReservedKept /\ Idles
    BY <2>1 DEF ReservedKept, Idles
  <2> QED
    BY <2>1, <2>3, <2>4, SameFaces, ListeningStays, Calm
<1>2. ASSUME NEW e \in ready, Accept(e)
      PROVE  Sound'
  <2>1. /\ e.slot \in Slots /\ at \in {"loop", "first"}
        /\ UNCHANGED <<pipe, heard, call, failed>>
    BY <1>2, AcceptStep DEF Apart
  <2>2. CASE sock' = sock /\ at' = "loop" /\ ready' \subseteq ready
    <3>1. Fresh /\ Idles /\ ReservedKept
      BY <1>0, <2>1, <2>2 DEF Fresh, Idles, ReservedKept
    <3> QED
      BY <2>1, <2>2, <3>1, SameFaces, ListeningStays, Calm
  <2>3. ASSUME NEW i \in Ids, sock[Pos(i)].status = "invalid", Reserving(Pos(i)),
               at' = "accept", op'.slot = e.slot, op'.id = i, ready' = ready
        PROVE  Sound'
    <3>1. OpenSlots' /\ Ended'
      BY <2>1, <2>3, ReservedSound
    <3>2. \A n \in Ids : sock[Pos(n)].status = "reserve" =>
            Pos(n) # Pos(i) /\ sock'[Pos(n)] = sock[Pos(n)]
      BY <2>1, <2>3, ReservedSound
    <3>3. \A s \in Slots : (IsOpen(s)' <=> IsOpen(s)) /\ sock'[s].id = sock[s].id
      BY <2>1, <2>3, ReservedSound
    <3>4. OpenInHand'
      BY <1>0, <2>1, <2>3, <3>3 DEF Sound, OpenInHand
    <3>5. Claimed'
      BY <2>1, <3>2, Hands DEF Sound, Claimed, Listening
    <3>6. \A c \in Services : call[c].pc = "reserved" => Pos(call[c].id) # Pos(i)
      BY <3>2, Hands DEF Sound, Claimed
    <3>7. \A n \in Ids : Listening(n) => Pos(n) # Pos(i)
      BY <3>2 DEF Sound, Claimed
    <3>8. OneClaim'
      BY <2>1, <2>3, <3>6, <3>7 DEF Sound, OneClaim, Listening
    <3> QED
      BY <2>1, <3>1, <3>4, <3>5, <3>8 DEF Sound
  <2> QED
    BY <1>2, <2>2, <2>3, AcceptStep
<1>3. ASSUME NEW e \in ready, Receive(e)
      PROVE  Sound'
  <2> DEFINE s == e.slot
  <2>1. s \in Slots /\ at \in {"loop", "first"} /\ UNCHANGED <<pipe, call>>
    BY <1>3, ReceiveStep DEF Apart
  <2>2. IsOpen(s)
    BY <1>0
  <2>3. ListeningKept /\ ReservedKept
    BY <2>1, ListeningStays DEF ReservedKept
  <2>4. CASE /\ at' = "loop" /\ UNCHANGED <<sock, heard, failed>>
             /\ \A n \in ready' : \E o \in ready : n.slot = o.slot /\ n.id = o.id
    <3>1. Fresh /\ Idles
      BY <1>0, <2>1, <2>4 DEF Fresh, Idles
    <3> QED
      BY <2>3, <2>4, <3>1, SameFaces, Calm
  <2>5. CASE Told(sock[s].id, "data") /\ Back /\ UNCHANGED <<sock, failed>>
    <3>1. Fresh /\ Idles /\ Tells(sock[s].id, "data")
      BY <2>1, <2>2, <2>5, OpenHas DEF Fresh, Idles, Back, Tells
    <3> QED
      BY <2>3, <2>5, <3>1, SameFaces, Calm
  <2>6. CASE Ends(s, sock[s].id) /\ UNCHANGED <<ready, heard>>
    BY <2>1, <2>2, <2>3, <2>6, EndSound
  <2> QED
    BY <1>3, <2>1, <2>2, <2>4, <2>5, <2>6, ReceiveStep, NoFailure
<1>4. ASSUME NEW e \in ready, Write(e)
      PROVE  Sound'
  <2> DEFINE s == e.slot
  <2>1. s \in Slots /\ at \in {"loop", "first"} /\ UNCHANGED <<pipe, call>>
    BY <1>4, WriteStep DEF Apart
  <2>2. IsOpen(s)
    BY <1>0
  <2>3. CASE ShutsSlot(s)
    BY <2>1, <2>2, <2>3, ShutSound DEF ShutsSlot
  <2>4. CASE /\ Tending(s)
             /\ at' = "loop" /\ ready' \subseteq ready
             /\ UNCHANGED <<heard, failed>>
    <3>1. Fresh /\ Idles /\ ReservedKept
      BY <1>0, <2>1, <2>4 DEF Fresh, Idles, ReservedKept
    <3> QED
      BY <2>1, <2>4, <3>1, SameFaces, ListeningStays, Calm
  <2> QED
    BY <1>4, <2>1, <2>2, <2>3, <2>4, WriteStep, NoFailure
<1> QED
  BY <1>1, <1>2, <1>3, <1>4 DEF Handle

\* Once a command or a sender has met another owner, that remains so.
LEMMA StaleStays ==
  ASSUME OnceInv, [Next]_vars
  PROVE  stale => stale'
BY DEF vars, Next, Service, Listen, Send, Request, InCall, ListenPost, Probe, Try, Verify, DirectWrite,
       Inc, Post, Command, ListenSocket, StartSocket, SendSocket, CloseSocket, Meets, Inside, Close,
       Dec, CloseFlush, CloseAsk, Accepted, Drained, Wait, Handle, Accept, Receive, Write, Event

LEMMA SoundNext ==
  ASSUME CountInv, Sound, CountInv', ~stale', [Next]_vars
  PROVE  Sound'
<1>1. CASE UNCHANGED vars
  BY <1>1 DEF vars, slotVars, serviceVars, pollVars, Sound, Claimed, OneClaim, Listening, OpenSlots,
              OpenInHand, IsOpen, Closing, Ended, Has
<1> QED
  BY <1>1, ServiceSound, CommandSound, InsideSound, HandleSound DEF Next

LEMMA SocketStarts ==
  ASSUME Init
  PROVE  SocketInv
<1>1. OnceInv
  BY OnceInit
<1>2. /\ failed = None /\ pipe = <<>> /\ ready = {} /\ at = "loop"
      /\ \A c \in Services : call[c].pc = "idle"
      /\ \A i \in Ids : heard[i] = {}
  BY DEF Init
<1>3. \A s \in Slots : ~IsOpen(s) /\ ~sock[s].reg /\ ~sock[s].tcp
  BY DEF Init, Opened, IsOpen
<1>4. Counted
  BY <1>3 DEF Counted
<1>5. \A i \in Ids : ~Listening(i)
  BY <1>2 DEF Listening
<1>6. Sound
  BY <1>2, <1>3, <1>5 DEF Sound, Claimed, OneClaim, OpenSlots, OpenInHand, Ended
<1> QED
  BY <1>1, <1>2, <1>4, <1>6, SocketAssumption DEF SocketInv, CountInv

\* The invariant from which the theorems below follow.
LEMMA SocketHolds == Spec => []SocketInv
<1>1. Init => SocketInv
  BY SocketStarts
<1>2. SocketInv /\ [Next]_vars => SocketInv'
  <2> SUFFICES ASSUME SocketInv, [Next]_vars
               PROVE  SocketInv'
    OBVIOUS
  <2>1. CountInv /\ CountInv'
    BY CountNext DEF SocketInv
  <2>2. CASE stale'
    BY <2>1, <2>2 DEF SocketInv
  <2>3. CASE ~stale'
    <3>1. ~stale
      BY <2>1, <2>3, StaleStays DEF CountInv
    <3> QED
      BY <2>1, <2>3, <3>1, SoundNext DEF SocketInv
  <2> QED
    BY <2>2, <2>3
<1> QED
  BY <1>1, <1>2, PTL DEF Spec

(***************************************************************************)
(* forwardIn__ of a TCP socket is never less than the packets that are     *)
(* under way to it, and exact until a sender meets the next owner of a     *)
(* slot (incForwardRef, operDecForwardSocket).                             *)
(***************************************************************************)
THEOREM CountersAreExact == Spec => []Counted
<1>1. SocketInv => Counted
  BY DEF SocketInv, CountInv
<1> QED
  BY <1>1, SocketHolds, PTL

(***************************************************************************)
(* No assertion of the socket server fails: the counter's never, those of  *)
(* newSocket, onClose and beginForward only after a stale step.            *)
(***************************************************************************)
THEOREM AssertionsAreKept == Spec => []AssertionsHold
<1>1. SocketInv => AssertionsHold
  BY DEF SocketInv, CountInv, Sound, AssertionsHold
<1> QED
  BY <1>1, SocketHolds, PTL

(***************************************************************************)
(* An event of a poll is handled for the socket it was reported for: the   *)
(* slot named in it has not been closed or given away (onWait).            *)
(***************************************************************************)
THEOREM EventsKeepTheirSocket == Spec => []EventsAreFresh
<1>1. SocketInv => EventsAreFresh
  BY DEF SocketInv, Sound, OpenInHand, IsOpen, EventsAreFresh
<1> QED
  BY <1>1, SocketHolds, PTL

(***************************************************************************)
(* Nothing is forwarded about a socket after its end: neither data nor an  *)
(* opening (forwardSocket, onClose).                                       *)
(***************************************************************************)
THEOREM TheEndIsLast == Spec => []NothingAfterTheEnd
<1>1. SocketInv => NothingAfterTheEnd
  BY DEF SocketInv, Sound, Ended, NothingAfterTheEnd
<1> QED
  BY <1>1, SocketHolds, PTL
-----------------------------------------------------------------------------
(***************************************************************************)
(* The members of a set in ascending order, and the parts of messages.     *)
(***************************************************************************)
\* f enumerates the n members of M, the smaller first.
Climbs(f, n, M) ==
  /\ f \in [1 .. n -> M]
  /\ \A a, b \in 1 .. n : a < b => f[a] < f[b]
  /\ \A m \in M : \E a \in 1 .. n : f[a] = m

UpTo(M, m) == {n \in M : n <= m}

\* There is one such enumeration.
LEMMA AscendingIs ==
  ASSUME NEW M \in SUBSET Nat, NEW n \in Nat, NEW f, Climbs(f, n, M)
  PROVE  IsFiniteSet(M) /\ Cardinality(M) = n /\ Ascending(M) = f
<1>0. /\ f \in [1 .. n -> M]
      /\ \A a, b \in 1 .. n : a < b => f[a] < f[b]
      /\ \A m \in M : \E a \in 1 .. n : f[a] = m
  BY DEF Climbs
<1>1. \A a, b \in 1 .. n : f[a] = f[b] => a = b
  <2> SUFFICES ASSUME NEW a \in 1 .. n, NEW b \in 1 .. n, f[a] = f[b], a # b PROVE FALSE
    OBVIOUS
  <2>1. a < b \/ b < a
    OBVIOUS
  <2>2. f[a] < f[b] \/ f[b] < f[a]
    BY <1>0, <2>1
  <2>3. f[a] \in Nat /\ f[b] \in Nat
    BY <1>0
  <2> QED
    BY <2>2, <2>3
<1>2. \A a, b \in 1 .. n : f[a] <= f[b] => a <= b
  <2> SUFFICES ASSUME NEW a \in 1 .. n, NEW b \in 1 .. n, f[a] <= f[b], b < a PROVE FALSE
    OBVIOUS
  <2>1. f[b] < f[a] /\ f[a] \in Nat /\ f[b] \in Nat
    BY <1>0
  <2> QED
    BY <2>1
<1>3. f \in Bijection(1 .. n, M)
  BY <1>0, <1>1, Fun_IsBij
<1>4. IsFiniteSet(M) /\ Cardinality(M) = n
  <2>1. ExistsBijection(1 .. n, M)
    BY <1>3 DEF ExistsBijection
  <2> QED
    BY <2>1, FS_CountingElements, FS_NatBijection
<1>5. ASSUME NEW k \in 1 .. n PROVE Cardinality(UpTo(M, f[k])) = k
  <2> DEFINE U == UpTo(M, f[k])
             g == [a \in 1 .. k |-> f[a]]
  <2>0. k \in Nat /\ \A a \in 1 .. k : a \in 1 .. n /\ a <= k
    OBVIOUS
  <2>1. \A a \in 1 .. k : f[a] \in U
    <3> TAKE a \in 1 .. k
    <3>1. f[a] \in M /\ f[k] \in M /\ a \in 1 .. n
      BY <1>0, <2>0
    <3>2. a = k \/ f[a] < f[k]
      BY <1>0, <2>0, <3>1
    <3>3. f[a] \in Nat /\ f[k] \in Nat
      BY <3>1
    <3> QED
      BY <3>1, <3>2, <3>3 DEF UpTo
  <2>2. \A m \in U : \E a \in 1 .. k : f[a] = m
    <3> TAKE m \in U
    <3>1. m \in M /\ m <= f[k]
      BY DEF UpTo
    <3>2. PICK a \in 1 .. n : f[a] = m
      BY <1>0, <3>1
    <3>3. a <= k
      BY <1>2, <3>1, <3>2
    <3>4. a \in 1 .. k
      BY <3>3
    <3> QED
      BY <3>2, <3>4
  <2>3. g \in [1 .. k -> U] /\ \A a, b \in 1 .. k : g[a] = g[b] => a = b
    BY <1>1, <2>0, <2>1
  <2>4. \A m \in U : \E a \in 1 .. k : g[a] = m
    BY <2>2
  <2>5. g \in Bijection(1 .. k, U)
    <3> HIDE DEF g, U
    <3> QED
      BY <2>3, <2>4, Fun_IsBij
  <2>6. ExistsBijection(1 .. k, U)
    BY <2>5 DEF ExistsBijection
  <2> HIDE DEF g, U
  <2>7. Cardinality(U) = k
    BY <2>0, <2>6, FS_CountingElements
  <2> QED
    BY <2>7 DEF U
<1>6. ASSUME NEW k \in 1 .. n PROVE (CHOOSE m \in Ranked(M, k) : TRUE) = f[k]
  <2>1. Ranked(M, k) = {m \in M : Cardinality(UpTo(M, m)) = k}
    BY DEF Ranked, UpTo
  <2>2. f[k] \in Ranked(M, k)
    BY <1>0, <1>5, <2>1
  <2>3. \A m \in Ranked(M, k) : m = f[k]
    <3> TAKE m \in Ranked(M, k)
    <3>1. m \in M /\ Cardinality(UpTo(M, m)) = k
      BY <2>1
    <3>2. PICK a \in 1 .. n : f[a] = m
      BY <1>0, <3>1
    <3>3. a = k
      BY <1>5, <3>1, <3>2
    <3> QED
      BY <3>2, <3>3
  <2>4. Ranked(M, k) = {f[k]}
    BY <2>2, <2>3
  <2> QED
    BY <2>4
<1>7. Ascending(M) = [k \in 1 .. n |-> CHOOSE m \in Ranked(M, k) : TRUE]
  BY <1>4 DEF Ascending
<1>8. Ascending(M) = [k \in 1 .. n |-> f[k]]
  BY <1>6, <1>7
<1>9. f = [k \in 1 .. n |-> f[k]]
  BY <1>0
<1> QED
  BY <1>4, <1>8, <1>9

\* And there is one for every finite set.
LEMMA AscendingClimbs ==
  ASSUME NEW M \in SUBSET Nat, IsFiniteSet(M)
  PROVE  Cardinality(M) \in Nat /\ Climbs(Ascending(M), Cardinality(M), M)
<1> DEFINE n == Cardinality(M)
           rank(m) == Cardinality(UpTo(M, m))
<1>1. n \in Nat
  BY FS_CardinalityType
<1>2. ASSUME NEW m \in M
      PROVE  UpTo(M, m) \in SUBSET M /\ m \in UpTo(M, m) /\ IsFiniteSet(UpTo(M, m)) /\ rank(m) \in 1 .. n
  <2>1. m \in Nat /\ UpTo(M, m) \in SUBSET M /\ m \in UpTo(M, m)
    BY DEF UpTo
  <2>2. IsFiniteSet(UpTo(M, m)) /\ rank(m) <= n
    BY <2>1, FS_Subset
  <2>3. rank(m) \in Nat
    BY <2>2, FS_CardinalityType
  <2>4. rank(m) # 0
    BY <2>1, <2>2, FS_EmptySet
  <2> QED
    BY <1>1, <2>1, <2>2, <2>3, <2>4
<1>3. ASSUME NEW a \in M, NEW b \in M, a < b PROVE rank(a) < rank(b)
  <2>1. a \in Nat /\ b \in Nat
    OBVIOUS
  <2>2. UpTo(M, a) \in SUBSET UpTo(M, b) /\ b \in UpTo(M, b) /\ b \notin UpTo(M, a)
    <3>1. \A x \in UpTo(M, a) : x \in M /\ x \in Nat /\ x <= a
      BY DEF UpTo
    <3>2. \A x \in UpTo(M, a) : x <= b
      BY <1>3, <2>1, <3>1
    <3>3. b \notin UpTo(M, a)
      BY <1>3, <2>1, <3>1
    <3> QED
      BY <1>2, <3>1, <3>2, <3>3 DEF UpTo
  <2>3. rank(a) <= rank(b) /\ rank(a) # rank(b)
    BY <1>2, <2>2, FS_Subset
  <2>4. rank(a) \in 1 .. n /\ rank(b) \in 1 .. n
    BY <1>2
  <2> HIDE DEF rank, n
  <2> QED
    BY <1>1, <2>3, <2>4
<1>4. \A a, b \in M : rank(a) = rank(b) => a = b
  <2> SUFFICES ASSUME NEW a \in M, NEW b \in M, rank(a) = rank(b), a # b PROVE FALSE
    OBVIOUS
  <2>1. a < b \/ b < a
    OBVIOUS
  <2>2. rank(a) < rank(b) \/ rank(b) < rank(a)
    BY <1>3, <2>1
  <2>3. rank(a) \in 1 .. n /\ rank(b) \in 1 .. n
    BY <1>2
  <2> HIDE DEF rank, n
  <2> QED
    BY <1>1, <2>2, <2>3
<1>5. \A k \in 1 .. n : \E m \in M : rank(m) = k
  <2> DEFINE r == [m \in M |-> rank(m)]
  <2>1. r \in [M -> 1 .. n] /\ \A a, b \in M : r[a] = r[b] => a = b
    <3> HIDE DEF rank, n
    <3> QED
      BY <1>2, <1>4
  <2>2. r \in Injection(M, 1 .. n)
    <3> HIDE DEF r, n
    <3> QED
      BY <2>1 DEF Injection, IsInjective
  <2>3. IsFiniteSet(1 .. n) /\ Cardinality(1 .. n) = n
    <3> HIDE DEF n
    <3>1. n \in Int /\ 1 \in Int /\ (IF 1 > n THEN 0 ELSE n - 1 + 1) = n
      BY <1>1
    <3> QED
      BY <3>1, FS_Interval
  <2>4. r \in Surjection(M, 1 .. n)
    <3> HIDE DEF r
    <3> QED
      BY <2>2, <2>3, FS_Injection
  <2>5. \A k \in 1 .. n : \E m \in M : r[m] = k
    <3> HIDE DEF r, n
    <3> QED
      BY <2>4 DEF Surjection
  <2> HIDE DEF n
  <2> QED
    BY <2>5
<1> DEFINE f == Ascending(M)
<1>6. ASSUME NEW k \in 1 .. n PROVE f[k] \in M /\ rank(f[k]) = k
  <2>1. Ranked(M, k) = {m \in M : rank(m) = k}
    BY DEF Ranked, UpTo
  <2>2. f[k] = CHOOSE m \in Ranked(M, k) : TRUE
    BY DEF Ascending
  <2> HIDE DEF rank, f, n
  <2>3. \E m : m \in Ranked(M, k)
    BY <1>5, <2>1
  <2>4. f[k] \in Ranked(M, k)
    BY <2>2, <2>3
  <2> QED
    BY <2>1, <2>4
<1>7. f \in [1 .. n -> M]
  <2>1. f = [k \in 1 .. n |-> f[k]]
    BY DEF Ascending
  <2> HIDE DEF f, n
  <2> QED
    BY <1>6, <2>1
<1>8. \A a, b \in 1 .. n : a < b => f[a] < f[b]
  <2> SUFFICES ASSUME NEW a \in 1 .. n, NEW b \in 1 .. n, a < b, ~(f[a] < f[b]) PROVE FALSE
    OBVIOUS
  <2>1. f[a] \in M /\ f[b] \in M /\ rank(f[a]) = a /\ rank(f[b]) = b
    BY <1>6
  <2>2. f[a] = f[b] \/ f[b] < f[a]
    <3>1. f[a] \in Nat /\ f[b] \in Nat
      BY <2>1
    <3> HIDE DEF f, rank, n
    <3> QED
      BY <3>1
  <2>3. rank(f[b]) <= rank(f[a])
    <3>1. CASE f[a] = f[b]
      BY <2>1, <3>1
    <3>2. CASE f[b] < f[a]
      <4> HIDE DEF f, n
      <4>1. rank(f[b]) < rank(f[a])
        BY <1>3, <2>1, <3>2
      <4> HIDE DEF rank
      <4> QED
        BY <1>1, <2>1, <4>1
    <3> QED
      BY <2>2, <3>1, <3>2
  <2> HIDE DEF f, rank, n
  <2> QED
    BY <1>1, <2>1, <2>3
<1>9. \A m \in M : \E a \in 1 .. n : f[a] = m
  <2> TAKE m \in M
  <2>1. rank(m) \in 1 .. n
    BY <1>2
  <2>2. f[rank(m)] \in M /\ rank(f[rank(m)]) = rank(m)
    BY <1>6, <2>1
  <2>3. f[rank(m)] = m
    <3> HIDE DEF rank, f
    <3> QED
      BY <1>4, <2>2
  <2> QED
    BY <2>1, <2>3
<1> QED
  BY <1>1, <1>7, <1>8, <1>9 DEF Climbs

LEMMA AscendingType ==
  ASSUME NEW M \in SUBSET Nat, IsFiniteSet(M)
  PROVE  Ascending(M) \in Seq(Nat) /\ Len(Ascending(M)) = Cardinality(M)
<1>1. Cardinality(M) \in Nat /\ Ascending(M) \in [1 .. Cardinality(M) -> M]
  BY AscendingClimbs DEF Climbs
<1>2. Ascending(M) \in [1 .. Cardinality(M) -> Nat]
  BY <1>1
<1>3. Ascending(M) \in Seq(Nat)
  BY <1>1, <1>2, SeqDef
<1>4. DOMAIN Ascending(M) = 1 .. Len(Ascending(M)) /\ Len(Ascending(M)) \in Nat
  BY <1>3, LenProperties
<1>5. DOMAIN Ascending(M) = 1 .. Cardinality(M)
  BY <1>1
<1> QED
  BY <1>1, <1>3, <1>4, <1>5

\* A set all of whose members are above those of another.
LEMMA AscendingUnion ==
  ASSUME NEW A \in SUBSET Nat, NEW B \in SUBSET Nat, IsFiniteSet(A), IsFiniteSet(B),
         \A a \in A, b \in B : a < b
  PROVE  Ascending(A \cup B) = Ascending(A) \o Ascending(B)
<1> DEFINE f == Ascending(A)
           g == Ascending(B)
           p == Cardinality(A)
           q == Cardinality(B)
           h == f \o g
<1>1. p \in Nat /\ q \in Nat /\ Climbs(f, p, A) /\ Climbs(g, q, B)
  BY AscendingClimbs
<1>2. f \in Seq(Nat) /\ g \in Seq(Nat) /\ Len(f) = p /\ Len(g) = q
  BY AscendingType
<1> HIDE DEF f, g, p, q
<1>3. /\ h \in Seq(Nat) /\ Len(h) = p + q
      /\ \A k \in 1 .. p + q : h[k] = IF k <= p THEN f[k] ELSE g[k - p]
  BY <1>2, ConcatProperties
<1> HIDE DEF h
<1>4. /\ f \in [1 .. p -> A] /\ \A a, b \in 1 .. p : a < b => f[a] < f[b]
      /\ \A m \in A : \E a \in 1 .. p : f[a] = m
      /\ g \in [1 .. q -> B] /\ \A a, b \in 1 .. q : a < b => g[a] < g[b]
      /\ \A m \in B : \E a \in 1 .. q : g[a] = m
  BY <1>1 DEF Climbs
<1>5. \A k \in 1 .. p + q : k <= p => k \in 1 .. p /\ h[k] = f[k] /\ h[k] \in A
  BY <1>1, <1>3, <1>4
<1>6. \A k \in 1 .. p + q : ~(k <= p) => k - p \in 1 .. q /\ h[k] = g[k - p] /\ h[k] \in B
  <2> SUFFICES ASSUME NEW k \in 1 .. p + q, ~(k <= p)
               PROVE  k - p \in 1 .. q /\ h[k] = g[k - p] /\ h[k] \in B
    OBVIOUS
  <2>1. k - p \in 1 .. q
    BY <1>1
  <2>2. h[k] = g[k - p]
    BY <1>3
  <2> QED
    BY <1>4, <2>1, <2>2
<1>7. h \in [1 .. p + q -> A \cup B]
  <2>1. DOMAIN h = 1 .. p + q
    BY <1>3, LenProperties
  <2>2. h \in [1 .. p + q -> Nat]
    BY <1>3, LenProperties
  <2>3. \A k \in 1 .. p + q : h[k] \in A \cup B
    BY <1>5, <1>6
  <2> QED
    BY <2>2, <2>3
<1>8. ASSUME NEW a \in 1 .. p + q, NEW b \in 1 .. p + q, a < b PROVE h[a] < h[b]
  <2>1. CASE a <= p /\ b <= p
    BY <1>8, <1>4, <1>5, <2>1
  <2>2. CASE a <= p /\ ~(b <= p)
    BY <1>5, <1>6, <2>2
  <2>3. CASE ~(a <= p) /\ ~(b <= p)
    <3>1. a - p \in 1 .. q /\ b - p \in 1 .. q /\ h[a] = g[a - p] /\ h[b] = g[b - p]
      BY <1>6, <2>3
    <3>2. a - p < b - p
      BY <1>8, <1>1
    <3>3. g[a - p] < g[b - p]
      BY <1>4, <3>1, <3>2
    <3> QED
      BY <3>1, <3>3
  <2>4. ~(~(a <= p) /\ b <= p)
    BY <1>1, <1>8
  <2> QED
    BY <2>1, <2>2, <2>3, <2>4
<1>9. ASSUME NEW m \in A \cup B PROVE \E k \in 1 .. p + q : h[k] = m
  <2>1. CASE m \in A
    <3>1. PICK a \in 1 .. p : f[a] = m
      BY <1>4, <2>1
    <3>2. a \in 1 .. p + q /\ a <= p
      BY <1>1
    <3> QED
      BY <1>5, <3>1, <3>2
  <2>2. CASE m \in B
    <3>1. PICK a \in 1 .. q : g[a] = m
      BY <1>4, <2>2
    <3>2. a + p \in 1 .. p + q /\ ~(a + p <= p) /\ (a + p) - p = a
      BY <1>1
    <3> QED
      BY <1>6, <3>1, <3>2
  <2> QED
    BY <2>1, <2>2
<1>10. Climbs(h, p + q, A \cup B)
  BY <1>7, <1>8, <1>9 DEF Climbs
<1>11. A \cup B \in SUBSET Nat /\ p + q \in Nat
  BY <1>1
<1>12. Ascending(A \cup B) = h
  BY <1>10, <1>11, AscendingIs
<1> QED
  BY <1>12 DEF f, g, h

LEMMA AscendingFew ==
  /\ Ascending({}) = <<>>
  /\ \A m \in Nat : Ascending({m}) = <<m>>
<1>1. Climbs(<<>>, 0, {})
  <2>1. <<>> \in [1 .. 0 -> {}]
    OBVIOUS
  <2> QED
    BY <2>1 DEF Climbs
<1>2. ASSUME NEW m \in Nat PROVE Ascending({m}) = <<m>>
  <2>1. <<m>> \in [1 .. 1 -> {m}] /\ <<m>>[1] = m
    OBVIOUS
  <2>2. \A a \in 1 .. 1 : a = 1
    OBVIOUS
  <2>3. Climbs(<<m>>, 1, {m})
    BY <2>1, <2>2 DEF Climbs
  <2> QED
    BY <2>3, AscendingIs
<1>3. {} \in SUBSET Nat /\ 0 \in Nat
  OBVIOUS
<1> QED
  BY <1>1, <1>2, <1>3, AscendingIs

\* Parts of a sequence of messages.
LEMMA PartsMean ==
  ASSUME NEW a \in Seq(Nat)
  PROVE  /\ Parts(a) \in Seq(Nat) /\ Len(Parts(a)) = 2 * Len(a)
         /\ \A j \in 1 .. 2 * Len(a) : Parts(a)[j] = a[(j + 1) \div 2]
<1>1. Len(a) \in Nat /\ \A i \in 1 .. Len(a) : a[i] \in Nat
  BY LenProperties
<1>2. \A j \in 1 .. 2 * Len(a) : (j + 1) \div 2 \in 1 .. Len(a)
  BY <1>1
<1>3. 2 * Len(a) \in Nat
  BY <1>1
<1>4. Parts(a) \in [1 .. 2 * Len(a) -> Nat]
  BY <1>1, <1>2 DEF Parts
<1>5. Parts(a) \in Seq(Nat)
  BY <1>3, <1>4, SeqDef
<1>6. DOMAIN Parts(a) = 1 .. Len(Parts(a)) /\ Len(Parts(a)) \in Nat
  BY <1>5, LenProperties
<1>7. DOMAIN Parts(a) = 1 .. 2 * Len(a)
  BY <1>4
<1>8. Len(Parts(a)) = 2 * Len(a)
  <2>1. PICK p, q \in Nat : p = Len(Parts(a)) /\ q = 2 * Len(a)
    BY <1>3, <1>6
  <2>2. 1 .. p = 1 .. q
    BY <1>6, <1>7, <2>1
  <2>3. p = q
    BY <2>2
  <2> QED
    BY <2>1, <2>3
<1> QED
  BY <1>5, <1>8 DEF Parts

LEMMA PartsConcat ==
  ASSUME NEW a \in Seq(Nat), NEW b \in Seq(Nat)
  PROVE  Parts(a \o b) = Parts(a) \o Parts(b)
<1>1. /\ a \o b \in Seq(Nat) /\ Len(a \o b) = Len(a) + Len(b)
      /\ \A i \in 1 .. Len(a) + Len(b) : (a \o b)[i] = IF i <= Len(a) THEN a[i] ELSE b[i - Len(a)]
      /\ Len(a) \in Nat /\ Len(b) \in Nat
  BY ConcatProperties, LenProperties
<1>2. /\ Parts(a) \in Seq(Nat) /\ Len(Parts(a)) = 2 * Len(a)
      /\ \A j \in 1 .. 2 * Len(a) : Parts(a)[j] = a[(j + 1) \div 2]
  BY PartsMean
<1>3. /\ Parts(b) \in Seq(Nat) /\ Len(Parts(b)) = 2 * Len(b)
      /\ \A j \in 1 .. 2 * Len(b) : Parts(b)[j] = b[(j + 1) \div 2]
  BY PartsMean
<1>4. /\ Parts(a \o b) \in Seq(Nat) /\ Len(Parts(a \o b)) = 2 * Len(a \o b)
      /\ \A j \in 1 .. 2 * Len(a \o b) : Parts(a \o b)[j] = (a \o b)[(j + 1) \div 2]
  BY <1>1, PartsMean
<1> DEFINE l == Parts(a) \o Parts(b)
<1>5. /\ l \in Seq(Nat) /\ Len(l) = 2 * Len(a) + 2 * Len(b)
      /\ \A j \in 1 .. 2 * Len(a) + 2 * Len(b) :
           l[j] = IF j <= 2 * Len(a) THEN Parts(a)[j] ELSE Parts(b)[j - 2 * Len(a)]
  <2>1. PICK m, n \in Seq(Nat) : m = Parts(a) /\ n = Parts(b)
    BY <1>2, <1>3
  <2>2. /\ m \o n \in Seq(Nat) /\ Len(m \o n) = Len(m) + Len(n)
        /\ \A j \in 1 .. Len(m) + Len(n) : (m \o n)[j] = IF j <= Len(m) THEN m[j] ELSE n[j - Len(m)]
    BY ConcatProperties
  <2> QED
    BY <1>2, <1>3, <2>1, <2>2
<1>6. PICK p, q \in Nat : p = Len(a) /\ q = Len(b)
  BY <1>1
<1> HIDE DEF l
<1>7. ASSUME NEW j \in 1 .. 2 * p + 2 * q PROVE Parts(a \o b)[j] = l[j]
  <2> DEFINE i == (j + 1) \div 2
  <2>1. i \in 1 .. p + q
    OBVIOUS
  <2>2. j \in 1 .. 2 * (p + q)
    OBVIOUS
  <2>3. Parts(a \o b)[j] = (a \o b)[i]
    BY <1>1, <1>4, <1>6, <2>2
  <2>4. CASE j <= 2 * p
    <3>1. i <= p /\ j \in 1 .. 2 * p
      BY <2>4
    <3>2. (a \o b)[i] = a[i]
      BY <1>1, <1>6, <2>1, <3>1
    <3>3. l[j] = Parts(a)[j] /\ Parts(a)[j] = a[i]
      BY <1>2, <1>5, <1>6, <2>4, <3>1
    <3> QED
      BY <2>3, <3>2, <3>3
  <2>5. CASE ~(j <= 2 * p)
    <3>1. ~(i <= p) /\ j - 2 * p \in 1 .. 2 * q /\ (j - 2 * p + 1) \div 2 = i - p
      BY <2>5
    <3>2. (a \o b)[i] = b[i - p]
      BY <1>1, <1>6, <2>1, <3>1
    <3>3. l[j] = Parts(b)[j - 2 * p]
      BY <1>5, <1>6, <2>5
    <3>4. Parts(b)[j - 2 * p] = b[(j - 2 * p + 1) \div 2]
      BY <1>3, <1>6, <3>1
    <3> QED
      BY <2>3, <3>1, <3>2, <3>3, <3>4
  <2> QED
    BY <2>4, <2>5
<1>8. Len(Parts(a \o b)) = 2 * p + 2 * q /\ Len(l) = 2 * p + 2 * q
  <2>1. 2 * (p + q) = 2 * p + 2 * q
    OBVIOUS
  <2> QED
    BY <1>1, <1>4, <1>5, <1>6, <2>1
<1>9. Parts(a \o b) = l
  BY <1>4, <1>5, <1>7, <1>8, SeqEqual
<1> QED
  BY <1>9 DEF l
-----------------------------------------------------------------------------
(***************************************************************************)
(* Where the messages to i are: the last is with the service that sends    *)
(* it, others in the pipe, and the rest is done.                           *)
(***************************************************************************)
Piped(i)   == {pipe[j].msg : j \in Packets(i)}
InHands(i) == {Message(c) : c \in Sending(i)}
Done(i)    == Sent(i) \ (Piped(i) \cup InHands(i))

\* Only the owner of a socket sends on it, and packets go through the pipe in
\* the order in which they were sent.
OwnSends   == \A c \in Services : call[c].pc \in SendSteps => owner[call[c].id] = c
Ordered(i) == \A j, k \in Packets(i) : j < k => pipe[j].msg < pipe[k].msg
Queue == \A i \in Ids :
  /\ Piped(i) \subseteq Sent(i)
  /\ Ordered(i)
  /\ \A c \in Sending(i) : \A m \in Piped(i) : m < Message(c)

\* What a step leaves as it was of the messages to i.
Unmoved(i) ==
  /\ Sent(i)' = Sent(i) /\ Piped(i)' = Piped(i) /\ Done(i)' = Done(i)
  /\ Packets(i) = {} => Packets(i)' = {}

LEMMA SendingMeans ==
  ASSUME Types, NEW i \in Ids
  PROVE  \A c : c \in Sending(i) <=> c \in Services /\ call[c].id = i /\ call[c].pc \in SendSteps
<1>1. \A c \in Services : call[c].pc \in Steps
  BY DEF Types, CallTypes, Calls
<1> QED
  BY <1>1 DEF Sending, Steps, SendSteps

LEMMA SendingMeansNext ==
  ASSUME Types', NEW i \in Ids
  PROVE  \A c : c \in Sending(i)' <=> c \in Services /\ call'[c].id = i /\ call'[c].pc \in SendSteps
<1>1. \A c \in Services : call'[c].pc \in Steps
  BY DEF Types, CallTypes, Calls
<1> QED
  BY <1>1 DEF Sending, Steps, SendSteps

\* The message of a service that sends is the last for its socket.
LEMMA MessageIs ==
  ASSUME Types, NEW c \in Services, call[c].pc \in SendSteps
  PROVE  /\ call[c].id \in Ids
         /\ Message(c) \in Sent(call[c].id) /\ Message(c) \in Nat
         /\ \A n \in Sent(call[c].id) : n <= Message(c)
<1>1. HasMessage(c) /\ call[c].id \in Ids
  BY DEF Types, InHand, SendSteps
<1>2. target \in Seq(Ids) /\ Len(target) \in Nat /\ DOMAIN target = 1 .. Len(target)
  BY LenProperties DEF Types, CallTypes
<1>3. /\ Message(c) \in DOMAIN target /\ target[Message(c)] = call[c].id
      /\ \A n \in Message(c) + 1 .. Len(target) : target[n] # call[c].id
  BY <1>1 DEF HasMessage, Message
<1>4. ASSUME NEW n \in Sent(call[c].id)
      PROVE  n <= Message(c)
  <2>1. n \in 1 .. Len(target) /\ target[n] = call[c].id
    BY <1>2 DEF Sent
  <2>2. n \notin Message(c) + 1 .. Len(target)
    BY <1>3, <2>1
  <2>3. Message(c) \in Nat
    BY <1>2, <1>3
  <2> QED
    BY <1>2, <2>1, <2>2, <2>3
<1> QED
  BY <1>1, <1>2, <1>3, <1>4 DEF Sent

LEMMA SentType ==
  ASSUME Types, NEW i
  PROVE  Sent(i) \in SUBSET Nat /\ IsFiniteSet(Sent(i))
<1>1. target \in Seq(Ids) /\ Len(target) \in Nat /\ DOMAIN target = 1 .. Len(target)
  BY LenProperties DEF Types, CallTypes
<1>2. IsFiniteSet(1 .. Len(target))
  BY <1>1, FS_Interval
<1>3. Sent(i) \subseteq 1 .. Len(target)
  BY <1>1 DEF Sent
<1> QED
  BY <1>1, <1>2, <1>3, FS_Subset

\* The last message for its socket is the one that a service sends.
LEMMA MessageLast ==
  ASSUME Types, NEW c, NEW m \in DOMAIN target, target[m] = call[c].id,
         \A n \in m + 1 .. Len(target) : target[n] # call[c].id
  PROVE  Message(c) = m
<1>1. target \in Seq(Ids) /\ Len(target) \in Nat /\ DOMAIN target = 1 .. Len(target)
  BY LenProperties DEF Types, CallTypes
<1>2. /\ Message(c) \in DOMAIN target /\ target[Message(c)] = call[c].id
      /\ \A n \in Message(c) + 1 .. Len(target) : target[n] # call[c].id
  BY DEF Message
<1>3. ~(m < Message(c)) /\ ~(Message(c) < m)
  BY <1>1, <1>2
<1> QED
  BY <1>1, <1>2, <1>3

LEMMA MessageLastNext ==
  ASSUME Types', NEW c, NEW m \in DOMAIN target', target'[m] = call'[c].id,
         \A n \in m + 1 .. Len(target') : target'[n] # call'[c].id
  PROVE  Message(c)' = m
<1>1. target' \in Seq(Ids) /\ Len(target') \in Nat /\ DOMAIN target' = 1 .. Len(target')
  BY LenProperties DEF Types, CallTypes
<1>2. /\ Message(c)' \in DOMAIN target' /\ target'[Message(c)'] = call'[c].id
      /\ \A n \in Message(c)' + 1 .. Len(target') : target'[n] # call'[c].id
  BY DEF Message
<1>3. ~(m < Message(c)') /\ ~(Message(c)' < m)
  BY <1>1, <1>2
<1> QED
  BY <1>1, <1>2, <1>3

LEMMA MessageKept ==
  ASSUME NEW c, target' = target, call'[c].id = call[c].id
  PROVE  Message(c)' = Message(c)
BY DEF Message

\* The places of the packets, and their messages, after a command is posted or taken.
LEMMA PacketsPosted ==
  ASSUME Types, NEW d, Posting(d), NEW i
  PROVE  /\ ~(d.cmd = "D" /\ d.id = i) => Packets(i)' = Packets(i)
         /\ d.cmd = "D" /\ d.id = i => Packets(i)' = Packets(i) \cup {Len(pipe) + 1}
         /\ \A j \in Packets(i) : j \in Nat /\ j <= Len(pipe) /\ pipe'[j] = pipe[j]
<1> DEFINE n == Len(pipe) + 1
<1>1. /\ \A j \in DOMAIN pipe : j \in DOMAIN pipe' /\ pipe'[j] = pipe[j]
      /\ \A j \in DOMAIN pipe' : j \in DOMAIN pipe \/ (j = n /\ pipe'[j] = d)
      /\ n \in DOMAIN pipe' /\ pipe'[n] = d
      /\ \A j \in DOMAIN pipe : j \in Nat /\ j <= Len(pipe)
  BY DEF Posting
<1> HIDE DEF n
<1>2. ~(d.cmd = "D" /\ d.id = i) => Packets(i)' = Packets(i)
  BY <1>1 DEF Packets
<1>3. d.cmd = "D" /\ d.id = i => Packets(i)' = Packets(i) \cup {n}
  BY <1>1 DEF Packets
<1>4. \A j \in Packets(i) : j \in Nat /\ j <= Len(pipe) /\ pipe'[j] = pipe[j]
  BY <1>1 DEF Packets
<1> QED
  BY <1>2, <1>3, <1>4 DEF n

LEMMA PacketsTaken ==
  ASSUME NEW x, NEW n, Taking(x, n), NEW i
  PROVE  /\ \A j \in Packets(i)' : j \in Nat /\ j # 0 /\ j + 1 \in Packets(i) /\ pipe'[j] = pipe[j + 1]
         /\ \A j \in Packets(i) : j \in Nat /\ j # 0
         /\ \A j \in Packets(i) : j # 1 => j - 1 \in Packets(i)' /\ pipe'[j - 1] = pipe[j]
         /\ 1 \in Packets(i) <=> (x = "D" /\ n = i)
<1>1. \A j \in Packets(i)' : j \in Nat /\ j # 0 /\ j + 1 \in Packets(i) /\ pipe'[j] = pipe[j + 1]
  BY DEF Taking, Packets
<1>2. \A j \in Packets(i) : j # 1 => j - 1 \in Packets(i)' /\ pipe'[j - 1] = pipe[j]
  BY DEF Taking, Packets
<1>3. 1 \in Packets(i) <=> (x = "D" /\ n = i)
  BY DEF Taking, Packets
<1>4. \A j \in Packets(i) : j \in Nat /\ j # 0
  BY <1>1, <1>2 DEF Taking, Packets
<1> QED
  BY <1>1, <1>2, <1>3, <1>4

\* A packet, taken: the others follow it, in order.
LEMMA PipedTaken ==
  ASSUME Types, NEW x, NEW n, Taking(x, n), NEW i, Ordered(i)
  PROVE  /\ Ordered(i)'
         /\ ~(x = "D" /\ n = i) => Piped(i)' = Piped(i) /\ (Packets(i) = {} => Packets(i)' = {})
         /\ x = "D" /\ n = i =>
              /\ Packets(i) # {} /\ pipe[1].msg \in Piped(i)
              /\ Piped(i) = Piped(i)' \cup {pipe[1].msg}
              /\ \A m \in Piped(i)' : pipe[1].msg < m
<1>1. /\ \A j \in Packets(i)' : j \in Nat /\ j # 0 /\ j + 1 \in Packets(i) /\ pipe'[j] = pipe[j + 1]
      /\ \A j \in Packets(i) : j \in Nat /\ j # 0
      /\ \A j \in Packets(i) : j # 1 => j - 1 \in Packets(i)' /\ pipe'[j - 1] = pipe[j]
      /\ 1 \in Packets(i) <=> (x = "D" /\ n = i)
  BY PacketsTaken
<1>2. Ordered(i)'
  <2> SUFFICES ASSUME NEW j \in Packets(i)', NEW k \in Packets(i)', j < k
               PROVE  pipe'[j].msg < pipe'[k].msg
    BY DEF Ordered
  <2>1. /\ j + 1 \in Packets(i) /\ pipe'[j] = pipe[j + 1] /\ j \in Nat
        /\ k + 1 \in Packets(i) /\ pipe'[k] = pipe[k + 1] /\ k \in Nat
    BY <1>1
  <2>2. j + 1 < k + 1
    BY <2>1
  <2> QED
    BY <2>1, <2>2 DEF Ordered
<1>3. \A m \in Piped(i)' : m \in Piped(i)
  BY <1>1 DEF Piped
<1>4. \A m \in Piped(i) : m \in Piped(i)' \/ (1 \in Packets(i) /\ m = pipe[1].msg)
  BY <1>1 DEF Piped
<1>5. 1 \in Packets(i) => pipe[1].msg \in Piped(i)
  BY DEF Piped
<1>6. ASSUME 1 \in Packets(i), NEW m \in Piped(i)'
      PROVE  pipe[1].msg < m
  <2>1. PICK j \in Packets(i)' : m = pipe'[j].msg
    BY DEF Piped
  <2>2. j + 1 \in Packets(i) /\ m = pipe[j + 1].msg /\ 1 < j + 1
    BY <1>1, <2>1
  <2> QED
    BY <1>6, <2>2 DEF Ordered
<1>7. Packets(i) = {} => Packets(i)' = {}
  BY <1>1
<1> QED
  BY <1>1, <1>2, <1>3, <1>4, <1>5, <1>6, <1>7

\* A packet, posted behind the others.
LEMMA PipedPosted ==
  ASSUME Types, NEW d, Posting(d), NEW i, Ordered(i)
  PROVE  /\ ~(d.cmd = "D" /\ d.id = i) =>
              Packets(i)' = Packets(i) /\ Piped(i)' = Piped(i) /\ Ordered(i)'
         /\ d.cmd = "D" /\ d.id = i =>
              /\ Piped(i)' = Piped(i) \cup {d.msg}
              /\ (\A m \in Piped(i) : m < d.msg) => Ordered(i)'
<1> DEFINE n == Len(pipe) + 1
<1>1. /\ ~(d.cmd = "D" /\ d.id = i) => Packets(i)' = Packets(i)
      /\ d.cmd = "D" /\ d.id = i => Packets(i)' = Packets(i) \cup {n}
      /\ \A j \in Packets(i) : j \in Nat /\ j <= Len(pipe) /\ pipe'[j] = pipe[j]
      /\ pipe'[n] = d /\ Len(pipe) \in Nat
  BY PacketsPosted DEF Posting
<1>2. \A j \in Packets(i) : j < n /\ j \in Nat
  BY <1>1
<1>3. n \in Nat
  BY <1>1
<1> HIDE DEF n
<1>4. CASE ~(d.cmd = "D" /\ d.id = i)
  BY <1>1, <1>4 DEF Piped, Ordered
<1>5. CASE d.cmd = "D" /\ d.id = i
  <2>1. Piped(i)' = Piped(i) \cup {d.msg}
    BY <1>1, <1>5 DEF Piped
  <2>2. ASSUME \A m \in Piped(i) : m < d.msg, NEW j \in Packets(i)', NEW k \in Packets(i)', j < k
        PROVE  pipe'[j].msg < pipe'[k].msg
    <3>1. j \in Packets(i) /\ pipe'[j] = pipe[j]
      BY <1>1, <1>2, <1>3, <1>5, <2>2
    <3>2. CASE k = n
      BY <1>1, <2>2, <3>1, <3>2 DEF Piped
    <3>3. CASE k # n
      BY <1>1, <1>5, <2>2, <3>1, <3>3 DEF Ordered
    <3> QED
      BY <3>2, <3>3
  <2> QED
    BY <1>5, <2>1, <2>2 DEF Ordered
<1> QED
  BY <1>4, <1>5

Traffic == OwnSends /\ Queue

\* A step after which the same services send to the same sockets.
SendersKept == \A c \in Services :
  /\ call'[c].pc \in SendSteps <=> call[c].pc \in SendSteps
  /\ call[c].pc \in SendSteps => call'[c].id = call[c].id
OwnersKept == \A i \in Ids : owner[i] # None => owner'[i] = owner[i]

\* Nothing that concerns the messages to i happens in the calls.
LEMMA HandsKept ==
  ASSUME Types, Types', NEW i \in Ids,
         \A n \in DOMAIN target : target[n] = i => n \in DOMAIN target' /\ target'[n] = i,
         \A n \in DOMAIN target' : target'[n] = i => n \in DOMAIN target /\ target[n] = i,
         \A c : c \in Sending(i)' <=> c \in Sending(i)
  PROVE  /\ Sent(i)' = Sent(i) /\ InHands(i)' = InHands(i)
         /\ \A c \in Sending(i) : Message(c)' = Message(c)
<1>1. Sent(i)' = Sent(i)
  BY DEF Sent
<1>2. ASSUME NEW c \in Sending(i)
      PROVE  Message(c)' = Message(c)
  <2>1. c \in Services /\ call[c].id = i /\ call[c].pc \in SendSteps
    BY SendingMeans
  <2>2. c \in Services /\ call'[c].id = i /\ call'[c].pc \in SendSteps
    BY SendingMeansNext
  <2>3. /\ Message(c) \in Sent(i) /\ Message(c) \in Nat
        /\ \A n \in Sent(i) : n <= Message(c)
    BY <2>1, MessageIs
  <2>4. Message(c) \in DOMAIN target' /\ target'[Message(c)] = i
    BY <2>3 DEF Sent
  <2>5. \A n \in Message(c) + 1 .. Len(target') : target'[n] # i
    <3> SUFFICES ASSUME NEW n \in Message(c) + 1 .. Len(target'), target'[n] = i
                 PROVE  FALSE
      OBVIOUS
    <3>1. DOMAIN target' = 1 .. Len(target') /\ Len(target') \in Nat
      BY LenProperties DEF Types, CallTypes
    <3>2. n \in DOMAIN target' /\ ~(n <= Message(c))
      BY <2>3, <3>1
    <3>3. n \in Sent(i)
      BY <3>2 DEF Sent
    <3> QED
      BY <2>3, <3>2, <3>3
  <2> HIDE DEF Message
  <2> DEFINE m == Message(c)
  <2>6. m \in DOMAIN target' /\ target'[m] = call'[c].id
        /\ \A n \in m + 1 .. Len(target') : target'[n] # call'[c].id
    BY <2>2, <2>4, <2>5
  <2> HIDE DEF m
  <2>7. Message(c)' = m
    BY <2>6, MessageLastNext
  <2> QED
    BY <2>7 DEF m
<1>3. InHands(i)' = InHands(i)
  BY <1>2 DEF InHands
<1> QED
  BY <1>1, <1>2, <1>3

\* A socket to which no service sends before, nor after.
LEMMA QuietTraffic ==
  ASSUME Types, Types', Traffic, target' = target, PacketsKept, SendersKept, OwnersKept
  PROVE  Traffic' /\ \A i \in Ids : Unmoved(i)
<1>1. \A i \in Ids : Ordered(i) /\ Piped(i) \subseteq Sent(i)
        /\ \A c \in Sending(i) : \A m \in Piped(i) : m < Message(c)
  BY DEF Traffic, Queue
<1>2. ASSUME NEW i \in Ids
      PROVE  \A c : c \in Sending(i)' <=> c \in Sending(i)
  BY SendingMeans, SendingMeansNext DEF SendersKept
<1>3. ASSUME NEW i \in Ids
      PROVE  /\ Sent(i)' = Sent(i) /\ InHands(i)' = InHands(i)
             /\ \A c \in Sending(i) : Message(c)' = Message(c)
  BY <1>2, HandsKept
<1>4. ASSUME NEW i \in Ids
      PROVE  Ordered(i)' /\ Piped(i)' = Piped(i) /\ (Packets(i) = {} => Packets(i)' = {})
  <2>1. CASE pipe' = pipe
    BY <1>1, <2>1 DEF Ordered, Piped, Packets
  <2>2. CASE \E d : Posting(d) /\ d.cmd # "D"
    BY <1>1, <2>2, PipedPosted
  <2>3. CASE \E x, n : Taking(x, n) /\ x # "D"
    BY <1>1, <2>3, PipedTaken
  <2> QED
    BY <2>1, <2>2, <2>3 DEF PacketsKept
<1>5. Queue'
  <2> SUFFICES ASSUME NEW i \in Ids
               PROVE  /\ Piped(i)' \subseteq Sent(i)'
                      /\ Ordered(i)'
                      /\ \A c \in Sending(i)' : \A m \in Piped(i)' : m < Message(c)'
    BY DEF Queue
  <2>1. \A c \in Sending(i)' : c \in Sending(i)
    BY <1>2
  <2> QED
    BY <1>1, <1>3, <1>4, <2>1
<1>6. OwnSends'
  BY PosType DEF Traffic, OwnSends, SendersKept, OwnersKept, Types, InHand, SendSteps
<1>7. \A i \in Ids : Unmoved(i)
  BY <1>3, <1>4 DEF Unmoved, Done
<1> QED
  BY <1>5, <1>6, <1>7 DEF Traffic

\* The service that sends to a socket is its owner.
LEMMA OneSends ==
  ASSUME Types, OwnSends, NEW i \in Ids
  PROVE  \A c, d : c \in Sending(i) /\ d \in Sending(i) => c = d
BY SendingMeans DEF OwnSends

\* A service sends: the message is in its hands, or lost.
LEMMA SendTraffic ==
  ASSUME Types, Types', Traffic, NEW c \in Services, NEW i \in Ids, owner[i] = c, call[c].pc = "idle",
         target' = Append(target, i), Going(c, "probe", i) \/ call' = call, UNCHANGED <<pipe, owner>>
  PROVE  /\ Traffic'
         /\ \A j \in Ids : j # i => Unmoved(j)
         /\ Piped(i)' = Piped(i)
         /\ Going(c, "probe", i) => Done(i)' = Done(i)
<1> DEFINE n == Len(target) + 1
<1>1. /\ DOMAIN target = 1 .. Len(target) /\ Len(target) \in Nat
      /\ DOMAIN target' = 1 .. n /\ Len(target') = n
      /\ target'[n] = i /\ \A m \in 1 .. Len(target) : target'[m] = target[m]
  BY DEF Types, CallTypes
<1>2. n \in Nat /\ n # 0 /\ \A m \in 1 .. Len(target) : m < n /\ m \in Nat
  BY <1>1
<1>3. DOMAIN target' = DOMAIN target \cup {n} /\ n \notin DOMAIN target
  BY <1>1
<1>4. \A m \in n + 1 .. Len(target') : FALSE
  BY <1>1, <1>2
<1>5. \A m \in DOMAIN target : target'[m] = target[m] /\ m < n
  BY <1>1, <1>2
<1> HIDE DEF n
<1>6. \A j \in Ids : Packets(j)' = Packets(j) /\ Piped(j)' = Piped(j) /\ (Ordered(j) => Ordered(j)')
  BY DEF Packets, Piped, Ordered
<1>7. \A j \in Ids : j # i => \A d : d \in Sending(j)' <=> d \in Sending(j)
  BY SendingMeans, SendingMeansNext DEF Going, SendSteps
<1>8. ASSUME NEW j \in Ids, j # i
      PROVE  /\ Sent(j)' = Sent(j) /\ InHands(j)' = InHands(j)
             /\ \A d \in Sending(j) : Message(d)' = Message(d)
  BY <1>1, <1>3, <1>5, <1>7, <1>8, HandsKept
<1>9. \A j \in Ids : j # i => Unmoved(j)
  BY <1>6, <1>8 DEF Unmoved, Done
<1>10. Sending(i) = {}
  BY SendingMeans DEF Traffic, OwnSends, SendSteps
<1>11. \A d \in Sending(i)' : d = c /\ Going(c, "probe", i)
  BY <1>10, SendingMeans, SendingMeansNext DEF Going
<1>12. Sent(i)' = Sent(i) \cup {n} /\ \A m \in Sent(i) : m < n
  BY <1>1, <1>3, <1>5 DEF Sent
<1>13. Going(c, "probe", i) => Message(c)' = n
  <2> SUFFICES ASSUME Going(c, "probe", i)
               PROVE  Message(c)' = n
    OBVIOUS
  <2>1. /\ n \in DOMAIN target' /\ target'[n] = call'[c].id
        /\ \A m \in n + 1 .. Len(target') : target'[m] # call'[c].id
    BY <1>1, <1>3, <1>4 DEF Going
  <2> QED
    BY <2>1, MessageLastNext
<1>14. \A j \in Ids : Piped(j) \subseteq Sent(j) /\ Ordered(j)
         /\ \A d \in Sending(j) : \A m \in Piped(j) : m < Message(d)
  BY DEF Traffic, Queue
<1>15. Going(c, "probe", i) => Done(i)' = Done(i)
  <2> SUFFICES ASSUME Going(c, "probe", i)
               PROVE  Done(i)' = Done(i)
    OBVIOUS
  <2>1. c \in Sending(i)'
    BY SendingMeansNext DEF Going, SendSteps
  <2>2. InHands(i)' = {n} /\ InHands(i) = {}
    BY <1>10, <1>11, <1>13, <2>1 DEF InHands
  <2>3. n \notin Sent(i)
    BY <1>3 DEF Sent
  <2> QED
    BY <1>6, <1>12, <2>2, <2>3 DEF Done
<1>16. Queue'
  <2> SUFFICES ASSUME NEW j \in Ids
               PROVE  /\ Piped(j)' \subseteq Sent(j)'
                      /\ Ordered(j)'
                      /\ \A d \in Sending(j)' : \A m \in Piped(j)' : m < Message(d)'
    BY DEF Queue
  <2>1. CASE j = i
    BY <1>6, <1>11, <1>12, <1>13, <1>14, <2>1
  <2>2. CASE j # i
    BY <1>6, <1>7, <1>8, <1>14, <2>2
  <2> QED
    BY <2>1, <2>2
<1>17. OwnSends'
  BY DEF Traffic, OwnSends, Going
<1> QED
  BY <1>6, <1>9, <1>15, <1>16, <1>17 DEF Traffic

\* A service leaves its call.
LEMMA LeaveHands ==
  ASSUME Types, Types', OwnSends, NEW c \in Services, NEW i \in Ids, call[c].id = i, call[c].pc \in SendSteps, Going(c, "idle", None),
         UNCHANGED <<target, owner>>
  PROVE  /\ OwnSends'
         /\ \A j \in Ids : Sent(j)' = Sent(j)
         /\ Sending(i) = {c} /\ Sending(i)' = {} /\ InHands(i) = {Message(c)} /\ InHands(i)' = {}
         /\ \A j \in Ids : j # i => InHands(j)' = InHands(j) /\ Sending(j)' = Sending(j)
                                   /\ \A d \in Sending(j) : Message(d)' = Message(d)
         /\ Message(c) \in Sent(i) /\ \A n \in Sent(i) : n <= Message(c)
<1>1. Message(c) \in Sent(i) /\ Message(c) \in Nat /\ \A n \in Sent(i) : n <= Message(c)
  BY MessageIs
<1>2. c \in Sending(i)
  BY <1>1, SendingMeans
<1>3. Sending(i) = {c} /\ \A j \in Ids : j # i => c \notin Sending(j)
  BY <1>1, <1>2, OneSends, SendingMeans
<1>4. Sending(i)' = {} /\ \A j \in Ids : j # i => \A d : d \in Sending(j)' <=> d \in Sending(j)
  BY <1>1, <1>3, SendingMeans, SendingMeansNext DEF Going, SendSteps
<1>5. ASSUME NEW j \in Ids, j # i
      PROVE  /\ InHands(j)' = InHands(j)
             /\ \A d \in Sending(j) : Message(d)' = Message(d)
  BY <1>4, <1>5, HandsKept
<1>6. InHands(i) = {Message(c)} /\ InHands(i)' = {}
  BY <1>3, <1>4 DEF InHands
<1>7. \A j \in Ids : Sent(j)' = Sent(j)
  BY DEF Sent
<1>8. OwnSends'
  BY DEF OwnSends, Going, SendSteps
<1> QED
  BY <1>1, <1>3, <1>4, <1>5, <1>6, <1>7, <1>8

\* A direct write.
LEMMA WriteTraffic ==
  ASSUME Types, Types', Traffic, NEW c \in Services, NEW i \in Ids, call[c].id = i, call[c].pc \in SendSteps, Going(c, "idle", None),
         UNCHANGED <<target, owner, pipe>>
  PROVE  /\ Traffic'
         /\ \A j \in Ids : j # i => Unmoved(j)
         /\ Piped(i)' = Piped(i) /\ Packets(i)' = Packets(i)
         /\ Message(c) \notin Piped(i) => Done(i)' = Done(i) \cup {Message(c)}
<1>1. /\ OwnSends'
      /\ \A j \in Ids : Sent(j)' = Sent(j)
      /\ Sending(i)' = {} /\ InHands(i) = {Message(c)} /\ InHands(i)' = {}
      /\ \A j \in Ids : j # i => InHands(j)' = InHands(j) /\ Sending(j)' = Sending(j)
                                   /\ \A d \in Sending(j) : Message(d)' = Message(d)
      /\ Message(c) \in Sent(i)
  BY LeaveHands DEF Traffic
<1>2. \A j \in Ids : Packets(j)' = Packets(j) /\ Piped(j)' = Piped(j) /\ (Ordered(j) => Ordered(j)')
  BY DEF Packets, Piped, Ordered
<1>3. \A j \in Ids : Piped(j) \subseteq Sent(j) /\ Ordered(j)
         /\ \A d \in Sending(j) : \A m \in Piped(j) : m < Message(d)
  BY DEF Traffic, Queue
<1>4. Queue'
  <2> SUFFICES ASSUME NEW j \in Ids
               PROVE  /\ Piped(j)' \subseteq Sent(j)'
                      /\ Ordered(j)'
                      /\ \A d \in Sending(j)' : \A m \in Piped(j)' : m < Message(d)'
    BY DEF Queue
  <2>1. CASE j = i
    BY <1>1, <1>2, <1>3, <2>1
  <2>2. CASE j # i
    BY <1>1, <1>2, <1>3, <2>2
  <2> QED
    BY <2>1, <2>2
<1>5. \A j \in Ids : j # i => Unmoved(j)
  BY <1>1, <1>2 DEF Unmoved, Done
<1>6. Message(c) \notin Piped(i) => Done(i)' = Done(i) \cup {Message(c)}
  BY <1>1, <1>2 DEF Done
<1> QED
  BY <1>1, <1>2, <1>4, <1>5, <1>6 DEF Traffic

\* A packet is posted.
LEMMA PostTraffic ==
  ASSUME Types, Types', Traffic, NEW c \in Services, NEW i \in Ids, call[c].id = i, call[c].pc \in SendSteps, Going(c, "idle", None),
         UNCHANGED <<target, owner>>, NEW d, Posting(d), d.cmd = "D", d.id = i, d.msg = Message(c)
  PROVE  /\ Traffic'
         /\ \A j \in Ids : j # i => Unmoved(j)
         /\ Sending(i) = {c} /\ Done(i)' = Done(i)
         /\ Piped(i)' = Piped(i) \cup {Message(c)}
         /\ \A m \in Done(i) : m < Message(c)
<1>1. /\ OwnSends'
      /\ \A j \in Ids : Sent(j)' = Sent(j)
      /\ Sending(i) = {c} /\ Sending(i)' = {} /\ InHands(i) = {Message(c)} /\ InHands(i)' = {}
      /\ \A j \in Ids : j # i => InHands(j)' = InHands(j) /\ Sending(j)' = Sending(j)
                                   /\ \A e \in Sending(j) : Message(e)' = Message(e)
      /\ Message(c) \in Sent(i) /\ \A n \in Sent(i) : n <= Message(c)
  BY LeaveHands DEF Traffic
<1>2. \A j \in Ids : Piped(j) \subseteq Sent(j) /\ Ordered(j)
         /\ \A e \in Sending(j) : \A m \in Piped(j) : m < Message(e)
  BY DEF Traffic, Queue
<1>3. \A j \in Ids : j # i => Packets(j)' = Packets(j) /\ Piped(j)' = Piped(j) /\ Ordered(j)'
  BY <1>2, PipedPosted
<1>4. \A m \in Piped(i) : m < d.msg
  BY <1>1, <1>2
<1>5. Piped(i)' = Piped(i) \cup {Message(c)} /\ Ordered(i)'
  BY <1>1, <1>2, <1>4, PipedPosted
<1>6. Queue'
  <2> SUFFICES ASSUME NEW j \in Ids
               PROVE  /\ Piped(j)' \subseteq Sent(j)'
                      /\ Ordered(j)'
                      /\ \A e \in Sending(j)' : \A m \in Piped(j)' : m < Message(e)'
    BY DEF Queue
  <2>1. CASE j = i
    BY <1>1, <1>2, <1>5, <2>1
  <2>2. CASE j # i
    BY <1>1, <1>2, <1>3, <2>2
  <2> QED
    BY <2>1, <2>2
<1>7. \A j \in Ids : j # i => Unmoved(j)
  BY <1>1, <1>3 DEF Unmoved, Done
<1>8. Done(i)' = Done(i)
  BY <1>1, <1>5 DEF Done
<1>9. \A m \in Done(i) : m < Message(c)
  <2> SUFFICES ASSUME NEW m \in Done(i)
               PROVE  m < Message(c)
    OBVIOUS
  <2>1. m \in Sent(i) /\ m # Message(c)
    BY <1>1 DEF Done
  <2>2. m <= Message(c) /\ m \in Nat /\ Message(c) \in Nat
    BY <1>1, <2>1, SentType
  <2> QED
    BY <2>1, <2>2
<1> QED
  BY <1>1, <1>5, <1>6, <1>7, <1>8, <1>9 DEF Traffic

\* A packet is taken.
LEMMA TakenTraffic ==
  ASSUME Types, Types', Traffic, NEW i \in Ids, Taking("D", i), pipe[1].msg \in Nat,
         UNCHANGED <<target, call, owner>>
  PROVE  /\ Traffic'
         /\ \A j \in Ids : j # i => Unmoved(j)
         /\ Packets(i) # {} /\ pipe[1].msg \in Piped(i)
         /\ Done(i)' = Done(i) \cup {pipe[1].msg}
         /\ Piped(i)' \subseteq Piped(i)
         /\ \A m \in Piped(i)' : pipe[1].msg < m
<1>1. \A j \in Ids : Piped(j) \subseteq Sent(j) /\ Ordered(j)
         /\ \A e \in Sending(j) : \A m \in Piped(j) : m < Message(e)
  BY DEF Traffic, Queue
<1>2. \A j \in Ids : Ordered(j)'
  BY <1>1, PipedTaken
<1>3. \A j \in Ids : j # i => Piped(j)' = Piped(j) /\ (Packets(j) = {} => Packets(j)' = {})
  BY <1>1, PipedTaken
<1>4. /\ Packets(i) # {} /\ pipe[1].msg \in Piped(i)
      /\ Piped(i) = Piped(i)' \cup {pipe[1].msg}
      /\ \A m \in Piped(i)' : pipe[1].msg < m
  BY <1>1, PipedTaken
<1>5. \A j \in Ids : \A c : c \in Sending(j)' <=> c \in Sending(j)
  BY SendingMeans, SendingMeansNext
<1>6. ASSUME NEW j \in Ids
      PROVE  /\ Sent(j)' = Sent(j) /\ InHands(j)' = InHands(j)
             /\ \A c \in Sending(j) : Message(c)' = Message(c)
  BY <1>5, HandsKept
<1>7. Queue'
  <2> SUFFICES ASSUME NEW j \in Ids
               PROVE  /\ Piped(j)' \subseteq Sent(j)'
                      /\ Ordered(j)'
                      /\ \A e \in Sending(j)' : \A m \in Piped(j)' : m < Message(e)'
    BY DEF Queue
  <2>1. Piped(j)' \subseteq Piped(j) /\ \A c \in Sending(j)' : c \in Sending(j)
    BY <1>3, <1>4, <1>5
  <2> QED
    BY <1>1, <1>2, <1>6, <2>1
<1>8. \A j \in Ids : j # i => Unmoved(j)
  BY <1>3, <1>6 DEF Unmoved, Done
<1>9. pipe[1].msg \notin InHands(i)
  <2> SUFFICES ASSUME NEW c \in Sending(i), pipe[1].msg = Message(c)
               PROVE  FALSE
    BY DEF InHands
  <2>1. pipe[1].msg < Message(c)
    BY <1>1, <1>4
  <2> QED
    BY <2>1
<1>10. pipe[1].msg \notin Piped(i)'
  BY <1>4
<1>11. Done(i)' = Done(i) \cup {pipe[1].msg}
  <2>1. pipe[1].msg \in Sent(i)
    BY <1>1, <1>4
  <2> QED
    BY <1>4, <1>6, <1>9, <1>10, <2>1 DEF Done
<1>12. OwnSends'
  BY DEF Traffic, OwnSends
<1> QED
  BY <1>4, <1>7, <1>8, <1>11, <1>12 DEF Traffic
-----------------------------------------------------------------------------
(***************************************************************************)
(* Where the message parts of socket i are.  A socket of which nobody has  *)
(* heard has none; the line of an open connection holds those that are     *)
(* done, and those in the pipe come after them; a service that has the     *)
(* lock has found the queue empty, and so it stays.                        *)
(***************************************************************************)
HoldSteps == {"recheck", "verify", "write"}
Hushed(k) == k.list = <<>> /\ k.buf = <<>>
ConnectedAt(i) == LET k == sock[Pos(i)] IN
  Has(i) => /\ k.sck = i /\ k.tcp
            /\ k.status \in {"paccept", "plisten"} => "open" \notin heard[i]
            /\ "open" \notin heard[i] => Hushed(k)
UnopenedAt(i) == "open" \notin heard[i] => wire[i] = <<>> /\ Sent(i) = {}
Flows(i) == Has(i) /\ sock[Pos(i)].status = "connected" /\ ~Closing(Pos(i))
Line(i) == wire[i] \o Queued(sock[Pos(i)]) = Parts(Ascending(Done(i)))
FilledAt(i) == Flows(i) => Line(i) /\ \A m \in Done(i), n \in Piped(i) : m < n
Holder(c, i) == call[c].id = i /\ call[c].pc \in HoldSteps
HeldBy(c, i) == LET k == sock[Pos(i)] IN
  Holder(c, i) =>
    /\ k.status \in {"connected", "halfclose"}
    /\ k.id = i => Packets(i) = {}
    /\ call[c].pc # "recheck" => k.id = i /\ Hushed(k)

FlowInv ==
  /\ \A i \in Ids : ConnectedAt(i) /\ UnopenedAt(i) /\ FilledAt(i)
  /\ \A c \in Services, i \in Ids : HeldBy(c, i)

\* What a step does that concerns only the sockets of E, and their slots.
Stays(t) == sock'[t] = sock[t] /\ (Closing(t) => Closing(t)')
Aside(E) ==
  /\ \A t \in Slots : (\A e \in E : Pos(e) # t) => Stays(t)
  /\ \A i \in Ids : i \notin E =>
       /\ Unmoved(i) /\ wire'[i] = wire[i]
       /\ "open" \in heard'[i] <=> "open" \in heard[i]
  /\ \A e \in E : Stays(Pos(e)) \/ (IsOpen(Pos(e))' => sock'[Pos(e)].id = e)

LEMMA FlowStays ==
  ASSUME FlowInv, NEW E \in SUBSET Ids, Aside(E),
         \A e \in E : ConnectedAt(e)' /\ UnopenedAt(e)' /\ FilledAt(e)',
         \A c \in Services, i \in Ids :
           HeldBy(c, i)' \/ (call'[c] = call[c] /\ \A e \in E : Pos(i) # Pos(e))
  PROVE  FlowInv'
<1>1. ASSUME NEW i \in Ids, i \notin E
      PROVE  UnopenedAt(i)'
  BY <1>1 DEF FlowInv, UnopenedAt, Aside, Unmoved
<1>2. ASSUME NEW i \in Ids, i \notin E, Has(i)'
      PROVE  /\ Has(i) /\ sock'[Pos(i)] = sock[Pos(i)]
             /\ Closing(Pos(i)) => Closing(Pos(i))'
  <2>1. \A e \in E : Pos(e) # Pos(i) \/ Stays(Pos(i))
    BY <1>2 DEF Aside, Has
  <2>2. Stays(Pos(i))
    BY <1>2, <2>1, PosType DEF Aside
  <2> QED
    BY <1>2, <2>2 DEF Stays, Has, IsOpen
<1>3. ASSUME NEW i \in Ids, i \notin E
      PROVE  ConnectedAt(i)'
  BY <1>2, <1>3 DEF FlowInv, ConnectedAt, Aside
<1>4. ASSUME NEW i \in Ids, i \notin E
      PROVE  FilledAt(i)'
  <2> SUFFICES ASSUME Flows(i)'
               PROVE  Line(i)' /\ \A m \in Done(i)', n \in Piped(i)' : m < n
    BY DEF FilledAt
  <2>1. Flows(i) /\ sock'[Pos(i)] = sock[Pos(i)]
    BY <1>2, <1>4 DEF Flows
  <2>2. Done(i)' = Done(i) /\ Piped(i)' = Piped(i) /\ wire'[i] = wire[i]
    BY <1>4 DEF Aside, Unmoved
  <2>3. Line(i) /\ \A m \in Done(i), n \in Piped(i) : m < n
    BY <2>1 DEF FlowInv, FilledAt
  <2> QED
    BY <2>1, <2>2, <2>3 DEF Line
<1>5. ASSUME NEW c \in Services, NEW i \in Ids
      PROVE  HeldBy(c, i)'
  <2> SUFFICES ASSUME call'[c] = call[c], \A e \in E : Pos(i) # Pos(e)
               PROVE  HeldBy(c, i)'
    OBVIOUS
  <2>1. sock'[Pos(i)] = sock[Pos(i)] /\ (Packets(i) = {} => Packets(i)' = {})
    BY PosType DEF Aside, Unmoved, Stays
  <2>2. HeldBy(c, i)
    BY DEF FlowInv
  <2> QED
    BY <2>1, <2>2 DEF HeldBy, Holder
<1> QED
  BY <1>1, <1>3, <1>4, <1>5 DEF FlowInv

\* A step that concerns no socket.
LEMMA FlowCalm ==
  ASSUME FlowInv, sock' = sock, \A t \in Slots : Closing(t) => Closing(t)',
         \A i \in Ids : /\ Unmoved(i) /\ wire'[i] = wire[i]
                        /\ "open" \in heard'[i] <=> "open" \in heard[i],
         \A c \in Services : call'[c].pc \in HoldSteps => call'[c] = call[c]
  PROVE  FlowInv'
<1>1. Aside({})
  BY DEF Aside, Stays
<1>2. \A c \in Services, i \in Ids : HeldBy(c, i)' \/ call'[c] = call[c]
  BY DEF HeldBy, Holder
<1> QED
  BY <1>1, <1>2, FlowStays

\* A step that concerns one socket.
LEMMA FlowOne ==
  ASSUME FlowInv, NEW e \in Ids, Others(Pos(e)),
         \A t \in Slots : t # Pos(e) /\ Closing(t) => Closing(t)',
         \A i \in Ids : i # e =>
           /\ Unmoved(i) /\ wire'[i] = wire[i]
           /\ "open" \in heard'[i] <=> "open" \in heard[i],
         Stays(Pos(e)) \/ (IsOpen(Pos(e))' => sock'[Pos(e)].id = e),
         ConnectedAt(e)', UnopenedAt(e)', FilledAt(e)',
         \A c \in Services, i \in Ids : HeldBy(c, i)' \/ (call'[c] = call[c] /\ Pos(i) # Pos(e))
  PROVE  FlowInv'
<1>1. Aside({e})
  BY DEF Aside, Others, Stays
<1> QED
  BY <1>1, FlowStays

Wired == \A i \in Ids : wire[i] \in Seq(Nat)
LineInv == CountInv /\ Sound /\ Traffic /\ Wired /\ FlowInv

LEMMA Rejoined ==
  ASSUME NEW w \in Seq(Nat), NEW q \in Seq(Nat), NEW n \in 0 .. Len(q)
  PROVE  /\ SubSeq(q, 1, n) \in Seq(Nat) /\ w \o SubSeq(q, 1, n) \in Seq(Nat)
         /\ (w \o SubSeq(q, 1, n)) \o SubSeq(q, n + 1, Len(q)) = w \o q
<1> DEFINE l == Len(q)
           a == SubSeq(q, 1, n)
           b == SubSeq(q, n + 1, l)
<1>1. l \in Nat /\ 1 \in 1 .. l + 1 /\ n \in 1 - 1 .. l /\ l \in n .. l
      /\ \A j \in 1 .. l : q[j] \in Nat
  BY LenProperties, ElementOfSeq
<1>2. a \in Seq(Nat)
  BY <1>1, SubSeqProperties
<1>3. b \in Seq(Nat)
  BY <1>1, Suffix
<1>4. a \o b = SubSeq(q, 1, l)
  BY <1>1, ConcatAdjacentSubSeq
<1>5. SubSeq(q, 1, l) = q
  BY SubSeqFull
<1> HIDE DEF a, b, l
<1>6. w \o a \in Seq(Nat)
  BY <1>2, ConcatProperties
<1>7. (w \o a) \o b = w \o (a \o b)
  BY <1>2, <1>3, ConcatAssociative
<1> QED
  BY <1>2, <1>4, <1>5, <1>6, <1>7 DEF a, b, l

\* The parts of the queue that a step writes go to its socket's connection.
LEMMA WiresMean ==
  ASSUME LineInv, Types', NEW e \in Ids, Wires(Pos(e)), Has(e), Sent(e)' = Sent(e),
         "open" \in heard'[e] <=> "open" \in heard[e]
  PROVE  /\ Wired' /\ UnopenedAt(e)'
         /\ \A i \in Ids : i # e => wire'[i] = wire[i]
<1>1. Types /\ Pos(e) \in Slots
  BY PosType DEF LineInv, CountInv, OnceInv, SlotsInv
<1> DEFINE k == sock[Pos(e)]
           q == Queued(k)
<1>2. k \in Socket /\ DOMAIN wire = Ids
  BY <1>1 DEF Types, SlotTypes, CallTypes
<1>3. q \in Seq(Nat) /\ Len(q) \in Nat
  <2> HIDE DEF k
  <2>1. q \in Seq(Nat)
    BY <1>2, QueueType
  <2> QED
    BY <2>1, LenProperties
<1>4. k.sck = e /\ ("open" \notin heard[e] => Hushed(k))
  BY DEF LineInv, FlowInv, ConnectedAt
<1>5. \A i \in Ids : wire'[i] # wire[i] => i = e /\ \E n \in 1 .. Len(q) : wire'[i] = wire[i] \o SubSeq(q, 1, n)
  BY <1>2, <1>4 DEF Wires
<1>6. Hushed(k) => Len(q) = 0
  <2>1. <<>> \o <<>> = <<>>
    BY ConcatEmptySeq, EmptySeq
  <2> QED
    BY <2>1 DEF Hushed, Queued
<1> HIDE DEF k, q
<1>7. "open" \notin heard[e] => wire'[e] = wire[e]
  BY <1>3, <1>4, <1>5, <1>6
<1>8. UnopenedAt(e)'
  BY <1>7 DEF UnopenedAt, LineInv, FlowInv
<1>9. ASSUME NEW i \in Ids
      PROVE  wire'[i] \in Seq(Nat)
  <2>1. wire[i] \in Seq(Nat)
    BY DEF LineInv, Wired
  <2>2. CASE wire'[i] # wire[i]
    <3>1. PICK n \in 1 .. Len(q) : wire'[i] = wire[i] \o SubSeq(q, 1, n)
      BY <1>5, <2>2
    <3>2. n \in 0 .. Len(q)
      BY <1>3
    <3> QED
      BY <1>3, <2>1, <3>1, <3>2, Rejoined
  <2> QED
    BY <2>1, <2>2
<1> QED
  BY <1>5, <1>8, <1>9 DEF Wired

\* What is written comes from the front of the queue.
LEMMA PassedLine ==
  ASSUME LineInv, Types', NEW e \in Ids, Has(e), Tending(Pos(e)), Passes(Pos(e), sock'[Pos(e)]),
         Unmoved(e), at # "close"
  PROVE  FilledAt(e)'
<1>1. Types /\ Pos(e) \in Slots
  BY PosType DEF LineInv, CountInv, OnceInv, SlotsInv
<1> DEFINE k == sock[Pos(e)]
           q == Queued(k)
<1>2. k \in Socket /\ DOMAIN wire = Ids
  BY <1>1 DEF Types, SlotTypes, CallTypes
<1>3. q \in Seq(Nat) /\ Len(q) \in Nat
  <2> HIDE DEF k
  <2>1. q \in Seq(Nat)
    BY <1>2, QueueType
  <2> QED
    BY <2>1, LenProperties
<1>4. k.sck = e
  BY DEF LineInv, FlowInv, ConnectedAt
<1>5. PICK n \in 0 .. Len(q) :
        /\ Queued(sock'[Pos(e)]) = SubSeq(q, n + 1, Len(q))
        /\ wire' = IF n = 0 THEN wire ELSE [wire EXCEPT ![e] = @ \o SubSeq(q, 1, n)]
  BY <1>4 DEF Passes, Left
<1>6. wire[e] \in Seq(Nat)
  BY DEF LineInv, Wired
<1>7. wire'[e] = wire[e] \o SubSeq(q, 1, n)
  <2>1. SubSeq(q, 1, 0) = <<>> /\ wire[e] \o <<>> = wire[e]
    BY <1>6, SubSeqEmpty, ConcatEmptySeq
  <2> QED
    BY <1>2, <1>5, <2>1
<1> HIDE DEF q
<1>8. wire'[e] \o Queued(sock'[Pos(e)]) = wire[e] \o q
  <2>1. (wire[e] \o SubSeq(q, 1, n)) \o SubSeq(q, n + 1, Len(q)) = wire[e] \o q
    BY <1>3, <1>6, Rejoined
  <2> QED
    BY <1>5, <1>7, <2>1
<1>9. Done(e)' = Done(e) /\ Piped(e)' = Piped(e)
  BY DEF Unmoved
<1>10. Flows(e)' => Flows(e)
  BY DEF Flows, Has, Closing, Tending, Stands, IsOpen
<1>11. Flows(e) => wire[e] \o q = Parts(Ascending(Done(e))) /\ \A m \in Done(e), p \in Piped(e) : m < p
  BY DEF q, LineInv, FlowInv, FilledAt, Line
<1> QED
  BY <1>8, <1>9, <1>10, <1>11 DEF FilledAt, Line

\* The slot stays with its socket, and gets nothing to queue.
Gentle(k, n) ==
  /\ n.id = k.id /\ n.sck = k.sck /\ n.tcp = k.tcp
  /\ n.status \in {k.status, "halfclose"}
  /\ Hushed(k) => Hushed(n)

LEMMA GentleFlow ==
  ASSUME LineInv, NEW e \in Ids, Has(e), Others(Pos(e)), Gentle(sock[Pos(e)], sock'[Pos(e)]),
         \A c \in Services : call'[c].pc \in HoldSteps => call'[c] = call[c],
         \A i \in Ids : Unmoved(i) /\ (i # e => wire'[i] = wire[i]), heard' = heard,
         \A t \in Slots : t # Pos(e) /\ Closing(t) => Closing(t)',
         UnopenedAt(e)', FilledAt(e)'
  PROVE  FlowInv'
<1>1. IsOpen(Pos(e))' => sock'[Pos(e)].id = e
  BY DEF Has, Gentle
<1>2. ConnectedAt(e)'
  BY DEF LineInv, FlowInv, ConnectedAt, Gentle, Has, IsOpen
<1>3. ASSUME NEW c \in Services, NEW i \in Ids
      PROVE  HeldBy(c, i)' \/ (call'[c] = call[c] /\ Pos(i) # Pos(e))
  <2>1. CASE ~(call'[c].pc \in HoldSteps)
    BY <2>1 DEF HeldBy, Holder
  <2>2. CASE call'[c] = call[c] /\ Pos(i) = Pos(e)
    <3>1. HeldBy(c, i)
      BY DEF LineInv, FlowInv
    <3> QED
      BY <2>2, <3>1 DEF HeldBy, Holder, Gentle, Unmoved
  <2> QED
    BY <2>1, <2>2
<1> QED
  BY <1>1, <1>2, <1>3, FlowOne DEF LineInv

\* A slot in which there is no socket, or no socket any more.
LEMMA ClosedFlow ==
  ASSUME LineInv, NEW e \in Ids, Others(Pos(e)), ~IsOpen(Pos(e))',
         \A c \in Services : call'[c].pc \in HoldSteps => call'[c] = call[c],
         \A c \in Services, i \in Ids : Pos(i) = Pos(e) => ~Holder(c, i),
         \A i \in Ids : /\ Unmoved(i) /\ (i # e => wire'[i] = wire[i])
                        /\ "open" \in heard'[i] <=> "open" \in heard[i],
         \A t \in Slots : t # Pos(e) /\ Closing(t) => Closing(t)',
         UnopenedAt(e)'
  PROVE  FlowInv'
<1>1. ConnectedAt(e)' /\ FilledAt(e)'
  BY DEF ConnectedAt, FilledAt, Flows, Has
<1>2. ASSUME NEW c \in Services, NEW i \in Ids
      PROVE  HeldBy(c, i)' \/ (call'[c] = call[c] /\ Pos(i) # Pos(e))
  BY DEF HeldBy, Holder
<1> QED
  BY <1>1, <1>2, FlowOne DEF LineInv

\* A service that has the lock of a slot has found a connection there.
LEMMA NoHolder ==
  ASSUME LineInv, NEW e \in Ids,
         sock[Pos(e)].status \notin {"connected", "halfclose"} \/ lock[Pos(e)] = None
  PROVE  \A c \in Services, i \in Ids : Pos(i) = Pos(e) => ~Holder(c, i)
<1>1. \A c \in Services, i \in Ids : HeldBy(c, i)
  BY DEF LineInv, FlowInv
<1>2. Locked
  BY DEF LineInv, CountInv, OnceInv, SlotsInv
<1> QED
  BY <1>1, <1>2, PosType DEF HeldBy, Holder, Locked, HoldSteps

LEMMA ToldQuietly ==
  ASSUME NEW i, NEW kind, kind # "open", Told(i, kind)
  PROVE  \A n \in Ids : "open" \in heard'[n] <=> "open" \in heard[n]
BY DEF Told

LEMMA StillUnopened ==
  ASSUME LineInv, NEW e \in Ids, Unmoved(e), wire'[e] = wire[e], "open" \in heard'[e] <=> "open" \in heard[e]
  PROVE  UnopenedAt(e)'
BY DEF LineInv, FlowInv, UnopenedAt, Unmoved

\* A step of one service that is not about sending.
LEMMA CallQuiet ==
  ASSUME NEW c \in Services, NEW p, NEW i, Going(c, p, i),
         p \in SendSteps <=> call[c].pc \in SendSteps, call[c].pc \in SendSteps => i = call[c].id
  PROVE  SendersKept
BY DEF SendersKept, Going

LEMMA ListenLine ==
  ASSUME LineInv, NEW c \in Services, Listen(c) \/ ListenPost(c)
  PROVE  Traffic' /\ Wired' /\ FlowInv'
<1> USE DEF LineInv, CountInv, OnceInv, SlotsInv
<1>1. CASE Listen(c)
  <2>1. PICK i \in Ids :
          /\ sock[Pos(i)].status = "invalid"
          /\ Reserving(Pos(i)) /\ Going(c, "reserved", i)
    BY <1>1, ListenStep
  <2>2. /\ Types' /\ call[c].pc = "idle"
        /\ UNCHANGED <<pipe, at, op, heard, wire, owner, target>>
    BY <1>1, ListenStep DEF Elsewhere, pollVars
  <2>3. SendersKept /\ PacketsKept /\ OwnersKept
    BY <2>1, <2>2, CallQuiet DEF PacketsKept, OwnersKept, SendSteps
  <2>4. Traffic' /\ \A j \in Ids : Unmoved(j)
    BY <2>2, <2>3, QuietTraffic
  <2>5. Others(Pos(i)) /\ ~IsOpen(Pos(i))'
    BY <2>1 DEF Reserving, IsOpen
  <2>6. \A d \in Services : call'[d].pc \in HoldSteps => call'[d] = call[d]
    BY <2>1 DEF Going, HoldSteps
  <2>7. \A d \in Services, j \in Ids : Pos(j) = Pos(i) => ~Holder(d, j)
    BY <2>1, NoHolder
  <2>8. \A t \in Slots : Closing(t) => Closing(t)'
    BY <2>2 DEF Closing
  <2>9. UnopenedAt(i)'
    BY <2>2, <2>4, StillUnopened
  <2>10. FlowInv'
    BY <2>2, <2>4, <2>5, <2>6, <2>7, <2>8, <2>9, ClosedFlow
  <2> QED
    BY <2>2, <2>4, <2>10 DEF Wired
<1>2. CASE ListenPost(c)
  <2>1. /\ Types' /\ call[c].pc = "reserved" /\ call[c].id \in Ids
        /\ Going(c, "idle", None)
    BY <1>2, ListenPostStep
  <2>2. PICK i \in Ids : i = call[c].id
    BY <2>1
  <2>3. Naming(Pos(i), i) /\ Owning(i, c) /\ UNCHANGED <<at, op, heard, wire, target>>
    BY <1>2, <2>2, ListenPostStep DEF Elsewhere, pollVars
  <2>4. PICK d : Posting(d) /\ d = [cmd |-> "L", id |-> i]
    BY <1>2, <2>2, ListenPostStep
  <2>5. sock[Pos(i)].status = "reserve" /\ owner[i] = None
    BY <2>1, <2>2 DEF Sound, Claimed, Once
  <2>6. SendersKept /\ PacketsKept /\ OwnersKept
    <3>1. d.cmd # "D"
      BY <2>4
    <3> QED
      BY <2>1, <2>3, <2>4, <2>5, <3>1, CallQuiet DEF PacketsKept, OwnersKept, Owning, SendSteps
  <2>7. Traffic' /\ \A j \in Ids : Unmoved(j)
    BY <2>1, <2>3, <2>6, QuietTraffic
  <2>8. Others(Pos(i)) /\ ~IsOpen(Pos(i))'
    BY <2>3, <2>5 DEF Naming, Stands, IsOpen
  <2>9. \A e \in Services : call'[e].pc \in HoldSteps => call'[e] = call[e]
    BY <2>1 DEF Going, HoldSteps
  <2>10. \A e \in Services, j \in Ids : Pos(j) = Pos(i) => ~Holder(e, j)
    BY <2>5, NoHolder
  <2>11. \A t \in Slots : Closing(t) => Closing(t)'
    BY <2>3 DEF Closing
  <2>12. UnopenedAt(i)'
    BY <2>3, <2>7, StillUnopened
  <2>13. FlowInv'
    BY <2>3, <2>7, <2>8, <2>9, <2>10, <2>11, <2>12, ClosedFlow
  <2> QED
    BY <2>3, <2>7, <2>13 DEF Wired
<1> QED
  BY <1>1, <1>2

LEMMA SendLine ==
  ASSUME LineInv, NEW c \in Services, NEW i \in Ids, Send(c, i)
  PROVE  Traffic' /\ Wired' /\ FlowInv'
<1> USE DEF LineInv, CountInv, OnceInv, SlotsInv
<1>1. /\ Types' /\ owner[i] = c /\ "open" \in heard[i] /\ call[c].pc = "idle"
      /\ target' = Append(target, i)
      /\ \/ Going(c, "probe", i)
         \/ call' = call /\ (sock[Pos(i)].id # i \/ sock[Pos(i)].status = "invalid")
  BY SendStep
<1>2. UNCHANGED <<sock, pipe, owner, at, op, heard, wire>>
  BY SendStep DEF Elsewhere, pollVars
<1>3. /\ Traffic'
      /\ \A j \in Ids : j # i => Unmoved(j)
      /\ Piped(i)' = Piped(i)
      /\ Going(c, "probe", i) => Done(i)' = Done(i)
  BY <1>1, <1>2, SendTraffic
<1>4. ConnectedAt(i)' /\ UnopenedAt(i)'
  BY <1>1, <1>2 DEF FlowInv, ConnectedAt, UnopenedAt, Has, IsOpen
<1>5. FilledAt(i)'
  <2>1. CASE Going(c, "probe", i)
    <3>1. Done(i)' = Done(i) /\ FilledAt(i) /\ (Flows(i)' <=> Flows(i)) /\ wire' = wire /\ sock' = sock
      BY <1>2, <1>3, <2>1 DEF FlowInv, Flows, Has, IsOpen, Closing
    <3> QED
      BY <1>3, <3>1 DEF FilledAt, Line
  <2>2. CASE sock[Pos(i)].id # i \/ sock[Pos(i)].status = "invalid"
    BY <1>2, <2>2 DEF FilledAt, Flows, Has, IsOpen
  <2> QED
    BY <1>1, <2>1, <2>2
<1>6. ASSUME NEW d \in Services, NEW j \in Ids
      PROVE  HeldBy(d, j)'
  <2>1. HeldBy(d, j) /\ (Holder(d, j)' => Holder(d, j) /\ call'[d] = call[d])
    BY <1>1 DEF FlowInv, Holder, HoldSteps, Going
  <2> QED
    BY <1>2, <2>1 DEF HeldBy, Packets
<1>7. /\ Others(Pos(i)) /\ Stays(Pos(i))
      /\ \A t \in Slots : Closing(t) => Closing(t)'
  BY <1>2, PosType DEF Others, Stays, Closing
<1>8. FlowInv'
  BY <1>2, <1>3, <1>4, <1>5, <1>6, <1>7, FlowOne
<1> QED
  BY <1>2, <1>3, <1>8 DEF Wired

LEMMA RequestLine ==
  ASSUME LineInv, NEW c \in Services, NEW x \in {"S", "K", "H"}, NEW i \in Ids, Request(c, x, i)
  PROVE  Traffic' /\ Wired' /\ FlowInv'
<1> USE DEF LineInv, CountInv, OnceInv, SlotsInv
<1>1. Types' /\ UNCHANGED <<sock, call, owner, target, at, op, heard, wire>>
  BY RequestStep DEF Elsewhere, pollVars
<1>2. PICK d : Posting(d) /\ d = [cmd |-> x, id |-> i]
  <2>1. Posting([cmd |-> x, id |-> i])
    BY RequestStep
  <2> QED
    BY <2>1
<1>3. d.cmd # "D"
  BY <1>2
<1>4. SendersKept /\ PacketsKept /\ OwnersKept
  BY <1>1, <1>2, <1>3 DEF SendersKept, PacketsKept, OwnersKept
<1>5. Traffic' /\ \A j \in Ids : Unmoved(j)
  BY <1>1, <1>4, QuietTraffic
<1>6. FlowInv'
  BY <1>1, <1>5, FlowCalm DEF Closing
<1> QED
  BY <1>1, <1>5, <1>6 DEF Wired

\* A socket with no packets on their way, as its counter tells, has none in the pipe.
LEMMA ReadyMeans ==
  ASSUME LineInv, NEW i \in Ids, Ready(sock[Pos(i)]), sock[Pos(i)].id = i
  PROVE  Packets(i) = {}
<1> USE DEF LineInv, CountInv, OnceInv, SlotsInv
<1>1. Has(i) /\ Pos(i) \in Slots
  BY PosType DEF Ready, Has, IsOpen
<1>2. sock[Pos(i)].tcp
  BY <1>1 DEF FlowInv, ConnectedAt
<1>3. sock[Pos(i)].refs = 0 /\ sock[Pos(i)].refs >= InFlight(i)
  BY <1>1, <1>2, CountedMeans DEF Ready
<1>4. Flight(i)
  BY FlightTypes
<1>5. Cardinality(Packets(i)) = 0 /\ IsFiniteSet(Packets(i))
  BY <1>3, <1>4 DEF Flight
<1> QED
  BY <1>5, FS_EmptySet

LEMMA ProbeLine ==
  ASSUME LineInv, NEW c \in Services, Probe(c) \/ Try(c) \/ Verify(c)
  PROVE  Traffic' /\ Wired' /\ FlowInv'
<1> USE DEF LineInv, CountInv, OnceInv, SlotsInv
<1>1. /\ Types' /\ call[c].pc \in SendSteps
      /\ UNCHANGED <<sock, pipe, owner, target, at, op, heard, wire>>
  BY ProbeStep DEF Elsewhere, pollVars
<1>2. PICK i \in Ids : i = call[c].id
  BY <1>1, Hands DEF SendSteps
<1>3. PICK p \in SendSteps :
        /\ Going(c, p, i)
        /\ p = "recheck" => Ready(sock[Pos(i)])
        /\ p = "verify" => call[c].pc = "recheck" /\ Empty(sock[Pos(i)], i)
        /\ p = "write" => call[c].pc = "verify"
  BY <1>2, ProbeStep DEF SendSteps
<1>4. SendersKept /\ PacketsKept /\ OwnersKept
  BY <1>1, <1>2, <1>3, CallQuiet DEF PacketsKept, OwnersKept
<1>5. Traffic' /\ \A j \in Ids : Unmoved(j)
  BY <1>1, <1>4, QuietTraffic
<1>6. ConnectedAt(i)' /\ UnopenedAt(i)'
  BY <1>1, <1>5 DEF FlowInv, ConnectedAt, UnopenedAt, Unmoved, Has, IsOpen
<1>7. FilledAt(i)'
  <2>1. /\ Done(i)' = Done(i) /\ Piped(i)' = Piped(i) /\ FilledAt(i) /\ (Flows(i)' <=> Flows(i))
        /\ wire' = wire /\ sock' = sock
    BY <1>1, <1>5 DEF FlowInv, Flows, Has, IsOpen, Closing, Unmoved
  <2> QED
    BY <2>1 DEF FilledAt, Line
<1>8. HeldBy(c, i)'
  <2> SUFFICES ASSUME p \in HoldSteps
               PROVE  /\ sock[Pos(i)].status \in {"connected", "halfclose"}
                      /\ sock[Pos(i)].id = i => Packets(i) = {}
                      /\ p # "recheck" => sock[Pos(i)].id = i /\ Hushed(sock[Pos(i)])
    BY <1>1, <1>3 DEF HeldBy, Holder, Going, Packets
  <2>1. CASE p = "recheck"
    BY <1>3, <2>1, ReadyMeans DEF Ready
  <2>2. HeldBy(c, i) /\ call[c].id = i
    BY <1>2 DEF FlowInv
  <2>3. CASE p = "verify"
    BY <1>3, <2>2, <2>3 DEF HeldBy, Holder, HoldSteps, Empty, Hushed
  <2>4. CASE p = "write"
    BY <1>3, <2>2, <2>4 DEF HeldBy, Holder, HoldSteps
  <2> QED
    BY <2>1, <2>3, <2>4 DEF HoldSteps
<1>9. ASSUME NEW d \in Services, NEW j \in Ids
      PROVE  HeldBy(d, j)'
  <2>1. CASE d = c
    <3>1. call'[c].id = i
      BY <1>3 DEF Going
    <3> QED
      BY <1>8, <2>1, <3>1 DEF HeldBy, Holder
  <2>2. CASE d # c
    <3>1. HeldBy(d, j) /\ call'[d] = call[d]
      BY <1>3, <2>2 DEF FlowInv, Going
    <3> QED
      BY <1>1, <3>1 DEF HeldBy, Holder, Packets
  <2> QED
    BY <2>1, <2>2
<1>10. /\ Others(Pos(i)) /\ Stays(Pos(i))
       /\ \A t \in Slots : Closing(t) => Closing(t)'
  BY <1>1, PosType DEF Others, Stays, Closing
<1>11. FlowInv'
  BY <1>1, <1>5, <1>6, <1>7, <1>9, <1>10, FlowOne
<1> QED
  BY <1>1, <1>5, <1>11 DEF Wired

\* A slot whose counter changes.
LEMMA CountingFlow ==
  ASSUME LineInv, NEW e \in Ids, sock[Pos(e)].id = e, NEW r, Counting(Pos(e), r),
         \A c \in Services : call'[c].pc \in HoldSteps => call'[c] = call[c],
         \A i \in Ids : Unmoved(i), UNCHANGED <<heard, wire>>,
         \A t \in Slots : t # Pos(e) => (Closing(t) <=> Closing(t)'),
         Closing(Pos(e)) <=> Closing(Pos(e))'
  PROVE  FlowInv'
<1>1. Gentle(sock[Pos(e)], sock'[Pos(e)]) /\ Queued(sock'[Pos(e)]) = Queued(sock[Pos(e)])
      /\ sock'[Pos(e)].status = sock[Pos(e)].status /\ sock'[Pos(e)].id = e /\ Others(Pos(e))
  BY DEF Counting, Whole, Alike, Stands, Queues, Gentle, Hushed, Queued
<1>2. UnopenedAt(e)'
  BY StillUnopened
<1>3. CASE IsOpen(Pos(e))
  <2>1. Has(e)
    BY <1>3 DEF Has
  <2>2. FilledAt(e)'
    <3>1. /\ Done(e)' = Done(e) /\ Piped(e)' = Piped(e) /\ FilledAt(e)
          /\ Flows(e)' => Flows(e)
      BY <1>1, <2>1, PosType DEF LineInv, FlowInv, Flows, Has, Unmoved
    <3> QED
      BY <1>1, <3>1 DEF FilledAt, Line
  <2> QED
    BY <1>1, <1>2, <2>1, <2>2, GentleFlow
<1>4. CASE ~IsOpen(Pos(e))
  <2>1. \A c \in Services, i \in Ids : Pos(i) = Pos(e) => ~Holder(c, i)
    BY <1>4, NoHolder DEF IsOpen
  <2>2. ~IsOpen(Pos(e))'
    BY <1>1, <1>4 DEF IsOpen
  <2> QED
    BY <1>1, <1>2, <2>1, <2>2, ClosedFlow
<1> QED
  BY <1>3, <1>4

LEMMA IncLine ==
  ASSUME LineInv, ~stale', NEW c \in Services, Inc(c)
  PROVE  Traffic' /\ Wired' /\ FlowInv'
<1> USE DEF LineInv, CountInv, OnceInv, SlotsInv
<1>1. /\ Types' /\ call[c].pc = "inc" /\ call[c].id \in Ids
      /\ UNCHANGED <<pipe, owner, target, at, op, heard, wire>>
  BY IncStep DEF Elsewhere, pollVars
<1>2. PICK i \in Ids : i = call[c].id
  BY <1>1
<1>3. sock[Pos(i)].id = i /\ Going(c, "post", i)
      /\ (sock' = sock \/ \E r : Counting(Pos(i), r))
  BY <1>2, IncStep
<1>4. SendersKept /\ PacketsKept /\ OwnersKept
  BY <1>1, <1>2, <1>3, CallQuiet DEF PacketsKept, OwnersKept, SendSteps
<1>5. Traffic' /\ \A j \in Ids : Unmoved(j)
  BY <1>1, <1>4, QuietTraffic
<1>6. /\ \A d \in Services : call'[d].pc \in HoldSteps => call'[d] = call[d]
      /\ \A t : Closing(t) <=> Closing(t)'
  BY <1>1, <1>3 DEF Going, HoldSteps, Closing
<1>7. CASE sock' = sock
  <2>1. FlowInv'
    BY <1>1, <1>5, <1>6, <1>7, FlowCalm
  <2> QED
    BY <1>1, <1>5, <2>1 DEF Wired
<1>8. ASSUME NEW r, Counting(Pos(i), r)
      PROVE  FlowInv'
  BY <1>1, <1>3, <1>5, <1>6, <1>8, CountingFlow
<1> QED
  BY <1>1, <1>3, <1>5, <1>7, <1>8 DEF Wired

LEMMA DoneType ==
  ASSUME Types, NEW i
  PROVE  Done(i) \in SUBSET Nat /\ IsFiniteSet(Done(i))
<1>1. Done(i) \subseteq Sent(i)
  BY DEF Done
<1> QED
  BY <1>1, SentType, FS_Subset

\* The parts of one more message, which comes after the others.
LEMMA LineGrows ==
  ASSUME NEW A \in SUBSET Nat, IsFiniteSet(A), NEW m \in Nat, \A a \in A : a < m
  PROVE  /\ Parts(Ascending(A)) \in Seq(Nat) /\ Parts(<<m>>) \in Seq(Nat)
         /\ Parts(Ascending(A \cup {m})) = Parts(Ascending(A)) \o Parts(<<m>>)
<1>1. IsFiniteSet({m}) /\ {m} \in SUBSET Nat
  BY FS_Singleton
<1>2. Ascending(A \cup {m}) = Ascending(A) \o Ascending({m}) /\ Ascending({m}) = <<m>>
  BY <1>1, AscendingUnion, AscendingFew
<1>3. Ascending(A) \in Seq(Nat)
  BY AscendingType
<1>4. <<m>> \in Seq(Nat)
  OBVIOUS
<1>5. Parts(Ascending(A)) \in Seq(Nat) /\ Parts(<<m>>) \in Seq(Nat)
  BY <1>3, <1>4, PartsMean
<1>6. Parts(Ascending(A) \o <<m>>) = Parts(Ascending(A)) \o Parts(<<m>>)
  BY <1>3, <1>4, PartsConcat
<1> QED
  BY <1>2, <1>5, <1>6

LEMMA HushedQueue ==
  ASSUME NEW k, Hushed(k)
  PROVE  Queued(k) = <<>>
<1>1. <<>> \o <<>> = <<>>
  BY ConcatEmptySeq, EmptySeq
<1> QED
  BY <1>1 DEF Hushed, Queued

LEMMA DirectWriteLine ==
  ASSUME LineInv, NEW c \in Services, DirectWrite(c)
  PROVE  Traffic' /\ Wired' /\ FlowInv'
<1> USE DEF LineInv, CountInv, OnceInv, SlotsInv
<1>1. /\ Types' /\ call[c].pc = "write" /\ call[c].id \in Ids /\ Going(c, "idle", None)
      /\ UNCHANGED <<at, op, heard, pipe, owner, target>>
  BY DirectWriteStep DEF pollVars
<1>2. PICK i \in Ids : i = call[c].id
  BY <1>1
<1>3. Tending(Pos(i)) /\ Writing(Pos(i), Parts(<<Message(c)>>))
  BY <1>2, DirectWriteStep
<1>4. HeldBy(c, i) /\ ConnectedAt(i) /\ FilledAt(i) /\ Pos(i) \in Slots
  BY PosType DEF FlowInv
<1>5. /\ sock[Pos(i)].status \in {"connected", "halfclose"}
      /\ sock[Pos(i)].id = i /\ Packets(i) = {} /\ Hushed(sock[Pos(i)])
  BY <1>1, <1>2, <1>4 DEF HeldBy, Holder, HoldSteps
<1>6. Has(i) /\ sock[Pos(i)].sck = i
  BY <1>4, <1>5 DEF Has, IsOpen, ConnectedAt
<1>7. "open" \in heard[i]
  BY <1>1, <1>2 DEF Opening, SendSteps
<1>8. Piped(i) = {}
  BY <1>5 DEF Piped
<1>9. /\ Traffic'
      /\ \A j \in Ids : j # i => Unmoved(j)
      /\ Piped(i)' = {} /\ Packets(i)' = {}
      /\ Done(i)' = Done(i) \cup {Message(c)}
  BY <1>1, <1>2, <1>5, <1>8, WriteTraffic DEF SendSteps
<1> DEFINE m == Parts(<<Message(c)>>)
<1>10. /\ Message(c) \in Nat
       /\ \A d \in Done(i) : d < Message(c)
  <2>1. InHands(i) = {Message(c)} /\ Message(c) \in Nat /\ \A d \in Sent(i) : d <= Message(c)
    BY <1>1, <1>2, LeaveHands, MessageIs DEF SendSteps, Traffic
  <2>2. \A d \in Done(i) : d \in Nat /\ d <= Message(c) /\ d # Message(c)
    BY <2>1, DoneType DEF Done
  <2> QED
    BY <2>1, <2>2
<1>11. m \in Seq(Nat) /\ Len(m) = 2
  BY <1>10, PartsType
<1>12. PICK n \in 0 .. 2 :
         /\ wire' = [wire EXCEPT ![i] = @ \o SubSeq(m, 1, n)]
         /\ sock'[Pos(i)].buf = SubSeq(m, n + 1, 2) /\ sock'[Pos(i)].list = sock[Pos(i)].list
  BY <1>3, <1>6 DEF Writing
<1>13. Parts(Ascending(Done(i) \cup {Message(c)})) = Parts(Ascending(Done(i))) \o m
  BY <1>10, DoneType, LineGrows
<1> HIDE DEF m
<1>14. wire[i] \in Seq(Nat) /\ DOMAIN wire = Ids
  BY DEF Wired, Types, CallTypes
<1>15. /\ wire[i] \o SubSeq(m, 1, n) \in Seq(Nat)
       /\ (wire[i] \o SubSeq(m, 1, n)) \o SubSeq(m, n + 1, 2) = wire[i] \o m
  <2>1. n \in 0 .. Len(m)
    BY <1>11
  <2>2. /\ wire[i] \o SubSeq(m, 1, n) \in Seq(Nat)
        /\ (wire[i] \o SubSeq(m, 1, n)) \o SubSeq(m, n + 1, Len(m)) = wire[i] \o m
    BY <1>11, <1>14, <2>1, Rejoined
  <2> QED
    BY <1>11, <2>2
<1>16. wire'[i] = wire[i] \o SubSeq(m, 1, n) /\ \A j \in Ids : j # i => wire'[j] = wire[j]
  BY <1>12, <1>14
<1>17. Queued(sock'[Pos(i)]) = SubSeq(m, n + 1, 2)
  <2>1. SubSeq(m, n + 1, 2) \in Seq(Nat)
    BY <1>11, Suffix
  <2>2. SubSeq(m, n + 1, 2) \o <<>> = SubSeq(m, n + 1, 2)
    BY <2>1, ConcatEmptySeq
  <2> QED
    BY <1>5, <1>12, <2>2 DEF Queued, Hushed
<1>18. /\ Others(Pos(i)) /\ sock'[Pos(i)].id = i
       /\ sock'[Pos(i)].status = sock[Pos(i)].status /\ sock'[Pos(i)].sck = i
       /\ sock'[Pos(i)].tcp = sock[Pos(i)].tcp
  BY <1>3, <1>5, <1>6 DEF Tending, Alike, Stands
<1>19. ConnectedAt(i)' /\ UnopenedAt(i)'
  BY <1>1, <1>4, <1>5, <1>6, <1>7, <1>18 DEF ConnectedAt, UnopenedAt
<1>20. FilledAt(i)'
  <2> SUFFICES ASSUME Flows(i)'
               PROVE  Line(i)'
    BY <1>9 DEF FilledAt
  <2>1. Flows(i)
    BY <1>1, <1>6, <1>18 DEF Flows, Closing
  <2>2. wire[i] \o Queued(sock[Pos(i)]) = Parts(Ascending(Done(i)))
    BY <1>4, <2>1 DEF FilledAt, Line
  <2>3. wire[i] = Parts(Ascending(Done(i)))
    BY <1>5, <1>14, <2>2, HushedQueue, ConcatEmptySeq
  <2>4. wire'[i] \o Queued(sock'[Pos(i)]) = Parts(Ascending(Done(i) \cup {Message(c)}))
    BY <1>13, <1>15, <1>16, <1>17, <2>3
  <2>5. Done(i)' = Done(i) \cup {Message(c)}
    BY <1>9
  <2> QED
    BY <2>4, <2>5 DEF Line
<1>21. ASSUME NEW d \in Services, NEW j \in Ids
       PROVE  HeldBy(d, j)' \/ (call'[d] = call[d] /\ Pos(j) # Pos(i))
  <2>1. CASE d = c
    BY <1>1, <2>1 DEF HeldBy, Holder, HoldSteps, Going
  <2>2. CASE d # c /\ Pos(j) = Pos(i)
    <3>1. ~Holder(d, j)
      BY <1>1, <1>2, <2>2 DEF Locked, Holder, HoldSteps
    <3> QED
      BY <1>1, <2>2, <3>1 DEF HeldBy, Holder, Going
  <2>3. CASE d # c /\ Pos(j) # Pos(i)
    BY <1>1, <2>3 DEF Going
  <2> QED
    BY <2>1, <2>2, <2>3
<1>22. \A t \in Slots : Closing(t) => Closing(t)'
  BY <1>1 DEF Closing
<1>23. FlowInv'
  BY <1>1, <1>9, <1>16, <1>18, <1>19, <1>20, <1>21, <1>22, FlowOne
<1>24. Wired'
  BY <1>15, <1>16 DEF Wired
<1> QED
  BY <1>9, <1>23, <1>24

LEMMA PostLine ==
  ASSUME LineInv, NEW c \in Services, Post(c)
  PROVE  Traffic' /\ Wired' /\ FlowInv'
<1> USE DEF LineInv, CountInv, OnceInv, SlotsInv
<1>1. /\ Types' /\ call[c].pc = "post" /\ call[c].id \in Ids /\ Going(c, "idle", None)
      /\ UNCHANGED <<sock, at, op, heard, wire, owner, target>>
  BY PostStep DEF Elsewhere, pollVars
<1>2. PICK i \in Ids : i = call[c].id
  BY <1>1
<1>3. PICK d : Posting(d) /\ d = [cmd |-> "D", id |-> i, msg |-> Message(c)]
  BY <1>2, PostStep
<1>4. d.cmd = "D" /\ d.id = i /\ d.msg = Message(c)
  BY <1>3
<1>5. /\ Traffic'
      /\ \A j \in Ids : j # i => Unmoved(j)
      /\ Sending(i) = {c} /\ Done(i)' = Done(i)
      /\ Piped(i)' = Piped(i) \cup {Message(c)}
      /\ \A m \in Done(i) : m < Message(c)
  BY <1>1, <1>2, <1>3, <1>4, PostTraffic DEF SendSteps
<1>6. "open" \in heard[i]
  BY <1>1, <1>2 DEF Opening, SendSteps
<1>7. ConnectedAt(i)' /\ UnopenedAt(i)'
  BY <1>1, <1>6 DEF FlowInv, ConnectedAt, UnopenedAt, Has, IsOpen
<1>8. FilledAt(i)'
  <2>1. FilledAt(i) /\ (Flows(i)' <=> Flows(i)) /\ wire' = wire /\ sock' = sock
    BY <1>1 DEF FlowInv, Flows, Has, IsOpen, Closing
  <2>2. Flows(i) => \A m \in Done(i)', p \in Piped(i)' : m < p
    BY <1>5, <2>1 DEF FilledAt
  <2>3. Flows(i) => Line(i)'
    BY <1>5, <2>1 DEF FilledAt, Line
  <2> QED
    BY <2>1, <2>2, <2>3 DEF FilledAt
<1>9. ASSUME NEW e \in Services, NEW j \in Ids
      PROVE  HeldBy(e, j)'
  <2> SUFFICES ASSUME Holder(e, j)'
               PROVE  HeldBy(e, j)'
    BY DEF HeldBy
  <2>1. e # c /\ call'[e] = call[e] /\ Holder(e, j) /\ HeldBy(e, j)
    BY <1>1 DEF Going, Holder, HoldSteps, FlowInv
  <2>2. j # i
    BY <1>5, <2>1, SendingMeans DEF Holder, HoldSteps, SendSteps
  <2> QED
    BY <1>1, <1>5, <2>1, <2>2 DEF HeldBy, Holder, Unmoved
<1>10. /\ Others(Pos(i)) /\ Stays(Pos(i))
       /\ \A t \in Slots : Closing(t) => Closing(t)'
  BY <1>1, PosType DEF Others, Stays, Closing
<1>11. FlowInv'
  BY <1>1, <1>5, <1>7, <1>8, <1>9, <1>10, FlowOne
<1> QED
  BY <1>1, <1>5, <1>11 DEF Wired

LEMMA ServiceLine ==
  ASSUME LineInv, ~stale', NEW c \in Services, Service(c) \/ InCall(c)
  PROVE  Traffic' /\ Wired' /\ FlowInv'
BY ListenLine, SendLine, RequestLine, ProbeLine, IncLine, DirectWriteLine, PostLine DEF Service, InCall
-----------------------------------------------------------------------------
(***************************************************************************)
(* The polling thread.                                                     *)
(***************************************************************************)
LEMMA PollQuiet ==
  ASSUME LineInv, Types', Apart, PacketsKept, OwnersKept
  PROVE  Traffic' /\ (\A i \in Ids : Unmoved(i)) /\ call' = call
         /\ \A c \in Services : call'[c].pc \in HoldSteps => call'[c] = call[c]
<1>1. Types /\ Traffic /\ SendersKept
  BY DEF LineInv, CountInv, OnceInv, SlotsInv, SendersKept, Apart
<1> QED
  BY <1>1, QuietTraffic DEF Apart

LEMMA MakingFlow ==
  ASSUME LineInv, NEW e \in Ids, NEW st \in {"plisten", "paccept"}, Making(e, st),
         sock[Pos(e)].status = "reserve", "open" \notin heard[e],
         UNCHANGED <<heard, wire, call>>, \A i \in Ids : Unmoved(i),
         \A t \in Slots : t # Pos(e) /\ Closing(t) => Closing(t)'
  PROVE  FlowInv'
<1>1. Others(Pos(e)) /\ sock'[Pos(e)].id = e /\ sock'[Pos(e)].status \notin {"connected"}
  BY DEF Making
<1>2. ConnectedAt(e)'
  BY DEF Making, ConnectedAt, Hushed
<1>3. UnopenedAt(e)'
  BY StillUnopened
<1>4. FilledAt(e)'
  BY <1>1 DEF FilledAt, Flows
<1>5. \A c \in Services, i \in Ids : Pos(i) = Pos(e) => ~Holder(c, i)
  BY NoHolder
<1>6. ASSUME NEW c \in Services, NEW i \in Ids
      PROVE  HeldBy(c, i)' \/ (call'[c] = call[c] /\ Pos(i) # Pos(e))
  BY <1>5 DEF HeldBy, Holder
<1> QED
  BY <1>1, <1>2, <1>3, <1>4, <1>6, FlowOne DEF LineInv

\* What is left of nothing is nothing.
LEMMA PassedGentle ==
  ASSUME LineInv, Types', NEW e \in Ids, Tending(Pos(e)), Passes(Pos(e), sock'[Pos(e)])
  PROVE  Gentle(sock[Pos(e)], sock'[Pos(e)])
<1> DEFINE k == sock[Pos(e)]
           n == sock'[Pos(e)]
<1>1. k \in Socket /\ n \in Socket
  BY PosType DEF LineInv, CountInv, OnceInv, SlotsInv, Types, SlotTypes
<1>2. Hushed(k) => Queued(n) = <<>>
  <2> SUFFICES ASSUME Hushed(k)
               PROVE  Queued(n) = <<>>
    OBVIOUS
  <2>1. Queued(k) = <<>> /\ Len(Queued(k)) = 0
    BY HushedQueue, EmptySeq
  <2>2. PICK a \in 0 .. Len(Queued(k)) : Queued(n) = Left(k, a)
    BY DEF Passes
  <2>3. Queued(n) = SubSeq(<<>>, 1, 0)
    BY <2>1, <2>2 DEF Left
  <2> QED
    BY <2>3, SubSeqEmpty
<1>3. n.buf \in Seq(Nat) /\ n.list \in Seq(Nat)
  <2> HIDE DEF n
  <2> QED
    BY <1>1, QueueType
<1>4. Queued(n) = <<>> => Hushed(n)
  <2> DEFINE a == n.buf
             b == n.list
  <2>1. a \in Seq(Nat) /\ b \in Seq(Nat)
    BY <1>3
  <2> HIDE DEF a, b
  <2>2. a \o b = <<>> => a = <<>> /\ b = <<>>
    BY <2>1, ConcatEqualIffEmpty
  <2> QED
    BY <2>2 DEF a, b, Queued, Hushed
<1> QED
  BY <1>2, <1>4 DEF Gentle, Tending, Alike, Stands

\* onForward with the lock.
LEMMA ForwardLine ==
  ASSUME LineInv, Types', NEW e \in Ids, Has(e), Wires(Pos(e)), at # "close",
         Apart, UNCHANGED <<pipe, owner>>,
         \/ Tending(Pos(e)) /\ Passes(Pos(e), sock'[Pos(e)]) /\ heard' = heard
         \/ lock[Pos(e)] = None /\ ShutsSlot(Pos(e))
  PROVE  Traffic' /\ Wired' /\ FlowInv'
<1>1. /\ Traffic' /\ (\A i \in Ids : Unmoved(i))
      /\ \A c \in Services : call'[c].pc \in HoldSteps => call'[c] = call[c]
  BY PollQuiet DEF PacketsKept, OwnersKept
<1>2. \A n \in Ids : "open" \in heard'[n] <=> "open" \in heard[n]
  BY ToldQuietly DEF ShutsSlot
<1>3. Wired' /\ UnopenedAt(e)' /\ \A i \in Ids : i # e => wire'[i] = wire[i]
  BY <1>1, <1>2, WiresMean DEF Unmoved
<1>4. \A t \in Slots : Closing(t) => Closing(t)'
  BY DEF Closing
<1>5. CASE Tending(Pos(e)) /\ Passes(Pos(e), sock'[Pos(e)]) /\ heard' = heard
  <2>1. FilledAt(e)'
    BY <1>1, <1>5, PassedLine
  <2>2. Gentle(sock[Pos(e)], sock'[Pos(e)]) /\ Others(Pos(e))
    BY <1>5, PassedGentle DEF Tending
  <2>3. FlowInv'
    BY <1>1, <1>3, <1>4, <1>5, <2>1, <2>2, GentleFlow
  <2> QED
    BY <1>1, <1>3, <2>3
<1>6. CASE lock[Pos(e)] = None /\ ShutsSlot(Pos(e))
  <2>1. Others(Pos(e)) /\ ~IsOpen(Pos(e))'
    BY <1>6 DEF ShutsSlot, Shutting, IsOpen
  <2>2. \A c \in Services, i \in Ids : Pos(i) = Pos(e) => ~Holder(c, i)
    BY <1>6, NoHolder
  <2>3. FlowInv'
    BY <1>1, <1>2, <1>3, <1>4, <2>1, <2>2, ClosedFlow
  <2> QED
    BY <1>1, <1>3, <2>3
<1> QED
  BY <1>5, <1>6

\* The polling thread begins to close.
LEMMA EndsFlow ==
  ASSUME LineInv, NEW e \in Ids, Has(e), Ending(Pos(e)), at' = "close", op'.slot = Pos(e), at # "close",
         UNCHANGED <<heard, wire, call>>, \A i \in Ids : Unmoved(i)
  PROVE  FlowInv'
<1>1. Gentle(sock[Pos(e)], sock'[Pos(e)]) /\ Others(Pos(e))
  BY DEF Ending, Gentle, Alike, Hushed
<1>2. FilledAt(e)' /\ \A t \in Slots : Closing(t) => Closing(t)'
  BY DEF FilledAt, Flows, Closing
<1>3. UnopenedAt(e)'
  BY StillUnopened
<1> QED
  BY <1>1, <1>2, <1>3, GentleFlow

LEMMA PartsNone == Parts(<<>>) = <<>>
<1> DEFINE a == <<>>
<1>1. a \in Seq(Nat) /\ Len(a) = 0
  BY EmptySeq
<1> HIDE DEF a
<1>2. Parts(a) \in Seq(Nat) /\ Len(Parts(a)) = 2 * Len(a)
  BY <1>1, PartsMean
<1>3. Parts(a) = <<>>
  BY <1>1, <1>2, EmptySeq
<1> QED
  BY <1>3 DEF a

LEMMA TakenKept ==
  ASSUME NEW x, NEW i, Taking(x, i), x # "D"
  PROVE  PacketsKept
BY DEF PacketsKept

LEMMA ListenSocketLine ==
  ASSUME LineInv, Sound', ListenSocket
  PROVE  Traffic' /\ Wired' /\ FlowInv'
<1> USE DEF CountInv, OnceInv, SlotsInv
<1>1. PICK i \in Ids :
        /\ Taking("L", i)
        /\ \/ sock[Pos(i)].status = "reserve" /\ Making(i, "plisten")
           \/ sock[Pos(i)].status # "reserve" /\ failed' = "slot"
  BY ListenSocketStep DEF LineInv
<1>2. Types' /\ Apart /\ UNCHANGED <<at, op, owner, heard, wire>>
  BY ListenSocketStep DEF LineInv
<1>3. Listening(i)
  BY <1>1 DEF Taking, Listening
<1>4. sock[Pos(i)].status = "reserve" /\ "open" \notin heard[i]
  BY <1>3 DEF LineInv, Sound, Claimed, Opening
<1>5. PacketsKept /\ OwnersKept
  BY <1>1, <1>2, TakenKept DEF OwnersKept
<1>6. Traffic' /\ (\A j \in Ids : Unmoved(j)) /\ call' = call
  BY <1>2, <1>5, PollQuiet
<1>7. \A t \in Slots : Closing(t) => Closing(t)'
  BY <1>2 DEF Closing
<1>8. FlowInv'
  BY <1>1, <1>2, <1>4, <1>6, <1>7, MakingFlow
<1> QED
  BY <1>2, <1>6, <1>8 DEF LineInv, Wired

\* A socket whose service is told that it is open.
LEMMA OpenedFlow ==
  ASSUME LineInv, NEW e \in Ids, Told(e, "open"), Others(Pos(e)),
         \/ /\ sock[Pos(e)].status \in {"paccept", "plisten"} /\ sock[Pos(e)].id = e
            /\ Starting(Pos(e))
         \/ sock' = sock /\ sock[Pos(e)].status = "connected" /\ sock[Pos(e)].id = e,
         UNCHANGED <<wire, call>>, \A i \in Ids : Unmoved(i),
         \A t \in Slots : ~Closing(t)
  PROVE  FlowInv'
<1>1. /\ Has(e) /\ ConnectedAt(e) /\ UnopenedAt(e) /\ FilledAt(e)
      /\ Queued(sock'[Pos(e)]) = Queued(sock[Pos(e)]) /\ sock'[Pos(e)].id = e
      /\ Pos(e) \in Slots
  BY PosType DEF Has, IsOpen, LineInv, FlowInv, Starting, Alike, Queues, Queued
<1>2. ConnectedAt(e)'
  BY <1>1 DEF ConnectedAt, Has, IsOpen, Hushed, Starting, Alike, Queues, Told
<1>3. UnopenedAt(e)'
  BY <1>1 DEF UnopenedAt, Unmoved, Told
<1>4. FilledAt(e)'
  <2>1. Done(e)' = Done(e) /\ Piped(e)' = Piped(e)
    BY DEF Unmoved
  <2>2. CASE sock[Pos(e)].status \in {"paccept", "plisten"}
    <3>1. Hushed(sock[Pos(e)]) /\ wire[e] = <<>> /\ Done(e) = {}
      BY <1>1, <2>2 DEF ConnectedAt, UnopenedAt, Done
    <3>2. Queued(sock'[Pos(e)]) = <<>> /\ <<>> \o <<>> = <<>>
      BY <1>1, <3>1, HushedQueue, ConcatEmptySeq, EmptySeq
    <3>3. Parts(<<>>) = <<>>
      BY PartsNone
    <3>4. wire[e] \o Queued(sock'[Pos(e)]) = Parts(Ascending(Done(e)))
      BY <3>1, <3>2, <3>3, AscendingFew
    <3> QED
      BY <2>1, <3>1, <3>4 DEF FilledAt, Line
  <2>3. CASE sock' = sock /\ sock[Pos(e)].status = "connected"
    <3>1. Flows(e)
      BY <1>1, <2>3 DEF Flows
    <3>2. Line(e) /\ \A m \in Done(e), n \in Piped(e) : m < n
      BY <1>1, <3>1 DEF FilledAt
    <3>3. wire[e] \o Queued(sock'[Pos(e)]) = Parts(Ascending(Done(e)))
      BY <1>1, <3>2 DEF Line
    <3> QED
      BY <2>1, <3>2, <3>3 DEF FilledAt, Line
  <2> QED
    BY <2>2, <2>3
<1>5. ASSUME NEW c \in Services, NEW i \in Ids
      PROVE  HeldBy(c, i)' \/ (call'[c] = call[c] /\ Pos(i) # Pos(e))
  <2>1. CASE sock[Pos(e)].status \in {"paccept", "plisten"}
    <3>1. Pos(i) = Pos(e) => ~Holder(c, i)
      BY <2>1, NoHolder
    <3> QED
      BY <3>1 DEF HeldBy, Holder
  <2>2. CASE sock' = sock
    <3>1. HeldBy(c, i)
      BY DEF LineInv, FlowInv
    <3> QED
      BY <2>2, <3>1 DEF HeldBy, Holder, Unmoved
  <2> QED
    BY <2>1, <2>2
<1>6. \A i \in Ids : i # e => ("open" \in heard'[i] <=> "open" \in heard[i])
  BY DEF Told
<1> QED
  BY <1>1, <1>2, <1>3, <1>4, <1>5, <1>6, FlowOne DEF LineInv

LEMMA StartSocketLine ==
  ASSUME LineInv, ~stale', StartSocket
  PROVE  Traffic' /\ Wired' /\ FlowInv'
<1> USE DEF CountInv, OnceInv, SlotsInv
<1>1. PICK i \in Ids : LET k == sock[Pos(i)] IN
        /\ Taking("S", i) /\ Meets(k, i)
        /\ \/ Missing(k, i) /\ Told(i, "end") /\ Back /\ UNCHANGED <<sock, failed>>
           \/ /\ ~Missing(k, i) /\ k.status \in {"paccept", "plisten"}
              /\ Starting(Pos(i))
              /\ Told(i, "open") /\ Back /\ failed' = failed
           \/ ~Missing(k, i) /\ Ends(Pos(i), i) /\ UNCHANGED <<ready, heard>>
           \/ /\ ~Missing(k, i) /\ k.status = "connected"
              /\ Told(i, "open") /\ Back /\ UNCHANGED <<sock, failed>>
           \/ UNCHANGED <<at, op, ready, heard, sock, failed>>
  BY StartSocketStep DEF LineInv
<1> DEFINE k == sock[Pos(i)]
<1>2. Types' /\ Apart /\ UNCHANGED <<owner, wire>> /\ at = "loop" /\ Pos(i) \in Slots
  BY <1>1, StartSocketStep, PosType DEF LineInv, Taking
<1>3. PacketsKept /\ OwnersKept
  BY <1>1, <1>2, TakenKept DEF OwnersKept
<1>4. /\ Traffic' /\ (\A j \in Ids : Unmoved(j)) /\ call' = call
      /\ \A c \in Services : call'[c].pc \in HoldSteps => call'[c] = call[c]
  BY <1>2, <1>3, PollQuiet
<1>5. \A t \in Slots : ~Closing(t)
  BY <1>2 DEF Closing
<1>6. ~Missing(k, i) => Has(i) /\ k.id = i
  BY <1>1 DEF Missing, Meets, Has, IsOpen
<1>7. ASSUME sock' = sock, \A n \in Ids : "open" \in heard'[n] <=> "open" \in heard[n]
      PROVE  FlowInv'
  BY <1>2, <1>4, <1>5, <1>7, FlowCalm DEF LineInv
<1>8. FlowInv'
  <2>1. CASE Told(i, "end") /\ sock' = sock
    BY <1>7, <2>1, ToldQuietly
  <2>2. CASE /\ k.status \in {"paccept", "plisten"} /\ ~Missing(k, i)
             /\ Starting(Pos(i)) /\ Told(i, "open")
    <3>1. Others(Pos(i))
      BY <2>2 DEF Starting
    <3> QED
      BY <1>2, <1>4, <1>5, <1>6, <2>2, <3>1, OpenedFlow
  <2>3. CASE ~Missing(k, i) /\ Ends(Pos(i), i) /\ heard' = heard
    BY <1>2, <1>4, <1>6, <2>3, EndsFlow DEF Ends
  <2>4. CASE /\ ~Missing(k, i) /\ k.status = "connected"
             /\ Told(i, "open") /\ sock' = sock
    <3>1. Others(Pos(i))
      BY <1>2, <2>4 DEF Others
    <3> QED
      BY <1>2, <1>4, <1>5, <1>6, <2>4, <3>1, OpenedFlow
  <2>5. CASE UNCHANGED <<heard, sock>>
    BY <1>7, <2>5
  <2> QED
    BY <1>1, <2>1, <2>2, <2>3, <2>4, <2>5
<1> QED
  BY <1>2, <1>4, <1>8 DEF LineInv, Wired

LEMMA CloseSocketLine ==
  ASSUME LineInv, NEW x \in {"K", "H"}, CloseSocket(x)
  PROVE  Traffic' /\ Wired' /\ FlowInv'
<1> USE DEF CountInv, OnceInv, SlotsInv
<1>1. PICK i \in Ids : Taking(x, i) /\ (Told(i, "end") \/ heard' = heard)
  BY CloseSocketStep DEF LineInv
<1>2. Types' /\ Apart /\ UNCHANGED <<sock, owner, wire>> /\ at = "loop"
  BY <1>1, CloseSocketStep DEF LineInv, Taking
<1>3. PacketsKept /\ OwnersKept
  BY <1>1, <1>2, TakenKept DEF OwnersKept
<1>4. /\ Traffic' /\ (\A j \in Ids : Unmoved(j)) /\ call' = call
      /\ \A c \in Services : call'[c].pc \in HoldSteps => call'[c] = call[c]
  BY <1>2, <1>3, PollQuiet
<1>5. \A t \in Slots : Closing(t) => Closing(t)'
  BY <1>2 DEF Closing
<1>6. \A n \in Ids : "open" \in heard'[n] <=> "open" \in heard[n]
  BY <1>1, ToldQuietly
<1>7. FlowInv'
  BY <1>2, <1>4, <1>5, <1>6, FlowCalm DEF LineInv
<1> QED
  BY <1>2, <1>4, <1>7 DEF LineInv, Wired

\* A message is queued behind the others.
LEMMA Joins ==
  /\ \A a, b, c \in Seq(Nat) : (a \o b) \o c = a \o (b \o c)
  /\ \A a, b \in Seq(Nat) : a \o b \in Seq(Nat)
<1>1. \A a, b, c \in Seq(Nat) : (a \o b) \o c = a \o (b \o c)
  BY ConcatAssociative
<1>2. \A a, b \in Seq(Nat) : a \o b \in Seq(Nat)
  BY ConcatProperties
<1> QED
  BY <1>1, <1>2

LEMMA Joined ==
  ASSUME NEW w \in Seq(Nat), NEW a \in Seq(Nat), NEW b \in Seq(Nat)
  PROVE  /\ (w \o a) \o b = w \o (a \o b)
         /\ a \o b \in Seq(Nat)
<1>1. (w \o a) \o b = w \o (a \o b)
  BY Joins
<1>2. a \o b \in Seq(Nat)
  BY Joins
<1> QED
  BY <1>1, <1>2

LEMMA JoinedLast ==
  ASSUME NEW w \in Seq(Nat), NEW b \in Seq(Nat), NEW l \in Seq(Nat), NEW m \in Seq(Nat)
  PROVE  w \o (b \o (l \o m)) = (w \o (b \o l)) \o m
<1>1. PICK q \in Seq(Nat) : q = b \o l
  BY Joins
<1>2. (b \o l) \o m = b \o (l \o m)
  BY Joins, SMTT(60)
<1>3. (w \o q) \o m = w \o (q \o m)
  BY Joins, SMTT(60)
<1> QED
  BY <1>1, <1>2, <1>3, Zenon

LEMMA SendSocketLine ==
  ASSUME LineInv, ~stale', SendSocket
  PROVE  Traffic' /\ Wired' /\ FlowInv'
<1> USE DEF CountInv, OnceInv, SlotsInv
<1>1. PICK i \in Ids : LET k == sock[Pos(i)] IN
        /\ Taking("D", i) /\ Meets(k, i)
        /\ \/ sock' = sock /\ (Missing(k, i) \/ k.status # "connected")
           \/ /\ ~Missing(k, i)
              /\ Tending(Pos(i)) /\ Queueing(Pos(i), pipe[1].msg)
              /\ k.status \in {"connected", "reserve"}
        /\ pipe[1].msg \in Nat
        /\ at' = "dec"
  BY SendSocketStep DEF LineInv
<1> DEFINE k == sock[Pos(i)]
           M == pipe[1].msg
<1>2. Types /\ Types' /\ Apart /\ UNCHANGED <<owner, heard, wire>> /\ at = "loop" /\ Pos(i) \in Slots
  BY <1>1, SendSocketStep, PosType DEF LineInv, Taking
<1>3. /\ Traffic'
      /\ \A j \in Ids : j # i => Unmoved(j)
      /\ Packets(i) # {} /\ M \in Piped(i)
      /\ Done(i)' = Done(i) \cup {M}
      /\ Piped(i)' \subseteq Piped(i)
      /\ \A m \in Piped(i)' : M < m
  BY <1>1, <1>2, TakenTraffic DEF LineInv, Apart
<1>4. "open" \in heard[i]
  BY <1>1 DEF LineInv, Opening, Taking
<1>5. k.status = "reserve" => k.id # i
  BY <1>1 DEF Meets
<1>6. /\ sock'[Pos(i)].status = k.status /\ sock'[Pos(i)].id = k.id
      /\ sock'[Pos(i)].sck = k.sck /\ sock'[Pos(i)].tcp = k.tcp
      /\ Others(Pos(i)) /\ (k.id # i => sock' = sock)
  BY <1>1, <1>2 DEF Tending, Alike, Stands, Missing, Others
<1>7. ConnectedAt(i)' /\ UnopenedAt(i)'
  BY <1>2, <1>4, <1>6 DEF LineInv, FlowInv, ConnectedAt, UnopenedAt, Has, IsOpen
<1>8. \A t \in Slots : ~Closing(t) /\ ~Closing(t)'
  BY <1>1, <1>2 DEF Closing
<1>9. FilledAt(i)'
  <2> SUFFICES ASSUME Flows(i)'
               PROVE  Line(i)' /\ \A m \in Done(i)', n \in Piped(i)' : m < n
    BY DEF FilledAt
  <2>1. k.status = "connected" /\ k.id = i
    BY <1>6 DEF Flows, Has
  <2>2. Flows(i) /\ Queueing(Pos(i), M) /\ FilledAt(i)
    BY <1>1, <1>2, <1>8, <2>1 DEF Flows, Has, IsOpen, Missing, LineInv, FlowInv
  <2>3. Line(i) /\ \A m \in Done(i), n \in Piped(i) : m < n
    BY <2>2 DEF FilledAt
  <2>4. M \in Nat /\ \A m \in Done(i) : m < M
    BY <1>1, <1>3, <2>3
  <2> DEFINE D == Done(i)
             m == Parts(<<M>>)
  <2>5. D \in SUBSET Nat /\ IsFiniteSet(D)
    BY <1>2, DoneType
  <2>6. Parts(Ascending(D \cup {M})) = Parts(Ascending(D)) \o m /\ m \in Seq(Nat)
    BY <2>4, <2>5, LineGrows
  <2>7. k \in Socket
    BY <1>2 DEF Types, SlotTypes
  <2>8. k.buf \in Seq(Nat) /\ k.list \in Seq(Nat) /\ wire[i] \in Seq(Nat)
    <3> HIDE DEF k
    <3> QED
      BY <2>7, QueueType DEF LineInv, Wired
  <2> HIDE DEF m
  <2>9. wire[i] \o (k.buf \o (k.list \o m)) = (wire[i] \o (k.buf \o k.list)) \o m
    <3> DEFINE w == wire[i]
               b == k.buf
               l == k.list
    <3>1. w \in Seq(Nat) /\ b \in Seq(Nat) /\ l \in Seq(Nat) /\ m \in Seq(Nat)
      BY <2>6, <2>8
    <3> HIDE DEF w, b, l
    <3>2. PICK u \in Seq(Nat), x \in Seq(Nat), y \in Seq(Nat), z \in Seq(Nat) :
            u = w /\ x = b /\ y = l /\ z = m
      BY <3>1, Zenon
    <3>3. u \o (x \o (y \o z)) = (u \o (x \o y)) \o z
      BY JoinedLast, SMTT(60)
    <3>4. w \o (b \o (l \o m)) = (w \o (b \o l)) \o m
      BY <3>2, <3>3, Zenon
    <3> QED
      BY <3>4, Zenon DEF w, b, l
  <2>10. wire'[i] \o Queued(sock'[Pos(i)]) = Parts(Ascending(D \cup {M}))
    BY <1>2, <2>2, <2>3, <2>6, <2>9 DEF Queueing, Queued, Line, m
  <2>11. Line(i)'
    BY <1>3, <2>10 DEF Line
  <2>12. \A a \in Done(i)', n \in Piped(i)' : a < n
    BY <1>3, <2>3
  <2> QED
    BY <2>11, <2>12
<1>10. ASSUME NEW c \in Services, NEW j \in Ids
       PROVE  HeldBy(c, j)' \/ (call'[c] = call[c] /\ Pos(j) # Pos(i))
  <2>1. call' = call /\ HeldBy(c, j)
    BY <1>2 DEF Apart, LineInv, FlowInv
  <2>2. CASE Pos(j) = Pos(i) /\ Holder(c, j)
    <3>1. CASE k.id = i
      <4>1. j # i
        BY <1>3, <2>1, <2>2, <3>1 DEF HeldBy
      <4>2. call[c].pc = "recheck" /\ k.status \in {"connected", "halfclose"} /\ k.id # j
        BY <2>1, <2>2, <3>1, <4>1 DEF HeldBy
      <4> QED
        BY <1>6, <2>1, <2>2, <4>2 DEF HeldBy
    <3>2. CASE k.id # i
      <4>1. sock' = sock
        BY <1>6, <3>2
      <4>2. k.id = j => Packets(j)' = {}
        BY <1>3, <2>1, <2>2, <3>2 DEF HeldBy, Unmoved
      <4> QED
        BY <2>1, <2>2, <4>1, <4>2 DEF HeldBy, Holder
    <3> QED
      BY <3>1, <3>2
  <2>3. CASE Pos(j) = Pos(i) /\ ~Holder(c, j)
    BY <2>1, <2>3 DEF HeldBy, Holder
  <2> QED
    BY <2>1, <2>2, <2>3
<1> HIDE DEF k
<1>11. Stays(Pos(i)) \/ (IsOpen(Pos(i))' => sock'[Pos(i)].id = i)
  BY <1>2, <1>6, <1>8 DEF Stays, k
<1>12. FlowInv'
  BY <1>2, <1>3, <1>6, <1>7, <1>8, <1>9, <1>10, <1>11, FlowOne DEF LineInv
<1> QED
  BY <1>2, <1>3, <1>12 DEF LineInv, Wired

LEMMA CommandLine ==
  ASSUME LineInv, Sound', ~stale', Command
  PROVE  Traffic' /\ Wired' /\ FlowInv'
BY ListenSocketLine, StartSocketLine, SendSocketLine, CloseSocketLine DEF Command

\* The socket that the polling thread has in hand.
LEMMA InHandHas ==
  ASSUME LineInv, at \in {"flush", "ask", "close"}
  PROVE  op.id \in Ids /\ op.slot = Pos(op.id) /\ op.slot \in Slots /\ Has(op.id)
<1>1. Types /\ Ided /\ Sound
  BY DEF LineInv, CountInv, OnceInv, SlotsInv
<1>2. op.slot \in Slots /\ IsOpen(op.slot) /\ sock[op.slot].id = op.id
  BY <1>1, Hands DEF Sound, OpenInHand
<1> QED
  BY <1>1, <1>2, OpenHas

\* A step of the polling thread that changes no slot and tells of no opening.
LEMMA CalmLine ==
  ASSUME LineInv, Types', Apart, PacketsKept, UNCHANGED <<sock, owner, wire>>,
         \A n \in Ids : "open" \in heard'[n] <=> "open" \in heard[n],
         \A t \in Slots : Closing(t) => Closing(t)'
  PROVE  Traffic' /\ Wired' /\ FlowInv'
<1>1. /\ Traffic' /\ (\A j \in Ids : Unmoved(j)) /\ call' = call
      /\ \A c \in Services : call'[c].pc \in HoldSteps => call'[c] = call[c]
  BY PollQuiet DEF OwnersKept
<1>2. FlowInv'
  BY <1>1, FlowCalm DEF LineInv
<1> QED
  BY <1>1, <1>2 DEF LineInv, Wired

LEMMA CloseLine ==
  ASSUME LineInv, Close
  PROVE  Traffic' /\ Wired' /\ FlowInv'
<1>1. /\ Types' /\ at = "close" /\ lock[op.slot] = None
      /\ Shutting(op.slot) /\ Told(op.id, "end")
      /\ Apart /\ UNCHANGED <<pipe, owner, wire>>
  BY CloseStep DEF LineInv, CountInv, OnceInv, SlotsInv
<1>2. PICK e \in Ids : e = op.id
  BY <1>1, InHandHas
<1>3. op.slot = Pos(e)
  BY <1>1, <1>2, InHandHas
<1>4. /\ Traffic' /\ (\A j \in Ids : Unmoved(j))
      /\ \A c \in Services : call'[c].pc \in HoldSteps => call'[c] = call[c]
  BY <1>1, PollQuiet DEF PacketsKept, OwnersKept
<1>5. \A n \in Ids : "open" \in heard'[n] <=> "open" \in heard[n]
  BY <1>1, ToldQuietly
<1>6. \A c \in Services, i \in Ids : Pos(i) = Pos(e) => ~Holder(c, i)
  BY <1>1, <1>3, NoHolder
<1>7. \A t \in Slots : t # Pos(e) => ~Closing(t)
  BY <1>3 DEF Closing
<1>8. Others(Pos(e)) /\ ~IsOpen(Pos(e))'
  BY <1>1, <1>3 DEF Shutting, IsOpen
<1>9. UnopenedAt(e)'
  BY <1>1, <1>4, <1>5, StillUnopened
<1>10. FlowInv'
  BY <1>1, <1>4, <1>5, <1>6, <1>7, <1>8, <1>9, ClosedFlow
<1> QED
  BY <1>1, <1>4, <1>10 DEF LineInv, Wired

LEMMA DecLine ==
  ASSUME LineInv, Dec
  PROVE  Traffic' /\ Wired' /\ FlowInv'
<1>1. /\ Types' /\ at = "dec" /\ op.id \in Ids /\ at' = "loop"
      /\ Apart /\ UNCHANGED <<pipe, owner, heard, wire>>
  BY DecStep DEF LineInv, CountInv, OnceInv, SlotsInv
<1>2. PICK e \in Ids : e = op.id
  BY <1>1
<1>3. \/ sock' = sock
      \/ sock[Pos(e)].id = e /\ \E r : Counting(Pos(e), r)
  BY <1>2, DecStep DEF LineInv, CountInv, OnceInv, SlotsInv
<1>4. /\ Traffic' /\ (\A j \in Ids : Unmoved(j))
      /\ \A c \in Services : call'[c].pc \in HoldSteps => call'[c] = call[c]
  BY <1>1, PollQuiet DEF PacketsKept, OwnersKept
<1>5. \A t : ~Closing(t) /\ ~Closing(t)'
  BY <1>1 DEF Closing
<1>6. CASE sock' = sock
  BY <1>1, <1>5, <1>6, CalmLine DEF PacketsKept
<1>7. ASSUME sock[Pos(e)].id = e, NEW r, Counting(Pos(e), r)
      PROVE  FlowInv'
  BY <1>1, <1>4, <1>5, <1>7, CountingFlow
<1> QED
  BY <1>1, <1>3, <1>4, <1>6, <1>7 DEF LineInv, Wired

LEMMA CloseFlushLine ==
  ASSUME LineInv, CloseFlush
  PROVE  Traffic' /\ Wired' /\ FlowInv'
<1>1. /\ Types' /\ at = "flush" /\ Wires(op.slot)
      /\ Apart /\ UNCHANGED <<pipe, owner>>
      /\ \/ Tending(op.slot) /\ Passes(op.slot, sock'[op.slot]) /\ heard' = heard
         \/ lock[op.slot] = None /\ ShutsSlot(op.slot)
         \/ Fails(op.slot)
  BY CloseFlushStep DEF LineInv, CountInv, OnceInv, SlotsInv
<1>2. PICK e \in Ids : e = op.id
  BY <1>1, InHandHas
<1>3. op.slot = Pos(e) /\ Has(e) /\ Pos(e) \in Slots
  BY <1>1, <1>2, InHandHas
<1>4. ~Fails(Pos(e))
  BY <1>1, <1>3, NoFailure DEF LineInv, CountInv, OnceInv, SlotsInv, Has
<1> QED
  BY <1>1, <1>3, <1>4, ForwardLine

LEMMA CloseAskLine ==
  ASSUME LineInv, CloseAsk
  PROVE  Traffic' /\ Wired' /\ FlowInv'
<1>1. /\ Types' /\ at = "ask"
      /\ \/ Ends(op.slot, op.id)
         \/ ClosesNot(op.slot)
         \/ Halving(op.slot)
      /\ Apart /\ UNCHANGED <<pipe, owner, heard, wire>>
  BY CloseAskStep DEF LineInv, CountInv, OnceInv, SlotsInv
<1>2. PICK e \in Ids : e = op.id
  BY <1>1, InHandHas
<1>3. op.slot = Pos(e) /\ Has(e) /\ Pos(e) \in Slots
  BY <1>1, <1>2, InHandHas
<1>4. ~ClosesNot(Pos(e))
  BY <1>1, <1>3, NoFailure DEF LineInv, CountInv, OnceInv, SlotsInv, Has
<1>5. /\ Traffic' /\ (\A j \in Ids : Unmoved(j)) /\ call' = call
      /\ \A c \in Services : call'[c].pc \in HoldSteps => call'[c] = call[c]
  BY <1>1, PollQuiet DEF PacketsKept, OwnersKept
<1>6. CASE Ends(Pos(e), e)
  BY <1>1, <1>3, <1>5, <1>6, EndsFlow DEF Ends, LineInv, Wired
<1>7. CASE Halving(Pos(e))
  <2>1. Others(Pos(e)) /\ Gentle(sock[Pos(e)], sock'[Pos(e)])
    BY <1>7 DEF Halving, Alike, Queues, Gentle, Hushed
  <2>2. FilledAt(e)'
    BY <1>7 DEF Halving, FilledAt, Flows
  <2>3. UnopenedAt(e)'
    BY <1>1, <1>5, StillUnopened
  <2>4. \A t \in Slots : ~Closing(t)
    BY <1>1 DEF Closing
  <2>5. FlowInv'
    BY <1>1, <1>3, <1>5, <2>1, <2>2, <2>3, <2>4, GentleFlow
  <2> QED
    BY <1>1, <1>5, <2>5 DEF LineInv, Wired
<1> QED
  BY <1>1, <1>2, <1>3, <1>4, <1>6, <1>7

LEMMA AcceptedLine ==
  ASSUME LineInv, Accepted
  PROVE  Traffic' /\ Wired' /\ FlowInv'
<1> USE DEF CountInv, OnceInv, SlotsInv
<1>1. /\ Types' /\ at = "accept" /\ op.id \in Ids
      /\ Making(op.id, "paccept")
      /\ \E o : Owning(op.id, o)
      /\ Apart /\ UNCHANGED <<pipe, heard, wire>>
  BY AcceptedStep DEF LineInv, Ided
<1>2. PICK e \in Ids : e = op.id
  BY <1>1
<1>3. sock[Pos(e)].status = "reserve" /\ heard[e] = {} /\ owner[e] = None
  BY <1>1, <1>2 DEF LineInv, Locked, Once, Silent
<1>4. OwnersKept
  BY <1>1, <1>2, <1>3 DEF OwnersKept, Owning
<1>5. Traffic' /\ (\A j \in Ids : Unmoved(j)) /\ call' = call
  BY <1>1, <1>4, PollQuiet DEF PacketsKept
<1>6. \A t \in Slots : ~Closing(t)
  BY <1>1 DEF Closing
<1>7. Making(e, "paccept")
  BY <1>1, <1>2
<1>8. FlowInv'
  BY <1>1, <1>3, <1>5, <1>6, <1>7, MakingFlow
<1> QED
  BY <1>1, <1>5, <1>8 DEF LineInv, Wired

LEMMA InsideLine ==
  ASSUME LineInv, Inside
  PROVE  Traffic' /\ Wired' /\ FlowInv'
<1>1. CASE Drained
  <2>1. Types' /\ Apart /\ UNCHANGED <<sock, at, op, pipe, owner, heard, wire>>
    BY <1>1, DrainedStep DEF LineInv, CountInv, OnceInv, SlotsInv
  <2> QED
    BY <2>1, CalmLine DEF PacketsKept, Closing
<1> QED
  BY <1>1, CloseLine, DecLine, CloseFlushLine, CloseAskLine, AcceptedLine DEF Inside

LEMMA HandleLine ==
  ASSUME LineInv, Wait \/ \E e \in ready : Handle(e)
  PROVE  Traffic' /\ Wired' /\ FlowInv'
<1>0. \A e \in ready : e.slot \in Slots /\ IsOpen(e.slot) /\ sock[e.slot].id = e.id
  BY ReadyOpen DEF LineInv, CountInv, OnceInv, SlotsInv, Sound
<1>1. CASE Wait
  <2>1. Types' /\ at = "loop" /\ Apart /\ UNCHANGED <<sock, pipe, owner, heard, wire>>
    BY <1>1, WaitStep DEF LineInv, CountInv, OnceInv, SlotsInv
  <2> QED
    BY <2>1, CalmLine DEF PacketsKept, Closing
<1>2. ASSUME NEW v \in ready, Accept(v)
      PROVE  Traffic' /\ Wired' /\ FlowInv'
  <2>1. /\ Types' /\ at \in {"loop", "first"}
        /\ Apart /\ UNCHANGED <<pipe, owner, heard, wire>>
        /\ \/ sock' = sock
           \/ \E i \in Ids : sock[Pos(i)].status = "invalid" /\ Reserving(Pos(i))
    BY <1>2, AcceptStep DEF LineInv, CountInv, OnceInv, SlotsInv
  <2>2. \A t \in Slots : ~Closing(t)
    BY <2>1 DEF Closing
  <2>3. CASE sock' = sock
    BY <2>1, <2>2, <2>3, CalmLine DEF PacketsKept
  <2>4. ASSUME NEW e \in Ids, sock[Pos(e)].status = "invalid", Reserving(Pos(e))
        PROVE  Traffic' /\ Wired' /\ FlowInv'
    <3>1. /\ Traffic' /\ (\A j \in Ids : Unmoved(j))
          /\ \A c \in Services : call'[c].pc \in HoldSteps => call'[c] = call[c]
      BY <2>1, PollQuiet DEF PacketsKept, OwnersKept
    <3>2. Others(Pos(e)) /\ ~IsOpen(Pos(e))'
      BY <2>4 DEF Reserving, IsOpen
    <3>3. \A c \in Services, i \in Ids : Pos(i) = Pos(e) => ~Holder(c, i)
      BY <2>4, NoHolder
    <3>4. UnopenedAt(e)'
      BY <2>1, <3>1, StillUnopened
    <3>5. FlowInv'
      BY <2>1, <2>2, <3>1, <3>2, <3>3, <3>4, ClosedFlow
    <3> QED
      BY <2>1, <3>1, <3>5 DEF LineInv, Wired
  <2> QED
    BY <2>1, <2>3, <2>4
<1>3. ASSUME NEW v \in ready, Receive(v)
      PROVE  Traffic' /\ Wired' /\ FlowInv'
  <2>1. PICK e \in Ids : v.slot = Pos(e) /\ Has(e) /\ Pos(e) \in Slots /\ sock[Pos(e)].id = e
    <3>1. LET e == sock[v.slot].id IN e \in Ids /\ v.slot = Pos(e) /\ Has(e)
      BY <1>0, OpenHas DEF LineInv, CountInv, OnceInv, SlotsInv
    <3> QED
      BY <3>1, PosType DEF Has
  <2>2. /\ Types' /\ at \in {"loop", "first"} /\ Apart /\ UNCHANGED <<pipe, owner, wire>>
        /\ \/ UNCHANGED <<sock, heard>>
           \/ Told(e, "data") /\ sock' = sock
           \/ Ends(Pos(e), e) /\ heard' = heard
           \/ ClosesNot(Pos(e))
    BY <1>3, <2>1, ReceiveStep DEF LineInv, CountInv, OnceInv, SlotsInv
  <2>3. \A t \in Slots : ~Closing(t)
    BY <2>2 DEF Closing
  <2>4. ~ClosesNot(Pos(e))
    BY <2>1, <2>2, NoFailure DEF LineInv, CountInv, OnceInv, SlotsInv, Has
  <2>5. CASE sock' = sock /\ (heard' = heard \/ Told(e, "data"))
    BY <2>2, <2>3, <2>5, CalmLine, ToldQuietly DEF PacketsKept
  <2>6. CASE Ends(Pos(e), e) /\ heard' = heard
    <3>1. Traffic' /\ (\A j \in Ids : Unmoved(j)) /\ call' = call
      BY <2>2, PollQuiet DEF PacketsKept, OwnersKept
    <3> QED
      BY <2>1, <2>2, <2>6, <3>1, EndsFlow DEF Ends, LineInv, Wired
  <2> QED
    BY <2>2, <2>4, <2>5, <2>6
<1>4. ASSUME NEW v \in ready, Write(v)
      PROVE  Traffic' /\ Wired' /\ FlowInv'
  <2>1. PICK e \in Ids : v.slot = Pos(e) /\ Has(e) /\ Pos(e) \in Slots /\ sock[Pos(e)].id = e
    <3>1. LET e == sock[v.slot].id IN e \in Ids /\ v.slot = Pos(e) /\ Has(e)
      BY <1>0, OpenHas DEF LineInv, CountInv, OnceInv, SlotsInv
    <3> QED
      BY <3>1, PosType DEF Has
  <2>2. /\ Types' /\ at \in {"loop", "first"} /\ Apart /\ UNCHANGED <<pipe, owner>>
        /\ Wires(Pos(e))
        /\ \/ Tending(Pos(e)) /\ Passes(Pos(e), sock'[Pos(e)]) /\ heard' = heard
           \/ lock[Pos(e)] = None /\ ShutsSlot(Pos(e))
           \/ Fails(Pos(e))
    BY <1>4, <2>1, WriteStep DEF LineInv, CountInv, OnceInv, SlotsInv
  <2>3. ~Fails(Pos(e))
    BY <2>1, <2>2, NoFailure DEF LineInv, CountInv, OnceInv, SlotsInv, Has
  <2> QED
    BY <2>1, <2>2, <2>3, ForwardLine
<1> QED
  BY <1>1, <1>2, <1>3, <1>4 DEF Handle
-----------------------------------------------------------------------------
LEMMA LineNext ==
  ASSUME LineInv, Sound', ~stale', [Next]_vars
  PROVE  Traffic' /\ Wired' /\ FlowInv'
<1>1. CASE UNCHANGED vars
  <2>1. Types'
    BY SlotsNext DEF LineInv, CountInv, OnceInv, SlotsInv
  <2>2. UNCHANGED <<sock, lock, call, target, pipe, owner, heard, wire, at, op>>
    BY <1>1 DEF vars, slotVars, serviceVars, pollVars
  <2> QED
    BY <2>1, <2>2, CalmLine DEF Apart, PacketsKept, Closing
<1>2. CASE \E c \in Services : Service(c) \/ InCall(c)
  BY <1>2, ServiceLine
<1>3. CASE Command
  BY <1>3, CommandLine
<1>4. CASE Inside
  BY <1>4, InsideLine
<1>5. CASE Wait \/ \E e \in ready : Handle(e)
  BY <1>5, HandleLine
<1> QED
  BY <1>1, <1>2, <1>3, <1>4, <1>5 DEF Next

LEMMA LineInit ==
  ASSUME Init
  PROVE  Traffic /\ Wired /\ FlowInv
<1>1. /\ pipe = <<>> /\ target = <<>>
      /\ \A c \in Services : call[c].pc = "idle"
      /\ \A i \in Ids : heard[i] = {} /\ wire[i] = <<>>
  BY DEF Init
<1>2. \A s \in Slots : ~IsOpen(s)
  BY DEF Init, Opened, IsOpen
<1>3. DOMAIN pipe = {} /\ DOMAIN target = {}
  BY <1>1
<1>4. \A i \in Ids : Packets(i) = {} /\ Piped(i) = {} /\ Sent(i) = {} /\ Sending(i) = {}
  BY <1>1, <1>3 DEF Packets, Piped, Sent, Sending
<1>5. Traffic
  BY <1>1, <1>4 DEF Traffic, OwnSends, Queue, Ordered, SendSteps
<1>6. Wired
  BY <1>1, EmptySeq DEF Wired
<1>7. FlowInv
  BY <1>1, <1>2, <1>4, PosType DEF FlowInv, ConnectedAt, UnopenedAt, FilledAt, Flows, Has, HeldBy, Holder,
       HoldSteps
<1> QED
  BY <1>5, <1>6, <1>7

FlowsInv == SocketInv /\ (~stale => Traffic /\ Wired /\ FlowInv)

LEMMA FlowHolds == Spec => []FlowsInv
<1>1. Init => FlowsInv
  BY SocketStarts, LineInit DEF FlowsInv
<1>2. FlowsInv /\ [Next]_vars => FlowsInv'
  <2> SUFFICES ASSUME FlowsInv, [Next]_vars
               PROVE  FlowsInv'
    OBVIOUS
  <2>1. CountInv /\ CountInv'
    BY CountNext DEF FlowsInv, SocketInv
  <2>2. CASE stale'
    BY <2>1, <2>2 DEF FlowsInv, SocketInv
  <2>3. CASE ~stale'
    <3>1. ~stale
      BY <2>1, <2>3, StaleStays DEF CountInv
    <3>2. LineInv
      BY <3>1 DEF FlowsInv, SocketInv, LineInv
    <3>3. Sound'
      BY <2>1, <2>3, <3>2, SoundNext DEF LineInv
    <3>4. Traffic' /\ Wired' /\ FlowInv'
      BY <2>3, <3>2, <3>3, LineNext
    <3> QED
      BY <2>1, <3>3, <3>4 DEF FlowsInv, SocketInv
  <2> QED
    BY <2>2, <2>3
<1> QED
  BY <1>1, <1>2, PTL DEF Spec

\* The packets of the pipe are in order, and so are their messages.
LEMMA InPipeIs ==
  ASSUME Types, NEW i, Ordered(i), Piped(i) \in SUBSET Nat
  PROVE  InPipe(i) = Ascending(Piped(i))
<1> DEFINE P  == Packets(i)
           js == Ascending(P)
           n  == Cardinality(P)
           f  == [k \in DOMAIN js |-> pipe[js[k]].msg]
<1>1. P \in SUBSET Nat /\ IsFiniteSet(P)
  <2>1. IsFiniteSet(P)
    BY FlightTypes DEF Flight
  <2>2. P \subseteq DOMAIN pipe /\ DOMAIN pipe \subseteq Nat
    BY LenProperties DEF Packets, Types, CallTypes
  <2> QED
    BY <2>1, <2>2
<1> HIDE DEF P
<1>2. n \in Nat /\ Climbs(js, n, P)
  BY <1>1, AscendingClimbs
<1> HIDE DEF js, n
<1>3. /\ DOMAIN js = 1 .. n /\ \A k \in 1 .. n : js[k] \in P
      /\ \A a, b \in 1 .. n : a < b => js[a] < js[b]
      /\ \A p \in P : \E a \in 1 .. n : js[a] = p
  BY <1>2 DEF Climbs
<1>4. /\ \A p \in P : pipe[p].msg \in Piped(i)
      /\ \A m \in Piped(i) : \E p \in P : pipe[p].msg = m
      /\ \A p, q \in P : p < q => pipe[p].msg < pipe[q].msg
  BY DEF P, Piped, Ordered
<1>5. Climbs(f, n, Piped(i))
  <2>1. f \in [1 .. n -> Piped(i)]
    BY <1>3, <1>4
  <2>2. \A k \in 1 .. n : f[k] = pipe[js[k]].msg
    BY <1>3
  <2> HIDE DEF f
  <2>3. \A a, b \in 1 .. n : a < b => f[a] < f[b]
    BY <1>3, <1>4, <2>2
  <2>4. \A m \in Piped(i) : \E a \in 1 .. n : f[a] = m
    BY <1>3, <1>4, <2>2
  <2> QED
    BY <2>1, <2>3, <2>4 DEF Climbs
<1> HIDE DEF f
<1>6. Ascending(Piped(i)) = f
  BY <1>2, <1>5, AscendingIs
<1> QED
  BY <1>6 DEF f, js, P, InPipe

\* The messages done, those in the pipe and the one in a call are those sent, in this order.
LEMMA SentIs ==
  ASSUME Types, Traffic, NEW i \in Ids, \A m \in Done(i), n \in Piped(i) : m < n
  PROVE  /\ Done(i) \in SUBSET Nat /\ IsFiniteSet(Done(i))
         /\ Ascending(Done(i)) \in Seq(Nat) /\ InPipe(i) \o InSend(i) \in Seq(Nat)
         /\ Ascending(Sent(i)) = Ascending(Done(i)) \o (InPipe(i) \o InSend(i))
<1> DEFINE D == Done(i)
           P == Piped(i)
           H == InHands(i)
<1>1. Sent(i) \in SUBSET Nat /\ IsFiniteSet(Sent(i))
  BY SentType
<1>2. P \subseteq Sent(i) /\ Ordered(i) /\ \A c \in Sending(i) : \A m \in P : m < Message(c)
  BY DEF Traffic, Queue
<1>3. \A c \in Sending(i) : Message(c) \in Sent(i) /\ \A n \in Sent(i) : n <= Message(c)
  BY SendingMeans, MessageIs
<1>4. H \subseteq Sent(i) /\ (\A h \in H : \A n \in Sent(i) : n <= h) /\ \A h \in H : \A m \in P : m < h
  BY <1>2, <1>3 DEF InHands
<1>5. D = Sent(i) \ (P \cup H)
  BY DEF Done
<1>6. \A m \in D, n \in P : m < n
  OBVIOUS
<1>7. InPipe(i) = Ascending(P)
  BY <1>1, <1>2, InPipeIs
<1>8. InSend(i) = Ascending(H)
  BY DEF InSend, InHands
<1> HIDE DEF D, P, H
<1>9. /\ D \in SUBSET Nat /\ P \in SUBSET Nat /\ H \in SUBSET Nat
      /\ IsFiniteSet(D) /\ IsFiniteSet(P) /\ IsFiniteSet(H)
      /\ P \cup H \in SUBSET Nat /\ IsFiniteSet(P \cup H)
  BY <1>1, <1>2, <1>4, <1>5, FS_Subset
<1>10. Ascending(P \cup H) = Ascending(P) \o Ascending(H)
  BY <1>4, <1>9, AscendingUnion
<1>11. \A m \in D, n \in P \cup H : m < n
  <2> SUFFICES ASSUME NEW m \in D, NEW n \in H
               PROVE  m < n
    BY <1>6
  <2>1. m \in Nat /\ n \in Nat /\ m <= n /\ m # n
    BY <1>4, <1>5, <1>9
  <2> QED
    BY <2>1
<1>12. Ascending(D \cup (P \cup H)) = Ascending(D) \o Ascending(P \cup H)
  BY <1>9, <1>11, AscendingUnion
<1>13. D \cup (P \cup H) = Sent(i)
  BY <1>2, <1>4, <1>5
<1>14. Ascending(D) \in Seq(Nat) /\ Ascending(P \cup H) \in Seq(Nat)
  BY <1>9, AscendingType
<1> QED
  BY <1>7, <1>8, <1>9, <1>10, <1>12, <1>13, <1>14 DEF D

LEMMA LineMeans ==
  ASSUME LineInv
  PROVE  Conserved
<1> SUFFICES ASSUME NEW s \in Slots, sock[s].status = "connected", ~Closing(s)
             PROVE  LET k == sock[s] IN
                    wire[k.id] \o k.buf \o k.list \o Parts(InPipe(k.id) \o InSend(k.id))
                      = Parts(Ascending(Sent(k.id)))
  BY DEF Conserved
<1> USE DEF CountInv, OnceInv, SlotsInv
<1> DEFINE k == sock[s]
<1>1. k.id \in Ids /\ Pos(k.id) = s /\ Has(k.id)
  BY OpenHas DEF LineInv, IsOpen
<1>2. PICK i \in Ids : i = k.id
  BY <1>1
<1>3. Pos(i) = s /\ Flows(i)
  BY <1>1, <1>2 DEF Flows
<1>4. wire[i] \o Queued(k) = Parts(Ascending(Done(i))) /\ \A m \in Done(i), n \in Piped(i) : m < n
  BY <1>3 DEF LineInv, FlowInv, FilledAt, Line
<1>5. k \in Socket
  BY DEF LineInv, Types, SlotTypes
<1> DEFINE w == wire[i]
           b == k.buf
           l == k.list
           a == Ascending(Done(i))
           r == InPipe(i) \o InSend(i)
<1>6. b \in Seq(Nat) /\ l \in Seq(Nat) /\ w \in Seq(Nat)
  <2> HIDE DEF k
  <2> QED
    BY <1>5, QueueType DEF LineInv, Wired
<1>7. a \in Seq(Nat) /\ r \in Seq(Nat) /\ Ascending(Sent(i)) = a \o r
  BY <1>4, SentIs DEF LineInv
<1>8. w \o (b \o l) = Parts(a)
  BY <1>4 DEF Queued
<1> HIDE DEF w, b, l, a, r
<1>9. Parts(a \o r) = Parts(a) \o Parts(r)
  BY <1>7, PartsConcat
<1>10. w \o b \o l = w \o (b \o l)
  <2>1. PICK u \in Seq(Nat), x \in Seq(Nat), y \in Seq(Nat) : u = w /\ x = b /\ y = l
    BY <1>6, Zenon
  <2>2. (u \o x) \o y = u \o (x \o y)
    BY Joins, SMTT(60)
  <2> QED
    BY <2>1, <2>2, Zenon
<1>11. w \o b \o l \o Parts(r) = Parts(Ascending(Sent(i)))
  BY <1>7, <1>8, <1>9, <1>10, Zenon
<1> QED
  BY <1>2, <1>11, Zenon DEF w, b, l, r

(***************************************************************************)
(* What a service has sent on an open connection is on the wire, in the    *)
(* rest of a direct write, in the list, in the pipe or in the call, whole, *)
(* once and in order, for every number of services and slots and every     *)
(* interleaving of a direct write with the polling thread (isCanDirect-    *)
(* Write, onForwardData, operForwardSocket, onForward).                    *)
(***************************************************************************)
THEOREM NothingIsLost == Spec => []Conserved
<1>1. FlowsInv => Conserved
  <2> SUFFICES ASSUME FlowsInv, ~stale
               PROVE  Conserved
    BY DEF Conserved
  <2>1. LineInv
    BY DEF FlowsInv, SocketInv, LineInv
  <2> QED
    BY <2>1, LineMeans
<1> QED
  BY <1>1, FlowHolds, PTL
=============================================================================
