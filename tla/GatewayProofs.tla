--------------------------- MODULE GatewayProofs ----------------------------
(***************************************************************************)
(* Proofs about Gateway, for any number of clients, any limit and any      *)
(* descriptor of the listening socket.                                     *)
(***************************************************************************)
EXTENDS Gateway, TLAPS

Command(x, i) == [cmd |-> x, id |-> i]

States   == {"none", "plisten", "listen", "paccept", "open", "half", "lame", "gone"}
Commands == [cmd : {"L", "S", "K", "H"}, id : Ids]
Events   == [type : {"start", "accept", "open", "data", "err", "close", "answer"},
             id : Ids \cup {0}, ud : Clients \cup {0}]

Types ==
  /\ sock \in [Ids -> States]
  /\ pipe \in Seq(Commands)
  /\ queue \in Seq(Events)
  /\ DOMAIN conns \subseteq Ids
  /\ conns \in [DOMAIN conns -> BOOLEAN]
  /\ replied \subseteq Clients
  /\ fd \in 0 .. LastId
  /\ unlined \in [Clients -> Nat]
  /\ used \in 0 .. MaxExtra

\* Before the first accept or error: the start event waits, or the commands
\* that onStart has sent, to a listener or to the id of none.
Starting ==
  /\ \A i \in Ids \ {Listener} : sock[i] = "none"
  /\ \A c \in Clients : unlined[c] = 0
  /\ DOMAIN conns \subseteq {Bad, Listener}
  /\ \/ /\ queue = <<Event("start", 0)>> /\ pipe = <<>> /\ sock[Listener] = "none"
     \/ /\ queue = <<>> /\ pipe = <<Command("S", Bad)>> /\ sock[Listener] = "none"
     \/ /\ queue = <<>> /\ pipe = <<Command("L", Listener), Command("S", Listener)>>
        /\ sock[Listener] = "none" /\ Known(Listener)
     \/ /\ queue = <<>> /\ pipe = <<Command("S", Listener)>>
        /\ sock[Listener] = "plisten" /\ Known(Listener)

Sockets ==
  /\ sock[Bad] = "none"
  /\ sock[Listener] \in {"none", "listen", "gone"}
  /\ \A c \in Clients : sock[c] \notin {"plisten", "listen"}

\* A socket that is no more, or never was.
Over(i) == i = Bad \/ (i \in Ids /\ sock[i] = "gone")

\* What an event says of its socket.  An accept comes before anything else
\* about its client.
Sound(e) ==
  /\ e.type # "start"
  /\ e.type = "open" => e.id \in Clients \cup {Listener} /\ Known(e.id)
  /\ e.type = "close" => Over(e.id)
  /\ e.type = "err" => Over(e.id) \/ (e.id = fd /\ sock[Listener] # "none")
  /\ e.type \in {"data", "answer"} => e.id \in Clients
  /\ e.type = "accept" =>
       /\ e.id = Listener /\ e.ud \in Clients
       /\ sock[e.ud] = "paccept" /\ ~Known(e.ud) /\ unlined[e.ud] = 0
       /\ \A k \in DOMAIN pipe : pipe[k].id # e.ud

\* What a command says of its socket.
Apt(m) ==
  /\ m.cmd # "L"
  /\ m.cmd \in {"S", "K"} => m.id \in Clients
  /\ m.cmd = "S" => sock[m.id] = "paccept" /\ Known(m.id)
  /\ m.cmd = "K" => sock[m.id] # "none"
  /\ m.cmd = "H" => Over(m.id) \/ (m.id = fd /\ sock[m.id] # "none")

\* The event e may come before the event f: not a close before the open of
\* its socket, or of the listener before an accept; no client comes twice.
Precedes(e, f) ==
  /\ e.type = "close" => ~(f.type = "open" /\ f.id = e.id)
  /\ e.type = "close" /\ e.id = Listener => f.type # "accept"
  /\ e.type = "accept" /\ f.type = "accept" => e.ud # f.ud

Ordered == \A j, k \in DOMAIN queue : j < k => Precedes(queue[j], queue[k])

\* A socket is started before it is closed or shut down.
StartsFirst ==
  \A j, k \in DOMAIN pipe : j < k /\ pipe[k].cmd = "S" => pipe[j].id # pipe[k].id

\* The open event of the listener comes before the accepts.
OpensListener(e) == e.type = "open" /\ e.id = Listener

Accepting ==
  /\ sock[Listener] = "listen" => Connected(Listener) \/ Told("open", Listener)
  /\ \A k \in DOMAIN queue : queue[k].type = "accept" =>
       Connected(Listener) \/ \E j \in DOMAIN queue : j < k /\ OpensListener(queue[j])

\* Every client is on somebody's account.
Accounted ==
  \A c \in Clients :
    /\ Known(c) =>
         /\ unlined[c] = 0 /\ sock[c] # "none"
         /\ \/ Asked("S", c) \/ sock[c] \in {"open", "half"}
            \/ Told("close", c) \/ Told("err", c) \/ Asked("H", c)
    /\ sock[c] \in {"open", "half"} => Known(c)
    /\ sock[c] = "paccept" => Known(c) \/ Offered(c) \/ Asked("K", c)
    /\ sock[c] = "none" => unlined[c] = 0

AllSound == \A k \in DOMAIN queue : Sound(queue[k])
AllApt   == \A k \in DOMAIN pipe : Apt(pipe[k])

Running ==
  /\ Sockets /\ AllSound /\ AllApt
  /\ Ordered /\ StartsFirst /\ Accepting /\ Accounted

GInv == Types /\ (Starting \/ Running)

-----------------------------------------------------------------------------
(***************************************************************************)
(* Ids, entries, queue and pipe                                            *)
(***************************************************************************)

\* The listener, the failed listener and the clients differ.
LEMMA IdFacts ==
  /\ Bad \in Ids /\ Listener \in Ids /\ Clients \subseteq Ids /\ 0 \notin Ids
  /\ Bad # Listener /\ Bad \notin Clients /\ Listener \notin Clients
  /\ 0 .. LastId \subseteq Ids \cup {0} /\ Bad \notin 0 .. LastId
BY GatewayAssumption DEF Ids, Bad, Listener, Clients

\* The service takes its first event.
LEMMA EventTaken ==
  ASSUME Types, queue # <<>>, queue' = Tail(queue)
  PROVE  /\ queue' \in Seq(Events) /\ Head(queue) \in Events
         /\ 1 \in DOMAIN queue /\ queue[1] = Head(queue)
         /\ \A k \in DOMAIN queue' :
              k \in Nat /\ k > 0 /\ k + 1 \in DOMAIN queue /\ queue'[k] = queue[k + 1]
         /\ \A k \in DOMAIN queue : k = 1 \/ (k - 1 \in DOMAIN queue' /\ queue'[k - 1] = queue[k])
         /\ DOMAIN queue \subseteq Nat
<1>1. queue \in Seq(Events) /\ Len(queue) \in Nat /\ Len(queue) > 0 /\ DOMAIN queue = 1 .. Len(queue)
  BY DEF Types
<1>2. queue' \in Seq(Events) /\ Len(queue') = Len(queue) - 1 /\ DOMAIN queue' = 1 .. Len(queue')
  BY <1>1
<1>3. \A k \in 1 .. Len(queue) - 1 : queue'[k] = queue[k + 1]
  BY <1>1
<1>4. Head(queue) = queue[1] /\ Head(queue) \in Events
  BY <1>1
<1> QED
  BY <1>1, <1>2, <1>3, <1>4

\* An event is told.
LEMMA EventTold ==
  ASSUME Types, NEW e \in Events, queue' = Append(queue, e)
  PROVE  /\ queue' \in Seq(Events)
         /\ \A k \in DOMAIN queue : k \in DOMAIN queue' /\ queue'[k] = queue[k]
         /\ Len(queue) + 1 \in DOMAIN queue' /\ queue'[Len(queue) + 1] = e
         /\ \A k \in DOMAIN queue' : k \in DOMAIN queue \/ k = Len(queue) + 1
         /\ \A k \in DOMAIN queue : k \in Nat /\ k < Len(queue) + 1
         /\ Len(queue) \in Nat
<1>1. queue \in Seq(Events) /\ Len(queue) \in Nat /\ DOMAIN queue = 1 .. Len(queue)
  BY DEF Types
<1>2. queue' \in Seq(Events) /\ Len(queue') = Len(queue) + 1 /\ DOMAIN queue' = 1 .. Len(queue')
  BY <1>1
<1>3. /\ \A k \in 1 .. Len(queue) : queue'[k] = queue[k]
      /\ queue'[Len(queue) + 1] = e
  BY <1>1
<1> QED
  BY <1>1, <1>2, <1>3

\* The socket server takes its first command.
LEMMA CommandTaken ==
  ASSUME Types, pipe # <<>>, pipe' = Tail(pipe)
  PROVE  /\ pipe' \in Seq(Commands) /\ Head(pipe) \in Commands
         /\ 1 \in DOMAIN pipe /\ pipe[1] = Head(pipe)
         /\ \A k \in DOMAIN pipe' :
              k \in Nat /\ k > 0 /\ k + 1 \in DOMAIN pipe /\ pipe'[k] = pipe[k + 1]
         /\ \A k \in DOMAIN pipe : k = 1 \/ (k - 1 \in DOMAIN pipe' /\ pipe'[k - 1] = pipe[k])
         /\ DOMAIN pipe \subseteq Nat
<1>1. pipe \in Seq(Commands) /\ Len(pipe) \in Nat /\ Len(pipe) > 0 /\ DOMAIN pipe = 1 .. Len(pipe)
  BY DEF Types
<1>2. pipe' \in Seq(Commands) /\ Len(pipe') = Len(pipe) - 1 /\ DOMAIN pipe' = 1 .. Len(pipe')
  BY <1>1
<1>3. \A k \in 1 .. Len(pipe) - 1 : pipe'[k] = pipe[k + 1]
  BY <1>1
<1>4. Head(pipe) = pipe[1] /\ Head(pipe) \in Commands
  BY <1>1
<1> QED
  BY <1>1, <1>2, <1>3, <1>4

\* A command is sent.
LEMMA CommandSent ==
  ASSUME Types, NEW m \in Commands, pipe' = Append(pipe, m)
  PROVE  /\ pipe' \in Seq(Commands)
         /\ \A k \in DOMAIN pipe : k \in DOMAIN pipe' /\ pipe'[k] = pipe[k]
         /\ Len(pipe) + 1 \in DOMAIN pipe' /\ pipe'[Len(pipe) + 1] = m
         /\ \A k \in DOMAIN pipe' : k \in DOMAIN pipe \/ k = Len(pipe) + 1
         /\ \A k \in DOMAIN pipe : k \in Nat /\ k < Len(pipe) + 1
         /\ Len(pipe) \in Nat
<1>1. pipe \in Seq(Commands) /\ Len(pipe) \in Nat /\ DOMAIN pipe = 1 .. Len(pipe)
  BY DEF Types
<1>2. pipe' \in Seq(Commands) /\ Len(pipe') = Len(pipe) + 1 /\ DOMAIN pipe' = 1 .. Len(pipe')
  BY <1>1
<1>3. /\ \A k \in 1 .. Len(pipe) : pipe'[k] = pipe[k]
      /\ pipe'[Len(pipe) + 1] = m
  BY <1>1
<1> QED
  BY <1>1, <1>2, <1>3

\* What is told, offered and ordered once an event is taken.
LEMMA AfterTaking ==
  ASSUME Types, queue # <<>>, queue' = Tail(queue)
  PROVE  /\ \A t, i : Told(t, i)' => Told(t, i)
         /\ \A t, i : Told(t, i) => Told(t, i)' \/ (Head(queue).type = t /\ Head(queue).id = i)
         /\ \A c : Offered(c) => Offered(c)' \/ (Head(queue).type = "accept" /\ Head(queue).ud = c)
         /\ Ordered => Ordered' /\ \A k \in DOMAIN queue' : Precedes(Head(queue), queue'[k])
<1>1. /\ 1 \in DOMAIN queue /\ queue[1] = Head(queue)
      /\ \A k \in DOMAIN queue' :
           k \in Nat /\ k > 0 /\ k + 1 \in DOMAIN queue /\ queue'[k] = queue[k + 1]
      /\ \A k \in DOMAIN queue : k = 1 \/ (k - 1 \in DOMAIN queue' /\ queue'[k - 1] = queue[k])
  BY EventTaken
<1>2. Ordered => Ordered'
  <2> SUFFICES ASSUME Ordered, NEW j \in DOMAIN queue', NEW k \in DOMAIN queue', j < k
               PROVE  Precedes(queue'[j], queue'[k])
    BY DEF Ordered, Precedes
  <2>1. j + 1 < k + 1
    BY <1>1
  <2> QED
    BY <1>1, <2>1 DEF Ordered
<1>3. ASSUME Ordered, NEW k \in DOMAIN queue' PROVE Precedes(Head(queue), queue'[k])
  <2>1. 1 < k + 1
    BY <1>1
  <2> QED
    BY <1>1, <1>3, <2>1 DEF Ordered
<1>4. \A t, i : Told(t, i)' => Told(t, i)
  BY <1>1 DEF Told
<1>5. \A t, i : Told(t, i) => Told(t, i)' \/ (Head(queue).type = t /\ Head(queue).id = i)
  BY <1>1 DEF Told
<1>6. \A c : Offered(c) => Offered(c)' \/ (Head(queue).type = "accept" /\ Head(queue).ud = c)
  BY <1>1 DEF Offered
<1> QED
  BY <1>2, <1>3, <1>4, <1>5, <1>6

\* ... once an event is told.
LEMMA AfterTelling ==
  ASSUME Types, NEW e \in Events, queue' = Append(queue, e)
  PROVE  /\ \A t, i : Told(t, i)' <=> Told(t, i) \/ (e.type = t /\ e.id = i)
         /\ \A c : Offered(c) => Offered(c)'
         /\ e.type = "accept" => Offered(e.ud)'
         /\ Ordered /\ (\A k \in DOMAIN queue : Precedes(queue[k], e)) => Ordered'
<1> DEFINE n == Len(queue) + 1
<1>1. /\ \A k \in DOMAIN queue : k \in DOMAIN queue' /\ queue'[k] = queue[k]
      /\ n \in DOMAIN queue' /\ queue'[n] = e
      /\ \A k \in DOMAIN queue' : k \in DOMAIN queue \/ k = n
      /\ \A k \in DOMAIN queue : k \in Nat /\ k < n
      /\ n \in Nat
  BY EventTold
<1> HIDE DEF n
<1>2. ASSUME Ordered, \A k \in DOMAIN queue : Precedes(queue[k], e),
             NEW j \in DOMAIN queue', NEW k \in DOMAIN queue', j < k
      PROVE  Precedes(queue'[j], queue'[k])
  <2>1. j \in DOMAIN queue
    BY <1>1, <1>2
  <2> QED
    BY <1>1, <1>2, <2>1 DEF Ordered
<1>3. Ordered /\ (\A k \in DOMAIN queue : Precedes(queue[k], e)) => Ordered'
  BY <1>2 DEF Ordered, Precedes
<1> QED
  BY <1>1, <1>3 DEF Told, Offered

\* What is asked for once a command is taken.
LEMMA AskedAfterTaking ==
  ASSUME Types, pipe # <<>>, pipe' = Tail(pipe)
  PROVE  /\ \A x, i : Asked(x, i) => Asked(x, i)' \/ (Head(pipe).cmd = x /\ Head(pipe).id = i)
         /\ StartsFirst =>
              /\ StartsFirst'
              /\ \A k \in DOMAIN pipe' : pipe'[k].cmd = "S" => Head(pipe).id # pipe'[k].id
<1>1. /\ 1 \in DOMAIN pipe /\ pipe[1] = Head(pipe)
      /\ \A k \in DOMAIN pipe' :
           k \in Nat /\ k > 0 /\ k + 1 \in DOMAIN pipe /\ pipe'[k] = pipe[k + 1]
      /\ \A k \in DOMAIN pipe : k = 1 \/ (k - 1 \in DOMAIN pipe' /\ pipe'[k - 1] = pipe[k])
  BY CommandTaken
<1>2. StartsFirst => StartsFirst'
  <2> SUFFICES ASSUME StartsFirst, NEW j \in DOMAIN pipe', NEW k \in DOMAIN pipe',
                      j < k, pipe'[k].cmd = "S"
               PROVE  pipe'[j].id # pipe'[k].id
    BY DEF StartsFirst
  <2>1. j + 1 < k + 1
    BY <1>1
  <2> QED
    BY <1>1, <2>1 DEF StartsFirst
<1>3. ASSUME StartsFirst, NEW k \in DOMAIN pipe', pipe'[k].cmd = "S"
      PROVE  Head(pipe).id # pipe'[k].id
  <2>1. 1 < k + 1
    BY <1>1
  <2> QED
    BY <1>1, <1>3, <2>1 DEF StartsFirst
<1>4. ASSUME NEW x, NEW i, Asked(x, i)
      PROVE  Asked(x, i)' \/ (Head(pipe).cmd = x /\ Head(pipe).id = i)
  <2>1. PICK k \in DOMAIN pipe : pipe[k] = [cmd |-> x, id |-> i]
    BY <1>4 DEF Asked
  <2>2. CASE k = 1
    BY <1>1, <2>1, <2>2
  <2>3. CASE k # 1
    BY <1>1, <2>1, <2>3 DEF Asked
  <2> QED
    BY <2>2, <2>3
<1> QED
  BY <1>2, <1>3, <1>4

\* ... once a command is sent.
LEMMA AskedAfterSending ==
  ASSUME Types, NEW x \in {"L", "S", "K", "H"}, NEW i \in Ids, Post(x, i)
  PROVE  /\ pipe' \in Seq(Commands)
         /\ \A y, j : Asked(y, j) => Asked(y, j)'
         /\ Asked(x, i)'
         /\ \A k \in DOMAIN pipe' : (k \in DOMAIN pipe /\ pipe'[k] = pipe[k]) \/ pipe'[k] = Command(x, i)
         /\ StartsFirst /\ (x = "S" => \A k \in DOMAIN pipe : pipe[k].id # i) => StartsFirst'
<1> DEFINE m == Command(x, i)
           n == Len(pipe) + 1
<1>0. m \in Commands /\ m.cmd = x /\ m.id = i /\ pipe' = Append(pipe, m)
  BY DEF Commands, Command, Post
<1>1. /\ pipe' \in Seq(Commands)
      /\ \A k \in DOMAIN pipe : k \in DOMAIN pipe' /\ pipe'[k] = pipe[k]
      /\ n \in DOMAIN pipe' /\ pipe'[n] = m
      /\ \A k \in DOMAIN pipe' : k \in DOMAIN pipe \/ k = n
      /\ \A k \in DOMAIN pipe : k \in Nat /\ k < n
      /\ n \in Nat
  <2> HIDE DEF m
  <2> QED
    BY <1>0, CommandSent
<1> HIDE DEF n
<1>2. ASSUME StartsFirst, x = "S" => \A k \in DOMAIN pipe : pipe[k].id # i,
             NEW j \in DOMAIN pipe', NEW k \in DOMAIN pipe', j < k, pipe'[k].cmd = "S"
      PROVE  pipe'[j].id # pipe'[k].id
  <2>1. j \in DOMAIN pipe
    BY <1>1, <1>2
  <2> HIDE DEF m
  <2> QED
    BY <1>0, <1>1, <1>2, <2>1 DEF StartsFirst
<1>3. \A y, j : Asked(y, j) => Asked(y, j)'
  BY <1>1 DEF Asked
<1>4. Asked(x, i)'
  BY <1>1 DEF Asked, Command
<1> QED
  BY <1>1, <1>2, <1>3, <1>4 DEF StartsFirst

-----------------------------------------------------------------------------
(***************************************************************************)
(* The steps of the service                                                *)
(***************************************************************************)

\* What a handler finds.
LEMMA Found ==
  ASSUME GInv, NEW t, Receives(t), t # "start"
  PROVE  /\ Types /\ Running /\ queue # <<>> /\ queue' = Tail(queue)
         /\ Head(queue).type = t /\ Sound(Head(queue))
         /\ queue' \in Seq(Events) /\ Head(queue) \in Events
         /\ \A k \in DOMAIN queue' : Sound(queue'[k]) /\ Precedes(Head(queue), queue'[k])
         /\ Ordered'
<1>1. Types /\ queue # <<>> /\ queue' = Tail(queue) /\ Head(queue).type = t
  BY DEF GInv, Receives
<1>2. Running
  BY <1>1 DEF GInv, Starting, Event
<1>3. /\ queue' \in Seq(Events) /\ Head(queue) \in Events
      /\ 1 \in DOMAIN queue /\ queue[1] = Head(queue)
      /\ \A k \in DOMAIN queue' : k + 1 \in DOMAIN queue /\ queue'[k] = queue[k + 1]
  BY <1>1, EventTaken
<1>4. Sound(Head(queue)) /\ \A k \in DOMAIN queue' : Sound(queue'[k])
  BY <1>2, <1>3 DEF Running, AllSound
<1>5. Ordered' /\ \A k \in DOMAIN queue' : Precedes(Head(queue), queue'[k])
  BY <1>1, <1>2, AfterTaking DEF Running
<1> QED
  BY <1>1, <1>2, <1>3, <1>4, <1>5

\* Accepts stay behind the listener's opening.
LEMMA AcceptingStays ==
  ASSUME Types, Accepting, queue # <<>>, queue' = Tail(queue), sock' = sock,
         Connected(Listener) \/ OpensListener(Head(queue)) => Connected(Listener)'
           \/ (sock[Listener] # "listen" /\ \A k \in DOMAIN queue' : queue'[k].type # "accept")
  PROVE  Accepting'
<1>1. /\ 1 \in DOMAIN queue /\ queue[1] = Head(queue)
      /\ \A k \in DOMAIN queue' :
           k \in Nat /\ k > 0 /\ k + 1 \in DOMAIN queue /\ queue'[k] = queue[k + 1]
      /\ \A k \in DOMAIN queue : k = 1 \/ (k - 1 \in DOMAIN queue' /\ queue'[k - 1] = queue[k])
      /\ DOMAIN queue \subseteq Nat
  BY EventTaken
<1>2. sock'[Listener] = "listen" => Connected(Listener)' \/ Told("open", Listener)'
  BY AfterTaking DEF Accepting, OpensListener
<1>3. ASSUME NEW k \in DOMAIN queue', queue'[k].type = "accept", ~Connected(Listener)'
      PROVE  \E j \in DOMAIN queue' : j < k /\ OpensListener(queue'[j])
  <2>1. ~Connected(Listener) /\ ~OpensListener(Head(queue))
    BY <1>3
  <2>2. PICK j \in DOMAIN queue : j < k + 1 /\ OpensListener(queue[j])
    BY <1>1, <1>3, <2>1 DEF Accepting
  <2>3. j - 1 \in DOMAIN queue' /\ queue'[j - 1] = queue[j] /\ j - 1 < k
    BY <1>1, <2>1, <2>2
  <2> QED
    BY <2>2, <2>3
<1> QED
  BY <1>2, <1>3 DEF Accepting, OpensListener

\* What is kept when sockets, fd and the count of reports stay.
LEMMA EntriesStay ==
  ASSUME UNCHANGED <<sock, fd, unlined>>, NEW e,
         Sound(e),
         e.type = "open" => Known(e.id)',
         e.type = "accept" => ~Known(e.ud)' /\ \A k \in DOMAIN pipe' : pipe'[k].id # e.ud
  PROVE  Sound(e)'
BY DEF Sound, Over

\* Every event still says the truth.
LEMMA SoundsStay ==
  ASSUME \A k \in DOMAIN queue' : \A e : e = queue'[k] => Sound(e)'
  PROVE  AllSound'
BY DEF AllSound, Sound, Over, Known

\* ... and every command.
LEMMA AptsStay ==
  ASSUME \A k \in DOMAIN pipe' : \A m : m = pipe'[k] => Apt(m)'
  PROVE  AllApt'
BY DEF AllApt, Apt, Over, Known

\* An accepted client is entered and started, or closed without an entry.
LEMMA OnAcceptStep ==
  ASSUME GInv, OnAccept
  PROVE  Types' /\ Running'
<1>0. /\ Types /\ Running /\ queue # <<>> /\ queue' = Tail(queue)
      /\ Head(queue).type = "accept" /\ Sound(Head(queue))
      /\ queue' \in Seq(Events) /\ Head(queue) \in Events
      /\ \A k \in DOMAIN queue' : Sound(queue'[k]) /\ Precedes(Head(queue), queue'[k])
      /\ Ordered'
  BY Found DEF OnAccept
<1>1. PICK c \in Clients : c = Head(queue).ud
  BY <1>0 DEF Sound
<1>2. /\ Head(queue).id = Listener /\ sock[c] = "paccept" /\ ~Known(c) /\ unlined[c] = 0
      /\ \A k \in DOMAIN pipe : pipe[k].id # c
  BY <1>0, <1>1 DEF Sound
<1>3. Connected(Listener)
  <2>1. /\ 1 \in DOMAIN queue /\ queue[1] = Head(queue) /\ DOMAIN queue \subseteq Nat
        /\ \A k \in DOMAIN queue : k = 1 \/ k - 1 \in DOMAIN queue'
        /\ \A k \in DOMAIN queue' : k \in Nat /\ k > 0
    BY <1>0, EventTaken
  <2>2. \A j \in DOMAIN queue : ~(j < 1)
    BY <2>1
  <2> QED
    BY <1>0, <2>1, <2>2 DEF Running, Accepting
<1>4. UNCHANGED <<sock, replied, fd, unlined, used>>
  BY DEF OnAccept
<1>5. \/ Post("K", c) /\ conns' = conns
      \/ Post("S", c) /\ conns' = Entered(c, FALSE)
  BY <1>1, <1>2, <1>3 DEF OnAccept, Here
<1>6. c \in Ids /\ c # Listener /\ c # Bad
  BY <1>1, IdFacts
<1>7. \A x \in {"K", "S"} : Post(x, c) =>
        /\ pipe' \in Seq(Commands)
        /\ \A y, j : Asked(y, j) => Asked(y, j)'
        /\ Asked(x, c)'
        /\ \A k \in DOMAIN pipe' : (k \in DOMAIN pipe /\ pipe'[k] = pipe[k]) \/ pipe'[k] = Command(x, c)
        /\ StartsFirst'
  BY <1>0, <1>2, <1>6, AskedAfterSending DEF Running
<1>8. DOMAIN conns' \subseteq Ids /\ conns' \in [DOMAIN conns' -> BOOLEAN]
  BY <1>0, <1>5, <1>6 DEF Types, Entered
<1>9. Types'
  <2>1. pipe' \in Seq(Commands)
    BY <1>5, <1>7
  <2> QED
    BY <1>0, <1>4, <1>8, <2>1 DEF Types
<1>10. \A k \in DOMAIN queue' : queue'[k].type = "accept" => queue'[k].ud # c
  BY <1>0, <1>1 DEF Precedes
<1>11. Sockets'
  BY <1>0, <1>4 DEF Running, Sockets
<1>12. StartsFirst'
  BY <1>5, <1>7
<1>13. \A d \in Clients : d # c => (Offered(d) => Offered(d)')
  BY <1>0, <1>1, AfterTaking
<1>14. \A i : (Told("close", i) => Told("close", i)') /\ (Told("err", i) => Told("err", i)')
  BY <1>0, AfterTaking
\* Too many: the client is to be closed.
<1>15. CASE Post("K", c) /\ conns' = conns
  <2>1. \A i : Known(i)' <=> Known(i)
    BY <1>15 DEF Known
  <2>2. AllSound'
    <3> SUFFICES ASSUME NEW k \in DOMAIN queue', NEW e, e = queue'[k] PROVE Sound(e)'
      BY SoundsStay
    <3>1. e.type = "accept" => \A j \in DOMAIN pipe' : pipe'[j].id # e.ud
      BY <1>0, <1>7, <1>10, <1>15 DEF Sound, Command
    <3> QED
      BY <1>0, <1>4, <2>1, <3>1, EntriesStay DEF Sound
  <2>3. AllApt'
    <3> SUFFICES ASSUME NEW k \in DOMAIN pipe', NEW m, m = pipe'[k] PROVE Apt(m)'
      BY AptsStay
    <3> QED
      BY <1>0, <1>2, <1>4, <1>7, <1>15, <2>1 DEF Running, AllApt, Apt, Over, Command
  <2>4. Accepting'
    BY <1>0, <1>3, <1>4, <1>15, AcceptingStays DEF Running, Connected, Known
  <2>5. Accounted'
    BY <1>0, <1>2, <1>4, <1>7, <1>13, <1>14, <1>15, <2>1 DEF Running, Accounted
  <2> QED
    BY <1>0, <1>9, <1>11, <1>12, <2>2, <2>3, <2>4, <2>5 DEF Running
<1>16. CASE Post("S", c) /\ conns' = Entered(c, FALSE)
  <2>0. /\ DOMAIN conns' = DOMAIN conns \cup {c}
        /\ \A j \in DOMAIN conns : j # c => conns'[j] = conns[j]
    BY <1>16 DEF Entered
  <2>1. \A i : Known(i)' <=> Known(i) \/ i = c
    BY <2>0 DEF Known
  <2>2. AllSound'
    <3> SUFFICES ASSUME NEW k \in DOMAIN queue', NEW e, e = queue'[k] PROVE Sound(e)'
      BY SoundsStay
    <3>1. e.type = "accept" => \A j \in DOMAIN pipe' : pipe'[j].id # e.ud
      BY <1>0, <1>7, <1>10, <1>16 DEF Sound, Command
    <3> QED
      BY <1>0, <1>4, <1>10, <2>1, <3>1, EntriesStay DEF Sound
  <2>3. AllApt'
    <3> SUFFICES ASSUME NEW k \in DOMAIN pipe', NEW m, m = pipe'[k] PROVE Apt(m)'
      BY AptsStay
    <3> QED
      BY <1>0, <1>1, <1>2, <1>4, <1>7, <1>16, <2>1 DEF Running, AllApt, Apt, Over, Command
  <2>4. Connected(Listener)'
    BY <1>3, <1>6, <2>0 DEF Connected, Known
  <2>5. Accepting'
    BY <1>0, <1>4, <2>4, AcceptingStays DEF Running
  <2>6. Accounted'
    BY <1>0, <1>2, <1>4, <1>7, <1>13, <1>14, <1>16, <2>1 DEF Running, Accounted
  <2> QED
    BY <1>0, <1>9, <1>11, <1>12, <2>2, <2>3, <2>5, <2>6 DEF Running
<1> QED
  BY <1>5, <1>15, <1>16

\* An open event finds its entry.
LEMMA OnOpenStep ==
  ASSUME GInv, OnOpen
  PROVE  Types' /\ Running'
<1>0. /\ Types /\ Running /\ queue # <<>> /\ queue' = Tail(queue)
      /\ Head(queue).type = "open" /\ Sound(Head(queue))
      /\ queue' \in Seq(Events)
      /\ \A k \in DOMAIN queue' : Sound(queue'[k])
      /\ Ordered'
  BY Found DEF OnOpen
<1>1. PICK i : i = Here
  OBVIOUS
<1>2. /\ Known(i) /\ conns' = Entered(i, TRUE)
      /\ UNCHANGED <<sock, pipe, replied, fd, unlined, used>>
  BY <1>0, <1>1 DEF OnOpen, Here, Sound
<1>3. /\ DOMAIN conns' = DOMAIN conns /\ conns' \in [DOMAIN conns' -> BOOLEAN]
      /\ conns'[i] = TRUE /\ \A j \in DOMAIN conns : j # i => conns'[j] = conns[j]
  BY <1>0, <1>2 DEF Entered, Known, Types
<1>4. Types'
  BY <1>0, <1>2, <1>3 DEF Types
<1>5. \A j : Known(j)' <=> Known(j)
  BY <1>3 DEF Known
<1>6. AllSound'
  <2> SUFFICES ASSUME NEW k \in DOMAIN queue', NEW e, e = queue'[k] PROVE Sound(e)'
    BY SoundsStay
  <2> QED
    BY <1>0, <1>2, <1>5, EntriesStay DEF Sound
<1>7. AllApt' /\ StartsFirst' /\ Sockets'
  BY <1>0, <1>2, <1>5 DEF Running, AllApt, Apt, Over, StartsFirst, Sockets
<1>8. Accepting'
  <2>1. Connected(Listener) \/ OpensListener(Head(queue)) => Connected(Listener)'
    BY <1>1, <1>2, <1>3 DEF Connected, Known, OpensListener, Here
  <2> QED
    BY <1>0, <1>2, <2>1, AcceptingStays DEF Running
<1>9. Accounted'
  <2>1. \A j : /\ Told("close", j) => Told("close", j)'
               /\ Told("err", j) => Told("err", j)'
               /\ Offered(j) => Offered(j)'
    BY <1>0, AfterTaking
  <2>2. \A x, j : Asked(x, j)' <=> Asked(x, j)
    BY <1>2 DEF Asked
  <2> QED
    BY <1>0, <1>2, <1>5, <2>1, <2>2 DEF Running, Accounted
<1> QED
  BY <1>0, <1>4, <1>6, <1>7, <1>8, <1>9 DEF Running

\* A handler that changes no entry, and asks for a close or a shutdown of a
\* socket it knows, or for nothing.
LEMMA HandlerKeeps ==
  ASSUME Types, Running, queue # <<>>, queue' = Tail(queue), queue' \in Seq(Events),
         \A k \in DOMAIN queue' : Sound(queue'[k]),
         Ordered',
         UNCHANGED <<sock, conns, fd, unlined, used>>, replied' \subseteq Clients,
         Head(queue).type \notin {"accept", "open"},
         NEW i \in Ids,
         \/ pipe' = pipe
         \/ Known(i) /\ i \in Clients /\ Post("K", i)
         \/ Known(i) /\ (Over(i) \/ (i = fd /\ sock[i] # "none")) /\ Post("H", i),
         \A c \in Clients :
           Known(c) /\ Head(queue).type \in {"close", "err"} /\ Head(queue).id = c => Asked("H", c)'
  PROVE  Types' /\ Running'
<1>1. \A j : Known(j)' <=> Known(j)
  BY DEF Known
<1>2. /\ pipe' \in Seq(Commands)
      /\ \A y, j : Asked(y, j) => Asked(y, j)'
      /\ \A k \in DOMAIN pipe' : \/ k \in DOMAIN pipe /\ pipe'[k] = pipe[k]
                                 \/ pipe'[k] = Command("K", i) /\ i \in Clients /\ Known(i)
                                 \/ /\ pipe'[k] = Command("H", i) /\ Known(i)
                                    /\ Over(i) \/ (i = fd /\ sock[i] # "none")
      /\ StartsFirst'
  <2>1. CASE pipe' = pipe
    BY <2>1 DEF Types, Running, Asked, StartsFirst
  <2>2. CASE Known(i) /\ i \in Clients /\ Post("K", i)
    BY <2>2, AskedAfterSending DEF Running
  <2>3. CASE Known(i) /\ (Over(i) \/ (i = fd /\ sock[i] # "none")) /\ Post("H", i)
    BY <2>3, AskedAfterSending DEF Running
  <2> QED
    BY <2>1, <2>2, <2>3
<1>3. Types' /\ Sockets'
  BY <1>2 DEF Types, Running, Sockets
<1>4. AllSound'
  <2> SUFFICES ASSUME NEW k \in DOMAIN queue', NEW e, e = queue'[k] PROVE Sound(e)'
    BY SoundsStay
  <2>1. e.type = "accept" => \A j \in DOMAIN pipe' : pipe'[j].id # e.ud
    BY <1>2 DEF Sound, Command
  <2> QED
    BY <1>1, <2>1, EntriesStay DEF Sound
<1>5. AllApt'
  <2> SUFFICES ASSUME NEW k \in DOMAIN pipe', NEW m, m = pipe'[k] PROVE Apt(m)'
    BY AptsStay
  <2>1. i \in Clients /\ Known(i) => sock[i] # "none"
    BY DEF Running, Accounted
  <2> QED
    BY <1>1, <1>2, <2>1 DEF Running, AllApt, Apt, Over, Command
<1>6. Accepting'
  BY AcceptingStays DEF Running, Connected, Known, OpensListener
<1>7. Accounted'
  <2>1. \A j : /\ Told("close", j) => Told("close", j)' \/ (Head(queue).type = "close" /\ Head(queue).id = j)
               /\ Told("err", j) => Told("err", j)' \/ (Head(queue).type = "err" /\ Head(queue).id = j)
               /\ Offered(j) => Offered(j)'
    BY AfterTaking
  <2> QED
    BY <1>1, <1>2, <2>1 DEF Running, Accounted
<1> QED
  BY <1>2, <1>3, <1>4, <1>5, <1>6, <1>7 DEF Running

\* A packet too long has its client closed.
LEMMA OnDataStep ==
  ASSUME GInv, OnData
  PROVE  Types' /\ Running'
<1>0. /\ Types /\ Running /\ queue # <<>> /\ queue' = Tail(queue)
      /\ Head(queue).type = "data" /\ Sound(Head(queue))
      /\ queue' \in Seq(Events)
      /\ \A k \in DOMAIN queue' : Sound(queue'[k])
      /\ Ordered'
  BY Found DEF OnData
<1>1. PICK c \in Clients : c = Here
  BY <1>0 DEF Sound, Here
<1>2. /\ UNCHANGED <<sock, conns, replied, fd, unlined, used>>
      /\ pipe' = pipe \/ (Known(c) /\ Post("K", c))
  BY <1>1 DEF OnData, Connected
<1>3. replied' \subseteq Clients /\ c \in Ids
  BY <1>0, <1>2, IdFacts DEF Types
<1> QED
  BY <1>0, <1>2, <1>3, HandlerKeeps

\* An answer changes no entry.
LEMMA AnswerStep ==
  ASSUME GInv, Answer
  PROVE  Types' /\ Running'
<1>0. /\ Types /\ Running /\ queue # <<>> /\ queue' = Tail(queue)
      /\ Head(queue).type = "answer" /\ Sound(Head(queue))
      /\ queue' \in Seq(Events)
      /\ \A k \in DOMAIN queue' : Sound(queue'[k])
      /\ Ordered'
  BY Found DEF Answer
<1>1. PICK c \in Clients : c = Here
  BY <1>0 DEF Sound, Here
<1>2. UNCHANGED <<sock, pipe, conns, fd, unlined, used>> /\ replied' \subseteq replied \cup {c}
  BY <1>1 DEF Answer
<1>3. replied' \subseteq Clients /\ c \in Ids
  BY <1>0, <1>2, IdFacts DEF Types
<1> QED
  BY <1>0, <1>2, <1>3, HandlerKeeps

\* The end of a socket that is known is answered by a shutdown, which comes
\* back as a close event; an innocent id is shut down too.
LEMMA OnErrorStep ==
  ASSUME GInv, OnError
  PROVE  Types' /\ Running'
<1>0. /\ Types /\ Running /\ queue # <<>> /\ queue' = Tail(queue)
      /\ Head(queue).type = "err" /\ Sound(Head(queue))
      /\ queue' \in Seq(Events)
      /\ \A k \in DOMAIN queue' : Sound(queue'[k])
      /\ Ordered'
  BY Found DEF OnError
<1>1. PICK i : i = Here
  OBVIOUS
<1>2. /\ UNCHANGED <<sock, conns, replied, fd, unlined, used>>
      /\ IF Known(i) THEN Post("H", i) ELSE pipe' = pipe
  BY <1>1 DEF OnError
<1>3. replied' \subseteq Clients
  BY <1>0, <1>2 DEF Types
<1>4. CASE Known(i)
  <2>1. i \in Ids
    BY <1>0, <1>4 DEF Types, Known
  <2>2. Over(i) \/ (i = fd /\ sock[Listener] # "none")
    BY <1>0, <1>1 DEF Sound, Here
  <2>3. Over(i) \/ (i = fd /\ sock[i] # "none")
    BY <1>0, <1>4, <2>1, <2>2 DEF Running, Accounted, Ids, Over
  <2>4. Asked("H", i)'
    BY <1>0, <1>2, <1>4, <2>1, AskedAfterSending
  <2>5. \A c \in Clients : Head(queue).id = c => Asked("H", c)'
    BY <1>1, <2>4 DEF Here, Asked
  <2> QED
    BY <1>0, <1>2, <1>3, <1>4, <2>1, <2>3, <2>5, HandlerKeeps
<1>5. CASE ~Known(i)
  BY <1>0, <1>1, <1>2, <1>3, <1>5, HandlerKeeps, IdFacts DEF Here
<1> QED
  BY <1>4, <1>5

\* A close event ends the entry: no accept and no start of that socket is
\* behind it.
LEMMA OnCloseStep ==
  ASSUME GInv, OnClose
  PROVE  Types' /\ Running'
<1>0. /\ Types /\ Running /\ queue # <<>> /\ queue' = Tail(queue)
      /\ Head(queue).type = "close" /\ Sound(Head(queue))
      /\ queue' \in Seq(Events)
      /\ \A k \in DOMAIN queue' : Sound(queue'[k]) /\ Precedes(Head(queue), queue'[k])
      /\ Ordered'
  BY Found DEF OnClose
<1>1. PICK i : i = Here
  OBVIOUS
<1>2. /\ UNCHANGED <<sock, pipe, replied, fd, used>> /\ conns' = Erased(i)
      /\ unlined' = IF Known(i) /\ i \in Clients THEN [unlined EXCEPT ![i] = @ + 1] ELSE unlined
  BY <1>1 DEF OnClose
<1>3. Over(i)
  BY <1>0, <1>1 DEF Sound, Here
<1>4. /\ DOMAIN conns' = DOMAIN conns \ {i}
      /\ \A j \in DOMAIN conns' : conns'[j] = conns[j]
  BY <1>2 DEF Erased
<1>5. \A j : Known(j)' <=> Known(j) /\ j # i
  BY <1>4 DEF Known
<1>6. Types'
  <2>1. DOMAIN conns' \subseteq Ids /\ conns' \in [DOMAIN conns' -> BOOLEAN]
    BY <1>0, <1>2 DEF Erased, Types
  <2>2. unlined' \in [Clients -> Nat]
    BY <1>0, <1>2 DEF Types
  <2> QED
    BY <1>0, <1>2, <2>1, <2>2 DEF Types
<1>7. \A c \in Clients : c # i => unlined'[c] = unlined[c]
  BY <1>0, <1>2 DEF Types
<1>8. \A c \in Clients : sock[c] # "gone" => c # i
  BY <1>3, IdFacts DEF Over
<1>9. AllSound'
  <2> SUFFICES ASSUME NEW k \in DOMAIN queue', NEW e, e = queue'[k] PROVE Sound(e)'
    BY SoundsStay
  <2>1. Sound(e) /\ Precedes(Head(queue), e)
    BY <1>0
  <2>2. e.type = "open" => e.id # i
    BY <1>0, <1>1, <2>1 DEF Precedes, Here
  <2>3. e.type = "accept" => e.ud # i /\ unlined'[e.ud] = unlined[e.ud]
    BY <1>7, <1>8, <2>1 DEF Sound
  <2> QED
    BY <1>2, <1>5, <2>1, <2>2, <2>3 DEF Sound, Over
<1>10. AllApt'
  <2> SUFFICES ASSUME NEW k \in DOMAIN pipe', NEW m, m = pipe'[k] PROVE Apt(m)'
    BY AptsStay
  <2>1. Apt(m)
    BY <1>0, <1>2 DEF Running, AllApt
  <2>2. m.cmd = "S" => m.id # i
    BY <1>8, <2>1 DEF Apt
  <2> QED
    BY <1>2, <1>5, <2>1, <2>2 DEF Apt, Over
<1>11. Accepting'
  <2>1. CASE i = Listener
    <3>1. sock[Listener] # "listen" /\ \A k \in DOMAIN queue' : queue'[k].type # "accept"
      BY <1>0, <1>1, <1>3, <2>1, IdFacts DEF Precedes, Here, Over
    <3> QED
      BY <1>0, <1>2, <3>1, AcceptingStays DEF Running
  <2>2. CASE i # Listener
    <3>1. Connected(Listener) \/ OpensListener(Head(queue)) => Connected(Listener)'
      BY <1>0, <1>4, <1>5, <2>2 DEF Connected, Known, OpensListener
    <3> QED
      BY <1>0, <1>2, <3>1, AcceptingStays DEF Running
  <2> QED
    BY <2>1, <2>2
<1>12. Accounted'
  <2>1. \A j : /\ Told("close", j) => Told("close", j)' \/ j = i
               /\ Told("err", j) => Told("err", j)'
               /\ Offered(j) => Offered(j)'
    BY <1>0, <1>1, AfterTaking DEF Here
  <2>2. \A x, j : Asked(x, j)' <=> Asked(x, j)
    BY <1>2 DEF Asked
  <2> QED
    BY <1>0, <1>2, <1>5, <1>7, <1>8, <2>1, <2>2 DEF Running, Accounted
<1> QED
  BY <1>0, <1>2, <1>6, <1>9, <1>10, <1>11, <1>12 DEF Running, Sockets, StartsFirst

-----------------------------------------------------------------------------
(***************************************************************************)
(* The steps of the socket server                                          *)
(***************************************************************************)

\* What the server may do to one socket, with the event it tells, if any,
\* and the command it takes, if any; the accounts are up to the step.
LEMMA ServerKeeps ==
  ASSUME Types, Running, UNCHANGED <<conns, fd, unlined, replied>>, used' \in 0 .. MaxExtra,
         NEW i \in Ids, NEW st \in States,
         \/ sock' = sock
         \/ /\ Becomes(i, st) /\ i # Bad /\ sock[i] # "gone" /\ st \notin {"none", "plisten", "listen"}
            /\ i = Listener => st = "gone"
            /\ \A k \in DOMAIN queue : queue[k].type = "accept" => queue[k].ud # i
            /\ \A k \in DOMAIN pipe' : pipe'[k].cmd = "S" => pipe'[k].id # i,
         pipe' = pipe \/ (pipe # <<>> /\ pipe' = Tail(pipe)),
         \/ queue' = queue
         \/ \E e \in Events :
              /\ queue' = Append(queue, e)
              /\ \A f : f = e => Sound(f)'
              /\ \A k \in DOMAIN queue : Precedes(queue[k], e)
              /\ e.type = "accept" => sock[Listener] = "listen",
         Accounted'
  PROVE  Types' /\ Running'
<1>1. /\ \A j : Over(j) => Over(j)'
      /\ \A j \in Ids : sock[j] # "none" => sock'[j] # "none"
      /\ sock' \in [Ids -> States]
  BY DEF Types, Over, Becomes
<1>2. \A j : Known(j)' <=> Known(j)
  BY DEF Known
<1>3. /\ pipe' \in Seq(Commands) /\ StartsFirst'
      /\ \A k \in DOMAIN pipe' : \E j \in DOMAIN pipe : pipe'[k] = pipe[j]
  <2>1. CASE pipe' = pipe
    BY <2>1 DEF Types, Running, StartsFirst
  <2>2. CASE pipe # <<>> /\ pipe' = Tail(pipe)
    BY <2>2, CommandTaken, AskedAfterTaking DEF Running
  <2> QED
    BY <2>1, <2>2
<1>4. AllApt'
  <2> SUFFICES ASSUME NEW k \in DOMAIN pipe', NEW m, m = pipe'[k] PROVE Apt(m)'
    BY AptsStay
  <2>1. Apt(m) /\ m \in Commands
    BY <1>3 DEF Running, AllApt, Types
  <2>2. m.cmd = "S" => sock'[m.id] = sock[m.id]
    BY <2>1 DEF Becomes, Types, Commands
  <2>3. m.id \in Ids
    BY <2>1 DEF Commands
  <2> QED
    BY <1>1, <1>2, <2>1, <2>2, <2>3 DEF Apt
<1>5. Sockets'
  BY <1>1, IdFacts DEF Running, Sockets, Becomes, Types
<1>6. sock[Listener] # "none" => sock'[Listener] # "none"
  BY <1>1, IdFacts
<1>7. ASSUME NEW k \in DOMAIN queue, NEW e, e = queue[k] PROVE Sound(e)'
  <2>1. Sound(e)
    BY <1>7 DEF Running, AllSound
  <2>2. e.type = "accept" =>
          sock'[e.ud] = sock[e.ud] /\ \A j \in DOMAIN pipe' : pipe'[j].id # e.ud
    <3> SUFFICES ASSUME e.type = "accept"
                 PROVE  sock'[e.ud] = sock[e.ud] /\ \A j \in DOMAIN pipe' : pipe'[j].id # e.ud
      OBVIOUS
    <3>1. e.ud \in Ids /\ \A j \in DOMAIN pipe : pipe[j].id # e.ud
      BY <2>1, IdFacts DEF Sound
    <3> QED
      BY <1>3, <1>7, <3>1 DEF Becomes, Types
  <2> QED
    BY <1>1, <1>2, <1>6, <2>1, <2>2 DEF Sound
<1>8. sock'[Listener] = "listen" => sock[Listener] = "listen"
  BY IdFacts DEF Becomes, Types
<1>9. CASE queue' = queue
  <2>1. AllSound' /\ Ordered'
    BY <1>7, <1>9, SoundsStay DEF Running, Ordered, Precedes
  <2>2. Accepting'
    BY <1>8, <1>9 DEF Running, Accepting, Connected, Known, Told, OpensListener
  <2>3. queue' \in Seq(Events)
    BY <1>9 DEF Types
  <2> QED
    BY <1>1, <1>3, <1>4, <1>5, <2>1, <2>2, <2>3 DEF Running, Types
<1>10. ASSUME NEW e \in Events, queue' = Append(queue, e), \A f : f = e => Sound(f)',
              \A k \in DOMAIN queue : Precedes(queue[k], e),
              e.type = "accept" => sock[Listener] = "listen"
       PROVE  Types' /\ Running'
  <2> DEFINE n == Len(queue) + 1
  <2>1. /\ queue' \in Seq(Events)
        /\ \A k \in DOMAIN queue : k \in DOMAIN queue' /\ queue'[k] = queue[k] /\ k < n
        /\ n \in DOMAIN queue' /\ queue'[n] = e
        /\ \A k \in DOMAIN queue' : k \in DOMAIN queue \/ k = n
    BY <1>10, EventTold
  <2> HIDE DEF n
  <2>2. AllSound'
    <3> SUFFICES ASSUME NEW k \in DOMAIN queue', NEW f, f = queue'[k] PROVE Sound(f)'
      BY SoundsStay
    <3>1. CASE k \in DOMAIN queue
      BY <1>7, <2>1, <3>1
    <3>2. CASE k = n
      BY <1>10, <2>1, <3>2
    <3> QED
      BY <2>1, <3>1, <3>2
  <2>3. Ordered'
    BY <1>10, AfterTelling DEF Running
  <2>4. Accepting'
    <3>1. \A j : Connected(j)' <=> Connected(j)
      BY <1>2 DEF Connected
    <3>2. Told("open", Listener) => Told("open", Listener)'
      BY <1>10, AfterTelling
    <3>3. ASSUME NEW k \in DOMAIN queue', queue'[k].type = "accept", ~Connected(Listener)
          PROVE  \E j \in DOMAIN queue' : j < k /\ OpensListener(queue'[j])
      <4>1. CASE k \in DOMAIN queue
        BY <2>1, <3>3, <4>1 DEF Running, Accepting
      <4>2. CASE k = n
        BY <1>10, <2>1, <3>3, <4>2 DEF Running, Accepting, Told, OpensListener
      <4> QED
        BY <2>1, <4>1, <4>2
    <3> QED
      BY <1>8, <3>1, <3>2, <3>3 DEF Running, Accepting, OpensListener
  <2> QED
    BY <1>1, <1>3, <1>4, <1>5, <2>1, <2>2, <2>3, <2>4 DEF Running, Types
<1> QED
  BY <1>9, <1>10

\* What the server finds.
LEMMA Taken ==
  ASSUME Types, Running, NEW x, Take(x)
  PROVE  /\ pipe # <<>> /\ pipe' = Tail(pipe) /\ Apt(Head(pipe)) /\ Head(pipe).cmd = x
         /\ What \in Ids /\ What = Head(pipe).id
         /\ \A y, j : Asked(y, j) => Asked(y, j)' \/ (y = x /\ j = What)
         /\ \A k \in DOMAIN pipe' : pipe'[k].cmd = "S" => pipe'[k].id # What
         /\ x # "S" => \A j : Asked("S", j) => j # What
<1>1. pipe # <<>> /\ pipe' = Tail(pipe) /\ Head(pipe).cmd = x
  BY DEF Take
<1>2. /\ Head(pipe) \in Commands /\ 1 \in DOMAIN pipe /\ pipe[1] = Head(pipe)
      /\ \A k \in DOMAIN pipe' :
           k \in Nat /\ k > 0 /\ k + 1 \in DOMAIN pipe /\ pipe'[k] = pipe[k + 1]
      /\ \A k \in DOMAIN pipe : k = 1 \/ (k - 1 \in DOMAIN pipe' /\ pipe'[k - 1] = pipe[k])
  BY <1>1, CommandTaken
<1>3. Apt(Head(pipe))
  BY <1>2 DEF Running, AllApt
<1>4. /\ \A y, j : Asked(y, j) => Asked(y, j)' \/ (y = x /\ j = What)
      /\ \A k \in DOMAIN pipe' : pipe'[k].cmd = "S" => pipe'[k].id # What
  BY <1>1, AskedAfterTaking DEF Running, What
<1>5. ASSUME x # "S", NEW j, Asked("S", j) PROVE j # What
  <2>1. PICK k \in DOMAIN pipe : pipe[k] = [cmd |-> "S", id |-> j]
    BY <1>5 DEF Asked
  <2>2. k # 1
    BY <1>1, <1>2, <1>5, <2>1
  <2> QED
    BY <1>2, <1>4, <2>1, <2>2
<1> QED
  BY <1>1, <1>2, <1>3, <1>4, <1>5 DEF Commands, What

\* An event about a socket, other than an accept, an open or a start, may
\* come behind every other.
LEMMA ComesLast ==
  ASSUME NEW t \in {"data", "err", "close", "answer"}, NEW i \in Ids \cup {0}
  PROVE  /\ Event(t, i) \in Events /\ Event(t, i).type = t /\ Event(t, i).id = i
         /\ \A e : Precedes(e, Event(t, i))
BY DEF Event, Events, Precedes

\* A started client is open, or gone with an error on its way.
LEMMA StartSocketStep ==
  ASSUME Types, Running, StartSocket
  PROVE  Types' /\ Running'
<1>0. /\ pipe # <<>> /\ pipe' = Tail(pipe) /\ Apt(Head(pipe)) /\ Head(pipe).cmd = "S"
      /\ What \in Ids /\ What = Head(pipe).id
      /\ \A y, j : Asked(y, j) => Asked(y, j)' \/ (y = "S" /\ j = What)
      /\ \A k \in DOMAIN pipe' : pipe'[k].cmd = "S" => pipe'[k].id # What
  BY Taken DEF StartSocket
<1>1. PICK c \in Clients : c = What
  BY <1>0 DEF Apt
<1>2. sock[c] = "paccept" /\ Known(c) /\ c \in Ids /\ c # Listener /\ c # Bad
  BY <1>0, <1>1, IdFacts DEF Apt
<1>3. UNCHANGED <<conns, fd, unlined, replied, used>> /\ used' \in 0 .. MaxExtra
  BY DEF StartSocket, service, Types
<1>4. \/ Becomes(c, "open") /\ Tell("open", c)
      \/ Becomes(c, "gone") /\ Tell("err", c)
  BY <1>1, <1>2 DEF StartSocket
<1>5. \A k \in DOMAIN queue : queue[k].type = "accept" => queue[k].ud # c
  BY <1>2 DEF Running, AllSound, Sound
<1>6. CASE Becomes(c, "open") /\ Tell("open", c)
  <2> DEFINE e == Event("open", c)
  <2>1. e \in Events /\ e.type = "open" /\ e.id = c /\ queue' = Append(queue, e)
    BY <1>2, <1>6 DEF Event, Events, Tell
  <2>2. \A f : f = e => Sound(f)'
    BY <1>2, <1>3, <2>1 DEF Sound, Known
  <2>3. \A k \in DOMAIN queue : Precedes(queue[k], e)
    <3> SUFFICES ASSUME NEW k \in DOMAIN queue PROVE Precedes(queue[k], e)
      OBVIOUS
    <3>1. Sound(queue[k])
      BY DEF Running, AllSound
    <3> QED
      BY <1>2, <2>1, <3>1 DEF Precedes, Sound, Over
  <2> HIDE DEF e
  <2>4. Accounted'
    <3>1. /\ \A t, j : Told(t, j) => Told(t, j)'
          /\ \A j : Offered(j) => Offered(j)'
      BY <2>1, AfterTelling
    <3>2. sock'[c] = "open" /\ \A d \in Clients : d # c => sock'[d] = sock[d]
      BY <1>2, <1>6 DEF Becomes, Types
    <3>3. \A d : Known(d)' <=> Known(d)
      BY <1>3 DEF Known
    <3> QED
      BY <1>0, <1>1, <1>2, <1>3, <3>1, <3>2, <3>3 DEF Running, Accounted
  <2> QED
    BY <1>0, <1>1, <1>2, <1>3, <1>5, <1>6, <2>1, <2>2, <2>3, <2>4, ServerKeeps DEF States
<1>7. CASE Becomes(c, "gone") /\ Tell("err", c)
  <2> DEFINE e == Event("err", c)
  <2>1. e \in Events /\ e.type = "err" /\ e.id = c /\ queue' = Append(queue, e)
        /\ \A k \in DOMAIN queue : Precedes(queue[k], e)
    BY <1>2, <1>7, ComesLast DEF Tell
  <2> HIDE DEF e
  <2>2. sock'[c] = "gone" /\ \A d \in Clients : d # c => sock'[d] = sock[d]
    BY <1>2, <1>7, IdFacts DEF Becomes, Types
  <2>3. \A f : f = e => Sound(f)'
    BY <1>2, <1>3, <2>1, <2>2 DEF Sound, Over
  <2>4. Accounted'
    <3>1. /\ \A t, j : Told(t, j) => Told(t, j)'
          /\ Told("err", c)'
          /\ \A j : Offered(j) => Offered(j)'
      BY <2>1, AfterTelling
    <3>3. \A d : Known(d)' <=> Known(d)
      BY <1>3 DEF Known
    <3> QED
      BY <1>0, <1>1, <1>2, <1>3, <2>2, <3>1, <3>3 DEF Running, Accounted
  <2> QED
    BY <1>0, <1>1, <1>2, <1>3, <1>5, <1>7, <2>1, <2>3, <2>4, ServerKeeps DEF States
<1> QED
  BY <1>4, <1>6, <1>7

\* A close or shutdown ends the socket, leaves it half-closed, or is answered
\* for one that is no more.
LEMMA CloseSocketStep ==
  ASSUME Types, Running, CloseSocket
  PROVE  Types' /\ Running'
<1>0. PICK x \in {"K", "H"} :
        /\ pipe # <<>> /\ pipe' = Tail(pipe) /\ Apt(Head(pipe)) /\ Head(pipe).cmd = x
        /\ What \in Ids /\ What = Head(pipe).id
        /\ \A y, j : Asked(y, j) => Asked(y, j)' \/ (y = x /\ j = What)
        /\ \A k \in DOMAIN pipe' : pipe'[k].cmd = "S" => pipe'[k].id # What
        /\ \A j : Asked("S", j) => j # What
  <2>1. PICK x \in {"K", "H"} : Take(x)
    BY DEF CloseSocket
  <2> QED
    BY <2>1, Taken
<1>1. PICK i \in Ids : i = What
  BY <1>0
<1>2. UNCHANGED <<conns, fd, unlined, replied, used>> /\ used' \in 0 .. MaxExtra
  BY DEF CloseSocket, service, Types
<1>3. x = "H" => Over(i) \/ sock[i] # "none"
  BY <1>0, <1>1 DEF Apt
<1>4. x = "K" => i \in Clients /\ sock[i] # "none"
  BY <1>0, <1>1 DEF Apt
<1>5. \/ Missing(i) /\ Tell("close", i) /\ sock' = sock
      \/ ~Missing(i) /\ Becomes(i, "gone") /\ Tell("close", i)
      \/ /\ ~Missing(i) /\ x = "K" /\ queue' = queue
         /\ Becomes(i, IF sock[i] \in {"open", "half"} THEN "half" ELSE "lame")
  BY <1>0, <1>1 DEF CloseSocket
<1>6. \A k \in DOMAIN queue : queue[k].type = "accept" => queue[k].ud # i
  <2> SUFFICES ASSUME NEW k \in DOMAIN queue, queue[k].type = "accept" PROVE queue[k].ud # i
    OBVIOUS
  <2>1. \A j \in DOMAIN pipe : pipe[j].id # queue[k].ud
    BY DEF Running, AllSound, Sound
  <2> QED
    BY <1>0, <1>1, <2>1, CommandTaken
<1>7. \A d : Known(d)' <=> Known(d)
  BY <1>2 DEF Known
<1>8. i = Bad => Missing(i)
  BY DEF Running, Sockets, Missing
<1>9. ASSUME Tell("close", i), Over(i)',
             sock' = sock \/ (Becomes(i, "gone") /\ ~Missing(i))
      PROVE  Types' /\ Running'
  <2> DEFINE e == Event("close", i)
  <2>1. e \in Events /\ e.type = "close" /\ e.id = i /\ queue' = Append(queue, e)
        /\ \A k \in DOMAIN queue : Precedes(queue[k], e)
    BY <1>9, ComesLast DEF Tell
  <2> HIDE DEF e
  <2>2. \A f : f = e => Sound(f)'
    BY <1>9, <2>1 DEF Sound, Over
  <2>3. Accounted'
    <3>1. /\ \A t, j : Told(t, j) => Told(t, j)'
          /\ Told("close", i)'
          /\ \A j : Offered(j) => Offered(j)'
      BY <2>1, AfterTelling
    <3>2. \A d \in Clients : sock'[d] = sock[d] \/ (d = i /\ sock'[d] = "gone" /\ sock[d] # "none")
      BY <1>9, IdFacts DEF Becomes, Types, Missing
    <3>3. x = "K" => sock'[i] = "gone"
      BY <1>1, <1>4, <1>9, IdFacts DEF Over
    <3> QED
      BY <1>0, <1>1, <1>2, <1>7, <3>1, <3>2, <3>3 DEF Running, Accounted
  <2>4. "gone" \in States /\ (Becomes(i, "gone") /\ ~Missing(i) => sock[i] # "gone" /\ i # Bad)
    BY <1>8 DEF States, Missing
  <2> QED
    BY <1>0, <1>1, <1>2, <1>6, <1>9, <2>1, <2>2, <2>3, <2>4, ServerKeeps
<1>10. CASE Missing(i) /\ Tell("close", i) /\ sock' = sock
  <2>1. Over(i)'
    BY <1>3, <1>4, <1>10 DEF Over, Missing
  <2> QED
    BY <1>9, <1>10, <2>1
<1>11. CASE ~Missing(i) /\ Becomes(i, "gone") /\ Tell("close", i)
  <2>1. Over(i)'
    BY <1>11 DEF Over, Becomes, Types
  <2> QED
    BY <1>9, <1>11, <2>1
<1>12. CASE /\ ~Missing(i) /\ x = "K" /\ queue' = queue
            /\ Becomes(i, IF sock[i] \in {"open", "half"} THEN "half" ELSE "lame")
  <2>1. PICK st \in {"half", "lame"} : Becomes(i, st) /\ (st = "half" <=> sock[i] \in {"open", "half"})
    BY <1>12
  <2>2. Accounted'
    <3>1. \A d \in Clients : sock'[d] = IF d = i THEN st ELSE sock[d]
      BY <2>1, IdFacts DEF Becomes, Types
    <3>2. \A t, j : /\ Told(t, j) => Told(t, j)'
                    /\ Offered(j) => Offered(j)'
      BY <1>12 DEF Told, Offered
    <3>3. \A d \in Clients : Known(d)' =>
            /\ unlined'[d] = 0 /\ sock'[d] # "none"
            /\ \/ Asked("S", d)' \/ sock'[d] \in {"open", "half"}
               \/ Told("close", d)' \/ Told("err", d)' \/ Asked("H", d)'
      BY <1>0, <1>1, <1>2, <1>7, <1>12, <2>1, <3>1, <3>2 DEF Running, Accounted
    <3>4. \A d \in Clients : sock'[d] \in {"open", "half"} => Known(d)'
      BY <1>7, <2>1, <3>1 DEF Running, Accounted
    <3>5. \A d \in Clients : sock'[d] = "paccept" => Known(d)' \/ Offered(d)' \/ Asked("K", d)'
      BY <1>0, <1>1, <1>7, <2>1, <3>1, <3>2 DEF Running, Accounted
    <3>6. \A d \in Clients : sock'[d] = "none" => unlined'[d] = 0
      BY <1>2, <2>1, <3>1 DEF Running, Accounted
    <3> QED
      BY <3>3, <3>4, <3>5, <3>6 DEF Accounted
  <2>3. i # Bad /\ i # Listener /\ sock[i] # "gone" /\ st \in States
    BY <1>4, <1>12, IdFacts DEF Missing, States
  <2> QED
    BY <1>0, <1>1, <1>2, <1>6, <1>12, <2>1, <2>2, <2>3, ServerKeeps
<1> QED
  BY <1>5, <1>10, <1>11, <1>12

\* An accepted socket is offered; it is nobody else's.
LEMMA AcceptStep ==
  ASSUME Types, Running, NEW c \in Clients, Accept(c)
  PROVE  Types' /\ Running'
<1>1. /\ sock[Listener] = "listen" /\ sock[c] = "none" /\ Becomes(c, "paccept")
      /\ UNCHANGED <<pipe, conns, fd, unlined, replied, used>> /\ used' \in 0 .. MaxExtra
      /\ c \in Ids /\ c # Bad /\ c # Listener
  BY IdFacts DEF Accept, service, Types
<1> DEFINE e == [type |-> "accept", id |-> Listener, ud |-> c]
<1>2. /\ e \in Events /\ e.type = "accept" /\ e.id = Listener /\ e.ud = c
      /\ queue' = Append(queue, e)
  BY IdFacts DEF Accept, Events
<1> HIDE DEF e
<1>3. ~Known(c) /\ unlined[c] = 0
  BY <1>1 DEF Running, Accounted
<1>4. \A k \in DOMAIN pipe : pipe[k].id # c
  <2> SUFFICES ASSUME NEW k \in DOMAIN pipe, pipe[k].id = c PROVE FALSE
    OBVIOUS
  <2>1. Apt(pipe[k]) /\ pipe[k] \in Commands
    BY DEF Running, AllApt, Types
  <2> QED
    BY <1>1, <2>1 DEF Apt, Commands, Over
<1>5. \A k \in DOMAIN queue : queue[k].type = "accept" => queue[k].ud # c
  BY <1>1 DEF Running, AllSound, Sound
<1>6. sock'[c] = "paccept" /\ \A d \in Clients : d # c => sock'[d] = sock[d]
  BY <1>1 DEF Becomes, Types
<1>7. \A f : f = e => Sound(f)'
  BY <1>1, <1>2, <1>3, <1>4, <1>6 DEF Sound, Known
<1>8. \A k \in DOMAIN queue : Precedes(queue[k], e)
  <2> SUFFICES ASSUME NEW k \in DOMAIN queue PROVE Precedes(queue[k], e)
    OBVIOUS
  <2>1. Sound(queue[k])
    BY DEF Running, AllSound
  <2> QED
    BY <1>1, <1>2, <1>5, <2>1, IdFacts DEF Precedes, Sound, Over
<1>9. Accounted'
  <2>1. /\ \A t, j : Told(t, j) => Told(t, j)'
        /\ \A j : Offered(j) => Offered(j)'
        /\ Offered(c)'
    BY <1>2, AfterTelling
  <2>2. \A d : Known(d)' <=> Known(d)
    BY <1>1 DEF Known
  <2>3. \A x, j : Asked(x, j)' <=> Asked(x, j)
    BY <1>1 DEF Asked
  <2> QED
    BY <1>1, <1>3, <1>6, <2>1, <2>2, <2>3 DEF Running, Accounted
<1> QED
  BY <1>1, <1>2, <1>4, <1>5, <1>7, <1>8, <1>9, ServerKeeps DEF States, Apt, Running, AllApt

\* An event alone, which is no end of a socket.
LEMMA TellStep ==
  ASSUME Types, Running, NEW t \in {"data", "err", "answer"}, NEW i \in Ids \cup {0}, Tell(t, i),
         t = "err" => i = fd /\ sock[Listener] # "none",
         t # "err" => i \in Clients,
         UNCHANGED <<sock, pipe, conns, fd, unlined, replied>>, used' \in 0 .. MaxExtra
  PROVE  Types' /\ Running'
<1> DEFINE e == Event(t, i)
<1>1. e \in Events /\ e.type = t /\ e.id = i /\ queue' = Append(queue, e)
      /\ \A k \in DOMAIN queue : Precedes(queue[k], e)
  BY ComesLast DEF Tell
<1> HIDE DEF e
<1>2. \A f : f = e => Sound(f)'
  BY <1>1 DEF Sound
<1>3. Accounted'
  <2>1. /\ \A u, j : Told(u, j) => Told(u, j)'
        /\ \A j : Offered(j) => Offered(j)'
    BY <1>1, AfterTelling
  <2>2. \A d : Known(d)' <=> Known(d)
    BY DEF Known
  <2>3. \A x, j : Asked(x, j)' <=> Asked(x, j)
    BY DEF Asked
  <2> QED
    BY <2>1, <2>2, <2>3 DEF Running, Accounted
<1>4. Bad \in Ids /\ "none" \in States
  BY IdFacts DEF States
<1> QED
  BY <1>1, <1>2, <1>3, <1>4, ServerKeeps

\* A socket that ends tells of it.
LEMMA EndStep ==
  ASSUME Types, Running, NEW c \in Clients, End(c)
  PROVE  Types' /\ Running'
<1>1. /\ sock[c] \in {"open", "half"} /\ Becomes(c, "gone")
      /\ UNCHANGED <<pipe, conns, fd, unlined, replied, used>> /\ used' \in 0 .. MaxExtra
      /\ c \in Ids /\ c # Bad
  BY IdFacts DEF End, service, Types
<1>2. PICK t \in {"close", "err"} : Tell(t, c)
  BY DEF End
<1> DEFINE e == Event(t, c)
<1>3. e \in Events /\ e.type = t /\ e.id = c /\ queue' = Append(queue, e)
      /\ \A k \in DOMAIN queue : Precedes(queue[k], e)
  BY <1>1, <1>2, ComesLast DEF Tell
<1> HIDE DEF e
<1>4. sock'[c] = "gone" /\ \A d \in Clients : d # c => sock'[d] = sock[d]
  BY <1>1, IdFacts DEF Becomes, Types
<1>5. \A f : f = e => Sound(f)'
  BY <1>1, <1>3, <1>4 DEF Sound, Over
<1>6. Accounted'
  <2>1. /\ \A u, j : Told(u, j) => Told(u, j)'
        /\ \A j : Offered(j) => Offered(j)'
        /\ Told(t, c)'
    BY <1>3, AfterTelling
  <2>2. \A d : Known(d)' <=> Known(d)
    BY <1>1 DEF Known
  <2>3. \A x, j : Asked(x, j)' <=> Asked(x, j)
    BY <1>1 DEF Asked
  <2> QED
    BY <1>1, <1>4, <2>1, <2>2, <2>3 DEF Running, Accounted
<1>7. /\ \A k \in DOMAIN queue : queue[k].type = "accept" => queue[k].ud # c
      /\ \A k \in DOMAIN pipe' : pipe'[k].cmd = "S" => pipe'[k].id # c
  BY <1>1 DEF Running, AllSound, Sound, AllApt, Apt
<1>8. "gone" \in States /\ sock[c] # "gone"
  BY <1>1 DEF States
<1> QED
  BY <1>1, <1>3, <1>5, <1>6, <1>7, <1>8, ServerKeeps

-----------------------------------------------------------------------------
(***************************************************************************)
(* The start                                                               *)
(***************************************************************************)

\* The first event but for the start event: the listener is open or gone, and
\* there are no clients yet.
LEMMA FirstEvent ==
  ASSUME Types', pipe' = <<>>, NEW t \in {"open", "err"}, NEW i \in {Bad, Listener},
         queue' = <<Event(t, i)>>,
         \A j \in Ids \ {Listener} : sock'[j] = "none",
         \A c \in Clients : unlined'[c] = 0,
         DOMAIN conns' \subseteq {Bad, Listener},
         IF t = "open" THEN i = Listener /\ Known(i)' ELSE Over(i)',
         sock'[Listener] \in {"none", "listen", "gone"}, sock'[Listener] = "listen" => t = "open"
  PROVE  Running'
<1>1. DOMAIN queue' = {1} /\ queue'[1] = Event(t, i)
  OBVIOUS
<1>2. AllSound'
  <2> SUFFICES ASSUME NEW k \in DOMAIN queue', NEW e, e = queue'[k] PROVE Sound(e)'
    BY SoundsStay
  <2>1. e.type = t /\ e.id = i
    BY <1>1 DEF Event
  <2> QED
    BY <2>1 DEF Sound
<1>3. AllApt' /\ StartsFirst'
  BY DEF AllApt, StartsFirst
<1>4. Ordered'
  BY <1>1 DEF Ordered
<1>5. Accepting'
  BY <1>1 DEF Accepting, Told, Event
<1>6. Accounted'
  BY IdFacts DEF Accounted, Known
<1>7. Sockets'
  BY IdFacts DEF Sockets
<1> QED
  BY <1>2, <1>3, <1>4, <1>5, <1>6, <1>7 DEF Running

\* onStart sends its commands.
LEMMA StartStep ==
  ASSUME GInv, Start
  PROVE  Types' /\ Starting'
<1>1. Types /\ queue # <<>> /\ Head(queue).type = "start" /\ queue' = Tail(queue)
  BY DEF GInv, Start, Receives
<1>2. ~Running
  BY <1>1, EventTaken DEF Running, AllSound, Sound
<1>3. Starting /\ queue = <<Event("start", 0)>> /\ pipe = <<>> /\ sock[Listener] = "none"
  BY <1>1, <1>2 DEF GInv, Starting
<1>4. queue' = <<>>
  BY <1>1, <1>3
<1>5. PICK i \in {Bad, Listener} :
        /\ conns' = Entered(i, FALSE)
        /\ pipe' = pipe \o (IF i = Bad THEN <<>> ELSE <<[cmd |-> "L", id |-> i]>>)
                        \o <<[cmd |-> "S", id |-> i]>>
  BY DEF Start
<1>6. UNCHANGED <<sock, replied, fd, unlined, used>>
  BY DEF Start
<1>7. pipe' = IF i = Bad THEN <<Command("S", Bad)>>
                         ELSE <<Command("L", Listener), Command("S", Listener)>>
  BY <1>3, <1>5, IdFacts DEF Command
<1>8. pipe' \in Seq(Commands)
  <2>1. Command("S", Bad) \in Commands /\ Command("L", Listener) \in Commands
        /\ Command("S", Listener) \in Commands
    BY IdFacts DEF Command, Commands
  <2> QED
    BY <1>7, <2>1
<1>9. DOMAIN conns' = DOMAIN conns \cup {i} /\ conns' \in [DOMAIN conns' -> BOOLEAN]
  BY <1>1, <1>5 DEF Entered, Types
<1>10. Types'
  BY <1>1, <1>4, <1>6, <1>8, <1>9, IdFacts DEF Types
<1>11. Starting'
  BY <1>3, <1>4, <1>6, <1>7, <1>9, IdFacts DEF Starting, Known
<1> QED
  BY <1>10, <1>11

\* The server carries them out.
LEMMA ServeStartStep ==
  ASSUME Types, Starting, Serve
  PROVE  Types' /\ (Starting' \/ Running')
<1>1. pipe # <<>> /\ pipe' = Tail(pipe) /\ UNCHANGED <<conns, fd, unlined, replied, used>>
  BY DEF Serve, ListenSocket, StartSocket, CloseSocket, Take, service
<1>2. /\ \A i \in Ids \ {Listener} : sock[i] = "none"
      /\ \A c \in Clients : unlined'[c] = 0
      /\ DOMAIN conns' \subseteq {Bad, Listener}
      /\ queue = <<>> /\ pipe' \in Seq(Commands)
  BY <1>1, CommandTaken DEF Starting
<1>3. \A j : Known(j)' <=> Known(j)
  BY <1>1 DEF Known
<1>4. CASE pipe = <<Command("S", Bad)>> /\ sock[Listener] = "none"
  <2>1. pipe' = <<>> /\ What = Bad /\ Head(pipe).cmd = "S"
    BY <1>1, <1>4 DEF Command, What
  <2>2. sock' = sock /\ Tell("err", Bad)
    BY <1>2, <2>1, IdFacts DEF Serve, ListenSocket, StartSocket, CloseSocket, Take, Missing
  <2>3. queue' = <<Event("err", Bad)>> /\ Event("err", Bad) \in Events
    BY <1>2, <2>2, IdFacts DEF Tell, Event, Events
  <2>4. Types'
    BY <1>1, <1>2, <2>2, <2>3 DEF Types
  <2> QED
    BY <1>2, <1>4, <2>1, <2>2, <2>3, <2>4, FirstEvent DEF Over
<1>5. CASE pipe = <<Command("L", Listener), Command("S", Listener)>>
           /\ sock[Listener] = "none" /\ Known(Listener)
  <2>1. pipe' = <<Command("S", Listener)>> /\ What = Listener /\ Head(pipe).cmd = "L"
    BY <1>1, <1>5 DEF Command, What
  <2>2. Becomes(Listener, "plisten") /\ queue' = queue
    BY <2>1 DEF Serve, ListenSocket, StartSocket, CloseSocket, Take
  <2>3. /\ sock' \in [Ids -> States] /\ sock'[Listener] = "plisten"
        /\ \A i \in Ids \ {Listener} : sock'[i] = "none"
    BY <1>2, <2>2, IdFacts DEF Becomes, Types, States
  <2>4. Types'
    BY <1>1, <1>2, <2>2, <2>3 DEF Types
  <2>5. Starting'
    BY <1>2, <1>3, <1>5, <2>1, <2>2, <2>3 DEF Starting
  <2> QED
    BY <2>4, <2>5
<1>6. CASE pipe = <<Command("S", Listener)>> /\ sock[Listener] = "plisten" /\ Known(Listener)
  <2>1. pipe' = <<>> /\ What = Listener /\ Head(pipe).cmd = "S"
    BY <1>1, <1>6 DEF Command, What
  <2>2. \/ Becomes(Listener, "listen") /\ Tell("open", Listener)
        \/ Becomes(Listener, "gone") /\ Tell("err", Listener)
    BY <1>6, <2>1 DEF Serve, ListenSocket, StartSocket, CloseSocket, Take
  <2>3. PICK t \in {"open", "err"} :
          Becomes(Listener, IF t = "open" THEN "listen" ELSE "gone") /\ Tell(t, Listener)
    BY <2>2
  <2>4. queue' = <<Event(t, Listener)>> /\ Event(t, Listener) \in Events
    BY <1>2, <2>3, IdFacts DEF Tell, Event, Events
  <2>5. /\ sock' \in [Ids -> States] /\ sock'[Listener] = (IF t = "open" THEN "listen" ELSE "gone")
        /\ \A i \in Ids \ {Listener} : sock'[i] = "none"
    BY <1>2, <2>3, IdFacts DEF Becomes, Types, States
  <2>6. Types'
    BY <1>1, <1>2, <2>4, <2>5 DEF Types
  <2> QED
    BY <1>2, <1>3, <1>6, <2>1, <2>4, <2>5, <2>6, FirstEvent, IdFacts DEF Over
<1> QED
  BY <1>1, <1>4, <1>5, <1>6 DEF Starting

-----------------------------------------------------------------------------
\* GInv holds at first ...
LEMMA GInvInit == Init => GInv
<1> SUFFICES ASSUME Init PROVE Types /\ Starting
  BY DEF GInv
<1>1. Event("start", 0) \in Events
  BY DEF Event, Events
<1>2. Types
  BY <1>1, GatewayAssumption, IdFacts DEF Init, Types, States
<1>3. Starting
  BY IdFacts DEF Init, Starting
<1> QED
  BY <1>2, <1>3

\* ... and every step keeps it.
LEMMA GInvNext == GInv /\ [Next]_vars => GInv'
<1> SUFFICES ASSUME GInv, [Next]_vars PROVE Types' /\ (Starting' \/ Running')
  BY DEF GInv
<1>0. Types /\ (Starting \/ Running)
  BY DEF GInv
<1>1. CASE Start
  BY <1>1, StartStep
<1>2. CASE OnAccept
  BY <1>2, OnAcceptStep
<1>3. CASE OnOpen
  BY <1>3, OnOpenStep
<1>4. CASE OnData
  BY <1>4, OnDataStep
<1>5. CASE OnError
  BY <1>5, OnErrorStep
<1>6. CASE OnClose
  BY <1>6, OnCloseStep
<1>7. CASE Answer
  BY <1>7, AnswerStep
<1>8. CASE Serve
  <2>1. CASE Starting
    BY <1>0, <1>8, <2>1, ServeStartStep
  <2>2. CASE Running
    <3>1. ~ListenSocket
      BY <1>0, <2>2, Taken DEF ListenSocket, Apt
    <3> QED
      BY <1>0, <1>8, <2>2, <3>1, StartSocketStep, CloseSocketStep DEF Serve
  <2> QED
    BY <1>0, <2>1, <2>2
\* No accept, end or answer before the start is over.
<1>9. Starting => sock[Listener] # "listen" /\ \A c \in Clients : sock[c] = "none"
  BY IdFacts DEF Starting
<1>10. CASE AcceptFails
  <2>1. Running /\ sock[Listener] # "none"
    BY <1>0, <1>9, <1>10 DEF AcceptFails
  <2>2. fd \in Ids \cup {0} /\ used + 1 \in 0 .. MaxExtra
    BY <1>0, <1>10, GatewayAssumption, IdFacts DEF Types, AcceptFails
  <2>3. /\ Tell("err", fd) /\ UNCHANGED <<sock, pipe, conns, fd, unlined, replied>>
        /\ used' \in 0 .. MaxExtra
    BY <1>10, <2>2 DEF AcceptFails, service
  <2> QED
    BY <1>0, <2>1, <2>2, <2>3, TellStep
<1>11. ASSUME NEW c \in Clients, Accept(c) PROVE Types' /\ Running'
  BY <1>0, <1>9, <1>11, AcceptStep DEF Accept
<1>12. ASSUME NEW c \in Clients, Data(c) \/ Reply(c) PROVE Types' /\ Running'
  <2>1. Running
    BY <1>0, <1>9, <1>12 DEF Data, Reply
  <2>2. c \in Ids \cup {0} /\ (used < MaxExtra => used + 1 \in 0 .. MaxExtra)
    BY <1>0, GatewayAssumption, IdFacts DEF Types
  <2>3. PICK t \in {"data", "answer"} : Tell(t, c)
    BY <1>12 DEF Data, Reply
  <2>4. /\ UNCHANGED <<sock, pipe, conns, fd, unlined, replied>>
        /\ used' \in 0 .. MaxExtra
    BY <1>12, <2>2 DEF Data, Reply, service
  <2> QED
    BY <1>0, <2>1, <2>2, <2>3, <2>4, TellStep
<1>13. ASSUME NEW c \in Clients, End(c) PROVE Types' /\ Running'
  BY <1>0, <1>9, <1>13, EndStep DEF End
<1>14. CASE UNCHANGED vars
  <2>1. UNCHANGED <<sock, pipe, queue, conns, unlined, replied, fd, used>>
    BY <1>14 DEF vars, service
  <2>2. Types' /\ (Starting => Starting')
    BY <1>0, <2>1 DEF Types, Starting, Known
  <2>3. Running => Running'
    BY <2>1 DEF Running, Sockets, AllSound, Sound, Over, AllApt, Apt, Ordered, Precedes, StartsFirst,
                Accepting, OpensListener, Accounted, Connected, Known, Told, Offered, Asked
  <2> QED
    BY <1>0, <2>2, <2>3
<1> QED
  BY <1>1, <1>2, <1>3, <1>4, <1>5, <1>6, <1>7, <1>8, <1>10, <1>11, <1>12, <1>13, <1>14 DEF Next, Handle

\* Sockets, events, commands and entries are as the code and its bounds allow,
\* and say of one another what the two parties rely on.
THEOREM GatewayIsSound == Spec => []GInv
BY GInvInit, GInvNext, PTL DEF Spec

\* When an accepted client is handed to the service, the listener's entry is
\* there and open, whatever errors and closes race with the accept.
THEOREM AcceptsAreExpected == Spec => []AcceptFindsListener
<1>1. GInv => AcceptFindsListener
  <2> SUFFICES ASSUME GInv, queue # <<>>, Head(queue).type = "accept"
               PROVE  Connected(Listener)
    BY DEF AcceptFindsListener
  <2>1. 1 \in DOMAIN queue /\ queue[1] = Head(queue) /\ queue \in Seq(Events)
    BY DEF GInv, Types
  <2>2. Running
    BY DEF GInv, Starting, Event
  <2>3. \A j \in DOMAIN queue : ~(j < 1)
    BY <2>1
  <2> QED
    BY <2>1, <2>2, <2>3 DEF Running, Accepting
<1> QED
  BY <1>1, GatewayIsSound, PTL

\* No client's socket stays open behind the back of the service.
THEOREM NoClientForgotten == Spec => []NoneForgotten
<1>1. GInv => NoneForgotten
  BY IdFacts DEF GInv, Starting, Running, Accounted, NoneForgotten
<1> QED
  BY <1>1, GatewayIsSound, PTL

\* onError shuts down only what has ended already, but for the innocent
\* socket whose id is the descriptor of the listener.
THEOREM NoUndueShutdown == Spec => []ShutdownsAreDue
<1>1. GInv => ShutdownsAreDue
  <2> SUFFICES ASSUME GInv, NEW i \in Ids, Asked("H", i) PROVE Missing(i) \/ i = fd
    BY DEF ShutdownsAreDue
  <2>1. PICK k \in DOMAIN pipe : pipe[k] = [cmd |-> "H", id |-> i]
    BY DEF Asked
  <2>2. Running
    BY <2>1 DEF GInv, Starting, Command
  <2> QED
    BY <2>1, <2>2 DEF Running, AllApt, Apt, Over, Sockets, Missing
<1> QED
  BY <1>1, GatewayIsSound, PTL

-----------------------------------------------------------------------------
\* The open event of a client, and its mark in the driver, come after the
\* socket's start.
OpensAreTrue ==
  \A c \in Clients : Told("open", c) \/ Connected(c) => sock[c] \notin {"none", "paccept"}

\* Only an accept makes a socket one that waits to be started, and only out
\* of none.
LEMMA SocketsMoveOn ==
  ASSUME GInv, Next, NEW c \in Clients
  PROVE  /\ sock[c] # "none" => sock'[c] # "none"
         /\ sock[c] \notin {"none", "paccept"} => sock'[c] \notin {"none", "paccept"}
<1>0. Types /\ c \in Ids /\ c # Listener
  BY IdFacts DEF GInv
<1>1. CASE sock' = sock
  BY <1>1
<1>2. ASSUME NEW i \in Ids, NEW st, Becomes(i, st),
             st \in {"none", "paccept"} => i # c \/ (st = "paccept" /\ sock[i] = "none")
      PROVE  /\ sock[c] # "none" => sock'[c] # "none"
             /\ sock[c] \notin {"none", "paccept"} => sock'[c] \notin {"none", "paccept"}
  BY <1>0, <1>2 DEF Becomes, Types
<1>3. CASE Handle
  BY <1>1, <1>3 DEF Handle, Start, OnAccept, OnOpen, OnData, OnError, OnClose, Answer
<1>4. CASE Serve
  <2>1. What \in Ids
    BY <1>0, <1>4, CommandTaken
    DEF Serve, ListenSocket, StartSocket, CloseSocket, Take, What, Commands
  <2>2. sock' = sock \/ \E st \in {"plisten", "listen", "open", "gone", "half", "lame"} : Becomes(What, st)
    BY <1>4 DEF Serve, ListenSocket, StartSocket, CloseSocket
  <2> QED
    BY <1>1, <1>2, <2>1, <2>2
<1>5. CASE AcceptFails
  BY <1>1, <1>5 DEF AcceptFails
<1>6. ASSUME NEW d \in Clients, Accept(d) \/ Data(d) \/ End(d) \/ Reply(d)
      PROVE  /\ sock[c] # "none" => sock'[c] # "none"
             /\ sock[c] \notin {"none", "paccept"} => sock'[c] \notin {"none", "paccept"}
  <2>1. \/ sock' = sock
        \/ Becomes(d, "gone")
        \/ Becomes(d, "paccept") /\ sock[d] = "none"
    BY <1>6 DEF Accept, Data, End, Reply
  <2> QED
    BY <1>1, <1>2, <2>1, IdFacts
<1> QED
  BY <1>3, <1>4, <1>5, <1>6 DEF Next

\* So it stays: an open event is told as the socket opens.
LEMMA OpensNext == GInv /\ OpensAreTrue /\ [Next]_vars => OpensAreTrue'
<1> SUFFICES ASSUME GInv, OpensAreTrue, [Next]_vars,
                    NEW c \in Clients, (Told("open", c) \/ Connected(c))'
             PROVE  sock'[c] \notin {"none", "paccept"}
  BY DEF OpensAreTrue
<1>0. Types /\ c \in Ids /\ c # Listener
  BY IdFacts DEF GInv
<1>1. CASE UNCHANGED vars
  BY <1>1 DEF vars, service, OpensAreTrue, Told, Connected, Known
<1>2. CASE Next /\ (Told("open", c) \/ Connected(c))
  BY <1>2, SocketsMoveOn DEF OpensAreTrue
\* The other case: the event, or the mark, is new.
<1>3. CASE Next /\ ~Told("open", c) /\ ~Connected(c)
  <2>1. ASSUME NEW e \in Events, queue' = Append(queue, e), ~(e.type = "open" /\ e.id = c)
        PROVE  ~Told("open", c)'
    BY <1>0, <1>3, <2>1, AfterTelling
  <2>2. CASE Handle
    <3>1. queue # <<>> /\ queue' = Tail(queue)
      BY <2>2 DEF Handle, Start, OnAccept, OnOpen, OnData, OnError, OnClose, Answer, Receives
    <3>2. ~Told("open", c)'
      BY <1>0, <1>3, <3>1, AfterTaking
    <3>3. Connected(c)'
      BY <3>2
    <3>4. ~(Head(queue).type = "open" /\ Head(queue).id = c)
      BY <1>0, <1>3, <3>1, EventTaken DEF Told
    <3> QED
      BY <1>3, <2>2, <3>3, <3>4
      DEF Handle, Start, OnAccept, OnOpen, OnData, OnError, OnClose, Answer, Receives, Here,
          Connected, Known, Entered, Erased
  <2>3. CASE ~Handle
    <3>1. UNCHANGED conns
      BY <1>3, <2>3 DEF Next, Serve, ListenSocket, StartSocket, CloseSocket, AcceptFails, Accept,
                        Data, End, Reply, service
    <3>2. Told("open", c)'
      BY <1>3, <3>1 DEF Connected, Known
    <3>3. CASE Serve
      <4>1. What \in Ids /\ What = Head(pipe).id
        BY <1>0, <3>3, CommandTaken
        DEF Serve, ListenSocket, StartSocket, CloseSocket, Take, What, Commands
      <4>2. \/ queue' = queue
            \/ \E t \in {"err", "close"} : Tell(t, What)
            \/ Tell("open", What) /\ Becomes(What, IF What = Listener THEN "listen" ELSE "open")
        BY <3>3 DEF Serve, ListenSocket, StartSocket, CloseSocket
      <4>3. \A t \in {"err", "close", "open"} : Event(t, What) \in Events
        BY <4>1 DEF Event, Events
      <4>4. Tell("open", What) /\ What = c /\ Becomes(What, IF What = Listener THEN "listen" ELSE "open")
        <5>1. queue' # queue
          BY <1>3, <3>2 DEF Told
        <5>2. \A t \in {"err", "close"} : ~Tell(t, What)
          BY <2>1, <3>2, <4>3 DEF Tell, Event
        <5>3. Tell("open", What) => What = c
          BY <2>1, <3>2, <4>3 DEF Tell, Event
        <5> QED
          BY <4>2, <5>1, <5>2, <5>3
      <4> QED
        BY <1>0, <4>4 DEF Becomes, Types
    <3>4. CASE AcceptFails
      <4>1. Event("err", fd) \in Events /\ queue' = Append(queue, Event("err", fd))
        BY <1>0, <3>4, IdFacts DEF AcceptFails, Tell, Event, Events, Types
      <4> QED
        BY <2>1, <3>2, <4>1 DEF Event
    <3>5. ASSUME NEW d \in Clients, Accept(d) \/ Data(d) \/ End(d) \/ Reply(d) PROVE FALSE
      <4>1. PICK e \in Events : queue' = Append(queue, e) /\ e.type # "open"
        BY <3>5, IdFacts DEF Accept, Data, End, Reply, Tell, Event, Events
      <4> QED
        BY <2>1, <3>2, <4>1
    <3> QED
      BY <1>3, <2>3, <3>3, <3>4, <3>5 DEF Next
  <2> QED
    BY <2>2, <2>3
<1> QED
  BY <1>1, <1>2, <1>3

\* What the driver takes for connected is so, or the service is about to
\* learn that it has ended.
THEOREM ConnectionsAreTrue == Spec => []ConnectedIsOpen
<1>1. Init => OpensAreTrue
  BY DEF Init, OpensAreTrue, Told, Connected, Known, Event
<1>2. GInv /\ OpensAreTrue => ConnectedIsOpen
  <2> SUFFICES ASSUME GInv, OpensAreTrue, NEW c \in Clients, Connected(c)
               PROVE  sock[c] \in {"open", "half"} \/ Told("close", c) \/ Told("err", c) \/ Asked("H", c)
    BY DEF ConnectedIsOpen
  <2>1. Running
    BY IdFacts DEF GInv, Starting, Connected, Known
  <2>2. ~Asked("S", c)
    BY <2>1 DEF OpensAreTrue, Running, AllApt, Apt, Asked
  <2> QED
    BY <2>1, <2>2 DEF Running, Accounted, Connected
<1> QED
  BY <1>1, <1>2, GatewayIsSound, OpensNext, PTL DEF Spec

-----------------------------------------------------------------------------
(***************************************************************************)
(* The gateway implements Sessions                                         *)
(***************************************************************************)
Stage(c) == IF unlined[c] > 0 THEN "ended"
            ELSE IF ~Known(c) THEN "outside"
            ELSE IF conns[c] THEN "open" ELSE "admitted"
Lost == {c \in Clients : sock[c] = "gone"}

Stages == [c \in Clients |-> Stage(c)]

GameStep == [Game!SessionsNext]_(Game!session)

\* A step that changes no stage, no count and no end is a stutter.
LEMMA GameStutters ==
  ASSUME Stages' = Stages, UNCHANGED unlined, Lost' = Lost
  PROVE  GameStep
BY DEF GameStep, Game!session, Stages, Stage, Lost

\* A socket that goes is a connection lost; what else happens to a socket
\* does not show.
LEMMA SocketMaps ==
  ASSUME Types, UNCHANGED <<conns, unlined>>,
         sock' = sock \/ \E i \in Ids, st \in States : Becomes(i, st) /\ sock[i] # "gone"
  PROVE  GameStep
<1>1. Stages' = Stages
  BY DEF Stages, Stage, Known
<1>2. CASE sock' = sock
  BY <1>1, <1>2, GameStutters DEF Lost
<1>3. ASSUME NEW i \in Ids, NEW st \in States, Becomes(i, st), sock[i] # "gone" PROVE GameStep
  <2>1. \A c \in Clients : sock'[c] = IF c = i THEN st ELSE sock[c]
    BY <1>3, IdFacts DEF Becomes, Types
  <2>2. CASE i \in Clients /\ st = "gone"
    <3>1. i \notin Lost /\ Lost' = Lost \cup {i}
      BY <1>3, <2>1, <2>2 DEF Lost
    <3>2. Game!Lose(i)
      BY <1>1, <3>1 DEF Game!Lose, Lost, Stages, Stage
    <3> QED
      BY <2>2, <3>2 DEF GameStep, Game!SessionsNext
  <2>3. CASE ~(i \in Clients /\ st = "gone")
    <3>1. Lost' = Lost
      BY <1>3, <2>1, <2>3 DEF Lost
    <3> QED
      BY <1>1, <3>1, GameStutters
  <2> QED
    BY <2>2, <2>3
<1> QED
  BY <1>2, <1>3

\* onAccept admits the client, or shuts it out.
LEMMA OnAcceptMaps ==
  ASSUME GInv, OnAccept
  PROVE  GameStep
<1>1. Running /\ Sound(Head(queue)) /\ Head(queue).type = "accept"
  BY Found DEF OnAccept
<1>2. PICK c \in Clients : c = Head(queue).ud
  BY <1>1 DEF Sound
<1>3. ~Known(c) /\ unlined[c] = 0
  BY <1>1, <1>2 DEF Sound
<1>4. UNCHANGED <<sock, unlined>> /\ (conns' = conns \/ conns' = Entered(c, FALSE))
  BY <1>2 DEF OnAccept
<1>5. CASE conns' = conns
  BY <1>4, <1>5, GameStutters DEF Stages, Stage, Known, Lost
<1>6. CASE conns' = Entered(c, FALSE)
  <2>1. DOMAIN conns' = DOMAIN conns \cup {c} /\ conns'[c] = FALSE
        /\ \A j \in DOMAIN conns : j # c => conns'[j] = conns[j]
    BY <1>6 DEF Entered
  <2>2. Stages[c] = "outside" /\ Stages' = [Stages EXCEPT ![c] = "admitted"]
    <3>1. Stage(c) = "outside" /\ Stages'[c] = "admitted"
      BY <1>3, <1>4, <2>1 DEF Stages, Stage, Known
    <3>2. \A d \in Clients : d # c => Stages'[d] = Stages[d]
      BY <1>4, <2>1 DEF Stages, Stage, Known
    <3> QED
      BY <3>1, <3>2 DEF Stages
  <2>3. Game!Admit(c)
    BY <1>4, <2>2 DEF Game!Admit, Stages, Stage, Lost
  <2> QED
    BY <2>3 DEF GameStep, Game!SessionsNext
<1> QED
  BY <1>4, <1>5, <1>6

\* onOpen opens the session of a client that is admitted.
LEMMA OnOpenMaps ==
  ASSUME GInv, OnOpen
  PROVE  GameStep
<1>1. Running /\ Types
  BY Found DEF OnOpen
<1>2. PICK i : i = Here
  OBVIOUS
<1>3. UNCHANGED <<sock, unlined>> /\ conns' = IF Known(i) THEN Entered(i, TRUE) ELSE conns
  BY <1>2 DEF OnOpen
<1>4. Lost' = Lost
  BY <1>3 DEF Lost
<1>5. CASE Known(i) /\ i \in Clients /\ ~conns[i]
  <2>1. DOMAIN conns' = DOMAIN conns /\ conns'[i] = TRUE
        /\ \A j \in DOMAIN conns : j # i => conns'[j] = conns[j]
    BY <1>3, <1>5 DEF Entered, Known
  <2>2. unlined[i] = 0
    BY <1>1, <1>5 DEF Running, Accounted
  <2>0. conns[i] = FALSE
    BY <1>1, <1>5 DEF Types, Known
  <2>3. Stage(i) = "admitted" /\ Stages'[i] = "open"
    <3>1. Stage(i) = "admitted"
      BY <1>5, <2>0, <2>2 DEF Stage
    <3>2. unlined'[i] = 0 /\ i \in DOMAIN conns' /\ conns'[i] = TRUE
      BY <1>3, <1>5, <2>1, <2>2 DEF Known
    <3> QED
      BY <1>5, <3>1, <3>2 DEF Stages, Stage, Known
  <2>4. \A d \in Clients : d # i => Stages'[d] = Stages[d]
    BY <1>3, <2>1 DEF Stages, Stage, Known
  <2>5. Stages[i] = "admitted" /\ Stages' = [Stages EXCEPT ![i] = "open"]
    BY <1>5, <2>3, <2>4 DEF Stages
  <2>6. Game!Open(i)
    BY <1>3, <1>4, <2>5 DEF Game!Open, Stages, Stage, Lost
  <2> QED
    BY <1>5, <2>6 DEF GameStep, Game!SessionsNext
<1>6. CASE ~(Known(i) /\ i \in Clients /\ ~conns[i])
  <2>1. \A d \in Clients : (Known(d)' <=> Known(d)) /\ (Known(d) => (conns'[d] <=> conns[d]))
    BY <1>1, <1>3, <1>6 DEF Known, Entered, Types
  <2>2. Stages' = Stages
    BY <1>3, <2>1 DEF Stages, Stage
  <2> QED
    BY <1>3, <1>4, <2>2, GameStutters
<1> QED
  BY <1>5, <1>6

\* onClose reports the end of a session, of a connection that is lost indeed.
LEMMA OnCloseMaps ==
  ASSUME GInv, OnClose
  PROVE  GameStep
<1>1. Running /\ Types /\ Sound(Head(queue)) /\ Head(queue).type = "close"
  BY Found DEF OnClose
<1>2. PICK i : i = Here
  OBVIOUS
<1>3. /\ sock' = sock /\ conns' = Erased(i)
      /\ unlined' = IF Known(i) /\ i \in Clients THEN [unlined EXCEPT ![i] = @ + 1] ELSE unlined
  BY <1>2 DEF OnClose
<1>4. DOMAIN conns' = DOMAIN conns \ {i} /\ \A j \in DOMAIN conns' : conns'[j] = conns[j]
  BY <1>3 DEF Erased
<1>5. Lost' = Lost
  BY <1>3 DEF Lost
<1>6. CASE Known(i) /\ i \in Clients
  <2>1. unlined[i] = 0 /\ i \in Lost
    BY <1>1, <1>2, <1>6, IdFacts DEF Running, Accounted, Sound, Over, Here, Lost
  <2>2. unlined' = [unlined EXCEPT ![i] = @ + 1] /\ unlined'[i] = 1
        /\ \A d \in Clients : d # i => unlined'[d] = unlined[d]
    BY <1>1, <1>3, <1>6, <2>1 DEF Types
  <2>3. Stage(i) \in {"admitted", "open"} /\ Stages'[i] = "ended"
    BY <1>6, <2>1, <2>2 DEF Stages, Stage
  <2>4. \A d \in Clients : d # i => Stages'[d] = Stages[d]
    BY <1>4, <2>2 DEF Stages, Stage, Known
  <2>5. Stages[i] \in {"admitted", "open"} /\ Stages' = [Stages EXCEPT ![i] = "ended"]
    BY <1>6, <2>3, <2>4 DEF Stages
  <2>6. Game!End(i)
    BY <1>5, <2>1, <2>2, <2>5 DEF Game!End, Stages, Stage, Lost
  <2> QED
    BY <1>6, <2>6 DEF GameStep, Game!SessionsNext
<1>7. CASE ~(Known(i) /\ i \in Clients)
  <2>1. \A d \in Clients : (Known(d)' <=> Known(d)) /\ (Known(d) => conns'[d] = conns[d])
    BY <1>4, <1>7 DEF Known
  <2>2. Stages' = Stages
    BY <1>3, <1>7, <2>1 DEF Stages, Stage
  <2> QED
    BY <1>3, <1>5, <1>7, <2>2, GameStutters
<1> QED
  BY <1>6, <1>7

\* Every step is one of Sessions, or a stutter.
LEMMA NextIsSession == GInv /\ [Next]_vars => GameStep
<1> SUFFICES ASSUME GInv, [Next]_vars PROVE GameStep
  OBVIOUS
<1>0. Types /\ (Starting \/ Running)
  BY DEF GInv
<1>1. CASE Start
  <2>1. PICK i \in {Bad, Listener} : conns' = Entered(i, FALSE)
    BY <1>1 DEF Start
  <2>2. \A d \in Clients : (Known(d)' <=> Known(d)) /\ (Known(d) => conns'[d] = conns[d])
    BY <2>1, IdFacts DEF Known, Entered
  <2>3. UNCHANGED <<sock, unlined>>
    BY <1>1 DEF Start
  <2>4. Stages' = Stages /\ Lost' = Lost
    BY <2>2, <2>3 DEF Stages, Stage, Lost
  <2> QED
    BY <2>3, <2>4, GameStutters
<1>2. CASE OnData \/ OnError \/ Answer \/ AcceptFails \/ UNCHANGED vars
  BY <1>0, <1>2, SocketMaps DEF OnData, OnError, Answer, AcceptFails, service, vars
<1>3. CASE Serve
  <2>1. What \in Ids /\ UNCHANGED <<conns, unlined>> /\ pipe # <<>>
    BY <1>0, <1>3, CommandTaken
    DEF Serve, ListenSocket, StartSocket, CloseSocket, Take, What, Commands, service
  <2>2. CASE ListenSocket
    <3>1. Starting /\ \A i \in Ids : sock[i] # "gone"
      BY <1>0, <2>1, <2>2, Taken DEF ListenSocket, Apt, Starting, Running, AllApt
    <3> QED
      BY <1>0, <2>1, <2>2, <3>1, SocketMaps DEF ListenSocket, States
  <2>3. CASE StartSocket \/ CloseSocket
    BY <1>0, <2>1, <2>3, SocketMaps DEF StartSocket, CloseSocket, States, Missing
  <2> QED
    BY <1>3, <2>2, <2>3 DEF Serve
<1>4. ASSUME NEW c \in Clients, Accept(c) \/ Data(c) \/ End(c) \/ Reply(c) PROVE GameStep
  <2>1. c \in Ids /\ UNCHANGED <<conns, unlined>>
    BY <1>4, IdFacts DEF Accept, Data, End, Reply, service
  <2>2. \/ sock' = sock
        \/ Becomes(c, "paccept") /\ sock[c] # "gone"
        \/ Becomes(c, "gone") /\ sock[c] # "gone"
    BY <1>4 DEF Accept, Data, End, Reply
  <2> QED
    BY <1>0, <2>1, <2>2, SocketMaps DEF States
<1> QED
  BY <1>1, <1>2, <1>3, <1>4, OnAcceptMaps, OnOpenMaps, OnCloseMaps DEF Next, Handle

\* However closes, errors, shutdowns and their answers cross, a client's
\* session runs its course, and its end is reported to the game once.
THEOREM GatewayImplementsSessions == Spec => ImplementsSessions
<1>1. Init => Game!SessionsInit
  BY IdFacts DEF Init, Game!SessionsInit, Known
<1>2. GInv /\ [Next]_vars => [Game!SessionsNext]_(Game!session)
  BY NextIsSession DEF GameStep
<1> QED
  BY <1>1, <1>2, GatewayIsSound, PTL DEF Spec, ImplementsSessions, Game!SessionsSpec
=============================================================================
