------------------------------ MODULE Framing ------------------------------
(***************************************************************************)
(* How the game gateway cuts the stream of one open connection into        *)
(* packets: unetdrive::onData puts the data of an event into the           *)
(* connection's buffer, in several passes when it is more than fits, and   *)
(* after each pass netGame::onRecv takes packets out.  A packet is its     *)
(* body's length, a command and a body; a unit of this module is one such  *)
(* field, or as much of a body.                                            *)
(***************************************************************************)
EXTENDS Integers, Sequences

CONSTANTS
  Units,      \* what a peer may send
  Junk,       \* what the memory behind a block of data may hold
  Wrap,       \* a length is below this: 2^16
  BufferMax,  \* SOCKET_BUFFER_MAX
  PackMax,    \* SOCKET_PACK_MAX, and the size of onRecv's bufferData
  SizeOf,     \* SizeOf[cmd]: the length that the body of a known command has
  MaxFed      \* bound: units that come in

Header == 2   \* PACKET_SIZE and PACKET_CMD_SIZE

ASSUME FramingAssumption ==
  /\ Wrap \in Nat /\ PackMax \in Nat /\ BufferMax \in Nat /\ MaxFed \in Nat
  /\ Header <= PackMax /\ PackMax < BufferMax /\ BufferMax < Wrap
  /\ Units \subseteq 0 .. Wrap - 1 /\ Junk \subseteq 0 .. Wrap - 1
  /\ \A c \in DOMAIN SizeOf : Header + SizeOf[c] \in Header .. PackMax

VARIABLES
  buf,      \* socketBuffer
  data,     \* the event's data
  write,    \* how much of it onData has put into the buffer
  at,       \* "idle", "fill" in onData or "recv" in onRecv
  fed,      \* history: all that came in
  eaten,    \* history: how much has left the buffer
  done,     \* history: the packets whose commands were carried out
  asked,    \* onRecv has asked for the connection to be closed
  trouble   \* history: what went wrong

vars == <<buf, data, write, at, fed, eaten, done, asked, trouble>>

\* packCount, a uint16_t
Count(p) == (Header + p[1]) % Wrap

\* Mutant: the limit is not looked at.
AnalyzeAny(p) ==
  IF Len(p) < Header \/ Count(p) > Len(p) THEN 0 ELSE Count(p)

\* Mutant: a packet has to be followed by more.
AnalyzeLate(p) ==
  IF Len(p) < Header THEN 0
  ELSE IF Count(p) > PackMax THEN -1
  ELSE IF Count(p) >= Len(p) THEN 0
  ELSE Count(p)

\* protoAnalyze: the size of the packet in front, 0 for not yet, -1 for a bad
\* one.  A sum that wraps to 0 is taken for not yet.
Analyze(p) ==
  IF Len(p) < Header THEN 0
  ELSE IF Count(p) > PackMax THEN -1
  ELSE IF Count(p) > Len(p) THEN 0
  ELSE Count(p)

\* The switch in onRecv: a known command with a body of its size.  (Of a
\* packet shorter than its header the length is enough: it is no command's.)
Executed(p) ==
  IF Len(p) >= Header /\ p[2] \in DOMAIN SizeOf /\ p[1] = SizeOf[p[2]] THEN <<p>> ELSE <<>>
-----------------------------------------------------------------------------
Init ==
  /\ buf = <<>> /\ data = <<>> /\ write = 0 /\ at = "idle"
  /\ fed = <<>> /\ eaten = 0 /\ done = <<>>
  /\ asked = FALSE /\ trouble = {}

\* An event brings a block of data, of any size.
Arrive ==
  /\ at = "idle"
  /\ \E n \in 1 .. MaxFed - Len(fed) : \E d \in [1 .. n -> Units] :
       /\ data' = d
       /\ fed' = fed \o d
  /\ write' = 0
  /\ at' = "fill"
  /\ UNCHANGED <<buf, eaten, done, asked, trouble>>

\* A pass of onData: how much it copies, and how much of that lies behind the
\* data.  From the second pass on, the comparison counts write twice.
Read ==
  LET space == BufferMax - Len(buf) IN
  IF space - Len(data) - write > 0 THEN Len(data) - write ELSE space
Beyond == IF write + Read > Len(data) THEN write + Read - Len(data) ELSE 0

Fill ==
  /\ at = "fill"
  /\ \E junk \in [1 .. Beyond -> Junk] :
       buf' = buf \o SubSeq(data \o junk, write + 1, write + Read)
  /\ write' = write + Read
  /\ trouble' = trouble \cup (IF Beyond > 0 THEN {"overread"} ELSE {})
  /\ at' = "recv"
  /\ UNCHANGED <<data, fed, eaten, done, asked>>

\* Mutant: there is one pass.
LeaveAtOnce == at' = "idle" /\ data' = <<>> /\ write' = 0

\* Mutant: the last byte is not seen to be the last.
LeaveLate ==
  IF write > Len(data)
  THEN at' = "idle" /\ data' = <<>> /\ write' = 0
  ELSE at' = "fill" /\ UNCHANGED <<data, write>>

\* onRecv returns, and onData ends or begins its next pass.
Leave ==
  IF write >= Len(data)
  THEN at' = "idle" /\ data' = <<>> /\ write' = 0
  ELSE at' = "fill" /\ UNCHANGED <<data, write>>

Incomplete ==
  /\ at = "recv" /\ Analyze(buf) = 0
  /\ Leave
  /\ UNCHANGED <<buf, fed, eaten, done, asked, trouble>>

\* clone() and socketClose
Bad ==
  /\ at = "recv" /\ Analyze(buf) = -1
  /\ buf' = <<>>
  /\ eaten' = eaten + Len(buf)
  /\ asked' = TRUE
  /\ Leave
  /\ UNCHANGED <<fed, done, trouble>>

\* unetdrive::read compares maxBuffer - sz, which is unsigned, with zero: it
\* takes the whole buffer whatever it was asked for.
Taken(n) == IF n # Len(buf) THEN Len(buf) ELSE n

Packet ==
  LET n == Analyze(buf)
      t == Taken(n)
  IN
  /\ at = "recv" /\ n > 0
  /\ done' = done \o Executed(SubSeq(buf, 1, n))
  /\ buf' = SubSeq(buf, t + 1, Len(buf))
  /\ eaten' = eaten + t
  /\ trouble' = trouble \cup (IF t > n THEN {"lost"} ELSE {})
                        \cup (IF t > PackMax THEN {"overrun"} ELSE {})
  /\ UNCHANGED <<data, write, at, fed, asked>>

Handler == Fill \/ Incomplete \/ Bad \/ Packet
Next == Arrive \/ Handler

Spec == Init /\ [][Next]_vars

\* The worker thread that is in the callback goes on.
FairSpec == Spec /\ WF_vars(Handler)
-----------------------------------------------------------------------------
(***************************************************************************)
(* Type correctness.  The buffer never holds more than it has room for,    *)
(* and onData never copies more than a buffer beyond its data.             *)
(***************************************************************************)
TypeOK ==
  /\ buf \in Seq(Nat) /\ Len(buf) <= BufferMax
  /\ data \in Seq(Nat) /\ write \in 0 .. Len(data) + BufferMax
  /\ at \in {"idle", "fill", "recv"} /\ (at = "fill" => write < Len(data))
  /\ fed \in Seq(Nat) /\ eaten \in Nat
  /\ asked \in BOOLEAN /\ trouble \subseteq {"overread", "lost", "overrun"}

(***************************************************************************)
(* What has come in and has not been taken out is in the buffer or still   *)
(* to be put there, whole and in order, however the stream is cut into     *)
(* blocks; as long as onData has not read beyond a block.                  *)
(***************************************************************************)
Rest == SubSeq(data, write + 1, Len(data))
Conserved == "overread" \notin trouble => buf \o Rest = SubSeq(fed, eaten + 1, Len(fed))

(***************************************************************************)
(* Between two calls of onRecv there is room for the rest of the packet    *)
(* that has begun to arrive: only a length that wraps to 0 can fill the    *)
(* buffer.                                                                 *)
(***************************************************************************)
Wrapped == Len(buf) >= Header /\ Count(buf) = 0
RoomForPacket == at \in {"idle", "fill"} => Len(buf) < PackMax \/ Wrapped

(***************************************************************************)
(* The commands in a stream, by the format alone: packet after packet from *)
(* the beginning, up to the first that is not complete or not legal; and   *)
(* so from every place of the stream on.                                   *)
(***************************************************************************)
ParsedAt(f, s, i) ==
  IF i + 1 > Len(s) THEN <<>>
  ELSE LET n == (Header + s[i]) % Wrap IN
       IF n < Header \/ n > PackMax \/ i + n - 1 > Len(s) THEN <<>>
       ELSE (IF \E c \in DOMAIN SizeOf : s[i + 1] = c /\ s[i] = SizeOf[c]
             THEN <<SubSeq(s, i, i + n - 1)>> ELSE <<>>) \o f[i + n]
Parsed(s) == LET from[i \in 1 .. Len(s) + 1] == ParsedAt(from, s, i) IN from
Parse(s) == Parsed(s)[1]

(***************************************************************************)
(* The commands carried out are those in the stream, whatever blocks it    *)
(* came in, if no block brought more than the end of one packet.           *)
(***************************************************************************)
AsSent == at = "idle" /\ trouble = {} /\ ~asked => done = Parse(fed)

(***************************************************************************)
(* "With single-edge triggers, each read requires the buffer to be read    *)
(* out" (unetdrive.cc:258): when an event has been handled, each command   *)
(* that has come in complete has been carried out.                         *)
(***************************************************************************)
ReadOut == at = "idle" /\ ~asked /\ "overread" \notin trouble => done = Parse(fed)

(***************************************************************************)
(* The handler of an event returns, and the worker thread is free again;   *)
(* unless the buffer has been filled behind a length that wraps to 0.      *)
(***************************************************************************)
HandlerReturns == at # "idle" ~> (at = "idle" \/ (Wrapped /\ Len(buf) = BufferMax))
=============================================================================
