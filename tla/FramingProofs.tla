---------------------------- MODULE FramingProofs ----------------------------
(***************************************************************************)
(* Proofs about the packet buffer, for any sizes, commands and streams.    *)
(***************************************************************************)
EXTENDS Framing, SequenceTheorems, FiniteSetTheorems, WellFoundedInduction, TLAPS

LEMMA InitFraming == Init => TypeOK /\ RoomForPacket
<1>1. <<>> \in Seq(Nat) /\ Len(<<>>) = 0
  BY EmptySeq
<1>2. PackMax \in Nat /\ BufferMax \in Nat /\ 0 < PackMax
  BY FramingAssumption DEF Header
<1> SUFFICES ASSUME Init PROVE TypeOK /\ RoomForPacket
  OBVIOUS
<1>3. buf \in Seq(Nat) /\ Len(buf) <= BufferMax
  BY <1>1, <1>2 DEF Init
<1>4. data \in Seq(Nat) /\ write \in 0 .. Len(data) + BufferMax
  BY <1>1, <1>2 DEF Init
<1>5. at \in {"idle", "fill", "recv"} /\ (at = "fill" => write < Len(data))
  BY DEF Init
<1>6. fed \in Seq(Nat) /\ eaten \in Nat /\ asked \in BOOLEAN
  BY <1>1 DEF Init
<1>7. trouble \subseteq {"overread", "lost", "overrun"}
  BY DEF Init
<1>8. RoomForPacket
  BY <1>1, <1>2 DEF Init, RoomForPacket
<1> QED  BY <1>3, <1>4, <1>5, <1>6, <1>7, <1>8 DEF TypeOK

\* A function on 1 .. n is a sequence.
LEMMA BlockIsSeq ==
  ASSUME NEW n \in Nat, NEW S \in SUBSET Nat, NEW d \in [1 .. n -> S]
  PROVE  d \in Seq(Nat) /\ Len(d) = n
<1>1. d \in [1 .. n -> Nat]
  OBVIOUS
<1>2. d \in Seq(Nat)
  BY <1>1, SeqDef
<1>3. DOMAIN d = 1 .. Len(d) /\ DOMAIN d = 1 .. n /\ Len(d) \in Nat
  BY <1>1, <1>2, LenProperties
<1> QED  BY <1>2, <1>3

\* A pass of onData copies at least nothing and at most what there is room
\* for, and the first byte it reads is one of the data.
LEMMA ReadFits ==
  ASSUME TypeOK, at = "fill"
  PROVE  /\ Read \in Nat /\ Len(buf) + Read <= BufferMax
         /\ Beyond \in Nat /\ write + Read <= Len(data) + Beyond
  BY FramingAssumption DEF TypeOK, Read, Beyond

\* What is left of the buffer when a packet has been taken is nothing.
LEMMA TakenAll ==
  ASSUME TypeOK, NEW n
  PROVE  Taken(n) = Len(buf) /\ SubSeq(buf, Taken(n) + 1, Len(buf)) = <<>>
<1>1. Taken(n) = Len(buf)
  BY DEF Taken
<1> QED  BY <1>1 DEF TypeOK

\* The beginning of a packet that is not complete is shorter than the limit.
LEMMA WaitingIsShort ==
  ASSUME TypeOK, Analyze(buf) = 0
  PROVE  Len(buf) < PackMax \/ Wrapped
<1>1. CASE Len(buf) < Header
  BY <1>1, FramingAssumption DEF TypeOK, Header
<1>2. CASE Len(buf) >= Header
  <2> USE DEF Header
  <2>1. buf[1] \in Nat
    BY <1>2, ElementOfSeq DEF TypeOK
  <2>2. Count(buf) \in 0 .. Wrap - 1
    BY <2>1, FramingAssumption DEF Count
  <2> QED  BY <1>2, <2>2, FramingAssumption DEF Analyze, Wrapped, TypeOK
<1> QED  BY <1>1, <1>2 DEF TypeOK, Header

\* TypeOK in the parts that the steps change.
Buffers == buf \in Seq(Nat) /\ Len(buf) <= BufferMax
Blocks == data \in Seq(Nat) /\ write \in 0 .. Len(data) + BufferMax
Places == at \in {"idle", "fill", "recv"} /\ (at = "fill" => write < Len(data))
Histories == /\ fed \in Seq(Nat) /\ eaten \in Nat
             /\ asked \in BOOLEAN /\ trouble \subseteq {"overread", "lost", "overrun"}

LEMMA TypeParts == TypeOK <=> Buffers /\ Blocks /\ Places /\ Histories
  BY DEF TypeOK, Buffers, Blocks, Places, Histories

LEMMA TypePartsNext == TypeOK' <=> Buffers' /\ Blocks' /\ Places' /\ Histories'
  BY DEF TypeOK, Buffers, Blocks, Places, Histories

LEMMA Sizes == /\ BufferMax \in Nat /\ PackMax \in Nat /\ MaxFed \in Nat /\ Wrap \in Nat
               /\ 0 < PackMax /\ Units \subseteq Nat /\ Junk \subseteq Nat
  BY FramingAssumption DEF Header

LEMMA LeaveParts ==
  ASSUME Blocks, Leave
  PROVE  Blocks' /\ Places'
<1>1. CASE write >= Len(data)
  <2>1. data' = <<>> /\ write' = 0 /\ at' = "idle"
    BY <1>1 DEF Leave
  <2>2. data' \in Seq(Nat) /\ Len(data') = 0
    BY <2>1, EmptySeq
  <2> QED  BY <2>1, <2>2, Sizes DEF Blocks, Places
<1>2. CASE ~(write >= Len(data))
  <2>1. data' = data /\ write' = write /\ at' = "fill"
    BY <1>2 DEF Leave
  <2>2. write < Len(data)
    BY <1>2, LenProperties, Sizes DEF Blocks
  <2> QED  BY <2>1, <2>2 DEF Blocks, Places
<1> QED  BY <1>1, <1>2

LEMMA StepFraming ==
  ASSUME TypeOK, RoomForPacket, [Next]_vars
  PROVE  TypeOK' /\ RoomForPacket'
<1>0. Buffers /\ Blocks /\ Places /\ Histories
  BY TypeParts
<1>1. CASE Arrive
  <2>1. PICK n \in 1 .. MaxFed - Len(fed) : \E d \in [1 .. n -> Units] : data' = d /\ fed' = fed \o d
    BY <1>1 DEF Arrive
  <2>2. PICK d \in [1 .. n -> Units] : data' = d /\ fed' = fed \o d
    BY <2>1
  <2>3. n \in Nat /\ n > 0
    BY <1>0, Sizes, LenProperties DEF Histories
  <2>4. d \in Seq(Nat) /\ Len(d) = n
    <3>1. d \in [1 .. n -> Nat]
      BY Sizes
    <3> QED  BY <2>3, <3>1, BlockIsSeq
  <2>5. write' = 0 /\ at' = "fill" /\ UNCHANGED <<buf, eaten, asked, trouble>> /\ at = "idle"
    BY <1>1 DEF Arrive
  <2>6. Blocks' /\ Places'
    BY <2>2, <2>3, <2>4, <2>5, Sizes DEF Blocks, Places
  <2>7. Histories'
    BY <1>0, <2>2, <2>4, <2>5, ConcatProperties DEF Histories
  <2>8. RoomForPacket'
    BY <2>5 DEF RoomForPacket, Wrapped, Count
  <2> QED  BY <1>0, <2>5, <2>6, <2>7, <2>8, TypePartsNext DEF Buffers
<1>2. CASE Fill
  <2>1. PICK junk \in [1 .. Beyond -> Junk] : buf' = buf \o SubSeq(data \o junk, write + 1, write + Read)
    BY <1>2 DEF Fill
  <2>2. /\ at = "fill" /\ at' = "recv" /\ write' = write + Read
        /\ UNCHANGED <<data, fed, eaten, asked>>
        /\ trouble' \subseteq trouble \cup {"overread"}
    BY <1>2 DEF Fill
  <2>3. /\ Read \in Nat /\ Len(buf) + Read <= BufferMax
        /\ Beyond \in Nat /\ write + Read <= Len(data) + Beyond
    BY <2>2, ReadFits
  <2>4. junk \in Seq(Nat) /\ Len(junk) = Beyond
    <3>1. junk \in [1 .. Beyond -> Nat]
      BY Sizes
    <3> QED  BY <2>3, <3>1, BlockIsSeq
  <2> DEFINE all == data \o junk
             part == SubSeq(all, write + 1, write + Read)
  <2>5. all \in Seq(Nat) /\ Len(all) = Len(data) + Beyond
    BY <1>0, <2>4, ConcatProperties DEF Blocks
  <2>6. part \in Seq(Nat) /\ Len(part) = Read
    <3> HIDE DEF all
    <3>1. write \in Nat /\ Len(data) \in Nat
      BY <1>0, LenProperties, Sizes DEF Blocks
    <3>2. \A i \in write + 1 .. write + Read : i \in 1 .. Len(all)
      BY <2>3, <2>5, <3>1
    <3>3. \A i \in write + 1 .. write + Read : all[i] \in Nat
      BY <2>5, <3>2, ElementOfSeq
    <3>4. part \in Seq(Nat)
      BY <2>3, <3>1, <3>3, SubSeqProperties
    <3>5. Len(part) = IF write + 1 <= write + Read THEN write + Read - (write + 1) + 1 ELSE 0
      BY <2>3, <3>1, <3>3, SubSeqProperties
    <3> QED  BY <2>3, <3>1, <3>4, <3>5
  <2>7. Buffers'
    <3> HIDE DEF part
    <3>1. buf \in Seq(Nat) /\ buf' = buf \o part
      BY <1>0, <2>1 DEF Buffers, part
    <3>2. buf' \in Seq(Nat) /\ Len(buf') = Len(buf) + Len(part)
      BY <2>6, <3>1, ConcatProperties
    <3> QED  BY <2>3, <2>6, <3>2 DEF Buffers
  <2>8. Blocks'
    <3>1. write \in Nat /\ write < Len(data) /\ Len(data) \in Nat /\ Len(buf) \in Nat
      BY <1>0, <2>2, LenProperties, Sizes DEF Blocks, Places, Buffers
    <3> QED  BY <1>0, <2>2, <2>3, <3>1, Sizes DEF Blocks
  <2>9. Places' /\ Histories' /\ RoomForPacket'
    BY <1>0, <2>2 DEF Places, Histories, RoomForPacket
  <2> QED  BY <2>7, <2>8, <2>9, TypePartsNext
<1>3. CASE Incomplete
  <2>1. Leave /\ Analyze(buf) = 0 /\ UNCHANGED <<buf, fed, eaten, asked, trouble>>
    BY <1>3 DEF Incomplete
  <2>2. Blocks' /\ Places'
    BY <1>0, <2>1, LeaveParts
  <2>3. RoomForPacket'
    BY <2>1, WaitingIsShort DEF RoomForPacket, Wrapped, Count
  <2> QED  BY <1>0, <2>1, <2>2, <2>3, TypePartsNext DEF Buffers, Histories
<1>4. CASE Bad
  <2>1. Leave /\ buf' = <<>> /\ eaten' = eaten + Len(buf) /\ asked' = TRUE /\ UNCHANGED <<fed, trouble>>
    BY <1>4 DEF Bad
  <2>2. Blocks' /\ Places'
    BY <1>0, <2>1, LeaveParts
  <2>3. buf' \in Seq(Nat) /\ Len(buf') = 0 /\ Len(buf) \in Nat
    BY <1>0, <2>1, EmptySeq, LenProperties DEF Buffers
  <2> QED  BY <1>0, <2>1, <2>2, <2>3, Sizes, TypePartsNext DEF Buffers, Histories, RoomForPacket
<1>5. CASE Packet
  <2>1. buf' = <<>> /\ eaten' = eaten + Len(buf)
    BY <1>5, TakenAll DEF Packet
  <2>2. /\ at = "recv" /\ UNCHANGED <<data, write, at, fed, asked>>
        /\ trouble' \subseteq trouble \cup {"lost", "overrun"}
    BY <1>5 DEF Packet
  <2>3. buf' \in Seq(Nat) /\ Len(buf') = 0 /\ Len(buf) \in Nat
    BY <1>0, <2>1, EmptySeq, LenProperties DEF Buffers
  <2> QED  BY <1>0, <2>1, <2>2, <2>3, Sizes, TypePartsNext DEF Buffers, Blocks, Places, Histories, RoomForPacket
<1>6. CASE UNCHANGED vars
  BY <1>6 DEF vars, TypeOK, RoomForPacket, Wrapped, Count
<1> QED  BY <1>1, <1>2, <1>3, <1>4, <1>5, <1>6 DEF Next, Handler

(***************************************************************************)
(* Type correctness: onData never puts more into the buffer than it has    *)
(* room for, whatever block of data comes.                                 *)
(***************************************************************************)
THEOREM BufferFits == Spec => []TypeOK
<1>1. TypeOK /\ RoomForPacket /\ [Next]_vars => (TypeOK /\ RoomForPacket)'
  BY StepFraming
<1> QED  BY InitFraming, <1>1, PTL DEF Spec

(***************************************************************************)
(* There is always room for the rest of a packet, unless a length wraps.   *)
(***************************************************************************)
THEOREM RoomStays == Spec => []RoomForPacket
<1>1. TypeOK /\ RoomForPacket /\ [Next]_vars => (TypeOK /\ RoomForPacket)'
  BY StepFraming
<1> QED  BY InitFraming, <1>1, PTL DEF Spec
-----------------------------------------------------------------------------
(***************************************************************************)
(* Conserved by itself is not inductive: it does not say where in the      *)
(* stream the buffer and the rest of the block are.  Tracked does, unit by *)
(* unit, as long as onData has not read beyond a block.                    *)
(***************************************************************************)
InBlock == write <= Len(data) /\ (at = "idle" => data = <<>> /\ write = 0)
Accounted == eaten + Len(buf) + (Len(data) - write) = Len(fed)
BufferTracked == \A i \in 1 .. Len(buf) : buf[i] = fed[eaten + i]
BlockTracked == \A i \in write + 1 .. Len(data) : data[i] = fed[Len(fed) - Len(data) + i]
Tracked == "overread" \notin trouble =>
             InBlock /\ Accounted /\ BufferTracked /\ BlockTracked

\* The lengths are numbers.
LEMMA Lengths ==
  ASSUME TypeOK
  PROVE  /\ Len(buf) \in Nat /\ Len(data) \in Nat /\ Len(fed) \in Nat
         /\ write \in Nat /\ eaten \in Nat
  BY LenProperties, Sizes DEF TypeOK

\* Arithmetic of a pass: e units eaten, b in the buffer, w of the d in the
\* block copied, f in all; r more are copied, and the i-th unit is one of them.
LEMMA UnitOfBlock ==
  ASSUME NEW e \in Nat, NEW b \in Nat, NEW d \in Nat, NEW w \in Nat, NEW f \in Nat,
         NEW r \in Nat, NEW i \in Nat,
         e + b + (d - w) = f, w + r <= d, b < i, i <= b + r
  PROVE  /\ i - b \in 1 .. r /\ w + (i - b) \in w + 1 .. d
         /\ f - d + (w + (i - b)) = e + i
<1>1. i - b \in 1 .. r
  OBVIOUS
<1>2. w + (i - b) \in w + 1 .. d
  OBVIOUS
<1>3. f - d + (w + (i - b)) = e + i
  OBVIOUS
<1> QED  BY <1>1, <1>2, <1>3

LEMMA PassAccounted ==
  ASSUME NEW e \in Nat, NEW b \in Nat, NEW d \in Nat, NEW w \in Nat, NEW f \in Nat,
         NEW r \in Nat, e + b + (d - w) = f
  PROVE  e + (b + r) + (d - (w + r)) = f
  OBVIOUS

LEMMA InitTracked == Init => Tracked
<1> SUFFICES ASSUME Init PROVE Tracked
  OBVIOUS
<1>1. <<>> \in Seq(Nat) /\ Len(<<>>) = 0
  BY EmptySeq
<1>2. /\ Len(buf) = 0 /\ Len(data) = 0 /\ Len(fed) = 0
      /\ data = <<>> /\ write = 0 /\ eaten = 0
  BY <1>1 DEF Init
<1> QED  BY <1>2 DEF Tracked, InBlock, Accounted, BufferTracked, BlockTracked

\* A block goes behind what has come in.
LEMMA ArriveTracked ==
  ASSUME TypeOK, Tracked, Arrive
  PROVE  Tracked'
<1> SUFFICES ASSUME "overread" \notin trouble'
             PROVE  InBlock' /\ Accounted' /\ BufferTracked' /\ BlockTracked'
  BY DEF Tracked
<1>0. /\ Len(buf) \in Nat /\ Len(data) \in Nat /\ Len(fed) \in Nat
      /\ write \in Nat /\ eaten \in Nat /\ fed \in Seq(Nat) /\ buf \in Seq(Nat)
  BY Lengths DEF TypeOK
<1>1. PICK n \in 1 .. MaxFed - Len(fed) : \E d \in [1 .. n -> Units] : data' = d /\ fed' = fed \o d
  BY DEF Arrive
<1>2. PICK d \in [1 .. n -> Units] : data' = d /\ fed' = fed \o d
  BY <1>1
<1>3. n \in Nat
  BY <1>0, Sizes
<1>4. d \in Seq(Nat) /\ Len(d) = n
  <2>1. d \in [1 .. n -> Nat]
    BY Sizes
  <2> QED  BY <1>3, <2>1, BlockIsSeq
<1>5. write' = 0 /\ at' = "fill" /\ at = "idle" /\ UNCHANGED <<buf, eaten, trouble>>
  BY DEF Arrive
<1>6. /\ Len(fed') = Len(fed) + n
      /\ \A i \in 1 .. Len(fed) + n : fed'[i] = IF i <= Len(fed) THEN fed[i] ELSE d[i - Len(fed)]
  BY <1>0, <1>2, <1>4, ConcatProperties
<1>7. data = <<>> /\ write = 0 /\ Accounted /\ BufferTracked
  BY <1>5 DEF Tracked, InBlock
<1>8. eaten + Len(buf) = Len(fed)
  BY <1>0, <1>7, EmptySeq DEF Accounted
<1>9. InBlock' /\ Accounted'
  <2>1. Len(data') = n /\ Len(buf') = Len(buf) /\ eaten' = eaten /\ Len(fed') = Len(fed) + n
    BY <1>2, <1>4, <1>5, <1>6
  <2>2. write' <= Len(data') /\ eaten' + Len(buf') + (Len(data') - write') = Len(fed')
    BY <1>0, <1>3, <1>5, <1>8, <2>1
  <2> QED  BY <1>5, <2>2 DEF InBlock, Accounted
<1>10. BufferTracked'
  <2> SUFFICES ASSUME NEW i \in 1 .. Len(buf) PROVE buf[i] = fed'[eaten + i]
    BY <1>5 DEF BufferTracked
  <2>1. eaten + i \in 1 .. Len(fed) + n /\ eaten + i <= Len(fed)
    BY <1>0, <1>3, <1>8
  <2>2. fed'[eaten + i] = fed[eaten + i]
    BY <1>6, <2>1
  <2> QED  BY <1>7, <2>2 DEF BufferTracked
<1>11. BlockTracked'
  <2> SUFFICES ASSUME NEW i \in 1 .. n PROVE d[i] = fed'[Len(fed) + i]
    <3>1. Len(data') = n /\ Len(fed') - Len(data') = Len(fed)
      BY <1>0, <1>2, <1>3, <1>4, <1>6
    <3> QED  BY <1>2, <1>5, <3>1 DEF BlockTracked
  <2>1. Len(fed) + i \in 1 .. Len(fed) + n /\ ~(Len(fed) + i <= Len(fed)) /\ Len(fed) + i - Len(fed) = i
    BY <1>0, <1>3
  <2> QED  BY <1>6, <2>1
<1> QED  BY <1>9, <1>10, <1>11

\* What a pass copies are the next units of the block.
LEMMA FillTracked ==
  ASSUME TypeOK, Tracked, Fill
  PROVE  Tracked'
<1> SUFFICES ASSUME "overread" \notin trouble'
             PROVE  InBlock' /\ Accounted' /\ BufferTracked' /\ BlockTracked'
  BY DEF Tracked
<1>0. /\ Len(buf) \in Nat /\ Len(data) \in Nat /\ Len(fed) \in Nat
      /\ write \in Nat /\ eaten \in Nat /\ data \in Seq(Nat) /\ buf \in Seq(Nat)
  BY Lengths DEF TypeOK
<1>n. /\ Len(buf) \in Nat /\ Len(data) \in Nat /\ Len(fed) \in Nat
      /\ write \in Nat /\ eaten \in Nat
  BY Lengths
<1>1. /\ at = "fill" /\ at' = "recv" /\ write' = write + Read
      /\ UNCHANGED <<data, fed, eaten>>
      /\ trouble' = trouble \cup (IF Beyond > 0 THEN {"overread"} ELSE {})
  BY DEF Fill
<1>2. Read \in Nat /\ Beyond \in Nat
  BY <1>1, ReadFits
<1>3. Beyond = 0 /\ "overread" \notin trouble
  BY <1>1, <1>2
<1>4. write + Read <= Len(data)
  BY <1>0, <1>1, <1>2, <1>3, ReadFits
<1>5. PICK junk \in [1 .. Beyond -> Junk] : buf' = buf \o SubSeq(data \o junk, write + 1, write + Read)
  BY DEF Fill
<1>6. junk \in Seq(Nat) /\ Len(junk) = 0
  <2>1. junk \in [1 .. Beyond -> Nat]
    BY Sizes
  <2> QED  BY <1>2, <1>3, <2>1, BlockIsSeq
<1> DEFINE all == data \o junk
           part == SubSeq(all, write + 1, write + Read)
<1>7. /\ all \in Seq(Nat) /\ Len(all) = Len(data)
      /\ \A i \in 1 .. Len(data) : all[i] = data[i]
  BY <1>0, <1>6, ConcatProperties
<1>8. /\ part \in Seq(Nat) /\ Len(part) = Read
      /\ \A i \in 1 .. Read : part[i] = data[write + i]
  <2> HIDE DEF all
  <2>1. \A i \in write + 1 .. write + Read : i \in 1 .. Len(data)
    BY <1>0, <1>2, <1>4
  <2>2. \A i \in write + 1 .. write + Read : all[i] \in Nat
    BY <1>7, <2>1, ElementOfSeq
  <2>3. /\ part \in Seq(Nat)
        /\ Len(part) = IF write + 1 <= write + Read THEN write + Read - (write + 1) + 1 ELSE 0
        /\ \A i \in 1 .. write + Read - (write + 1) + 1 : part[i] = all[write + 1 + i - 1]
    BY <1>0, <1>2, <2>2, SubSeqProperties
  <2>4. \A i \in 1 .. Read : part[i] = all[write + i]
    BY <1>0, <1>2, <2>3
  <2>5. \A i \in 1 .. Read : write + i \in 1 .. Len(data)
    BY <1>0, <1>2, <1>4
  <2>6. \A i \in 1 .. Read : part[i] = data[write + i]
    BY <1>7, <2>4, <2>5
  <2> HIDE DEF part
  <2>7. Len(part) = Read
    BY <1>0, <1>2, <2>3
  <2> QED  BY <2>3, <2>6, <2>7
<1> HIDE DEF part
<1>9. /\ Len(buf') = Len(buf) + Read
      /\ \A i \in 1 .. Len(buf) + Read : buf'[i] = IF i <= Len(buf) THEN buf[i] ELSE part[i - Len(buf)]
  <2>1. buf' = buf \o part
    BY <1>5 DEF part
  <2> QED  BY <1>0, <1>8, <2>1, ConcatProperties
<1>10. InBlock /\ Accounted /\ BufferTracked /\ BlockTracked
  BY <1>3 DEF Tracked
<1>11. InBlock' /\ Accounted'
  <2>1. /\ Len(data') = Len(data) /\ Len(buf') = Len(buf) + Read /\ eaten' = eaten
        /\ Len(fed') = Len(fed) /\ write' = write + Read
    BY <1>1, <1>9
  <2>2. eaten + Len(buf) + (Len(data) - write) = Len(fed)
    BY <1>10 DEF Accounted
  <2>3. write' <= Len(data') /\ eaten' + Len(buf') + (Len(data') - write') = Len(fed')
    <3>1. eaten + (Len(buf) + Read) + (Len(data) - (write + Read)) = Len(fed)
      BY <1>n, <1>2, <2>2, PassAccounted
    <3> QED  BY <1>4, <2>1, <3>1
  <2> QED  BY <1>1, <2>3 DEF InBlock, Accounted
<1>12. BufferTracked'
  <2> SUFFICES ASSUME NEW i \in 1 .. Len(buf) + Read PROVE buf'[i] = fed[eaten + i]
    BY <1>1, <1>9 DEF BufferTracked
  <2>1. CASE i <= Len(buf)
    <3>1. i \in 1 .. Len(buf)
      BY <1>0, <1>2, <2>1
    <3> QED  BY <1>9, <1>10, <2>1, <3>1 DEF BufferTracked
  <2>2. CASE ~(i <= Len(buf))
    <3>1. /\ i - Len(buf) \in 1 .. Read /\ write + (i - Len(buf)) \in write + 1 .. Len(data)
          /\ Len(fed) - Len(data) + (write + (i - Len(buf))) = eaten + i
      <4>1. eaten + Len(buf) + (Len(data) - write) = Len(fed)
        BY <1>10 DEF Accounted
      <4>2. i \in Nat /\ Len(buf) < i /\ i <= Len(buf) + Read
        BY <1>0, <1>2, <2>2
      <4> QED  BY <1>n, <1>2, <1>4, <4>1, <4>2, UnitOfBlock
    <3>2. buf'[i] = part[i - Len(buf)] /\ part[i - Len(buf)] = data[write + (i - Len(buf))]
      BY <1>8, <1>9, <2>2, <3>1
    <3>3. data[write + (i - Len(buf))] = fed[Len(fed) - Len(data) + (write + (i - Len(buf)))]
      BY <1>10, <3>1 DEF BlockTracked
    <3> QED  BY <3>1, <3>2, <3>3
  <2> QED  BY <2>1, <2>2
<1>13. BlockTracked'
  <2>1. \A i \in write + Read + 1 .. Len(data) : i \in write + 1 .. Len(data)
    BY <1>0, <1>2
  <2> QED  BY <1>1, <1>10, <2>1 DEF BlockTracked
<1> QED  BY <1>11, <1>12, <1>13

\* When onData leaves, the block is used up or stays as it is.
LEMMA LeaveTracked ==
  ASSUME TypeOK, Leave, fed' = fed,
         write <= Len(data), BlockTracked
  PROVE  InBlock' /\ BlockTracked' /\ Len(data') - write' = Len(data) - write
<1>0. Len(data) \in Nat /\ write \in Nat
  BY Lengths
<1>1. CASE write >= Len(data)
  <2>1. data' = <<>> /\ write' = 0 /\ Len(data') = 0 /\ write = Len(data)
    BY <1>0, <1>1, EmptySeq DEF Leave
  <2> QED  BY <1>0, <2>1 DEF InBlock, BlockTracked
<1>2. CASE ~(write >= Len(data))
  <2>1. data' = data /\ write' = write /\ at' = "fill"
    BY <1>2 DEF Leave
  <2> QED  BY <2>1 DEF InBlock, BlockTracked
<1> QED  BY <1>1, <1>2

\* A buffer that is emptied has been eaten whole.
LEMMA EmptiedTracked ==
  ASSUME TypeOK, Accounted, buf' = <<>>, eaten' = eaten + Len(buf), fed' = fed,
         Len(data') - write' = Len(data) - write
  PROVE  Accounted' /\ BufferTracked'
<1>1. Len(buf') = 0
  BY EmptySeq
<1> QED  BY <1>1, Lengths DEF Accounted, BufferTracked

LEMMA StepTracked ==
  ASSUME TypeOK, Tracked, [Next]_vars
  PROVE  Tracked'
<1>1. CASE Arrive
  BY <1>1, ArriveTracked
<1>2. CASE Fill
  BY <1>2, FillTracked
<1>3. CASE Incomplete
  <2>1. Leave /\ UNCHANGED <<buf, fed, eaten, trouble>>
    BY <1>3 DEF Incomplete
  <2> SUFFICES ASSUME "overread" \notin trouble
               PROVE  InBlock' /\ Accounted' /\ BufferTracked' /\ BlockTracked'
    BY <2>1 DEF Tracked
  <2>2. InBlock' /\ BlockTracked' /\ Len(data') - write' = Len(data) - write
    BY <2>1, LeaveTracked DEF Tracked, InBlock
  <2> QED  BY <2>1, <2>2 DEF Tracked, Accounted, BufferTracked
<1>4. CASE Bad
  <2>1. Leave /\ buf' = <<>> /\ eaten' = eaten + Len(buf) /\ UNCHANGED <<fed, trouble>>
    BY <1>4 DEF Bad
  <2> SUFFICES ASSUME "overread" \notin trouble
               PROVE  InBlock' /\ Accounted' /\ BufferTracked' /\ BlockTracked'
    BY <2>1 DEF Tracked
  <2>2. InBlock' /\ BlockTracked' /\ Len(data') - write' = Len(data) - write
    BY <2>1, LeaveTracked DEF Tracked, InBlock
  <2> QED  BY <2>1, <2>2, EmptiedTracked DEF Tracked
<1>5. CASE Packet
  <2>1. buf' = <<>> /\ eaten' = eaten + Len(buf)
    BY <1>5, TakenAll DEF Packet
  <2>2. UNCHANGED <<data, write, at, fed>> /\ trouble \subseteq trouble'
    BY <1>5 DEF Packet
  <2> SUFFICES ASSUME "overread" \notin trouble
               PROVE  InBlock' /\ Accounted' /\ BufferTracked' /\ BlockTracked'
    BY <2>2 DEF Tracked
  <2>3. Accounted' /\ BufferTracked'
    BY <2>1, <2>2, EmptiedTracked DEF Tracked
  <2> QED  BY <2>2, <2>3 DEF Tracked, InBlock, BlockTracked
<1>6. CASE UNCHANGED vars
  BY <1>6 DEF vars, Tracked, InBlock, Accounted, BufferTracked, BlockTracked
<1> QED  BY <1>1, <1>2, <1>3, <1>4, <1>5, <1>6 DEF Next, Handler

\* Unit by unit the same is the same sequence.
LEMMA TrackedIsConserved ==
  ASSUME TypeOK, Tracked
  PROVE  Conserved
<1> SUFFICES ASSUME "overread" \notin trouble
             PROVE  buf \o Rest = SubSeq(fed, eaten + 1, Len(fed))
  BY DEF Conserved
<1>0. /\ Len(buf) \in Nat /\ Len(data) \in Nat /\ Len(fed) \in Nat /\ write \in Nat /\ eaten \in Nat
      /\ buf \in Seq(Nat) /\ data \in Seq(Nat) /\ fed \in Seq(Nat)
  BY Lengths DEF TypeOK
<1>n. /\ Len(buf) \in Nat /\ Len(data) \in Nat /\ Len(fed) \in Nat
      /\ write \in Nat /\ eaten \in Nat
  BY Lengths
<1>1. /\ write <= Len(data) /\ eaten + Len(buf) + (Len(data) - write) = Len(fed)
      /\ BufferTracked /\ BlockTracked
  BY DEF Tracked, InBlock, Accounted
<1> DEFINE rest == Len(data) - write
           left == SubSeq(fed, eaten + 1, Len(fed))
<1>2. /\ Rest \in Seq(Nat) /\ Len(Rest) = rest
      /\ \A i \in 1 .. rest : Rest[i] = data[write + i]
  <2>1. \A i \in write + 1 .. Len(data) : data[i] \in Nat
    BY <1>0, ElementOfSeq
  <2>2. /\ Rest \in Seq(Nat)
        /\ Len(Rest) = IF write + 1 <= Len(data) THEN Len(data) - (write + 1) + 1 ELSE 0
        /\ \A i \in 1 .. Len(data) - (write + 1) + 1 : Rest[i] = data[write + 1 + i - 1]
    BY <1>0, <2>1, SubSeqProperties DEF Rest
  <2> QED  BY <1>0, <1>1, <2>2
<1>3. /\ left \in Seq(Nat) /\ Len(left) = Len(buf) + rest
      /\ \A i \in 1 .. Len(buf) + rest : left[i] = fed[eaten + i]
  <2>1. \A i \in eaten + 1 .. Len(fed) : fed[i] \in Nat
    BY <1>0, ElementOfSeq
  <2>2. /\ left \in Seq(Nat)
        /\ Len(left) = IF eaten + 1 <= Len(fed) THEN Len(fed) - (eaten + 1) + 1 ELSE 0
        /\ \A i \in 1 .. Len(fed) - (eaten + 1) + 1 : left[i] = fed[eaten + 1 + i - 1]
    BY <1>0, <2>1, SubSeqProperties
  <2> HIDE DEF left
  <2>3. Len(fed) - (eaten + 1) + 1 = Len(buf) + rest /\ (eaten + 1 <= Len(fed) <=> Len(buf) + rest > 0)
    BY <1>0, <1>1
  <2>4. Len(left) = Len(buf) + rest
    <3>1. rest \in Nat
      BY <1>0, <1>1
    <3> HIDE DEF rest
    <3> QED  BY <1>0, <2>2, <2>3, <3>1
  <2>5. ASSUME NEW i \in 1 .. Len(buf) + rest PROVE left[i] = fed[eaten + i]
    <3>1. i \in 1 .. Len(fed) - (eaten + 1) + 1 /\ eaten + 1 + i - 1 = eaten + i
      BY <1>0, <2>3
    <3> QED  BY <2>2, <3>1
  <2> QED  BY <2>2, <2>4, <2>5
<1>4. /\ buf \o Rest \in Seq(Nat) /\ Len(buf \o Rest) = Len(buf) + rest
      /\ \A i \in 1 .. Len(buf) + rest : (buf \o Rest)[i] = IF i <= Len(buf) THEN buf[i] ELSE Rest[i - Len(buf)]
  <2> HIDE DEF rest
  <2> QED  BY <1>0, <1>2, ConcatProperties
<1>5. ASSUME NEW i \in 1 .. Len(buf) + rest PROVE (buf \o Rest)[i] = left[i]
  <2> HIDE DEF left
  <2>1. CASE i <= Len(buf)
    <3>1. i \in 1 .. Len(buf)
      BY <1>0, <1>1, <2>1
    <3> QED  BY <1>1, <1>3, <1>4, <2>1, <3>1 DEF BufferTracked
  <2>2. CASE ~(i <= Len(buf))
    <3>1. /\ i - Len(buf) \in 1 .. rest /\ write + (i - Len(buf)) \in write + 1 .. Len(data)
          /\ Len(fed) - Len(data) + (write + (i - Len(buf))) = eaten + i
      <4>1. i \in Nat /\ Len(buf) < i /\ i <= Len(buf) + rest /\ rest \in Nat
        BY <1>0, <1>1, <2>2
      <4>2. write + rest <= Len(data)
        BY <1>0, <1>1
      <4> HIDE DEF rest
      <4>3. eaten + Len(buf) + (Len(data) - write) = Len(fed)
        BY <1>1
      <4> QED  BY <1>n, <4>1, <4>2, <4>3, UnitOfBlock
    <3>2. (buf \o Rest)[i] = Rest[i - Len(buf)] /\ Rest[i - Len(buf)] = data[write + (i - Len(buf))]
      BY <1>2, <1>4, <2>2, <3>1
    <3>3. data[write + (i - Len(buf))] = fed[Len(fed) - Len(data) + (write + (i - Len(buf)))]
      BY <1>1, <3>1 DEF BlockTracked
    <3> QED  BY <1>3, <3>1, <3>2, <3>3
  <2> QED  BY <2>1, <2>2
<1> HIDE DEF left, rest
<1>6. buf \o Rest = left
  BY <1>3, <1>4, <1>5, SeqEqual
<1> QED  BY <1>6 DEF left

(***************************************************************************)
(* Nothing of the stream is lost, doubled or moved between the event's     *)
(* data and the buffer, for blocks and buffers of any size, as long as     *)
(* onData has not read beyond a block.                                     *)
(***************************************************************************)
THEOREM StreamIsConserved == Spec => []Conserved
<1>1. TypeOK /\ RoomForPacket /\ Tracked /\ [Next]_vars => (TypeOK /\ RoomForPacket /\ Tracked)'
  BY StepFraming, StepTracked
<1>2. TypeOK /\ Tracked => Conserved
  BY TrackedIsConserved
<1> QED  BY InitFraming, InitTracked, <1>1, <1>2, PTL DEF Spec
-----------------------------------------------------------------------------
\* A set of naturals has a least element: the intervals below its elements
\* are finite, and inclusion of finite sets is well founded.
LEMMA LeastNatural ==
  ASSUME NEW T, T \subseteq Nat, T # {}
  PROVE  \E x \in T : \A y \in T : x <= y
<1> DEFINE F == {0 .. m : m \in T}
           R == StrictSubsetOrdering(Nat)
<1>1. F \subseteq FiniteSubsetsOf(Nat)
  <2>1. ASSUME NEW m \in T PROVE 0 .. m \in FiniteSubsetsOf(Nat)
    BY FS_Interval DEF FiniteSubsetsOf
  <2> QED
    BY <2>1
<1>2. F # {}
  OBVIOUS
<1>3. PICK I \in F : \A J \in F : <<J, I>> \notin R
  <2> HIDE DEF F
  <2> QED
    BY <1>1, <1>2, FS_StrictSubsetOrderingWellFounded, WFMin
<1>4. PICK x \in T : I = 0 .. x
  OBVIOUS
<1>5. ASSUME NEW y \in T, y < x PROVE FALSE
  <2>1. 0 .. y \in F /\ 0 .. y \subseteq 0 .. x /\ 0 .. y # 0 .. x
    BY <1>5
  <2>2. 0 .. y \in SUBSET Nat /\ 0 .. x \in SUBSET Nat
    OBVIOUS
  <2>3. <<0 .. y, 0 .. x>> \in R
    BY <2>1, <2>2 DEF StrictSubsetOrdering
  <2> QED
    BY <1>3, <1>4, <2>1, <2>3
<1> QED
  BY <1>5

\* A set with 0 and every successor has all naturals.
LEMMA SetInduction ==
  ASSUME NEW S, 0 \in S, \A n \in Nat : n \in S => n + 1 \in S
  PROVE  Nat \subseteq S
<1> DEFINE T == Nat \ S
<1> SUFFICES ASSUME T # {} PROVE FALSE
  OBVIOUS
<1>1. PICK x \in T : \A y \in T : x <= y
  <2> HIDE DEF T
  <2> QED
    BY LeastNatural DEF T
<1>2. x # 0 /\ x - 1 \in Nat /\ x - 1 \in S
  BY <1>1
<1> QED
  BY <1>1, <1>2

(***************************************************************************)
(* The commands of a stream, place by place.                               *)
(***************************************************************************)
Packets == Seq(Seq(Nat))

\* A packet in a stream.
LEMMA PieceType ==
  ASSUME NEW s \in Seq(Nat), NEW i \in Nat \ {0}, NEW n \in Nat, n > 0, i + n - 1 <= Len(s)
  PROVE  SubSeq(s, i, i + n - 1) \in Seq(Nat) /\ <<SubSeq(s, i, i + n - 1)>> \in Packets /\ <<>> \in Packets
<1>1. \A j \in i .. i + n - 1 : s[j] \in Nat
  <2>1. \A j \in i .. i + n - 1 : j \in 1 .. Len(s)
    BY LenProperties
  <2> QED
    BY <2>1, ElementOfSeq
<1>2. SubSeq(s, i, i + n - 1) \in Seq(Nat)
  BY <1>1, SubSeqProperties
<1> DEFINE p == SubSeq(s, i, i + n - 1)
<1> HIDE DEF p
<1>3. p \in Seq(Nat) => <<p>> \in Seq(Seq(Nat))
  OBVIOUS
<1> QED
  BY <1>2, <1>3 DEF p, Packets

\* What is parsed from a place depends only on what follows it, and is a
\* sequence of packets if that is.
LEMMA ParsedLocal ==
  ASSUME NEW s \in Seq(Nat), NEW f, NEW g, NEW i \in 1 .. Len(s) + 1,
         \A j \in 1 .. Len(s) + 1 : j > i => f[j] = g[j]
  PROVE  ParsedAt(f, s, i) = ParsedAt(g, s, i)
<1> DEFINE n == (Header + s[i]) % Wrap
<1>1. CASE i + 1 > Len(s) \/ n < Header \/ n > PackMax \/ i + n - 1 > Len(s)
  BY <1>1 DEF ParsedAt
<1>2. CASE ~(i + 1 > Len(s) \/ n < Header \/ n > PackMax \/ i + n - 1 > Len(s))
  <2>1. Len(s) \in Nat /\ i \in 1 .. Len(s)
    BY <1>2, LenProperties
  <2>2. n \in Nat
    <3>1. s[i] \in Nat
      BY <2>1, ElementOfSeq
    <3> QED
      BY <1>2, <3>1, FramingAssumption DEF Header
  <2> HIDE DEF n
  <2>3. i + n \in 1 .. Len(s) + 1 /\ i + n > i
    BY <1>2, <2>1, <2>2 DEF Header
  <2>4. f[i + n] = g[i + n]
    BY <2>3
  <2> QED
    BY <2>4 DEF ParsedAt, n
<1> QED
  BY <1>1, <1>2

LEMMA ParsedType ==
  ASSUME NEW s \in Seq(Nat), NEW f, NEW i \in 1 .. Len(s) + 1,
         \A j \in 1 .. Len(s) + 1 : j > i => f[j] \in Packets
  PROVE  ParsedAt(f, s, i) \in Packets
<1> DEFINE n == (Header + s[i]) % Wrap
<1>0. <<>> \in Packets
  BY EmptySeq DEF Packets
<1>1. CASE i + 1 > Len(s) \/ n < Header \/ n > PackMax \/ i + n - 1 > Len(s)
  BY <1>0, <1>1 DEF ParsedAt
<1>2. CASE ~(i + 1 > Len(s) \/ n < Header \/ n > PackMax \/ i + n - 1 > Len(s))
  <2>1. Len(s) \in Nat /\ i \in 1 .. Len(s)
    BY <1>2, LenProperties
  <2>2. n \in Nat
    <3>1. s[i] \in Nat
      BY <2>1, ElementOfSeq
    <3> QED
      BY <1>2, <3>1, FramingAssumption DEF Header
  <2> DEFINE a == IF \E c \in DOMAIN SizeOf : s[i + 1] = c /\ s[i] = SizeOf[c]
                  THEN <<SubSeq(s, i, i + n - 1)>> ELSE <<>>
             b == f[i + n]
  <2>3. ParsedAt(f, s, i) = a \o b
    BY <1>2 DEF ParsedAt
  <2> HIDE DEF n
  <2>4. i + n \in 1 .. Len(s) + 1 /\ i + n > i /\ n > 0 /\ i + n - 1 <= Len(s) /\ i \in Nat \ {0}
    BY <1>2, <2>1, <2>2 DEF Header
  <2>5. a \in Packets
    BY <1>0, <2>2, <2>4, PieceType
  <2>6. b \in Packets
    BY <2>4
  <2> HIDE DEF a, b
  <2>7. a \o b \in Packets
    BY <2>5, <2>6, ConcatProperties DEF Packets
  <2> QED
    BY <2>3, <2>7
<1> QED
  BY <1>1, <1>2

ParsesAll(f, s) == f = [i \in 1 .. Len(s) + 1 |-> ParsedAt(f, s, i)]

\* There is such a function: from the end of the stream to its beginning.
LEMMA ParsedExists ==
  ASSUME NEW s \in Seq(Nat)
  PROVE  \E f : ParsesAll(f, s)
<1> DEFINE L == Len(s) + 1
           Does(f, k) == \A i \in 1 .. L : i + k > L => f[i] = ParsedAt(f, s, i)
           S == {k \in Nat : \E f : f = [i \in 1 .. L |-> f[i]] /\ Does(f, k)}
<1>1. L \in Nat
  BY LenProperties
<1>2. 0 \in S
  <2> DEFINE f == [i \in 1 .. L |-> 0]
  <2>1. f = [i \in 1 .. L |-> f[i]]
    OBVIOUS
  <2>2. Does(f, 0)
    <3> HIDE DEF f, L
    <3> QED
      BY <1>1
  <2> HIDE DEF f
  <2> QED
    BY <2>1, <2>2
<1>3. ASSUME NEW k \in Nat, k \in S
      PROVE  k + 1 \in S
  <2>1. PICK f : Does(f, k)
    BY <1>3
  <2> DEFINE g == [i \in 1 .. L |-> IF i + k = L THEN ParsedAt(f, s, i) ELSE f[i]]
  <2>2. g = [i \in 1 .. L |-> g[i]]
    OBVIOUS
  <2>3. ASSUME NEW i \in 1 .. L, i + (k + 1) > L
        PROVE  g[i] = ParsedAt(g, s, i)
    <3>1. \A j \in 1 .. L : j > i => f[j] = g[j]
      <4> SUFFICES ASSUME NEW j \in 1 .. L, j > i
                   PROVE  ~(j + k = L)
        OBVIOUS
      <4> HIDE DEF L
      <4> QED
        BY <1>1, <2>3
    <3>2. ParsedAt(f, s, i) = ParsedAt(g, s, i)
      <4> HIDE DEF g
      <4> QED
        BY <3>1, ParsedLocal
    <3>3. CASE i + k = L
      BY <3>2, <3>3
    <3>4. CASE i + k # L
      <4>1. i + k > L
        <5> HIDE DEF L
        <5> QED
          BY <1>1, <2>3, <3>4
      <4>2. f[i] = ParsedAt(f, s, i) /\ g[i] = f[i]
        BY <2>1, <3>4, <4>1
      <4> QED
        BY <3>2, <4>2
    <3> QED
      BY <3>3, <3>4
  <2> HIDE DEF g
  <2>4. Does(g, k + 1)
    BY <2>3
  <2> QED
    BY <2>2, <2>4
<1>4. L \in S
  <2>1. Nat \subseteq S
    <3> HIDE DEF S
    <3> QED
      BY <1>2, <1>3, SetInduction
  <2> QED
    BY <1>1, <2>1
<1>5. PICK f : f = [i \in 1 .. L |-> f[i]] /\ Does(f, L)
  BY <1>4
<1>6. \A i \in 1 .. L : f[i] = ParsedAt(f, s, i)
  <2>1. \A i \in 1 .. L : i + L > L
    <3> HIDE DEF L
    <3> QED
      BY <1>1
  <2> QED
    BY <1>5, <2>1
<1> QED
  BY <1>5, <1>6 DEF ParsesAll

LEMMA ParsedMeans ==
  ASSUME NEW s \in Seq(Nat), NEW i \in 1 .. Len(s) + 1
  PROVE  Parsed(s)[i] = ParsedAt(Parsed(s), s, i) /\ Parsed(s)[i] \in Packets
<1> DEFINE h == Parsed(s)
           L == Len(s) + 1
<1>1. h = [j \in 1 .. L |-> ParsedAt(h, s, j)]
  <2>1. Parsed(s) = CHOOSE f : ParsesAll(f, s)
    BY DEF Parsed, ParsesAll
  <2> QED
    BY <2>1, ParsedExists DEF ParsesAll
<1> HIDE DEF h
<1>2. \A j \in 1 .. L : h[j] = ParsedAt(h, s, j)
  BY <1>1
<1>3. L \in Nat
  BY LenProperties
<1> DEFINE S == {k \in Nat : \A j \in 1 .. L : j + k > L => h[j] \in Packets}
<1>4. 0 \in S
  <2> HIDE DEF L
  <2> QED
    BY <1>3
<1>5. ASSUME NEW k \in Nat, k \in S
      PROVE  k + 1 \in S
  <2> SUFFICES ASSUME NEW j \in 1 .. L, j + (k + 1) > L
               PROVE  h[j] \in Packets
    OBVIOUS
  <2>1. \A m \in 1 .. L : m > j => h[m] \in Packets
    <3> SUFFICES ASSUME NEW m \in 1 .. L, m > j
                 PROVE  m + k > L
      BY <1>5
    <3> HIDE DEF L
    <3> QED
      BY <1>3
  <2>2. ParsedAt(h, s, j) \in Packets
    BY <2>1, ParsedType
  <2> QED
    BY <1>2, <2>2
<1>6. L \in S
  <2>1. Nat \subseteq S
    <3> HIDE DEF S
    <3> QED
      BY <1>4, <1>5, SetInduction
  <2> QED
    BY <1>3, <2>1
<1>7. h[i] \in Packets
  <2>1. i + L > L
    <3> HIDE DEF L
    <3> QED
      BY <1>3
  <2> QED
    BY <1>6, <2>1
<1> QED
  BY <1>2, <1>7 DEF h
-----------------------------------------------------------------------------
(***************************************************************************)
(* AsSent by itself is not inductive: it speaks of "idle" alone.  In       *)
(* between, the commands carried out are those of the stream up to what    *)
(* has been eaten, whatever comes after it; and when a handler has         *)
(* returned, what is left in the buffer is no whole packet.                *)
(***************************************************************************)
Agrees(s) == Len(s) >= eaten /\ \A j \in 1 .. eaten : s[j] = fed[j]
Split(s) == Parsed(s)[1] = done \o Parsed(s)[eaten + 1]
Carried ==
  /\ done \in Packets
  /\ trouble = {} /\ ~asked =>
       /\ \A s \in Seq(Nat) : Agrees(s) => Split(s)
       /\ at = "idle" => Analyze(buf) = 0

LEMMA InitCarried == Init => Carried
<1> SUFFICES ASSUME Init PROVE Carried
  OBVIOUS
<1>1. done = <<>> /\ buf = <<>> /\ eaten = 0
  BY DEF Init
<1>2. done \in Packets /\ Len(buf) = 0
  BY <1>1, EmptySeq DEF Packets
<1>3. Analyze(buf) = 0
  BY <1>2 DEF Analyze, Header
<1>4. ASSUME NEW s \in Seq(Nat) PROVE Split(s)
  <2>1. 1 \in 1 .. Len(s) + 1 /\ eaten + 1 = 1
    BY <1>1, LenProperties
  <2>2. Parsed(s)[1] \in Seq(Seq(Nat))
    BY <2>1, ParsedMeans DEF Packets
  <2>3. <<>> \o Parsed(s)[1] = Parsed(s)[1]
    BY <2>2, ConcatEmptySeq
  <2> QED
    BY <1>1, <2>1, <2>3 DEF Split
<1> QED
  BY <1>2, <1>3, <1>4 DEF Carried

LEMMA ThreeParts == \A a, b, c \in Packets : a \o (b \o c) = (a \o b) \o c
<1>1. \A a, b, c \in Seq(Seq(Nat)) : (a \o b) \o c = a \o (b \o c)
  BY ConcatAssociative
<1> QED
  BY <1>1 DEF Packets

\* The n units behind the first e.
LEMMA CutOut ==
  ASSUME NEW s \in Seq(Nat), NEW e \in Nat, NEW n \in Nat, e + n <= Len(s)
  PROVE  /\ SubSeq(s, e + 1, e + n) \in Seq(Nat) /\ Len(SubSeq(s, e + 1, e + n)) = n
         /\ \A k \in 1 .. n : SubSeq(s, e + 1, e + n)[k] = s[e + k]
<1> DEFINE m == e + 1
           l == e + n
<1>0. Len(s) \in Nat /\ m \in Int /\ l \in Int
  BY LenProperties
<1>1. \A k \in m .. l : k \in 1 .. Len(s)
  BY <1>0
<1>2. \A k \in m .. l : s[k] \in Nat
  BY <1>1, ElementOfSeq
<1>3. l - m + 1 = n /\ (m <= l <=> n > 0) /\ \A k \in 1 .. n : m + k - 1 = e + k
  OBVIOUS
<1> DEFINE x == SubSeq(s, m, l)
<1>5. SubSeq(s, e + 1, e + n) = x
  OBVIOUS
<1> HIDE DEF m, l
<1>4. /\ x \in Seq(Nat)
      /\ Len(x) = IF m <= l THEN l - m + 1 ELSE 0
      /\ \A k \in 1 .. l - m + 1 : x[k] = s[m + k - 1]
  BY <1>0, <1>2, SubSeqProperties
<1> HIDE DEF x
<1>6. \A k \in 1 .. n : s[m + k - 1] = s[e + k]
  BY <1>3
<1>7. x \in Seq(Nat) /\ Len(x) = n /\ \A k \in 1 .. n : x[k] = s[e + k]
  <2>1. Len(x) = IF m <= l THEN n ELSE 0
    BY <1>3, <1>4
  <2>2. Len(x) = n
    BY <1>3, <2>1
  <2>3. \A k \in 1 .. n : x[k] = s[m + k - 1]
    BY <1>3, <1>4
  <2> QED
    BY <1>4, <1>6, <2>2, <2>3
<1> QED
  BY <1>5, <1>7

LEMMA WholeOf ==
  ASSUME NEW b \in Seq(Nat), NEW n \in Nat, n = Len(b)
  PROVE  /\ SubSeq(b, 1, n) \in Seq(Nat) /\ Len(SubSeq(b, 1, n)) = n
         /\ \A k \in 1 .. n : SubSeq(b, 1, n)[k] = b[k]
<1>1. \A k \in 1 .. n : b[k] \in Nat
  BY ElementOfSeq
<1> DEFINE p == SubSeq(b, 1, n)
<1>2. /\ p \in Seq(Nat)
      /\ Len(p) = IF 1 <= n THEN n - 1 + 1 ELSE 0
      /\ \A k \in 1 .. n - 1 + 1 : p[k] = b[1 + k - 1]
  BY <1>1, SubSeqProperties
<1> HIDE DEF p
<1>3. n - 1 + 1 = n /\ (n > 0 <=> 1 <= n) /\ \A k \in 1 .. n : b[1 + k - 1] = b[k]
  OBVIOUS
<1>4. p \in Seq(Nat) /\ Len(p) = n /\ \A k \in 1 .. n : p[k] = b[k]
  BY <1>2, <1>3
<1> QED
  BY <1>4 DEF p

\* A packet that is taken is the next of the stream.
LEMMA NextOfStream ==
  ASSUME NEW s \in Seq(Nat), NEW b \in Seq(Nat), NEW e \in Nat, NEW n \in Nat,
         n = Len(b), n = Count(b), Header <= n, n <= PackMax, e + n <= Len(s),
         \A k \in 1 .. n : s[e + k] = b[k]
  PROVE  /\ Parsed(s)[e + 1] = Executed(SubSeq(b, 1, n)) \o Parsed(s)[e + n + 1]
         /\ Executed(SubSeq(b, 1, n)) \in Packets
         /\ Parsed(s)[e + n + 1] \in Packets
<1> DEFINE i == e + 1
<1>0. Len(s) \in Nat /\ n >= 2 /\ Header = 2
  BY LenProperties DEF Header
<1>1. i \in 1 .. Len(s) + 1 /\ i + 1 <= Len(s) /\ i \in Nat \ {0} /\ i + n - 1 = e + n
  BY <1>0
<1>2. i + n = e + n + 1 /\ e + n + 1 \in 1 .. Len(s) + 1
  BY <1>0
<1>3. s[i] = b[1] /\ s[i + 1] = b[2] /\ i + 1 = e + 2
  BY <1>0
<1> DEFINE p == SubSeq(b, 1, n)
           q == SubSeq(s, i, i + n - 1)
<1>4. /\ p \in Seq(Nat) /\ Len(p) = n /\ \A k \in 1 .. n : p[k] = b[k]
  BY WholeOf
<1>5. /\ q \in Seq(Nat) /\ Len(q) = n /\ \A k \in 1 .. n : q[k] = s[e + k]
  <2>1. q = SubSeq(s, e + 1, e + n)
    BY <1>1
  <2> DEFINE x == SubSeq(s, e + 1, e + n)
  <2>2. x \in Seq(Nat) /\ Len(x) = n /\ \A k \in 1 .. n : x[k] = s[e + k]
    BY CutOut
  <2> QED
    BY <2>1, <2>2
<1> HIDE DEF p, q
<1>6. p = q
  <2>1. \A k \in 1 .. n : p[k] = q[k]
    BY <1>4, <1>5
  <2> QED
    BY <1>4, <1>5, <2>1, SeqEqual
<1> DEFINE known == \E c \in DOMAIN SizeOf : s[i + 1] = c /\ s[i] = SizeOf[c]
<1>7. Executed(p) = IF known THEN <<q>> ELSE <<>>
  <2>1. p[1] = s[i] /\ p[2] = s[i + 1]
    <3>1. 1 \in 1 .. n /\ 2 \in 1 .. n
      BY <1>0
    <3> QED
      BY <1>3, <1>4, <3>1
  <2> QED
    BY <1>0, <1>4, <1>6, <2>1 DEF Executed
<1>8. Parsed(s)[i] = ParsedAt(Parsed(s), s, i)
  BY <1>1, ParsedMeans
<1>9. (Header + s[i]) % Wrap = n
  BY <1>3 DEF Count
<1>10. ParsedAt(Parsed(s), s, i) = (IF known THEN <<q>> ELSE <<>>) \o Parsed(s)[i + n]
  <2>1. ~(i + 1 > Len(s)) /\ ~(n < Header \/ n > PackMax \/ i + n - 1 > Len(s))
    <3>1. PackMax \in Nat
      BY Sizes
    <3> QED
      BY <1>0, <3>1
  <2> HIDE DEF i, known
  <2> QED
    BY <1>9, <2>1 DEF ParsedAt, known, q
<1>11. Executed(p) \in Packets
  <2>1. <<q>> \in Packets /\ <<>> \in Packets
    <3>1. n > 0 /\ i + n - 1 <= Len(s)
      BY <1>0, <1>1
    <3> HIDE DEF i
    <3> QED
      BY <1>1, <3>1, PieceType DEF q
  <2> QED
    BY <1>7, <2>1
<1>12. Parsed(s)[e + n + 1] \in Packets
  BY <1>2, ParsedMeans
<1>13. Parsed(s)[e + 1] = Executed(p) \o Parsed(s)[e + n + 1]
  <2> HIDE DEF known
  <2> QED
    BY <1>2, <1>7, <1>8, <1>10
<1> QED
  BY <1>11, <1>12, <1>13 DEF p

LEMMA ArriveCarried ==
  ASSUME TypeOK, Tracked, Carried, Arrive
  PROVE  Carried'
<1>1. /\ UNCHANGED <<buf, eaten, done, asked, trouble>> /\ at' = "fill"
      /\ at = "idle"
  BY DEF Arrive
<1>2. done' \in Packets
  BY <1>1 DEF Carried
<1> SUFFICES ASSUME trouble = {}, ~asked, NEW s \in Seq(Nat), Agrees(s)'
             PROVE  Split(s)
  BY <1>1, <1>2 DEF Carried, Split
<1>3. eaten <= Len(fed) /\ eaten \in Nat /\ Len(fed) \in Nat
  BY Lengths DEF Tracked, InBlock, Accounted
<1>4. PICK n \in 1 .. MaxFed - Len(fed) : \E d \in [1 .. n -> Units] : data' = d /\ fed' = fed \o d
  BY DEF Arrive
<1>5. PICK d \in [1 .. n -> Units] : fed' = fed \o d
  BY <1>4
<1>6. d \in Seq(Nat)
  <2>1. n \in Nat
    BY <1>3, Sizes
  <2>2. d \in [1 .. n -> Nat]
    BY Sizes
  <2> QED
    BY <2>1, <2>2, BlockIsSeq
<1>7. \A j \in 1 .. eaten : fed'[j] = fed[j]
  <2>1. \A j \in 1 .. Len(fed) : (fed \o d)[j] = fed[j]
    BY <1>6, ConcatProperties DEF TypeOK
  <2>2. \A j \in 1 .. eaten : j \in 1 .. Len(fed)
    BY <1>3
  <2> QED
    BY <1>5, <2>1, <2>2
<1>8. Agrees(s)
  BY <1>1, <1>7 DEF Agrees
<1> QED
  BY <1>8 DEF Carried

LEMMA PacketCarried ==
  ASSUME TypeOK, Tracked, Carried, Packet
  PROVE  Carried'
<1> DEFINE n == Analyze(buf)
           x == Executed(SubSeq(buf, 1, n))
<1>1. /\ at = "recv" /\ n > 0 /\ done' = done \o x
      /\ eaten' = eaten + Taken(n)
      /\ trouble' = trouble \cup (IF Taken(n) > n THEN {"lost"} ELSE {})
                            \cup (IF Taken(n) > PackMax THEN {"overrun"} ELSE {})
      /\ UNCHANGED <<at, fed, asked>>
  BY DEF Packet
<1>2. Taken(n) = Len(buf)
  BY TakenAll
<1>3. /\ Len(buf) \in Nat /\ Len(fed) \in Nat /\ eaten \in Nat
      /\ buf \in Seq(Nat) /\ PackMax \in Nat
  BY Lengths, Sizes DEF TypeOK
<1>4. /\ Header <= Len(buf) /\ n = Count(buf) /\ n <= Len(buf) /\ n <= PackMax /\ n \in Nat
  <2>1. Len(buf) >= Header
    BY <1>1, <1>3 DEF Analyze, Header
  <2>2. buf[1] \in Nat
    BY <1>3, <2>1, ElementOfSeq DEF Header
  <2>3. Count(buf) \in Nat
    BY <2>2, FramingAssumption DEF Count, Header
  <2> QED
    BY <1>1, <1>3, <2>1, <2>3 DEF Analyze, Header
<1>5. x \in Packets
  <2>1. Len(buf) \in Nat /\ \A k \in 1 .. n : k \in 1 .. Len(buf)
    BY <1>3, <1>4
  <2>2. \A k \in 1 .. n : buf[k] \in Nat
    BY <1>3, <2>1, ElementOfSeq
  <2>3. SubSeq(buf, 1, n) \in Seq(Nat)
    BY <1>3, <1>4, <2>2, SubSeqProperties
  <2> DEFINE p == SubSeq(buf, 1, n)
  <2> HIDE DEF p
  <2>4. p \in Seq(Nat) => Executed(p) \in Packets
    BY DEF Executed, Packets
  <2> QED
    BY <2>3, <2>4 DEF p
<1>6. done' \in Packets
  <2> HIDE DEF x
  <2> QED
    BY <1>1, <1>5, ConcatProperties DEF Carried, Packets
<1> SUFFICES ASSUME trouble' = {}, ~asked, NEW s \in Seq(Nat), Agrees(s)'
             PROVE  Split(s)'
  BY <1>1, <1>6 DEF Carried
<1>7. trouble = {} /\ ~(Len(buf) > n)
  BY <1>1, <1>2
<1> HIDE DEF n, x
<1>8. n = Len(buf) /\ eaten' = eaten + n
  <2>1. n = Len(buf)
    BY <1>3, <1>4, <1>7
  <2> QED
    BY <1>1, <1>2, <2>1
<1>9. /\ eaten + n <= Len(s) /\ \A j \in 1 .. eaten + n : s[j] = fed[j]
  BY <1>1, <1>3, <1>4, <1>8, LenProperties DEF Agrees
<1>10. Agrees(s)
  <2>1. eaten <= Len(s)
    BY <1>3, <1>4, <1>9, LenProperties
  <2>2. \A j \in 1 .. eaten : j \in 1 .. eaten + n
    BY <1>3, <1>4
  <2> QED
    BY <1>9, <2>1, <2>2 DEF Agrees
<1>11. Parsed(s)[1] = done \o Parsed(s)[eaten + 1]
  BY <1>7, <1>10 DEF Carried, Split
<1>12. \A k \in 1 .. n : s[eaten + k] = buf[k]
  <2>1. \A k \in 1 .. n : eaten + k \in 1 .. eaten + n
    BY <1>3, <1>4
  <2>2. BufferTracked
    BY <1>7 DEF Tracked
  <2> QED
    BY <1>8, <1>9, <2>1, <2>2 DEF BufferTracked
<1>13. /\ Parsed(s)[eaten + 1] = x \o Parsed(s)[eaten + n + 1]
       /\ Parsed(s)[eaten + n + 1] \in Packets
  <2>1. Header <= n
    BY <1>4, <1>8
  <2> QED
    BY <1>3, <1>4, <1>8, <1>9, <1>12, <2>1, NextOfStream DEF x
<1>14. done \o (x \o Parsed(s)[eaten + n + 1]) = (done \o x) \o Parsed(s)[eaten + n + 1]
  BY <1>5, <1>13, ThreeParts DEF Carried
<1>15. Parsed(s)[1] = done' \o Parsed(s)[eaten + n + 1]
  BY <1>1, <1>11, <1>13, <1>14
<1> QED
  BY <1>8, <1>15 DEF Split

LEMMA StepCarried ==
  ASSUME TypeOK, Tracked, Carried, [Next]_vars
  PROVE  Carried'
<1>1. CASE Arrive
  BY <1>1, ArriveCarried
<1>2. CASE Fill
  <2>1. /\ UNCHANGED <<fed, eaten, done, asked>> /\ at' = "recv" /\ trouble \subseteq trouble'
    BY <1>2 DEF Fill
  <2> QED
    BY <2>1 DEF Carried, Agrees, Split
<1>3. CASE Incomplete
  <2>1. /\ UNCHANGED <<buf, fed, eaten, done, asked, trouble>> /\ Analyze(buf) = 0
    BY <1>3 DEF Incomplete
  <2> QED
    BY <2>1 DEF Carried, Agrees, Split
<1>4. CASE Bad
  <2>1. done' = done /\ asked'
    BY <1>4 DEF Bad
  <2> QED
    BY <2>1 DEF Carried
<1>5. CASE Packet
  BY <1>5, PacketCarried
<1>6. CASE UNCHANGED vars
  BY <1>6 DEF vars, Carried, Agrees, Split
<1> QED
  BY <1>1, <1>2, <1>3, <1>4, <1>5, <1>6 DEF Next, Handler

\* Behind what has been eaten there is no command as long as there is no
\* whole packet in the buffer.
LEMMA NothingLeft ==
  ASSUME NEW s \in Seq(Nat), NEW b \in Seq(Nat), NEW e \in Nat,
         e + Len(b) = Len(s), Analyze(b) = 0, \A k \in 1 .. Len(b) : b[k] = s[e + k]
  PROVE  Parsed(s)[e + 1] = <<>>
<1>0. Len(s) \in Nat /\ Len(b) \in Nat /\ PackMax \in Nat
  BY LenProperties, Sizes
<1>1. e + 1 \in 1 .. Len(s) + 1
  BY <1>0
<1>2. Parsed(s)[e + 1] = ParsedAt(Parsed(s), s, e + 1)
  BY <1>1, ParsedMeans
<1>3. CASE Len(b) < Header
  <2>1. (e + 1) + 1 > Len(s)
    BY <1>0, <1>3 DEF Header
  <2> QED
    BY <1>2, <2>1 DEF ParsedAt
<1>4. CASE Len(b) >= Header
  <2>1. b[1] = s[e + 1] /\ b[1] \in Nat
    BY <1>0, <1>4, ElementOfSeq DEF Header
  <2>2. Count(b) = (Header + s[e + 1]) % Wrap /\ Count(b) \in Nat
    BY <2>1, FramingAssumption DEF Count, Header
  <2> DEFINE n == (Header + s[e + 1]) % Wrap
  <2> HIDE DEF n
  <2>3. n = Count(b) /\ n \in Nat
    BY <2>2 DEF n
  <2>4. n > Len(b) \/ n = 0
    BY <1>0, <1>4, <2>3 DEF Analyze, Header
  <2>5. n < Header \/ n > PackMax \/ (e + 1) + n - 1 > Len(s)
    <3>1. CASE n = 0
      BY <3>1 DEF Header
    <3>2. CASE n > Len(b)
      BY <1>0, <2>3, <3>2
    <3> QED
      BY <2>4, <3>1, <3>2
  <2> QED
    BY <1>2, <2>5 DEF ParsedAt, n
<1> QED
  BY <1>0, <1>3, <1>4 DEF Header

LEMMA CarriedIsAsSent ==
  ASSUME TypeOK, Tracked, Carried
  PROVE  AsSent
<1> SUFFICES ASSUME at = "idle", trouble = {}, ~asked
             PROVE  done = Parse(fed)
  BY DEF AsSent
<1>1. /\ Len(buf) \in Nat /\ Len(fed) \in Nat /\ eaten \in Nat /\ buf \in Seq(Nat) /\ fed \in Seq(Nat)
  BY Lengths DEF TypeOK
<1>2. InBlock /\ Accounted /\ BufferTracked
  BY DEF Tracked
<1>3. eaten + Len(buf) = Len(fed)
  <2>1. Len(data) = 0 /\ write = 0
    BY <1>2, EmptySeq DEF InBlock
  <2> QED
    BY <1>1, <1>2, <2>1 DEF Accounted
<1>4. Parsed(fed)[eaten + 1] = <<>>
  BY <1>1, <1>2, <1>3, NothingLeft DEF BufferTracked, Carried
<1>5. Agrees(fed)
  BY <1>1, <1>3 DEF Agrees
<1>6. Parsed(fed)[1] = done \o <<>> /\ done \in Seq(Seq(Nat))
  BY <1>1, <1>4, <1>5 DEF Carried, Split, Packets
<1> QED
  BY <1>6, ConcatEmptySeq DEF Parse

(***************************************************************************)
(* The commands carried out are those in the stream, in order and each     *)
(* once, whatever blocks it comes in and whatever the sizes are, as long   *)
(* as no block has brought more than the end of one packet.                *)
(***************************************************************************)
THEOREM CommandsAreThoseSent == Spec => []AsSent
<1> DEFINE Inv == TypeOK /\ RoomForPacket /\ Tracked /\ Carried
<1>1. Init => Inv
  BY InitFraming, InitTracked, InitCarried
<1>2. Inv /\ [Next]_vars => Inv'
  BY StepFraming, StepTracked, StepCarried
<1>3. Inv => AsSent
  BY CarriedIsAsSent
<1> QED
  BY <1>1, <1>2, <1>3, PTL DEF Spec
=============================================================================
