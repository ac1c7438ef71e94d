-------------------------- MODULE RecvStream_proofs --------------------------
(***************************************************************************)
(* Proofs about RecvStream, for every buffer size, every number of buffers *)
(* from 3 on, every header size and every stream of packets.               *)
(*                                                                         *)
(* The argument: the data in the buffer is the stretch of the stream that  *)
(* ends with the last byte received, and begins where the packets          *)
(* delivered so far end.  So the byte OnRecv takes for a header is one,    *)
(* what is left when its loop ends is less than a packet, hence less than  *)
(* BufferSize, and Clean leaves or makes room for BufferSize bytes.  When  *)
(* it moves the data, the write cursor is in the last of the BufferCount   *)
(* buffers, so the data, less than one of them, starts beyond the first.   *)
(***************************************************************************)
EXTENDS RecvStream, TLAPS

(* Where the first k packets end in the stream. *)
End(k) == IF k = 0 THEN 0 ELSE packets[k].at + packets[k].size

(* The packets of the peer follow each other without a gap. *)
Chain ==
    /\ total = End(Len(packets))
    /\ \A k \in DOMAIN packets : packets[k].at = End(k - 1)
    /\ \A k \in DOMAIN packets : packets[k].at + packets[k].size <= total
    /\ \A j, k \in DOMAIN packets :
          j < k => packets[j].at + packets[j].size <= packets[k].at

(* The data is the end of what has been received. *)
Content ==
    \A i \in readPos .. writePos - 1 : buffer[i] = received - (writePos - i)

(* What is delivered are the first packets, and the data from processLen   *)
(* on starts where they end.                                               *)
Progress ==
    /\ Len(delivered) <= Len(packets)
    /\ \A k \in DOMAIN delivered : delivered[k] = packets[k]
    /\ End(Len(delivered)) = received - (writePos - readPos) + processLen

(* A receive is registered with less than a buffer of data, and room for   *)
(* one more.                                                               *)
Room ==
    /\ pc # "closed"
    /\ pc = "recv" => /\ processLen = 0
                      /\ writePos - readPos < BufferSize
                      /\ FreeSize >= BufferSize

IInv == TypeOK /\ Chain /\ Content /\ Progress /\ Room

-----------------------------------------------------------------------------
(* The capacity of the buffer is three times BufferSize at least. *)
LEMMA CapacityFact == Capacity \in Nat /\ Capacity >= 3 * BufferSize
  <1>1. BufferSize \in Nat /\ BufferCount \in Nat /\ BufferCount >= 3
    BY BufferAssumption
  <1>2. BufferSize * BufferCount >= BufferSize * 3
    BY <1>1, Z3
  <1>3. BufferSize * BufferCount \in Nat
    BY <1>1, Z3
  <1> QED
    BY <1>1, <1>2, <1>3 DEF Capacity

(* The fields of a packet. *)
LEMMA PacketFact ==
    \A p \in Packet : /\ p.at \in Nat /\ p.size \in Nat
                      /\ p.size \in 0 .. BufferSize - 1 /\ p.size > 0
  <1>1. HeaderSize \in Nat /\ HeaderSize > 0 /\ BufferSize \in Nat
    BY HeaderAssumption, BufferAssumption
  <1>2. \A n \in PacketSizes : n \in Nat /\ n \in 0 .. BufferSize - 1 /\ n > 0
    BY <1>1 DEF PacketSizes
  <1>3. \A p \in Packet : p.at \in Nat /\ p.size \in PacketSizes
    BY DEF Packet
  <1> QED
    BY <1>2, <1>3

(* The byte OnRecv takes for a header is the first of the next packet that *)
(* has not been delivered, and says its size.                              *)
LEMMA HeaderFact ==
    ASSUME IInv, HasHeader
    PROVE  /\ Len(delivered) < Len(packets)
           /\ buffer[readPos + processLen] = packets[Len(delivered) + 1].at
           /\ packets[Len(delivered) + 1].at = End(Len(delivered))
           /\ HeaderAt(readPos + processLen) = {packets[Len(delivered) + 1].size}
  <1> DEFINE d == Len(delivered)
             i == readPos + processLen
  <1>0. HeaderSize \in Nat /\ HeaderSize > 0 /\ BufferSize \in Nat
    BY HeaderAssumption, BufferAssumption
  <1>1. /\ d \in Nat /\ Len(packets) \in Nat /\ d <= Len(packets)
        /\ readPos \in Nat /\ writePos \in Nat /\ processLen \in Nat
        /\ received \in Nat /\ total \in Nat /\ received <= total
        /\ DOMAIN packets = 1 .. Len(packets)
    BY CapacityFact DEF IInv, TypeOK, Progress
  <1>2. \A k \in DOMAIN packets : /\ packets[k] \in Packet
                                  /\ packets[k].at \in Nat /\ packets[k].size \in Nat
                                  /\ packets[k].size \in 0 .. BufferSize - 1
                                  /\ packets[k].size > 0
    <2>1. \A k \in DOMAIN packets : packets[k] \in Packet
      BY <1>1 DEF IInv, TypeOK
    <2> QED
      BY <2>1, PacketFact
  <1>3. i \in readPos .. writePos - 1
    BY <1>0, <1>1 DEF HasHeader, DataSize
  <1>4. buffer[i] = received - (writePos - i)
    BY <1>3 DEF IInv, Content
  <1>5. buffer[i] = End(d)
    BY <1>1, <1>4 DEF IInv, Progress
  <1>6. buffer[i] < total
    BY <1>1, <1>3, <1>4
  <1>7. d < Len(packets)
    <2> SUFFICES ASSUME d = Len(packets) PROVE FALSE
      BY <1>1
    <2> QED
      BY <1>5, <1>6, <1>1 DEF IInv, Chain
  <1>8. d + 1 \in DOMAIN packets /\ packets[d + 1].at = End(d)
    <2>1. d + 1 \in DOMAIN packets
      BY <1>1, <1>7
    <2>2. packets[d + 1].at = End(d + 1 - 1)
      BY <2>1 DEF IInv, Chain
    <2>3. d + 1 - 1 = d
      BY <1>1
    <2> QED
      BY <2>1, <2>2, <2>3
  <1>9. \A k \in DOMAIN packets : packets[k].at = buffer[i] => k = d + 1
    <2> SUFFICES ASSUME NEW k \in DOMAIN packets, packets[k].at = packets[d + 1].at, k # d + 1
                 PROVE  FALSE
      BY <1>5, <1>8
    <2>1. CASE k < d + 1
      <3>1. packets[k].at + packets[k].size <= packets[d + 1].at
        BY <1>8, <2>1 DEF IInv, Chain
      <3> QED
        BY <3>1, <1>2
    <2>2. CASE d + 1 < k
      <3>1. packets[d + 1].at + packets[d + 1].size <= packets[k].at
        BY <1>8, <2>2 DEF IInv, Chain
      <3> QED
        BY <3>1, <1>2, <1>8
    <2> QED
      BY <2>1, <2>2, <1>1
  <1>10. HeaderAt(i) = {packets[d + 1].size}
    <2>1. packets[d + 1] = [at |-> buffer[i], size |-> packets[d + 1].size]
      BY <1>2, <1>5, <1>8 DEF Packet
    <2>2. ASSUME NEW n \in HeaderAt(i)
          PROVE  n = packets[d + 1].size
      <3>1. PICK k \in DOMAIN packets : packets[k] = [at |-> buffer[i], size |-> n]
        BY <1>5, <1>8 DEF HeaderAt
      <3>2. packets[k].at = buffer[i] /\ packets[k].size = n
        BY <3>1
      <3>3. k = d + 1
        BY <3>2, <1>9
      <3> QED
        BY <3>2, <3>3
    <2>3. packets[d + 1].size \in HeaderAt(i)
      BY <1>2, <1>8, <2>1 DEF HeaderAt
    <2> QED
      BY <2>2, <2>3
  <1> QED
    BY <1>5, <1>7, <1>8, <1>10

(* Less than BufferSize bytes are left when the loop of OnRecv ends. *)
LEMMA RestFact ==
    ASSUME IInv, LoopEnds
    PROVE  writePos - (readPos + processLen) < BufferSize
  <1>1. /\ readPos \in Nat /\ writePos \in Nat /\ processLen \in Nat
        /\ BufferSize \in Nat /\ HeaderSize \in Nat /\ HeaderSize < BufferSize
    BY CapacityFact, BufferAssumption, HeaderAssumption DEF IInv, TypeOK
  <1>2. CASE ~HasHeader
    BY <1>1, <1>2 DEF HasHeader, DataSize
  <1>3. CASE HasHeader
    <2>1. PICK n \in HeaderAt(readPos + processLen) : DataSize - processLen < n
      BY <1>3 DEF LoopEnds
    <2>2. n \in 0 .. BufferSize - 1
      BY DEF HeaderAt
    <2> QED
      BY <1>1, <2>1, <2>2 DEF DataSize
  <1> QED
    BY <1>2, <1>3

(* When Clean moves the data, the data is shorter than the space before it. *)
LEMMA OverlapFact ==
    ASSUME IInv, LoopEnds, Moves(writePos)
    PROVE  writePos - (readPos + processLen) <= readPos + processLen
  <1>1. /\ readPos \in Nat /\ writePos \in Nat /\ processLen \in Nat /\ BufferSize \in Nat
        /\ Capacity \in Nat /\ Capacity >= 3 * BufferSize
    BY CapacityFact, BufferAssumption DEF IInv, TypeOK
  <1>2. writePos - (readPos + processLen) < BufferSize
    BY RestFact
  <1>3. Capacity - writePos < BufferSize
    BY DEF Moves
  <1> QED
    BY <1>1, <1>2, <1>3

-----------------------------------------------------------------------------
LEMMA InitInv == Init => IInv
  <1> SUFFICES ASSUME Init PROVE IInv
    OBVIOUS
  <1>1. TypeOK
    BY CapacityFact DEF Init, TypeOK, Cells
  <1>2. Chain /\ Content /\ Progress
    BY DEF Init, Chain, Content, Progress, End
  <1>3. Room
    BY CapacityFact, BufferAssumption, HeaderAssumption DEF Init, Room, FreeSize
  <1> QED
    BY <1>1, <1>2, <1>3 DEF IInv

LEMMA PeerSendInv ==
    ASSUME IInv, NEW n \in PacketSizes, PeerSend(n)
    PROVE  IInv'
  <1> DEFINE p == [at |-> total, size |-> n]
             L == Len(packets)
  <1>1. /\ n \in Nat /\ total \in Nat /\ L \in Nat /\ packets \in Seq(Packet)
        /\ DOMAIN packets = 1 .. L /\ p \in Packet
    BY HeaderAssumption, BufferAssumption DEF IInv, TypeOK, PacketSizes, Packet
  <1>2. packets' = Append(packets, p) /\ total' = total + n
    BY DEF PeerSend
  <1>3. /\ Len(packets') = L + 1 /\ DOMAIN packets' = 1 .. L + 1
        /\ packets' \in Seq(Packet)
        /\ \A k \in 1 .. L : packets'[k] = packets[k]
        /\ packets'[L + 1] = p
    BY <1>1, <1>2
  <1>4. UNCHANGED <<received, buffer, readPos, writePos, processLen, delivered, pc>>
    BY DEF PeerSend
  <1>5. \A k \in 0 .. L : End(k)' = End(k)
    BY <1>1, <1>3 DEF End
  <1>6. \A k \in 1 .. L : packets[k].at \in Nat /\ packets[k].size \in Nat
    <2>1. \A k \in 1 .. L : packets[k] \in Packet
      BY <1>1
    <2> QED
      BY <2>1, PacketFact
  <1>7. TypeOK'
    BY <1>1, <1>2, <1>3, <1>4 DEF IInv, TypeOK
  <1>8. Chain'
    <2>1. total' = End(Len(packets))'
      BY <1>1, <1>2, <1>3 DEF End
    <2>2. \A k \in DOMAIN packets' : packets'[k].at = End(k - 1)'
      <3> SUFFICES ASSUME NEW k \in 1 .. L + 1 PROVE packets'[k].at = End(k - 1)'
        BY <1>3
      <3>1. CASE k \in 1 .. L
        <4>1. packets[k].at = End(k - 1) /\ k - 1 \in 0 .. L
          BY <3>1, <1>1 DEF IInv, Chain
        <4>2. packets'[k] = packets[k] /\ End(k - 1)' = End(k - 1)
          BY <3>1, <4>1, <1>3, <1>5
        <4> QED
          BY <4>1, <4>2
      <3>2. CASE k = L + 1
        BY <3>2, <1>1, <1>3, <1>5 DEF IInv, Chain
      <3> QED
        BY <3>1, <3>2, <1>1
    <2>3. \A k \in DOMAIN packets' : packets'[k].at + packets'[k].size <= total'
      <3> SUFFICES ASSUME NEW k \in 1 .. L + 1
                   PROVE  packets'[k].at + packets'[k].size <= total + n
        BY <1>2, <1>3
      <3>1. CASE k \in 1 .. L
        <4>1. packets[k].at + packets[k].size <= total
          BY <3>1, <1>1 DEF IInv, Chain
        <4> QED
          BY <4>1, <3>1, <1>1, <1>3, <1>6
      <3>2. CASE k = L + 1
        BY <3>2, <1>1, <1>3
      <3> QED
        BY <3>1, <3>2, <1>1
    <2>4. \A j, k \in DOMAIN packets' :
             j < k => packets'[j].at + packets'[j].size <= packets'[k].at
      <3> SUFFICES ASSUME NEW j \in 1 .. L + 1, NEW k \in 1 .. L + 1, j < k
                   PROVE  packets'[j].at + packets'[j].size <= packets'[k].at
        BY <1>3
      <3>1. j \in 1 .. L /\ packets'[j] = packets[j]
        BY <1>1, <1>3
      <3>2. CASE k \in 1 .. L
        BY <3>1, <3>2, <1>1, <1>3 DEF IInv, Chain
      <3>3. CASE k = L + 1
        <4>1. packets[j].at + packets[j].size <= total
          BY <3>1, <1>1 DEF IInv, Chain
        <4> QED
          BY <4>1, <3>1, <3>3, <1>3
      <3> QED
        BY <3>2, <3>3, <1>1
    <2> QED
      BY <2>1, <2>2, <2>3, <2>4 DEF Chain
  <1>9. Content'
    BY <1>4 DEF IInv, Content
  <1>10. Progress'
    <2>1. Len(delivered) \in 0 .. L /\ DOMAIN delivered = 1 .. Len(delivered)
      BY <1>1 DEF IInv, TypeOK, Progress
    <2> QED
      BY <2>1, <1>1, <1>3, <1>4, <1>5 DEF IInv, Progress
  <1>11. Room'
    BY <1>4 DEF IInv, Room, FreeSize
  <1> QED
    BY <1>7, <1>8, <1>9, <1>10, <1>11 DEF IInv

LEMMA ProcessRecvInv ==
    ASSUME IInv, NEW n \in 0 .. Capacity, ProcessRecv(n)
    PROVE  IInv'
  <1>1. /\ Capacity \in Nat /\ BufferSize \in Nat /\ BufferSize > 0 /\ n \in Nat
        /\ readPos \in Nat /\ writePos \in Nat /\ processLen \in Nat
        /\ readPos <= writePos /\ writePos <= Capacity
        /\ received \in Nat /\ total \in Nat
    BY CapacityFact, BufferAssumption, HeaderAssumption DEF IInv, TypeOK
  <1>2. processLen = 0 /\ Capacity - writePos >= BufferSize
    BY DEF IInv, Room, ProcessRecv, FreeSize
  <1>3. n > 0 /\ writePos + n <= Capacity /\ received + n <= total
    BY <1>1, <1>2 DEF ProcessRecv, FreeSize
  <1>4. /\ received' = received + n /\ writePos' = writePos + n /\ pc' = "parse"
        /\ UNCHANGED <<packets, total, readPos, processLen, delivered>>
    BY <1>1, <1>3 DEF ProcessRecv, peer
  <1>5. /\ buffer' \in [Cells -> Nat \cup {Junk}]
        /\ \A i \in Cells : buffer'[i] = IF i \in writePos .. writePos + n - 1
                                         THEN received + (i - writePos) ELSE buffer[i]
    BY <1>1, <1>3 DEF ProcessRecv, IInv, TypeOK, Cells
  <1>6. TypeOK'
    BY <1>1, <1>2, <1>3, <1>4, <1>5 DEF IInv, TypeOK
  <1>7. Chain'
    BY <1>4 DEF IInv, Chain, End
  <1>8. Content'
    <2>1. ASSUME NEW i \in readPos .. writePos + n - 1
          PROVE  buffer'[i] = received + n - (writePos + n - i)
      <3>1. i \in Cells
        BY <1>1, <1>3 DEF Cells
      <3>2. CASE i < writePos
        <4>1. buffer[i] = received - (writePos - i)
          BY <3>2, <1>1 DEF IInv, Content
        <4> QED
          BY <3>1, <3>2, <4>1, <1>1, <1>5
      <3>3. CASE i >= writePos
        BY <3>1, <3>3, <1>1, <1>5
      <3> QED
        BY <3>2, <3>3, <1>1
    <2>2. readPos' = readPos
      BY <1>4
    <2>3. writePos' = writePos + n
      BY <1>4
    <2>4. received' = received + n
      BY <1>4
    <2>5. (readPos' .. writePos' - 1) = (readPos .. writePos + n - 1)
      BY <2>2, <2>3, <1>1
    <2>6. ASSUME NEW i \in readPos' .. writePos' - 1
          PROVE  buffer'[i] = received' - (writePos' - i)
      <3>1. buffer'[i] = received + n - (writePos + n - i)
        BY <2>1, <2>5
      <3> QED
        BY <3>1, <2>3, <2>4, <1>1
    <2> QED
      BY <2>6 DEF Content
  <1>9. Progress'
    BY <1>1, <1>4 DEF IInv, Progress, End
  <1>10. Room'
    BY <1>4 DEF Room
  <1> QED
    BY <1>6, <1>7, <1>8, <1>9, <1>10 DEF IInv

LEMMA OnRecvPacketInv ==
    ASSUME IInv, NEW n \in 0 .. BufferSize - 1, OnRecvPacket(n)
    PROVE  IInv'
  <1> DEFINE d == Len(delivered)
             p == [at |-> buffer[readPos + processLen], size |-> n]
  <1>1. /\ readPos \in Nat /\ writePos \in Nat /\ processLen \in Nat /\ n \in Nat
        /\ received \in Nat /\ d \in Nat /\ delivered \in Seq(Packet)
        /\ packets \in Seq(Packet) /\ DOMAIN packets = 1 .. Len(packets) /\ Len(packets) \in Nat
    BY CapacityFact, BufferAssumption DEF IInv, TypeOK
  <1>2. HasHeader /\ n \in HeaderAt(readPos + processLen) /\ n <= DataSize - processLen
    BY DEF OnRecvPacket
  <1>3. /\ d < Len(packets)
        /\ buffer[readPos + processLen] = packets[d + 1].at
        /\ packets[d + 1].at = End(d)
        /\ n = packets[d + 1].size
    BY <1>2, HeaderFact
  <1>4. d + 1 \in DOMAIN packets /\ packets[d + 1] \in Packet
    BY <1>1, <1>3
  <1>5. p = packets[d + 1]
    BY <1>3, <1>4 DEF Packet
  <1>6. /\ delivered' = Append(delivered, packets[d + 1]) /\ processLen' = processLen + n
        /\ UNCHANGED <<packets, total, received, buffer, readPos, writePos, pc>>
    BY <1>5 DEF OnRecvPacket, peer
  <1>7. /\ Len(delivered') = d + 1 /\ DOMAIN delivered' = 1 .. d + 1
        /\ delivered' \in Seq(Packet)
        /\ \A k \in 1 .. d : delivered'[k] = delivered[k]
        /\ delivered'[d + 1] = packets[d + 1]
    BY <1>1, <1>4, <1>6
  <1>8. TypeOK'
    BY <1>1, <1>2, <1>6, <1>7 DEF IInv, TypeOK, DataSize
  <1>9. Chain' /\ Content'
    BY <1>6 DEF IInv, Chain, Content, End
  <1>10. Progress'
    <2>1. Len(delivered') <= Len(packets')
      BY <1>1, <1>3, <1>6, <1>7
    <2>2. \A k \in DOMAIN delivered' : delivered'[k] = packets'[k]
      BY <1>1, <1>6, <1>7 DEF IInv, Progress
    <2>3. End(Len(delivered))' = packets[d + 1].at + packets[d + 1].size
      BY <1>1, <1>6, <1>7 DEF End
    <2>4. End(d) = received - (writePos - readPos) + processLen
      BY DEF IInv, Progress
    <2>5. End(Len(delivered))' = received - (writePos - readPos) + processLen + n
      BY <2>3, <2>4, <1>3
    <2> QED
      BY <2>1, <2>2, <2>5, <1>1, <1>6 DEF Progress
  <1>11. Room'
    BY <1>6 DEF OnRecvPacket, Room
  <1> QED
    BY <1>8, <1>9, <1>10, <1>11 DEF IInv

LEMMA OnReadInv ==
    ASSUME IInv, OnRead
    PROVE  IInv'
  <1> DEFINE r == readPos + processLen
             n == writePos - r
  <1>1. /\ Capacity \in Nat /\ BufferSize \in Nat /\ BufferSize > 0 /\ Capacity >= 3 * BufferSize
        /\ readPos \in Nat /\ writePos \in Nat /\ processLen \in Nat
        /\ readPos <= writePos /\ writePos <= Capacity /\ processLen <= writePos - readPos
        /\ received \in Nat /\ total \in Nat /\ received <= total
    BY CapacityFact, BufferAssumption, HeaderAssumption DEF IInv, TypeOK
  <1>2. LoopEnds
    BY DEF OnRead
  <1>3. n \in Nat /\ r \in Nat /\ n < BufferSize
    BY <1>1, <1>2, RestFact
  <1>4. processLen' = 0 /\ pc' = "recv" /\ UNCHANGED <<packets, total, received, delivered>>
    BY <1>3 DEF OnRead, peer
  <1>5. End(Len(delivered)) = received - n
    BY <1>1 DEF IInv, Progress
  <1>6. \A i \in r .. writePos - 1 : buffer[i] = received - (writePos - i)
    BY <1>1 DEF IInv, Content
  <1>7. Chain'
    BY <1>4 DEF IInv, Chain, End
  <1>8. /\ buffer' \in [Cells -> Nat \cup {Junk}]
        /\ writePos' \in Nat /\ readPos' \in Nat
        /\ writePos' - readPos' = n
        /\ Capacity - writePos' >= BufferSize
        /\ Content'
    <2>1. CASE n = 0
      <3>1. readPos' = 0 /\ writePos' = 0 /\ buffer' = buffer
        BY <2>1 DEF OnRead
      <3> QED
        BY <3>1, <1>1, <1>4, <2>1 DEF IInv, TypeOK, Content
    <2>2. CASE n > 0 /\ Moves(writePos)
      <3>1. readPos' = 0 /\ writePos' = n /\ buffer' \in Moved(r, n)
        BY <1>3, <2>2 DEF OnRead
      <3>2. n <= r
        BY <1>2, <2>2, OverlapFact
      <3>3. buffer' = [i \in Cells |-> IF i < n THEN buffer[r + i] ELSE buffer[i]]
        BY <3>1, <3>2 DEF Moved
      <3>4. \A i \in Cells : i < n => r + i \in Cells
        BY <1>1, <1>3 DEF Cells
      <3>5. buffer' \in [Cells -> Nat \cup {Junk}]
        BY <3>3, <3>4 DEF IInv, TypeOK
      <3>6. Content'
        <4> SUFFICES ASSUME NEW i \in 0 .. n - 1
                     PROVE  buffer'[i] = received - (n - i)
          BY <3>1, <1>4 DEF Content
        <4>1. i \in Cells /\ i < n
          BY <1>1, <1>3 DEF Cells
        <4>2. buffer'[i] = buffer[r + i]
          BY <3>3, <4>1
        <4>3. buffer[r + i] = received - (writePos - (r + i))
          BY <1>1, <1>3, <1>6
        <4> QED
          BY <1>1, <1>3, <4>2, <4>3
      <3> QED
        BY <3>1, <3>5, <3>6, <1>1, <1>3
    <2>3. CASE n > 0 /\ ~Moves(writePos)
      <3>1. readPos' = r /\ writePos' = writePos /\ buffer' = buffer
        BY <1>3, <2>3 DEF OnRead
      <3>2. Content'
        BY <3>1, <1>4, <1>6 DEF Content
      <3> QED
        BY <3>1, <3>2, <1>1, <1>3, <2>3 DEF IInv, TypeOK, Moves
    <2> QED
      BY <1>3, <2>1, <2>2, <2>3
  <1>9. TypeOK'
    <2>1. packets' \in Seq(Packet) /\ delivered' \in Seq(Packet) /\ total' \in Nat
      BY <1>4 DEF IInv, TypeOK
    <2>2. received' \in 0 .. total'
      BY <1>1, <1>4
    <2> DEFINE w == writePos'
               q == readPos'
    <2>0. w \in Nat /\ q \in Nat /\ w - q = n /\ Capacity - w >= BufferSize
      BY <1>8
    <2> HIDE DEF w, q, n
    <2>3. w \in 0 .. Capacity /\ q \in 0 .. w
      BY <1>1, <1>3, <2>0
    <2>4. 0 \in 0 .. w - q
      BY <1>3, <2>0
    <2> QED
      BY <2>1, <2>2, <2>3, <2>4, <1>4, <1>8 DEF TypeOK, w, q
  <1>10. Progress'
    <2>1. End(Len(delivered))' = End(Len(delivered))
      BY <1>4 DEF End
    <2>2. writePos' - readPos' = n
      BY <1>8
    <2>3. End(Len(delivered))' = received' - (writePos' - readPos') + processLen'
      <3> HIDE DEF n
      <3>1. received' = received /\ processLen' = 0
        BY <1>4
      <3>2. received - n + 0 = received - n
        BY <1>1, <1>3
      <3> QED
        BY <2>1, <2>2, <3>1, <3>2, <1>5
    <2> QED
      BY <2>3, <1>4 DEF IInv, Progress
  <1>11. Room'
    BY <1>3, <1>4, <1>8 DEF Room, FreeSize
  <1> QED
    BY <1>7, <1>8, <1>9, <1>10, <1>11 DEF IInv

(* IInv holds in every reachable state. *)
THEOREM Inductive == Spec => []IInv
  <1>1. Init => IInv
    BY InitInv
  <1>2. IInv /\ [Next]_vars => IInv'
    <2> SUFFICES ASSUME IInv, [Next]_vars PROVE IInv'
      OBVIOUS
    <2>1. ASSUME NEW n \in PacketSizes, PeerSend(n) PROVE IInv'
      BY <2>1, PeerSendInv
    <2>2. CASE Arrive
      BY <2>2, ProcessRecvInv DEF Arrive
    <2>3. CASE Parse
      BY <2>3, OnRecvPacketInv DEF Parse
    <2>4. CASE OnRead
      BY <2>4, OnReadInv
    <2>5. CASE UNCHANGED vars
      BY <2>5 DEF vars, peer, IInv, TypeOK, Chain, Content, Progress, Room, End, FreeSize
    <2> QED
      BY <2>1, <2>2, <2>3, <2>4, <2>5 DEF Next, Quiet
  <1> QED
    BY <1>1, <1>2, PTL DEF Spec

(* The cursors stay in the buffer and processLen in the data. *)
THEOREM TypeCorrect == Spec => []TypeOK
  <1>1. IInv => TypeOK
    BY DEF IInv
  <1> QED
    BY <1>1, Inductive, PTL

(* The packets of the peer are delivered in order, each once and whole. *)
THEOREM InOrder == Spec => []DeliveredInOrder
  <1>1. IInv => DeliveredInOrder
    <2> SUFFICES ASSUME IInv, NEW k \in DOMAIN delivered
                 PROVE  delivered[k].at + delivered[k].size <= received
      BY DEF IInv, Progress, DeliveredInOrder
    <2> DEFINE d == Len(delivered)
    <2>1. /\ d \in Nat /\ Len(packets) \in Nat /\ d <= Len(packets)
          /\ DOMAIN delivered = 1 .. d /\ DOMAIN packets = 1 .. Len(packets)
          /\ readPos \in Nat /\ writePos \in Nat /\ processLen \in Nat /\ received \in Nat
          /\ processLen <= writePos - readPos
      BY CapacityFact DEF IInv, TypeOK, Progress
    <2>2. delivered[k] = packets[k] /\ k \in 1 .. d /\ d \in DOMAIN packets
      BY <2>1 DEF IInv, Progress
    <2>3. \A j \in DOMAIN packets : packets[j].at \in Nat /\ packets[j].size \in Nat
      <3>1. \A j \in DOMAIN packets : packets[j] \in Packet
        BY <2>1 DEF IInv, TypeOK
      <3> QED
        BY <3>1, PacketFact
    <2>4. End(d) <= received
      BY <2>1, <2>2, <2>3 DEF IInv, Progress, End
    <2>5. packets[d].at + packets[d].size <= received
      BY <2>1, <2>2, <2>4 DEF End
    <2>6. CASE k = d
      BY <2>2, <2>5, <2>6
    <2>7. CASE k < d
      <3>1. packets[k].at + packets[k].size <= packets[d].at
        BY <2>1, <2>2, <2>7 DEF IInv, Chain
      <3> QED
        BY <3>1, <2>1, <2>2, <2>3, <2>5
    <2> QED
      BY <2>1, <2>2, <2>6, <2>7
  <1> QED
    BY <1>1, Inductive, PTL

(* There is room for a packet of any size whenever a receive is registered. *)
THEOREM AlwaysRoom == Spec => []RoomToReceive
  <1>1. IInv => RoomToReceive
    BY DEF IInv, Room, RoomToReceive
  <1> QED
    BY <1>1, Inductive, PTL

(* The memcpy of Clean is never undefined. *)
THEOREM CleanDefined == Spec => []NoOverlap
  <1>1. IInv => NoOverlap
    BY OverlapFact DEF NoOverlap
  <1> QED
    BY <1>1, Inductive, PTL
=============================================================================
