----------------------------- MODULE RecvStream -----------------------------
(***************************************************************************)
(* The receive side of a PacketSession of ServerCore: the bytes of the     *)
(* peer arrive in RecvBuffer in pieces of any length, OnRecv cuts packets  *)
(* out of them, and Clean keeps room for the next receive.  One thread is  *)
(* at work on it at a time (SessionLife!OneReceive).                       *)
(*                                                                         *)
(* A byte is its place in the stream of the peer, 0 first.  A packet is    *)
(* where it starts and the size its header says, at least HeaderSize and   *)
(* less than BufferSize: size is a uint16 and BUFFER_SIZE is 2^16.         *)
(***************************************************************************)
EXTENDS Integers, Sequences

CONSTANTS BufferSize,   \* BUFFER_SIZE of Session
          BufferCount,  \* BUFFER_COUNT of RecvBuffer
          HeaderSize,   \* sizeof(PacketHeader)
          MaxPackets    \* bound on the packets the peer sends

ASSUME BufferAssumption == BufferSize \in Nat /\ BufferCount \in Nat /\ BufferCount >= 3
ASSUME HeaderAssumption == HeaderSize \in Nat \ {0} /\ HeaderSize < BufferSize
ASSUME MaxPacketsAssumption == MaxPackets \in Nat

VARIABLES packets,     \* what the peer has sent
          total,       \* the bytes of it
          received,    \* the bytes of it that have arrived
          buffer,      \* _buffer
          readPos,     \* _readPos
          writePos,    \* _writePos
          processLen,  \* processLen of OnRecv
          delivered,   \* the packets OnRecvPacket has been called with
          pc           \* "recv" while a receive is registered, "parse" in
                       \* OnRecv, "closed" once disconnected

vars == <<packets, total, received, buffer, readPos, writePos, processLen, delivered, pc>>
peer == <<packets, total>>

Capacity == BufferSize * BufferCount
Cells == 0 .. Capacity - 1

(* A cell that holds nothing, or nothing in particular. *)
Junk == -1

PacketSizes == HeaderSize .. BufferSize - 1

DataSize == writePos - readPos
FreeSize == Capacity - writePos

Init == /\ packets = <<>> /\ total = 0 /\ received = 0
        /\ buffer = [i \in Cells |-> Junk]
        /\ readPos = 0 /\ writePos = 0
        /\ processLen = 0
        /\ delivered = <<>>
        /\ pc = "recv"

-----------------------------------------------------------------------------
(* The peer sends a packet. *)
PeerSend(n) ==
    /\ Len(packets) < MaxPackets
    /\ packets' = Append(packets, [at |-> total, size |-> n])
    /\ total' = total + n
    /\ UNCHANGED <<received, buffer, readPos, writePos, processLen, delivered, pc>>

(* ProcessRecv of n bytes, which the system has put at WritePos, up to     *)
(* OnRecv.  A receive brings some bytes, and never more than the FreeSize  *)
(* it was given; into no room it brings none, which ProcessRecv takes for  *)
(* the end of the connection.                                              *)
ProcessRecv(n) ==
    /\ pc = "recv"
    /\ received + n <= total /\ n <= FreeSize
    /\ n = 0 => FreeSize = 0
    /\ buffer' = [i \in Cells |-> IF i \in writePos .. writePos + n - 1
                                  THEN received + (i - writePos) ELSE buffer[i]]
    /\ received' = received + n
    /\ writePos' = writePos + n
    /\ pc' = IF n = 0 THEN "closed" ELSE "parse"
    /\ UNCHANGED <<peer, readPos, processLen, delivered>>

(* What the bytes at cell i may say as a header: the size of the packet    *)
(* that starts with that byte, anything if they are no header.             *)
HeaderAt(i) ==
    {n \in 0 .. BufferSize - 1 :
        (\E k \in DOMAIN packets : packets[k].at = buffer[i]) =>
            \E k \in DOMAIN packets : packets[k] = [at |-> buffer[i], size |-> n]}

(* Fault: a header with nothing behind it does not count. *)
HasHeaderStrict == HeaderSize < DataSize - processLen

(* Is there a header at least? *)
HasHeader == HeaderSize <= DataSize - processLen

(* A round of the loop in OnRecv that finds a whole packet of n bytes. *)
OnRecvPacket(n) ==
    /\ pc = "parse" /\ HasHeader
    /\ n \in HeaderAt(readPos + processLen)
    /\ n <= DataSize - processLen
    /\ delivered' = Append(delivered, [at |-> buffer[readPos + processLen], size |-> n])
    /\ processLen' = processLen + n
    /\ UNCHANGED <<peer, received, buffer, readPos, writePos, pc>>

(* The loop ends: no header is left, or a header whose packet is not whole. *)
LoopEnds ==
    /\ pc = "parse"
    /\ HasHeader => \E n \in HeaderAt(readPos + processLen) : DataSize - processLen < n

(* Fault: data that is left over always moves to the front. *)
MovesAlways(w) == TRUE

(* Fault: it moves only when there is no room at all. *)
MovesWhenFull(w) == w = Capacity

(* The condition of Clean for moving the data to the front. *)
Moves(w) == Capacity - w < BufferSize

(* What _buffer may be after n bytes have moved from r to the front: a     *)
(* memcpy between areas that overlap is undefined, and may go wrong.       *)
Moved(r, n) ==
    LET copy == [i \in Cells |-> IF i < n THEN buffer[r + i] ELSE buffer[i]]
        junk == [i \in Cells |-> IF i < n THEN Junk ELSE buffer[i]]
    IN  IF n <= r THEN {copy} ELSE {copy, junk}

(* The end of ProcessRecv: OnRead, Clean and RegisterRecv; a processLen    *)
(* beyond the data disconnects.                                            *)
OnRead ==
    LET r == readPos + processLen
        n == writePos - r
    IN  /\ LoopEnds
        /\ buffer' \in IF n > 0 /\ Moves(writePos) THEN Moved(r, n) ELSE {buffer}
        /\ readPos' = IF n = 0 \/ Moves(writePos) THEN 0 ELSE r
        /\ writePos' = IF n = 0 THEN 0 ELSE IF Moves(writePos) THEN n ELSE writePos
        /\ processLen' = 0
        /\ pc' = IF n < 0 THEN "closed" ELSE "recv"
        /\ UNCHANGED <<peer, received, delivered>>

-----------------------------------------------------------------------------
Parse == \E n \in 0 .. BufferSize - 1 : OnRecvPacket(n)

Arrive == \E n \in 0 .. Capacity : ProcessRecv(n)

(* All has arrived that the peer will send, or the session is closed. *)
Quiet == pc # "parse" /\ UNCHANGED vars

Next == \/ \E n \in PacketSizes : PeerSend(n)
        \/ Arrive
        \/ Parse
        \/ OnRead
        \/ Quiet

Spec == Init /\ [][Next]_vars

(* The network brings what was sent, and the worker thread goes on. *)
Fairness == WF_vars(Arrive) /\ WF_vars(Parse) /\ WF_vars(OnRead)

FairSpec == Spec /\ Fairness

-----------------------------------------------------------------------------
(* Properties. *)

Packet == [at : Nat, size : PacketSizes]

(* The state has its type; the cursors stay in the buffer, and OnRecv in   *)
(* the data.                                                               *)
TypeOK ==
    /\ packets \in Seq(Packet)
    /\ total \in Nat /\ received \in 0 .. total
    /\ buffer \in [Cells -> Nat \cup {Junk}]
    /\ writePos \in 0 .. Capacity
    /\ readPos \in 0 .. writePos
    /\ processLen \in 0 .. writePos - readPos
    /\ delivered \in Seq(Packet)
    /\ pc \in {"recv", "parse", "closed"}

(* OnRecvPacket is called with the packets that the peer sent, in order,   *)
(* none twice and none left out, and with all their bytes there, however   *)
(* the network cuts the stream.                                            *)
DeliveredInOrder ==
    /\ Len(delivered) <= Len(packets)
    /\ \A k \in DOMAIN delivered :
          /\ delivered[k] = packets[k]
          /\ delivered[k].at + delivered[k].size <= received

(* A receive is always given room for a packet of any size: otherwise the  *)
(* rest of a packet could not arrive, or a receive of no bytes would end   *)
(* the session; and a peer that sends packets is never disconnected.       *)
RoomToReceive == /\ pc = "recv" => FreeSize >= BufferSize
                 /\ pc # "closed"

(* The memcpy of Clean is never asked to copy between areas that overlap.  *)
NoOverlap ==
    LET r == readPos + processLen
    IN  LoopEnds /\ r < writePos /\ Moves(writePos) => writePos - r <= r

(* Every packet that is sent is delivered. *)
AllDelivered ==
    \A k \in 1 .. MaxPackets : Len(packets) >= k ~> Len(delivered) >= k
=============================================================================
