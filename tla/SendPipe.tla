------------------------------ MODULE SendPipe ------------------------------
(***************************************************************************)
(* What the send path of a session promises whoever calls Send: the peer   *)
(* gets the buffers in the order they were queued, each at most once, in   *)
(* batches of everything queued so far; a send that fails drops its batch  *)
(* and nothing else.                                                       *)
(***************************************************************************)
EXTENDS Naturals, Sequences

VARIABLES submitted, \* number of buffers queued so far; they are 1, 2, ...
          pending,   \* the buffers queued and neither delivered nor dropped
          wire       \* the buffers the peer gets, in order

pipeVars == <<submitted, pending, wire>>

Init == submitted = 0 /\ pending = <<>> /\ wire = <<>>

Submit == /\ submitted' = submitted + 1
          /\ pending' = Append(pending, submitted + 1)
          /\ UNCHANGED wire

(* The first n pending buffers reach the peer, or are dropped, at once. *)
Transmit == \E n \in 1 .. Len(pending) :
               /\ wire' = wire \o SubSeq(pending, 1, n)
               /\ pending' = SubSeq(pending, n + 1, Len(pending))
               /\ UNCHANGED submitted

Drop == \E n \in 1 .. Len(pending) :
           /\ pending' = SubSeq(pending, n + 1, Len(pending))
           /\ UNCHANGED <<submitted, wire>>

Next == Submit \/ Transmit \/ Drop

Spec == Init /\ [][Next]_pipeVars
=============================================================================
