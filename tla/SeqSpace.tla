------------------------------- MODULE SeqSpace --------------------------------
(***************************************************************************)
(* The receiving side of a connection (conn.go, updateRecvAck; reorder.go) *)
(* where its 32-bit sequence numbers wrap.  Packets are counted without    *)
(* end; the receiver knows only their numbers modulo SeqWrap.  Conn models *)
(* everything else about a connection, away from the wrap.                 *)
(***************************************************************************)
EXTENDS Integers, Sequences

CONSTANTS
  SeqWrap,             \* 2^32 in the code
  Mask,                \* bits of the acknowledgement mask; 32 in the code
  Ahead,               \* maxBuffered; 512 in the code
  MaxPackets, MaxOld   \* bounds: packets sent; how far back one may still arrive

\* Half of the numbers are ahead of any, half behind.
ASSUME SeqAssumption ==
  /\ SeqWrap \in Nat /\ SeqWrap > 1
  /\ Mask \in Nat /\ Ahead \in Nat /\ MaxPackets \in Nat /\ MaxOld \in Nat
  /\ 2 * (Ahead + 1) <= SeqWrap /\ 2 * (MaxOld + 1) <= SeqWrap
  /\ Ahead + Mask + 1 < SeqWrap

Seqs == 0..(SeqWrap - 1)

VARIABLES
  packets, arrived,              \* packets sent; those that arrived (history)
  recvAck, recvBitmask,          \* as in Conn; bit i stands for recvAck - 1 - i
  nextExpected, buffer,          \* as in reorderBuffer; 0 where nothing is kept
  released                       \* packets delivered, in order (history)

seqVars == <<packets, arrived, recvAck, recvBitmask, nextExpected, buffer, released>>

\* The number of the n-th packet, and the arithmetic of numbers.
SeqNo(n) == n % SeqWrap
Minus(a, b) == SeqNo(a - b)

seqLT(a, b) == Minus(a, b) >= SeqWrap \div 2    \* int32(a-b) < 0

SeqInit ==
  /\ packets = 0 /\ arrived = {}
  /\ recvAck = 0 /\ recvBitmask = {}
  /\ nextExpected = 1 /\ buffer = [s \in Seqs |-> 0]
  /\ released = <<>>

\* Bound: nothing goes out that the receiver would drop as too far ahead.
SendNext ==
  /\ packets < MaxPackets /\ packets - Len(released) <= Ahead
  /\ packets' = packets + 1
  /\ UNCHANGED <<arrived, recvAck, recvBitmask, nextExpected, buffer, released>>

\* The mask after a jump of d, and after a packet d behind.
Jumped(d) == IF d > Mask THEN {} ELSE ({i + d : i \in recvBitmask} \cup {d - 1}) \cap 0..(Mask - 1)
Behind(d) == recvBitmask \cup ({d - 1} \cap 0..(Mask - 1))

\* Mutant: a packet behind is taken for the newest.
UpdateAlways(s) == recvAck' = s /\ recvBitmask' = Jumped(Minus(s, recvAck))

UpdateRecvAck(s) ==
  \/ /\ seqLT(recvAck, s)
     /\ recvAck' = s /\ recvBitmask' = Jumped(Minus(s, recvAck))
  \/ /\ ~seqLT(recvAck, s)
     /\ recvBitmask' = IF s < recvAck THEN Behind(Minus(recvAck, s)) ELSE recvBitmask
     /\ UNCHANGED recvAck

\* The run of buffered packets from the number s on.
Run(b, s) == CHOOSE k \in 0..Ahead :
  /\ \A i \in 0..(k - 1) : b[SeqNo(s + i)] # 0
  /\ b[SeqNo(s + k)] = 0

\* Mutant: a plain comparison, as updateRecvAck has for older packets.
OldPlain(s) == s < nextExpected

Old(s) == seqLT(s, nextExpected)

Insert(s, n) ==
  \/ /\ Old(s) \/ Minus(s, nextExpected) > Ahead
     /\ UNCHANGED <<nextExpected, buffer, released>>
  \/ /\ s = nextExpected
     /\ LET k == Run(buffer, SeqNo(s + 1))
            run == {SeqNo(s + i) : i \in 1..k}
        IN  /\ nextExpected' = SeqNo(s + k + 1)
            /\ buffer' = [q \in Seqs |-> IF q \in run THEN 0 ELSE buffer[q]]
            /\ released' = released \o <<n>> \o [i \in 1..k |-> buffer[SeqNo(s + i)]]
  \/ /\ ~Old(s) /\ s # nextExpected /\ Minus(s, nextExpected) <= Ahead
     /\ buffer' = [buffer EXCEPT ![s] = IF @ = 0 THEN n ELSE @]
     /\ UNCHANGED <<nextExpected, released>>

\* Any packet sent lately arrives, in any order and any number of times.
Arrive(n) ==
  /\ n \in 1..packets /\ packets - n <= MaxOld
  /\ arrived' = arrived \cup {n}
  /\ UpdateRecvAck(SeqNo(n))
  /\ Insert(SeqNo(n), n)
  /\ UNCHANGED packets

SeqNext == SendNext \/ \E n \in 1..MaxPackets : Arrive(n)

SeqSpec == SeqInit /\ [][SeqNext]_seqVars
-----------------------------------------------------------------------------
SeqTypeOK ==
  /\ packets \in 0..MaxPackets /\ arrived \subseteq 1..packets
  /\ recvAck \in Seqs /\ recvBitmask \subseteq 0..(Mask - 1)
  /\ nextExpected \in Seqs /\ buffer \in [Seqs -> 0..MaxPackets]
  /\ released \in Seq(1..MaxPackets)

\* How many times the numbers had gone round before a packet.
Turn(n) == n \div SeqWrap

Acked == {recvAck} \cup {Minus(recvAck, i + 1) : i \in recvBitmask}
Newest == CHOOSE n \in arrived \cup {0} : \A k \in arrived : k <= n

\* The acknowledgement is right across the wrap: of the packets that may still
\* be waiting for one it covers none that did not arrive, and of those the mask
\* reaches it leaves out none that did, but for one before the wrap that came
\* after one behind it.  The sender repeats that one for nothing, and the
\* receiver knows it by its number (conn.go:244-262; reorder.go:23, 62-65).
AckedAcrossWrap ==
  /\ \A n \in 1..packets : packets - n <= MaxOld /\ SeqNo(n) \in Acked => n \in arrived
  /\ \A n \in arrived :
       /\ Newest - n <= Mask
       /\ Turn(n) = Turn(Newest)
       => SeqNo(n) \in Acked

\* Across the wrap the packets are delivered in order, each once, and none that
\* arrived is lost: it is delivered or kept (reorder.go:21-55).
OrderedAcrossWrap ==
  /\ released = [i \in 1..Len(released) |-> i]
  /\ {buffer[s] : s \in Seqs} \ {0} = arrived \ 1..Len(released)

(* What those rest on: the inductive invariant *)

\* What was delivered is a prefix of what was sent; each later packet that
\* arrived is kept at its number, and nothing else is.
StreamInv ==
  LET L == Len(released) IN
  /\ L <= packets /\ packets <= L + Ahead + 1
  /\ nextExpected = SeqNo(L + 1)
  /\ \A i \in 1..L : released[i] = i /\ i \in arrived
  /\ L + 1 \notin arrived
  /\ \A s \in Seqs : buffer[s] # 0 =>
       buffer[s] \in arrived /\ buffer[s] > L /\ SeqNo(buffer[s]) = s
  /\ \A n \in arrived : n > L => buffer[SeqNo(n)] = n

\* The acknowledgement is about the newest packet; its bits are right, and none
\* is missing on that packet's side of the wrap.
AckOf(n) ==
  /\ n \in arrived \cup {0} /\ \A k \in arrived : k <= n
  /\ recvAck = SeqNo(n)
  /\ \A i \in recvBitmask : n - 1 - i \in arrived \cup {0}
  /\ \A k \in arrived : k < n /\ n - k <= Mask /\ Turn(k) = Turn(n) =>
       n - k - 1 \in recvBitmask

SeqInv == SeqTypeOK /\ StreamInv /\ \E n \in 0..packets : AckOf(n)
=============================================================================
