-------------------------------- MODULE Conn --------------------------------
(***************************************************************************)
(* The reliable UDP connection of internal/transport, seen one way: from   *)
(* the Send calls of one end (sendSeq and the retransmission queue) to the *)
(* Inbox channel of the other (recvAck, recvBitmask, the reorder buffer).  *)
(* The two directions of a Conn pair share no state except the             *)
(* acknowledgement that each packet of one direction carries for the       *)
(* other, so one direction with SendAck for "the receiver transmits some   *)
(* packet" is the whole protocol.                                          *)
(*                                                                         *)
(* Three goroutines act: the sender's (Send, SendUnreliable), the 20 ms    *)
(* ticker's (Tick) and, at each end, the reader's (HandleReceive).  The    *)
(* network loses, duplicates and reorders: a packet that was transmitted   *)
(* may be received any number of times, or never, at any later moment.     *)
(* Payloads are named by the sequence number of their packet.  Sequence    *)
(* numbers stay below MaxSeq, far from the 32-bit wrap.                    *)
(***************************************************************************)
EXTENDS Integers, Sequences, FiniteSets

CONSTANTS
  MaxSeq,       \* packets one behaviour may send (bound of the model)
  MaxAcks,      \* acknowledgements in flight at once (bound of the model)
  MaskBits,     \* width of the selective-ack bitmask; 32 in the code
  MaxBuffered,  \* reorder window; 512 in the code
  MaxRetries,   \* retransmissions before a packet is given up; 10 in the code
  InboxSize,    \* capacity of the Inbox channel; 256 or 512 in the code
  RacyReads     \* may a transmission read recvAck and recvBitmask while
                \* updateRecvAck writes them?  TRUE is the code as built

ASSUME ConnAssumption ==
  /\ MaxSeq \in Nat /\ MaxAcks \in Nat /\ MaxRetries \in Nat
  /\ MaskBits \in Nat \ {0}
  /\ MaxBuffered \in Nat
  /\ InboxSize \in Nat \ {0}
  /\ RacyReads \in BOOLEAN

VARIABLES
  sent,          \* the kind of each packet sent; sendSeq = Len(sent)
  unsent,        \* packets whose sendFunc returned an error
  pending,       \* keys of retxQueue.pending
  retries,       \* pendingPacket.retries of each packet
  expired,       \* packets the sender has given up
  acks,          \* acknowledgements in flight: [ack, bits]
  recvAck, recvBits,   \* recvAck, and the set bits of recvBitmask
  cur,           \* the packet between updateRecvAck and Insert, or 0
  stale,         \* [ack, bits] before the update that cur caused
  received,      \* every reliable packet that reached HandleReceive
  nextExpected, buffered,   \* reorderBuffer
  delivered,     \* payloads Insert returned, not yet offered to Inbox
  got,           \* reliable payloads Inbox accepted, oldest first
  inboxLen       \* occupancy of Inbox

sendVars == <<sent, unsent, pending, retries, expired>>
ackVars  == <<recvAck, recvBits, stale, received>>
bufVars  == <<nextExpected, buffered, delivered>>
outVars  == <<got, inboxLen>>
recvVars == <<cur, ackVars, bufVars, outVars>>
vars     == <<sendVars, acks, recvVars>>

Seqs == 1..MaxSeq
Bits == 0..(MaskBits - 1)
Kind == {"reliable", "unreliable"}

Reliable == {s \in DOMAIN sent : sent[s] = "reliable"}
ReaderIdle == cur = 0 /\ delivered = <<>>

Init ==
  /\ sent = <<>> /\ unsent = {} /\ pending = {} /\ expired = {}
  /\ retries = [s \in Seqs |-> 0]
  /\ acks = {}
  /\ recvAck = 0 /\ recvBits = {} /\ stale = [ack |-> 0, bits |-> {}]
  /\ cur = 0 /\ received = {}
  /\ nextExpected = 1 /\ buffered = {}
  /\ delivered = <<>> /\ got = <<>> /\ inboxLen = 0
-----------------------------------------------------------------------------
(* The sending end *)

\* Send: the sequence number is consumed before sendFunc can fail, and a
\* failed packet is not tracked.  A chaos drop is a packet the network loses.
Send ==
  /\ Len(sent) < MaxSeq
  /\ sent' = Append(sent, "reliable")
  /\ \/ pending' = pending \cup {Len(sent')} /\ UNCHANGED unsent
     \/ unsent' = unsent \cup {Len(sent')} /\ UNCHANGED pending
  /\ UNCHANGED <<retries, expired, acks, recvVars>>

SendUnreliable ==
  /\ Len(sent) < MaxSeq
  /\ sent' = Append(sent, "unreliable")
  /\ unsent' \in {unsent, unsent \cup {Len(sent')}}
  /\ UNCHANGED <<pending, retries, expired, acks, recvVars>>

\* Mutant: nothing advances the counter.
TickForever(due) == due # {} /\ UNCHANGED vars

\* Tick, under sendMu: due is the set of packets whose timer has run out.
Tick(due) ==
  LET givenUp == {s \in due : retries[s] + 1 > MaxRetries} IN
  /\ retries' = [s \in Seqs |-> IF s \in due \ givenUp THEN retries[s] + 1
                                                       ELSE retries[s]]
  /\ pending' = pending \ givenUp
  /\ expired' = expired \cup givenUp
  /\ UNCHANGED <<sent, unsent, acks, recvVars>>

\* Mutant: bit 0 names ack itself instead of ack - 1.
AckedByOffByOne(a) == {a.ack} \cup {a.ack - i : i \in a.bits}

\* What an acknowledgement confirms: retxQueue.Ack and AckBitmask.
AckedBy(a) == {a.ack} \cup {a.ack - 1 - i : i \in a.bits}

ReceiveAck(a) ==
  /\ acks' = acks \ {a}
  /\ pending' = pending \ AckedBy(a)
  /\ UNCHANGED <<sent, unsent, retries, expired, recvVars>>

LoseAck(a) == acks' = acks \ {a} /\ UNCHANGED <<sendVars, recvVars>>
-----------------------------------------------------------------------------
(* The receiving end *)

Overlap == RacyReads /\ cur # 0
ReadableAck == {recvAck} \cup (IF Overlap THEN {stale.ack} ELSE {})
ReadableBits == {recvBits} \cup (IF Overlap THEN {stale.bits} ELSE {})

\* Any Send, SendUnreliable or retransmission of the receiving end.  It reads
\* recvAck and recvBitmask in two plain loads; sendMu, which HandleReceive
\* takes before each update, lets at most one update overlap them.
SendAck ==
  /\ Cardinality(acks) < MaxAcks
  /\ \E a \in ReadableAck, b \in ReadableBits :
       acks' = acks \cup {[ack |-> a, bits |-> b]}
  /\ UNCHANGED <<sendVars, recvVars>>

\* Mutant: a jump sets the bit of the packet after the old recvAck.
UpdateRecvAckOffByOne(s) ==
  LET diff == s - recvAck IN
  \/ /\ diff > 0
     /\ recvAck' = s
     /\ recvBits' = IF diff > MaskBits THEN {}
                    ELSE ({b + diff : b \in recvBits} \cap Bits)
                           \cup ({diff - 2} \cap Bits)
  \/ /\ diff <= 0
     /\ recvBits' = recvBits \cup ({-diff - 1} \cap Bits)
     /\ UNCHANGED recvAck

UpdateRecvAck(s) ==
  LET diff == s - recvAck IN
  \/ /\ diff > 0
     /\ recvAck' = s
     /\ recvBits' = IF diff > MaskBits THEN {}
                    ELSE ({b + diff : b \in recvBits} \cap Bits) \cup {diff - 1}
  \/ /\ diff <= 0
     /\ recvBits' = recvBits \cup ({-diff - 1} \cap Bits)
     /\ UNCHANGED recvAck

\* HandleReceive of a reliable packet up to updateRecvAck.
BeginReceive(s) ==
  /\ ReaderIdle
  /\ cur' = s
  /\ UpdateRecvAck(s)
  /\ stale' = [ack |-> recvAck, bits |-> recvBits]
  /\ received' = received \cup {s}
  /\ UNCHANGED <<sendVars, acks, bufVars, outVars>>

\* Mutant: everything out of order is dropped.
DropOutOfOrder == cur # nextExpected /\ UNCHANGED bufVars

\* Mutant: no test for old packets.
FlushOld ==
  /\ cur <= nextExpected
  /\ nextExpected' = cur + 1
  /\ delivered' = <<cur>>
  /\ UNCHANGED buffered

\* Mutant: the flush loop runs before the packet itself is appended.
FlushSwapped ==
  /\ cur = nextExpected
  /\ \E n \in (cur + 1)..(MaxSeq + 1) :
       /\ (cur + 1)..(n - 1) \subseteq buffered
       /\ n \notin buffered
       /\ nextExpected' = n
       /\ buffered' = buffered \ ((cur + 1)..(n - 1))
       /\ delivered' = [i \in 1..(n - cur) |-> IF i = n - cur THEN cur ELSE cur + i]

\* Mutant: no flush loop.
FlushOne ==
  /\ cur = nextExpected
  /\ nextExpected' = cur + 1
  /\ delivered' = <<cur>>
  /\ UNCHANGED buffered

\* Mutant: no limit on how far ahead a packet may be.
BufferUnbounded ==
  /\ cur > nextExpected
  /\ buffered' = buffered \cup {cur}
  /\ UNCHANGED <<nextExpected, delivered>>

\* reorderBuffer.Insert, branch by branch.
Drop ==
  /\ \/ cur < nextExpected
     \/ cur - nextExpected > MaxBuffered
  /\ UNCHANGED bufVars

Flush ==
  /\ cur = nextExpected
  /\ \E n \in (cur + 1)..(MaxSeq + 1) :
       /\ (cur + 1)..(n - 1) \subseteq buffered
       /\ n \notin buffered
       /\ nextExpected' = n
       /\ buffered' = buffered \ ((cur + 1)..(n - 1))
       /\ delivered' = [i \in 1..(n - cur) |-> cur + i - 1]

Buffer ==
  /\ cur > nextExpected
  /\ cur - nextExpected <= MaxBuffered
  /\ buffered' = buffered \cup {cur}
  /\ UNCHANGED <<nextExpected, delivered>>

Insert ==
  /\ cur # 0
  /\ Drop \/ Flush \/ Buffer
  /\ cur' = 0
  /\ UNCHANGED <<sendVars, acks, ackVars, outVars>>

\* One round of the delivery loop: select with a default that drops.
Offer ==
  /\ delivered # <<>>
  /\ delivered' = Tail(delivered)
  /\ \/ /\ inboxLen < InboxSize
        /\ got' = Append(got, Head(delivered))
        /\ inboxLen' = inboxLen + 1
     \/ /\ inboxLen = InboxSize
        /\ UNCHANGED outVars
  /\ UNCHANGED <<sendVars, acks, cur, ackVars, nextExpected, buffered>>

\* An unreliable payload bypasses the reorder buffer.
ReceiveUnreliable ==
  /\ ReaderIdle
  /\ inboxLen < InboxSize
  /\ inboxLen' = inboxLen + 1
  /\ UNCHANGED <<sendVars, acks, cur, ackVars, bufVars, got>>

Consume ==
  /\ inboxLen > 0
  /\ inboxLen' = inboxLen - 1
  /\ UNCHANGED <<sendVars, acks, cur, ackVars, bufVars, got>>
-----------------------------------------------------------------------------
Next ==
  \/ Send
  \/ SendUnreliable
  \/ \E due \in SUBSET pending \ {{}} : Tick(due)
  \/ \E a \in acks : ReceiveAck(a)
  \/ \E a \in acks : LoseAck(a)
  \/ SendAck
  \/ \E s \in Reliable \ unsent : BeginReceive(s)
  \/ Insert
  \/ Offer
  \/ (DOMAIN sent \ unsent) \ Reliable # {} /\ ReceiveUnreliable
  \/ Consume

Spec == Init /\ [][Next]_vars

\* The ticker runs every 20 ms for as long as the connection lives, so every
\* packet that stays pending is due in some later Tick; the reader goroutine
\* finishes the HandleReceive it has begun (nothing in it blocks).
Fairness ==
  /\ \A s \in Seqs : WF_vars(\E due \in SUBSET pending : s \in due /\ Tick(due))
  /\ WF_vars(Insert)
  /\ WF_vars(Offer)

FairSpec == Spec /\ Fairness
-----------------------------------------------------------------------------
TypeOK ==
  /\ sent \in Seq(Kind) /\ Len(sent) <= MaxSeq
  /\ unsent \subseteq DOMAIN sent
  /\ pending \subseteq Reliable /\ expired \subseteq Reliable
  /\ retries \in [Seqs -> 0..MaxRetries]
  /\ acks \subseteq [ack : 0..MaxSeq, bits : SUBSET Bits]
  /\ recvAck \in 0..MaxSeq /\ recvBits \subseteq Bits
  /\ stale \in [ack : 0..MaxSeq, bits : SUBSET Bits]
  /\ cur \in Reliable \cup {0}
  /\ received \subseteq Reliable
  /\ nextExpected \in 1..(MaxSeq + 1) /\ buffered \subseteq Reliable
  /\ delivered \in Seq(Reliable)
  /\ got \in Seq(Seqs)
  /\ inboxLen \in 0..InboxSize

\* The payloads in Inbox are in sending order, none twice, and only reliable
\* packets that were transmitted: duplicates, reordering and retransmissions
\* never show above the transport (packet.go: "in-order delivery").
InOrder ==
  /\ \A i, j \in DOMAIN got : i < j => got[i] < got[j]
  /\ \A i \in DOMAIN got : got[i] \in Reliable \ unsent

\* recvAck and recvBitmask say exactly which of the last MaskBits + 1 packets
\* arrived, whatever the order of arrival and the size of the jumps.
AckRecordExact ==
  AckedBy([ack |-> recvAck, bits |-> recvBits]) \cap Seqs
    = {s \in received : recvAck - s <= MaskBits}

\* The sender stops retransmitting a packet it could transmit only when the
\* packet arrived or was given up: no acknowledgement names another packet.
NoFalseAck == Reliable \subseteq pending \cup received \cup expired \cup unsent

\* When a packet that was sent is the one the stream waits for, then it is on
\* its way (pending), about to be inserted, or lost for a reason the sender
\* was told; the stream never waits for a packet everyone believes delivered.
NoSilentStall ==
  nextExpected \in Reliable =>
    nextExpected \in pending \cup expired \cup unsent \cup {cur}

\* The stream waits only for packets that the sender retransmits: nothing is
\* held back behind a sequence number that no reliable packet carries.
GapIsReliable == buffered # {} => nextExpected \in Reliable

\* The reorder buffer holds packets of the window after nextExpected only, so
\* no peer can make it grow past MaxBuffered entries.
BufferBounded ==
  /\ buffered \subseteq (nextExpected + 1)..(nextExpected + MaxBuffered)
  /\ Cardinality(buffered) <= MaxBuffered

\* The direction implements the ordered stream of OrderedStream.
Stream == INSTANCE OrderedStream
StreamSpec == Stream!Spec

\* Every tracked packet is eventually acknowledged or given up.
PendingDrains == \A s \in Seqs : s \in pending ~> s \notin pending

\* Once every packet up to s has arrived, s is offered to Inbox: the in-order
\* arrival releases everything that was buffered behind it.
FilledGapDelivers ==
  \A s \in Seqs :
    1..s \subseteq received ~>
      nextExpected > s /\ \A i \in DOMAIN delivered : delivered[i] # s
-----------------------------------------------------------------------------
(* The inductive invariant behind the safety properties above, in parts. *)

\* Everything the receiving end holds arrived, and was transmitted.
ArrivedInv ==
  /\ received \cap unsent = {}
  /\ cur \in received \cup {0}
  /\ buffered \subseteq received
  /\ \A i \in DOMAIN delivered : delivered[i] \in received
  /\ \A i \in DOMAIN got : got[i] \in received

\* delivered is the run of numbers that ends just before nextExpected, and
\* what Inbox has accepted lies before that run.
OrderInv ==
  /\ cur # 0 => delivered = <<>>
  /\ \A i \in DOMAIN delivered :
       delivered[i] = nextExpected - 1 - Len(delivered) + i
  /\ \A i \in DOMAIN got : got[i] + Len(delivered) < nextExpected
  /\ \A i, j \in DOMAIN got : i < j => got[i] < got[j]

WindowInv == buffered \subseteq (nextExpected + 1)..(nextExpected + MaxBuffered)

\* recvAck is the highest number that arrived; bit i stands for
\* recvAck - 1 - i, in both directions.
RecordInv ==
  /\ recvAck \in received \cup {0}
  /\ \A s \in received : s <= recvAck
  /\ \A s \in Seqs :
       s < recvAck /\ recvAck - s <= MaskBits =>
         (s \in received <=> recvAck - 1 - s \in recvBits)

\* Acknowledgements in flight claim only what arrived (no racy read).
AcksInv == ~RacyReads => \A a \in acks : AckedBy(a) \cap Seqs \subseteq received
FalseAckInv == ~RacyReads => NoFalseAck

\* With a window no shorter than the numbers in use, nothing that arrived is
\* dropped: it is released, buffered, or the packet being handled.
KeptInv ==
  MaxBuffered >= MaxSeq =>
    received \subseteq 1..(nextExpected - 1) \cup buffered \cup {cur}

IInv ==
  /\ TypeOK /\ ArrivedInv /\ OrderInv /\ WindowInv
  /\ RecordInv /\ AcksInv /\ FalseAckInv /\ KeptInv
=============================================================================
