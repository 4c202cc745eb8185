----------------------------- MODULE ConnProofs -----------------------------
(***************************************************************************)
(* Proofs about Conn, for every number of packets and every size of        *)
(* window, mask, queue and channel.                                        *)
(***************************************************************************)
EXTENDS Conn, TLAPS, FiniteSetTheorems

-----------------------------------------------------------------------------
(* Lemmas about the operators *)

\* Appending a packet keeps the kinds of the packets before it.
LEMMA AppendSent ==
  ASSUME NEW k \in Kind, sent \in Seq(Kind), sent' = Append(sent, k)
  PROVE  /\ sent' \in Seq(Kind)
         /\ Len(sent') = Len(sent) + 1
         /\ DOMAIN sent' = DOMAIN sent \cup {Len(sent')}
         /\ Len(sent') \notin DOMAIN sent
         /\ Reliable \subseteq Reliable'
         /\ Reliable' \subseteq Reliable \cup {Len(sent')}
         /\ k = "reliable" => Reliable' = Reliable \cup {Len(sent')}
         /\ k = "unreliable" => Reliable' = Reliable
  BY DEF Reliable

\* The elements of a sequence without its head: what Offer leaves to be offered.
LEMMA TailElements ==
  ASSUME NEW S, NEW q \in Seq(S), q # <<>>
  PROVE  /\ Tail(q) \in Seq(S)
         /\ Len(q) \in Nat \ {0} /\ DOMAIN q = 1..Len(q)
         /\ Len(Tail(q)) = Len(q) - 1 /\ DOMAIN Tail(q) = 1..(Len(q) - 1)
         /\ Head(q) = q[1] /\ Head(q) \in S
         /\ \A i \in 1..(Len(q) - 1) : Tail(q)[i] = q[i + 1]
  OBVIOUS

\* The elements of a sequence with one more: what Send and Offer append.
LEMMA AppendElements ==
  ASSUME NEW S, NEW q \in Seq(S), NEW e \in S
  PROVE  /\ Append(q, e) \in Seq(S)
         /\ Len(q) \in Nat /\ DOMAIN q = 1..Len(q)
         /\ Len(Append(q, e)) = Len(q) + 1
         /\ DOMAIN Append(q, e) = 1..(Len(q) + 1)
         /\ \A i \in 1..Len(q) : Append(q, e)[i] = q[i]
         /\ Append(q, e)[Len(q) + 1] = e
  OBVIOUS

-----------------------------------------------------------------------------
(* Type correctness *)

\* A new connection (NewConn) has the types of TypeOK.
LEMMA TypeInit == Init => TypeOK
  BY ConnAssumption DEF Init, TypeOK, ConnAssumption, Seqs, Bits, Kind, Reliable

\* Every step of a connection keeps the types.
LEMMA TypeStep == TypeOK /\ [Next]_vars => TypeOK'
<1> SUFFICES ASSUME TypeOK, [Next]_vars PROVE TypeOK'
  OBVIOUS
<1> USE ConnAssumption DEF ConnAssumption
<1>1. CASE Send
  <2>1. "reliable" \in Kind /\ sent' = Append(sent, "reliable") /\ Len(sent) < MaxSeq
    BY <1>1 DEF Send, Kind
  <2>2. /\ sent' \in Seq(Kind) /\ Len(sent') = Len(sent) + 1
        /\ DOMAIN sent' = DOMAIN sent \cup {Len(sent')}
        /\ Reliable' = Reliable \cup {Len(sent')}
    BY <2>1, AppendSent DEF TypeOK
  <2>3. Seq(Reliable) \subseteq Seq(Reliable')
    BY <2>2
  <2> QED
    BY <1>1, <2>1, <2>2, <2>3
       DEF Send, TypeOK, recvVars, ackVars, bufVars, outVars
<1>2. CASE SendUnreliable
  <2>1. "unreliable" \in Kind /\ sent' = Append(sent, "unreliable") /\ Len(sent) < MaxSeq
    BY <1>2 DEF SendUnreliable, Kind
  <2>2. /\ sent' \in Seq(Kind) /\ Len(sent') = Len(sent) + 1
        /\ DOMAIN sent' = DOMAIN sent \cup {Len(sent')}
        /\ Reliable' = Reliable
    BY <2>1, AppendSent DEF TypeOK
  <2> QED
    BY <1>2, <2>1, <2>2
       DEF SendUnreliable, TypeOK, recvVars, ackVars, bufVars, outVars
<1>3. ASSUME NEW due \in SUBSET pending, Tick(due) PROVE TypeOK'
  <2>1. Reliable' = Reliable
    BY <1>3 DEF Tick, Reliable
  <2>2. retries' \in [Seqs -> 0..MaxRetries]
    BY <1>3 DEF Tick, TypeOK
  <2> QED
    BY <1>3, <2>1, <2>2 DEF Tick, TypeOK, recvVars, ackVars, bufVars, outVars
<1>4. ASSUME NEW a \in acks, ReceiveAck(a) PROVE TypeOK'
  BY <1>4 DEF ReceiveAck, TypeOK, Reliable, recvVars, ackVars, bufVars, outVars
<1>5. ASSUME NEW a \in acks, LoseAck(a) PROVE TypeOK'
  BY <1>5 DEF LoseAck, TypeOK, Reliable, sendVars, recvVars, ackVars, bufVars, outVars
<1>6. CASE SendAck
  <2>1. ReadableAck \subseteq 0..MaxSeq /\ ReadableBits \subseteq SUBSET Bits
    BY DEF ReadableAck, ReadableBits, TypeOK
  <2> QED
    BY <1>6, <2>1 DEF SendAck, TypeOK, Reliable, sendVars, recvVars, ackVars, bufVars, outVars
<1>7. ASSUME NEW s \in Reliable \ unsent, BeginReceive(s) PROVE TypeOK'
  <2>1. s \in 1..MaxSeq
    BY DEF TypeOK, Reliable
  <2>2. recvAck' \in 0..MaxSeq /\ recvBits' \subseteq Bits
    <3> DEFINE diff == s - recvAck
    <3>1. diff \in Int /\ recvBits \subseteq Bits /\ recvAck \in 0..MaxSeq
      BY <2>1 DEF TypeOK
    <3>2. CASE diff > 0
      <4>1. recvAck' = s /\ recvBits' = IF diff > MaskBits THEN {}
              ELSE ({b + diff : b \in recvBits} \cap Bits) \cup {diff - 1}
        BY <1>7, <3>1, <3>2 DEF BeginReceive, UpdateRecvAck
      <4>2. diff <= MaskBits => diff - 1 \in Bits
        BY <3>1, <3>2 DEF Bits
      <4> HIDE DEF diff
      <4> QED
        BY <2>1, <3>1, <4>1, <4>2
    <3>3. CASE diff <= 0
      <4>1. recvAck' = recvAck /\ recvBits' = recvBits \cup ({-diff - 1} \cap Bits)
        BY <1>7, <3>1, <3>3 DEF BeginReceive, UpdateRecvAck
      <4> QED
        BY <3>1, <4>1
    <3> QED
      BY <3>1, <3>2, <3>3
  <2>3. Reliable' = Reliable
    BY <1>7 DEF BeginReceive, sendVars, Reliable
  <2> QED
    BY <1>7, <2>1, <2>2, <2>3 DEF BeginReceive, TypeOK, sendVars, bufVars, outVars
<1>8. CASE Insert
  <2>1. Reliable' = Reliable
    BY <1>8 DEF Insert, sendVars, Reliable
  <2>2. /\ nextExpected' \in 1..(MaxSeq + 1) /\ buffered' \subseteq Reliable
        /\ delivered' \in Seq(Reliable)
    <3>1. CASE Drop
      BY <3>1 DEF Drop, bufVars, TypeOK
    <3>2. CASE Flush
      <4>1. PICK n \in (cur + 1)..(MaxSeq + 1) :
              /\ (cur + 1)..(n - 1) \subseteq buffered
              /\ nextExpected' = n
              /\ buffered' = buffered \ ((cur + 1)..(n - 1))
              /\ delivered' = [i \in 1..(n - cur) |-> cur + i - 1]
        BY <3>2 DEF Flush
      <4>2. cur \in Reliable /\ cur \in 1..MaxSeq
        BY <1>8 DEF Insert, TypeOK, Reliable
      <4>3. \A i \in 1..(n - cur) : cur + i - 1 = cur \/ cur + i - 1 \in buffered
        BY <4>1, <4>2
      <4> QED
        <5>1. n - cur \in Nat /\ nextExpected' \in 1..(MaxSeq + 1)
          BY <4>1, <4>2
        <5>2. \A i \in 1..(n - cur) : delivered'[i] \in Reliable
          BY <4>1, <4>2, <4>3 DEF TypeOK
        <5>3. delivered' \in [1..(n - cur) -> Reliable]
          BY <4>1, <5>2
        <5>4. delivered' \in Seq(Reliable)
          BY <5>1, <5>3
        <5> QED
          BY <4>1, <5>1, <5>4 DEF TypeOK
    <3>3. CASE Buffer
      BY <1>8, <3>3 DEF Buffer, Insert, TypeOK
    <3> QED
      BY <1>8, <3>1, <3>2, <3>3 DEF Insert
  <2> QED
    BY <1>8, <2>1, <2>2 DEF Insert, TypeOK, sendVars, ackVars, outVars
<1>9. CASE Offer
  <2>1. Reliable' = Reliable
    BY <1>9 DEF Offer, sendVars, Reliable
  <2>2. delivered' \in Seq(Reliable)
    BY <1>9 DEF Offer, TypeOK
  <2>3. Head(delivered) \in Reliable /\ Reliable \subseteq Seqs
    BY <1>9 DEF Offer, TypeOK, Seqs, Reliable
  <2>4. got' \in Seq(Seqs) /\ inboxLen' \in 0..InboxSize
    <3>1. got \in Seq(Seqs) /\ inboxLen \in 0..InboxSize
      BY DEF TypeOK
    <3>2. CASE inboxLen < InboxSize /\ got' = Append(got, Head(delivered))
                 /\ inboxLen' = inboxLen + 1
      BY <2>3, <3>1, <3>2
    <3>3. CASE UNCHANGED outVars
      BY <3>1, <3>3 DEF outVars
    <3> QED
      BY <1>9, <3>2, <3>3 DEF Offer
  <2> QED
    BY <1>9, <2>1, <2>2, <2>4 DEF Offer, TypeOK, sendVars, ackVars
<1>10. CASE ReceiveUnreliable
  BY <1>10 DEF ReceiveUnreliable, TypeOK, Reliable, sendVars, ackVars, bufVars
<1>11. CASE Consume
  BY <1>11 DEF Consume, TypeOK, Reliable, sendVars, ackVars, bufVars
<1>12. CASE UNCHANGED vars
  BY <1>12 DEF vars, sendVars, recvVars, ackVars, bufVars, outVars, TypeOK, Reliable
<1> QED
  BY <1>1, <1>2, <1>3, <1>4, <1>5, <1>6, <1>7, <1>8, <1>9, <1>10, <1>11, <1>12 DEF Next

\* The variables of a connection keep their types: numbers stay in the model's
\* sequence space, Inbox holds at most InboxSize, no packet is retried more than
\* MaxRetries times (CollectRetransmissions).
THEOREM TypeCorrect == Spec => []TypeOK
  BY TypeInit, TypeStep, PTL DEF Spec
-----------------------------------------------------------------------------
(* The invariant, part by part.  Each lemma assumes the whole invariant in  *)
(* the state before the step and its own part only after it.                *)

\* A new connection satisfies the inductive invariant.
LEMMA InvInit == Init => IInv
<1> SUFFICES ASSUME Init PROVE IInv
  OBVIOUS
<1>1. TypeOK
  BY TypeInit
<1>2. ArrivedInv /\ OrderInv /\ WindowInv
  BY DEF Init, ArrivedInv, OrderInv, WindowInv
<1>3. RecordInv
  BY ConnAssumption DEF Init, RecordInv, Seqs, ConnAssumption
<1>4. AcksInv /\ FalseAckInv /\ KeptInv
  BY DEF Init, AcksInv, FalseAckInv, NoFalseAck, KeptInv, Reliable
<1> QED
  BY <1>1, <1>2, <1>3, <1>4 DEF IInv

\* What Insert does to the reorder buffer, for the lemmas below.
LEMMA FlushStep ==
  ASSUME IInv, cur # 0, Flush
  PROVE  \E n \in Nat :
           /\ n > cur /\ cur = nextExpected /\ nextExpected' = n
           /\ n \notin buffered
           /\ (cur + 1)..(n - 1) \subseteq buffered
           /\ buffered' = buffered \ ((cur + 1)..(n - 1))
           /\ Len(delivered') = n - cur
           /\ DOMAIN delivered' = 1..(n - cur)
           /\ \A i \in DOMAIN delivered' : delivered'[i] = cur + i - 1
<1>1. cur \in Nat /\ MaxSeq \in Nat
  BY ConnAssumption DEF IInv, TypeOK, Reliable, ConnAssumption
<1>2. PICK n \in (cur + 1)..(MaxSeq + 1) :
        /\ (cur + 1)..(n - 1) \subseteq buffered
        /\ n \notin buffered
        /\ nextExpected' = n
        /\ buffered' = buffered \ ((cur + 1)..(n - 1))
        /\ delivered' = [i \in 1..(n - cur) |-> cur + i - 1]
  BY DEF Flush
<1>3. n \in Nat /\ n > cur /\ n - cur \in Nat
  BY <1>1, <1>2
<1>4. cur = nextExpected
  BY DEF Flush
<1>5. Len(delivered') = n - cur
  BY <1>2, <1>3
<1> QED
  BY <1>2, <1>3, <1>4, <1>5

\* Every step keeps ArrivedInv: what the receiver holds did arrive.
LEMMA ArrivedStep == IInv /\ [Next]_vars => ArrivedInv'
<1> SUFFICES ASSUME IInv, [Next]_vars PROVE ArrivedInv'
  OBVIOUS
<1> USE DEF IInv
<1>0. received \subseteq DOMAIN sent /\ sent \in Seq(Kind) /\ got \in Seq(Seqs)
  BY DEF TypeOK, Reliable
<1>1. CASE Send \/ SendUnreliable
  <2>1. Len(sent') = Len(sent) + 1 /\ unsent' \subseteq unsent \cup {Len(sent')}
    BY <1>0, <1>1 DEF Send, SendUnreliable, Kind
  <2>2. Len(sent') \notin received
    BY <1>0, <2>1
  <2> QED
    BY <1>1, <2>1, <2>2
       DEF Send, SendUnreliable, ArrivedInv, recvVars, ackVars, bufVars, outVars
<1>2. CASE \/ \E due \in SUBSET pending : Tick(due)
           \/ \E a \in acks : ReceiveAck(a) \/ LoseAck(a)
           \/ SendAck \/ ReceiveUnreliable \/ Consume \/ UNCHANGED vars
  BY <1>2 DEF Tick, ReceiveAck, LoseAck, SendAck, ReceiveUnreliable, Consume, vars,
              ArrivedInv, sendVars, recvVars, ackVars, bufVars, outVars
<1>3. ASSUME NEW s \in Reliable \ unsent, BeginReceive(s) PROVE ArrivedInv'
  BY <1>3 DEF BeginReceive, ArrivedInv, sendVars, bufVars, outVars
<1>4. CASE Insert
  <2>1. ASSUME Drop \/ Buffer PROVE ArrivedInv'
    BY <1>4, <2>1 DEF Insert, Drop, Buffer, ArrivedInv, sendVars, ackVars, bufVars, outVars
  <2>2. ASSUME Flush PROVE ArrivedInv'
    <3>1. PICK n \in Nat :
           /\ n > cur
           /\ (cur + 1)..(n - 1) \subseteq buffered
           /\ buffered' = buffered \ ((cur + 1)..(n - 1))
           /\ DOMAIN delivered' = 1..(n - cur)
           /\ \A i \in DOMAIN delivered' : delivered'[i] = cur + i - 1
      BY <1>4, <2>2, FlushStep DEF Insert
    <3>2. cur \in Nat
      BY <1>4 DEF TypeOK, Reliable, Insert
    <3>3. \A i \in 1..(n - cur) : cur + i - 1 = cur \/ cur + i - 1 \in buffered
      BY <3>1, <3>2
    <3>4. received' = received /\ unsent' = unsent /\ got' = got /\ cur' = 0
      BY <1>4 DEF Insert, sendVars, ackVars, outVars
    <3>5. cur \in received /\ buffered \subseteq received
      BY <1>4 DEF ArrivedInv, Insert
    <3>6. \A i \in DOMAIN delivered' : delivered'[i] \in received
      BY <3>1, <3>3, <3>5
    <3> QED
      BY <3>1, <3>4, <3>5, <3>6 DEF ArrivedInv
  <2> QED
    BY <1>4, <2>1, <2>2 DEF Insert
<1>5. CASE Offer
  <2>1. /\ delivered' = Tail(delivered) /\ delivered \in Seq(Reliable) /\ delivered # <<>>
        /\ UNCHANGED <<received, unsent, buffered, cur>>
        /\ got' = got \/ got' = Append(got, Head(delivered))
    BY <1>5 DEF Offer, TypeOK, sendVars, ackVars, outVars
  <2>2. /\ DOMAIN delivered' = 1..(Len(delivered) - 1)
        /\ Len(delivered) \in Nat \ {0} /\ DOMAIN delivered = 1..Len(delivered)
        /\ Head(delivered) = delivered[1] /\ Head(delivered) \in Reliable
        /\ \A i \in 1..(Len(delivered) - 1) : delivered'[i] = delivered[i + 1]
    BY <2>1, TailElements
  <2>3. /\ \A i \in DOMAIN delivered' : delivered'[i] \in received
        /\ Head(delivered) \in received
    BY <2>2 DEF ArrivedInv
  <2>4. \A i \in DOMAIN got' : got'[i] \in received
    <3>1. Reliable \subseteq Seqs
      BY ConnAssumption DEF TypeOK, Reliable, Seqs, ConnAssumption
    <3>2. CASE got' = Append(got, Head(delivered))
      BY <1>0, <2>2, <2>3, <3>1, <3>2, AppendElements DEF ArrivedInv
    <3> QED
      BY <2>1, <3>2 DEF ArrivedInv
  <2> QED
    BY <2>1, <2>3, <2>4 DEF ArrivedInv
<1> QED
  BY <1>1, <1>2, <1>3, <1>4, <1>5 DEF Next

\* Every step keeps OrderInv: Flush releases a run that ends before
\* nextExpected, Offer takes its head.
LEMMA OrderStep == IInv /\ [Next]_vars => OrderInv'
<1> SUFFICES ASSUME IInv, [Next]_vars PROVE OrderInv'
  OBVIOUS
<1> USE DEF IInv
<1>0. /\ delivered \in Seq(Reliable) /\ got \in Seq(Seqs)
      /\ nextExpected \in Nat /\ Reliable \subseteq Seqs /\ Seqs \subseteq Nat
  BY ConnAssumption DEF TypeOK, Reliable, Seqs, ConnAssumption
<1>0a. \A i \in DOMAIN got : got[i] \in Nat
  <2>1. \A i \in DOMAIN got : got[i] \in Seqs
    BY <1>0
  <2> QED
    BY <1>0, <2>1
<1>1. CASE UNCHANGED <<cur, nextExpected, delivered, got>>
  BY <1>1 DEF OrderInv
<1>2. ASSUME NEW s \in Reliable \ unsent, BeginReceive(s) PROVE OrderInv'
  BY <1>2 DEF BeginReceive, ReaderIdle, OrderInv, bufVars, outVars
<1>3. CASE Insert
  <2>1. ASSUME Drop \/ Buffer PROVE OrderInv'
    BY <1>3, <2>1 DEF Insert, Drop, Buffer, OrderInv, bufVars, outVars
  <2>2. ASSUME Flush PROVE OrderInv'
    <3>1. PICK n \in Nat :
           /\ n > cur /\ cur = nextExpected /\ nextExpected' = n
           /\ Len(delivered') = n - cur
           /\ DOMAIN delivered' = 1..(n - cur)
           /\ \A i \in DOMAIN delivered' : delivered'[i] = cur + i - 1
      BY <1>3, <2>2, FlushStep DEF Insert
    <3>2. got' = got /\ cur' = 0 /\ Len(delivered) = 0
      BY <1>3 DEF Insert, outVars, OrderInv
    <3>3. \A i \in DOMAIN got : got[i] \in Nat /\ got[i] < nextExpected
      BY <1>0, <1>0a, <3>2 DEF OrderInv
    <3>4. \A i \in DOMAIN got : got[i] + (n - cur) < n
      BY <1>0, <3>1, <3>3
    <3>5. \A i \in DOMAIN delivered' : delivered'[i] = n - 1 - (n - cur) + i
      BY <1>0, <3>1
    <3> QED
      BY <3>1, <3>2, <3>4, <3>5 DEF OrderInv
  <2> QED
    BY <1>3, <2>1, <2>2 DEF Insert
<1>4. CASE Offer
  <2>1. /\ delivered' = Tail(delivered) /\ delivered # <<>>
        /\ UNCHANGED <<nextExpected, cur>>
        /\ got' = got \/ got' = Append(got, Head(delivered))
    BY <1>4 DEF Offer, outVars
  <2> DEFINE m == Len(delivered)
  <2>2. /\ m \in Nat \ {0} /\ DOMAIN delivered = 1..m
        /\ Len(delivered') = m - 1 /\ DOMAIN delivered' = 1..(m - 1)
        /\ \A i \in 1..(m - 1) : delivered'[i] = delivered[i + 1]
        /\ Head(delivered) = delivered[1] /\ Head(delivered) \in Reliable
    BY <1>0, <2>1, TailElements
  <2>3. /\ \A i \in 1..m : delivered[i] = nextExpected - 1 - m + i
        /\ \A i \in DOMAIN got : got[i] + m < nextExpected
        /\ \A i, j \in DOMAIN got : i < j => got[i] < got[j]
        /\ cur = 0
    BY <2>1, <2>2 DEF OrderInv
  <2> HIDE DEF m
  <2>4. /\ Head(delivered) = nextExpected - m
        /\ \A i \in 1..(m - 1) : delivered'[i] = nextExpected - 1 - (m - 1) + i
    <3>1. delivered[1] = nextExpected - 1 - m + 1
      BY <2>2, <2>3
    <3>2. ASSUME NEW i \in 1..(m - 1)
          PROVE  delivered'[i] = nextExpected - 1 - (m - 1) + i
      <4>1. i + 1 \in 1..m /\ delivered'[i] = delivered[i + 1]
        BY <2>2
      <4>2. delivered[i + 1] = nextExpected - 1 - m + (i + 1)
        BY <2>3, <4>1
      <4> QED
        BY <1>0, <2>2, <4>1, <4>2
    <3> QED
      BY <1>0, <2>2, <3>1, <3>2
  <2>5. \A i \in DOMAIN got : got[i] \in Nat
    BY <1>0a
  <2>6. CASE got' = got
    <3>1. \A i \in DOMAIN got : got[i] + (m - 1) < nextExpected
      BY <1>0, <2>2, <2>3, <2>5
    <3>2. \A i \in DOMAIN delivered' :
            delivered'[i] = nextExpected - 1 - (m - 1) + i
      BY <2>2, <2>4
    <3>3. \A i, j \in DOMAIN got' : i < j => got'[i] < got'[j]
      BY <2>3, <2>6
    <3> QED
      BY <2>1, <2>2, <2>3, <2>6, <3>1, <3>2, <3>3 DEF OrderInv
  <2>7. CASE got' = Append(got, Head(delivered))
    <3>1. /\ DOMAIN got' = 1..(Len(got) + 1)
          /\ Len(got) \in Nat /\ DOMAIN got = 1..Len(got)
          /\ \A i \in 1..Len(got) : got'[i] = got[i]
          /\ got'[Len(got) + 1] = nextExpected - m
      <4>1. Head(delivered) \in Seqs
        BY <1>0, <2>2
      <4>2. LET q == Append(got, Head(delivered)) IN
            /\ DOMAIN q = 1..(Len(got) + 1)
            /\ Len(got) \in Nat /\ DOMAIN got = 1..Len(got)
            /\ \A i \in 1..Len(got) : q[i] = got[i]
            /\ q[Len(got) + 1] = Head(delivered)
        BY <1>0, <4>1, AppendElements
      <4> QED
        BY <2>4, <2>7, <4>2
    <3>2. \A i \in 1..(Len(got) + 1) : i = Len(got) + 1 \/ i \in 1..Len(got)
      BY <3>1
    <3>3. \A i \in 1..(Len(got) + 1) : got'[i] + (m - 1) < nextExpected
      <4>1. ASSUME NEW i \in 1..Len(got) PROVE got'[i] + (m - 1) < nextExpected
        <5>1. got'[i] = got[i] /\ got[i] \in Nat /\ got[i] + m < nextExpected
          BY <2>3, <2>5, <3>1
        <5>2. m \in Nat /\ nextExpected \in Nat
          BY <1>0, <2>2
        <5> QED
          BY <5>1, <5>2
      <4>2. got'[Len(got) + 1] + (m - 1) < nextExpected
        BY <1>0, <2>2, <3>1
      <4> QED
        BY <3>2, <4>1, <4>2
    <3>4. \A i, j \in 1..(Len(got) + 1) : i < j => got'[i] < got'[j]
      <4>1. ASSUME NEW i \in 1..Len(got), NEW j \in 1..Len(got), i < j
            PROVE  got'[i] < got'[j]
        <5>1. i \in DOMAIN got /\ j \in DOMAIN got /\ got'[i] = got[i] /\ got'[j] = got[j]
          BY <3>1
        <5> QED
          BY <2>3, <4>1, <5>1
      <4>2. ASSUME NEW i \in 1..Len(got) PROVE got'[i] < got'[Len(got) + 1]
        <5>1. got'[i] = got[i] /\ got[i] \in Nat /\ got[i] + m < nextExpected
          BY <2>3, <2>5, <3>1
        <5>2. m \in Nat /\ nextExpected \in Nat /\ got'[Len(got) + 1] = nextExpected - m
          BY <1>0, <2>2, <3>1
        <5> QED
          BY <5>1, <5>2
      <4>3. ASSUME NEW i \in 1..(Len(got) + 1) PROVE ~(Len(got) + 1 < i)
        BY <3>1
      <4> QED
        BY <3>2, <4>1, <4>2, <4>3
    <3> QED
      BY <2>1, <2>2, <2>3, <2>4, <3>1, <3>3, <3>4 DEF OrderInv
  <2> QED
    BY <2>1, <2>6, <2>7
<1>5. ASSUME ~Insert, ~Offer, \A s \in Reliable \ unsent : ~BeginReceive(s)
      PROVE  UNCHANGED <<cur, nextExpected, delivered, got>>
  BY <1>5 DEF Next, Send, SendUnreliable, Tick, ReceiveAck, LoseAck, SendAck,
              ReceiveUnreliable, Consume, vars, recvVars, bufVars, outVars
<1> QED
  BY <1>1, <1>2, <1>3, <1>4, <1>5

\* Every step keeps WindowInv: the two early returns of Insert bound the buffer.
LEMMA WindowStep == IInv /\ [Next]_vars => WindowInv'
<1> SUFFICES ASSUME IInv, [Next]_vars PROVE WindowInv'
  OBVIOUS
<1>0. /\ nextExpected \in Nat /\ MaxBuffered \in Nat /\ cur \in Nat
      /\ buffered \subseteq (nextExpected + 1)..(nextExpected + MaxBuffered)
  BY ConnAssumption DEF IInv, TypeOK, Reliable, WindowInv, ConnAssumption
<1>1. CASE Insert
  <2>1. CASE Drop
    BY <1>0, <2>1 DEF Drop, bufVars, WindowInv
  <2>2. CASE Flush
    <3>1. PICK n \in Nat :
           /\ n > cur /\ cur = nextExpected /\ nextExpected' = n
           /\ n \notin buffered
           /\ buffered' = buffered \ ((cur + 1)..(n - 1))
      BY <1>1, <2>2, FlushStep DEF Insert
    <3>2. ASSUME NEW s \in buffered' PROVE s \in (n + 1)..(n + MaxBuffered)
      BY <1>0, <3>1
    <3> QED
      BY <3>1, <3>2 DEF WindowInv
  <2>3. CASE Buffer
    BY <1>0, <2>3 DEF Buffer, WindowInv
  <2> QED
    BY <1>1, <2>1, <2>2, <2>3 DEF Insert
<1>2. ASSUME ~Insert PROVE UNCHANGED <<nextExpected, buffered>>
  BY <1>2 DEF Next, Send, SendUnreliable, Tick, ReceiveAck, LoseAck, SendAck, Offer,
              BeginReceive, ReceiveUnreliable, Consume, vars, recvVars, bufVars
<1>3. CASE UNCHANGED <<nextExpected, buffered>>
  BY <1>0, <1>3 DEF WindowInv
<1> QED
  BY <1>1, <1>2, <1>3

\* Every step keeps KeptInv: without a drop for distance nothing is lost
\* between updateRecvAck and Inbox.
LEMMA KeptStep == IInv /\ [Next]_vars => KeptInv'
<1> SUFFICES ASSUME IInv, [Next]_vars, MaxBuffered >= MaxSeq
             PROVE  (received \subseteq 1..(nextExpected - 1) \cup buffered \cup {cur})'
  BY DEF KeptInv
<1>0. /\ nextExpected \in Nat \ {0} /\ MaxBuffered \in Nat /\ MaxSeq \in Nat
      /\ received \subseteq 1..MaxSeq /\ received \subseteq Reliable
      /\ received \subseteq 1..(nextExpected - 1) \cup buffered \cup {cur}
      /\ buffered \subseteq (nextExpected + 1)..(nextExpected + MaxBuffered)
  BY ConnAssumption DEF IInv, TypeOK, Reliable, KeptInv, WindowInv, ConnAssumption
<1>1. ASSUME NEW s \in Reliable \ unsent, BeginReceive(s)
      PROVE  (received \subseteq 1..(nextExpected - 1) \cup buffered \cup {cur})'
  <2>1. /\ received' = received \cup {s} /\ cur' = s /\ cur = 0
        /\ UNCHANGED <<nextExpected, buffered>>
    BY <1>1 DEF BeginReceive, ReaderIdle, bufVars
  <2>2. 0 \notin received
    BY <1>0
  <2> QED
    BY <1>0, <2>1, <2>2
<1>2. CASE Insert
  <2>1. cur \in 1..MaxSeq /\ received' = received
    BY <1>0, <1>2 DEF Insert, ackVars, IInv, ArrivedInv
  <2>2. CASE Drop
    BY <1>0, <2>1, <2>2 DEF Drop, bufVars
  <2>3. CASE Flush
    <3>1. PICK n \in Nat :
           /\ n > cur /\ cur = nextExpected /\ nextExpected' = n
           /\ buffered' = buffered \ ((cur + 1)..(n - 1))
      BY <1>2, <2>3, FlushStep DEF Insert
    <3> QED
      BY <1>0, <2>1, <3>1
  <2>4. CASE Buffer
    BY <1>0, <2>1, <2>4 DEF Buffer
  <2> QED
    BY <1>2, <2>2, <2>3, <2>4 DEF Insert
<1>3. ASSUME ~Insert, \A s \in Reliable \ unsent : ~BeginReceive(s)
      PROVE  UNCHANGED <<received, nextExpected, buffered, cur>>
  BY <1>3 DEF Next, Send, SendUnreliable, Tick, ReceiveAck, LoseAck, SendAck, Offer,
              ReceiveUnreliable, Consume, vars, recvVars, ackVars, bufVars
<1>4. CASE UNCHANGED <<received, nextExpected, buffered, cur>>
  BY <1>0, <1>4
<1> QED
  BY <1>1, <1>2, <1>3, <1>4
\* The record of arrivals after updateRecvAck, in the two cases of the code.
LEMMA RecordUpdate ==
  ASSUME IInv, NEW s \in Reliable, UpdateRecvAck(s), received' = received \cup {s}
  PROVE  RecordInv'
<1>0. /\ s \in Seqs /\ Seqs = 1..MaxSeq /\ Bits = 0..(MaskBits - 1)
      /\ MaxSeq \in Nat /\ MaskBits \in Nat \ {0} /\ recvAck \in Nat
      /\ received \subseteq Seqs /\ recvBits \subseteq Bits
  BY ConnAssumption DEF IInv, TypeOK, Reliable, Seqs, Bits, ConnAssumption
<1>1. /\ recvAck \in received \cup {0}
      /\ \A t \in received : t <= recvAck
      /\ \A t \in Seqs :
           t < recvAck /\ recvAck - t <= MaskBits =>
             (t \in received <=> recvAck - 1 - t \in recvBits)
  BY DEF IInv, RecordInv
<1>2. CASE s > recvAck
  <2>1. /\ recvAck' = s
        /\ recvBits' = IF s - recvAck > MaskBits THEN {}
                       ELSE ({b + (s - recvAck) : b \in recvBits} \cap Bits)
                              \cup {s - recvAck - 1}
    BY <1>0, <1>2 DEF UpdateRecvAck
  <2>2. ASSUME NEW t \in Seqs, t < s, s - t <= MaskBits
        PROVE  t \in received' <=> s - 1 - t \in recvBits'
    <3>1. t \in received' <=> t \in received
      BY <1>0, <2>2
    <3>2. CASE s - recvAck > MaskBits
      <4>1. t \notin received
        <5>1. t > recvAck
          BY <1>0, <2>2, <3>2
        <5> QED
          BY <1>0, <1>1, <5>1
      <4> QED
        BY <2>1, <3>1, <3>2, <4>1
    <3>3. CASE s - recvAck <= MaskBits
      <4>1. s - 1 - t \in recvBits'
              <=> \/ \E b \in recvBits : s - 1 - t = b + (s - recvAck)
                  \/ t = recvAck
        <5>1. recvBits' = ({b + (s - recvAck) : b \in recvBits} \cap Bits)
                            \cup {s - recvAck - 1}
          BY <1>0, <2>1, <3>3
        <5>2. s - 1 - t \in Bits
          BY <1>0, <2>2
        <5>3. s - 1 - t = s - recvAck - 1 <=> t = recvAck
          BY <1>0
        <5> QED
          BY <5>1, <5>2, <5>3
      <4>2. (\E b \in recvBits : s - 1 - t = b + (s - recvAck))
              <=> recvAck - 1 - t \in recvBits
        <5>1. ASSUME NEW b \in recvBits
              PROVE  s - 1 - t = b + (s - recvAck) <=> b = recvAck - 1 - t
          <6>1. b \in Int /\ s \in Int /\ t \in Int /\ recvAck \in Int
            BY <1>0
          <6> QED
            BY <6>1
        <5> QED
          BY <5>1
      <4>3. CASE t = recvAck
        BY <1>0, <1>1, <3>1, <4>1, <4>3
      <4>4. CASE t < recvAck
        BY <1>0, <1>1, <1>2, <2>2, <3>1, <4>1, <4>2, <4>4
      <4>5. CASE t > recvAck
        BY <1>0, <1>1, <3>1, <4>1, <4>2, <4>5
      <4> QED
        BY <1>0, <4>3, <4>4, <4>5
    <3> QED
      BY <1>0, <3>2, <3>3
  <2>3. recvAck' \in received' /\ \A t \in received' : t <= recvAck'
    BY <1>0, <1>1, <1>2, <2>1
  <2> QED
    BY <2>1, <2>2, <2>3 DEF RecordInv
<1>3. CASE s <= recvAck
  <2>1. /\ recvAck' = recvAck
        /\ recvBits' = recvBits \cup ({-(s - recvAck) - 1} \cap Bits)
    BY <1>0, <1>3 DEF UpdateRecvAck
  <2>2. recvAck \in received
    BY <1>0, <1>1, <1>3
  <2>3. ASSUME NEW t \in Seqs, t < recvAck, recvAck - t <= MaskBits
        PROVE  t \in received' <=> recvAck - 1 - t \in recvBits'
    <3>1. t \in received <=> recvAck - 1 - t \in recvBits
      BY <1>1, <2>3
    <3>2. recvAck - 1 - t \in Bits
      BY <1>0, <2>3
    <3>3. recvAck - 1 - t \in recvBits'
            <=> recvAck - 1 - t \in recvBits \/ recvAck - 1 - t = -(s - recvAck) - 1
      BY <2>1, <3>2
    <3>4. recvAck - 1 - t = -(s - recvAck) - 1 <=> t = s
      BY <1>0
    <3> QED
      BY <3>1, <3>3, <3>4
  <2>4. recvAck' \in received' /\ \A t \in received' : t <= recvAck'
    BY <1>0, <1>1, <1>3, <2>1, <2>2
  <2> QED
    BY <2>1, <2>3, <2>4 DEF RecordInv
<1> QED
  BY <1>0, <1>2, <1>3

\* Every step keeps RecordInv: only updateRecvAck touches the record.
LEMMA RecordStep == IInv /\ [Next]_vars => RecordInv'
<1> SUFFICES ASSUME IInv, [Next]_vars PROVE RecordInv'
  OBVIOUS
<1>1. ASSUME NEW s \in Reliable \ unsent, BeginReceive(s) PROVE RecordInv'
  BY <1>1, RecordUpdate DEF BeginReceive
<1>2. ASSUME \A s \in Reliable \ unsent : ~BeginReceive(s)
      PROVE  UNCHANGED <<received, recvAck, recvBits>>
  BY <1>2 DEF Next, Send, SendUnreliable, Tick, ReceiveAck, LoseAck, SendAck, Insert,
              Offer, ReceiveUnreliable, Consume, vars, recvVars, ackVars
<1>3. CASE UNCHANGED <<received, recvAck, recvBits>>
  BY <1>3 DEF IInv, RecordInv
<1> QED
  BY <1>1, <1>2, <1>3

\* Whatever the record claims has arrived.
LEMMA RecordSound ==
  ASSUME TypeOK, RecordInv
  PROVE  AckedBy([ack |-> recvAck, bits |-> recvBits]) \cap Seqs \subseteq received
<1>1. /\ recvAck \in Nat /\ recvBits \subseteq 0..(MaskBits - 1) /\ MaskBits \in Nat
      /\ Seqs \subseteq Nat \ {0} /\ recvAck \in received \cup {0}
  BY ConnAssumption DEF TypeOK, RecordInv, Bits, Seqs, ConnAssumption
<1>2. ASSUME NEW i \in recvBits, recvAck - 1 - i \in Seqs
      PROVE  recvAck - 1 - i \in received
  <2>1. /\ recvAck - 1 - i < recvAck
        /\ recvAck - (recvAck - 1 - i) <= MaskBits
        /\ recvAck - 1 - (recvAck - 1 - i) = i
    BY <1>1, <1>2
  <2> QED
    BY <1>2, <2>1 DEF RecordInv
<1> QED
  BY <1>1, <1>2 DEF AckedBy

\* Every step keeps AcksInv: a transmission that reads recvAck and
\* recvBitmask together claims only what arrived.
LEMMA AcksStep == IInv /\ [Next]_vars => AcksInv'
<1> SUFFICES ASSUME IInv, [Next]_vars, ~RacyReads
             PROVE  \A a \in acks' : AckedBy(a) \cap Seqs \subseteq received'
  BY DEF AcksInv, AckedBy
<1>1. \A a \in acks : AckedBy(a) \cap Seqs \subseteq received
  BY DEF IInv, AcksInv
<1>2. received \subseteq received'
  BY DEF Next, Send, SendUnreliable, Tick, ReceiveAck, LoseAck, SendAck, BeginReceive,
         Insert, Offer, ReceiveUnreliable, Consume, vars, recvVars, ackVars
<1>3. CASE SendAck
  <2>1. acks' = acks \cup {[ack |-> recvAck, bits |-> recvBits]}
    BY <1>3 DEF SendAck, ReadableAck, ReadableBits, Overlap
  <2> QED
    BY <1>1, <1>2, <2>1, RecordSound DEF IInv
<1>4. CASE ~SendAck
  <2>1. acks' \subseteq acks
    BY <1>4 DEF Next, Send, SendUnreliable, Tick, ReceiveAck, LoseAck, BeginReceive,
                Insert, Offer, ReceiveUnreliable, Consume, vars
  <2> QED
    BY <1>1, <1>2, <2>1
<1> QED
  BY <1>3, <1>4

\* Every step keeps FalseAckInv: an acknowledgement takes from pending only
\* what arrived, a Tick only what it gives up.
LEMMA FalseAckStep == IInv /\ [Next]_vars => FalseAckInv'
<1> SUFFICES ASSUME IInv, [Next]_vars, ~RacyReads PROVE NoFalseAck'
  BY DEF FalseAckInv
<1>0. NoFalseAck /\ Reliable \subseteq Seqs
  BY ConnAssumption DEF IInv, FalseAckInv, TypeOK, Reliable, Seqs, ConnAssumption
<1>1. CASE Send
  <2>1. Reliable' = Reliable \cup {Len(sent')}
    BY <1>1, AppendSent DEF IInv, TypeOK, Send, Kind
  <2> QED
    BY <1>0, <1>1, <2>1 DEF Send, NoFalseAck, recvVars, ackVars
<1>2. CASE SendUnreliable
  <2>1. Reliable' = Reliable
    BY <1>2, AppendSent DEF IInv, TypeOK, SendUnreliable, Kind
  <2> QED
    BY <1>0, <1>2, <2>1 DEF SendUnreliable, NoFalseAck, recvVars, ackVars
<1>3. ASSUME NEW due \in SUBSET pending, Tick(due) PROVE NoFalseAck'
  BY <1>0, <1>3 DEF Tick, NoFalseAck, Reliable, recvVars, ackVars
<1>4. ASSUME NEW a \in acks, ReceiveAck(a) PROVE NoFalseAck'
  <2>1. AckedBy(a) \cap Seqs \subseteq received
    BY DEF IInv, AcksInv
  <2>2. pending' = pending \ AckedBy(a) /\ Reliable' = Reliable
        /\ UNCHANGED <<received, expired, unsent>>
    BY <1>4 DEF ReceiveAck, Reliable, recvVars, ackVars
  <2> QED
    BY <1>0, <2>1, <2>2 DEF NoFalseAck
<1>5. ASSUME NEW s \in Reliable \ unsent, BeginReceive(s) PROVE NoFalseAck'
  BY <1>0, <1>5 DEF BeginReceive, NoFalseAck, Reliable, sendVars
<1>6. CASE \/ \E a \in acks : LoseAck(a)
           \/ SendAck \/ Insert \/ Offer
           \/ ReceiveUnreliable \/ Consume \/ UNCHANGED vars
  BY <1>0, <1>6 DEF LoseAck, SendAck, Insert, Offer, ReceiveUnreliable, Consume, vars,
                    NoFalseAck, Reliable, sendVars, recvVars, ackVars
<1> QED
  BY <1>1, <1>2, <1>3, <1>4, <1>5, <1>6 DEF Next

-----------------------------------------------------------------------------
(* The theorems *)

\* The invariant is inductive.
LEMMA InvStep == IInv /\ [Next]_vars => IInv'
  BY TypeStep, ArrivedStep, OrderStep, WindowStep, RecordStep, AcksStep, FalseAckStep,
     KeptStep DEF IInv

\* The invariant holds in every reachable state.
LEMMA Invariance == Spec => []IInv
  BY InvInit, InvStep, PTL DEF Spec

\* Inbox receives the reliable payloads in sending order, none twice.
THEOREM InOrderCorrect == Spec => []InOrder
<1>1. IInv => InOrder
  BY DEF IInv, ArrivedInv, OrderInv, InOrder, TypeOK
<1> QED
  BY Invariance, <1>1, PTL

\* recvAck and recvBitmask record the arrivals of the last MaskBits + 1
\* numbers exactly, for every mask width and order of arrival.
THEOREM AckRecordCorrect == Spec => []AckRecordExact
<1>1. IInv => AckRecordExact
  <2> SUFFICES ASSUME IInv PROVE AckRecordExact
    OBVIOUS
  <2>1. /\ recvAck \in Nat /\ recvBits \subseteq 0..(MaskBits - 1) /\ MaskBits \in Nat
        /\ Seqs \subseteq Nat \ {0} /\ received \subseteq Seqs
    BY ConnAssumption DEF IInv, TypeOK, Bits, Seqs, Reliable, ConnAssumption
  <2>2. AckedBy([ack |-> recvAck, bits |-> recvBits]) \cap Seqs \subseteq received
    BY RecordSound DEF IInv
  <2>3. ASSUME NEW s \in received, recvAck - s <= MaskBits
        PROVE  s \in AckedBy([ack |-> recvAck, bits |-> recvBits])
    <3>1. s \in Seqs /\ s <= recvAck
      BY <2>1 DEF IInv, RecordInv
    <3>2. CASE s < recvAck
      <4>1. recvAck - 1 - s \in recvBits
        BY <2>3, <3>1, <3>2 DEF IInv, RecordInv
      <4>2. s = recvAck - 1 - (recvAck - 1 - s)
        BY <2>1, <3>1
      <4> QED
        BY <4>1, <4>2 DEF AckedBy
    <3> QED
      BY <2>1, <3>1, <3>2 DEF AckedBy
  <2>4. ASSUME NEW s \in AckedBy([ack |-> recvAck, bits |-> recvBits])
        PROVE  recvAck - s <= MaskBits
    BY <2>1 DEF AckedBy
  <2> QED
    BY <2>1, <2>2, <2>3, <2>4 DEF AckRecordExact
<1> QED
  BY Invariance, <1>1, PTL

\* Without reads that overlap updateRecvAck, retransmission stops only for a
\* packet that arrived, was given up, or could not be transmitted.
THEOREM NoFalseAckCorrect == ASSUME ~RacyReads PROVE Spec => []NoFalseAck
<1>1. IInv => NoFalseAck
  BY DEF IInv, FalseAckInv
<1> QED
  BY Invariance, <1>1, PTL

\* With, besides, a reorder window as long as the numbers in use, the stream
\* never waits for a packet that the sender believes delivered.
THEOREM NoSilentStallCorrect ==
  ASSUME ~RacyReads, MaxBuffered >= MaxSeq
  PROVE  Spec => []NoSilentStall
<1>1. IInv => NoSilentStall
  BY DEF IInv, FalseAckInv, NoFalseAck, KeptInv, WindowInv, TypeOK, NoSilentStall
<1> QED
  BY Invariance, <1>1, PTL

\* The reorder buffer never holds more than MaxBuffered packets.
THEOREM BufferBoundedCorrect == Spec => []BufferBounded
<1>1. IInv => BufferBounded
  <2> SUFFICES ASSUME IInv PROVE BufferBounded
    OBVIOUS
  <2>1. /\ nextExpected \in Nat /\ MaxBuffered \in Nat
        /\ buffered \subseteq (nextExpected + 1)..(nextExpected + MaxBuffered)
    BY ConnAssumption DEF IInv, TypeOK, WindowInv, ConnAssumption
  <2> DEFINE Window == (nextExpected + 1)..(nextExpected + MaxBuffered)
  <2>2. IsFiniteSet(Window) /\ Cardinality(Window) = MaxBuffered
    BY <2>1, FS_Interval
  <2>3. Cardinality(buffered) <= Cardinality(Window)
    BY <2>1, <2>2, FS_Subset
  <2> QED
    BY <2>1, <2>2, <2>3 DEF BufferBounded
<1> QED
  BY Invariance, <1>1, PTL

\* One direction of a connection implements the ordered stream.
THEOREM StreamCorrect == Spec => StreamSpec
<1>1. Init => Stream!Init
  BY DEF Init, Stream!Init
<1>2. IInv /\ [Next]_vars => [Stream!Next]_(Stream!vars)
  <2> SUFFICES ASSUME IInv, [Next]_vars PROVE [Stream!Next]_(Stream!vars)
    OBVIOUS
  <2>1. CASE Send
    BY <2>1 DEF Send, recvVars, outVars, Stream!Next, Stream!Send, Stream!Kind
  <2>2. CASE SendUnreliable
    BY <2>2 DEF SendUnreliable, recvVars, outVars, Stream!Next, Stream!Send, Stream!Kind
  <2>3. CASE Offer
    <3>1. CASE got' = Append(got, Head(delivered))
      <4> DEFINE s == Head(delivered)
      <4>1. /\ delivered \in Seq(Reliable) /\ delivered # <<>>
            /\ got \in Seq(Seqs) /\ nextExpected \in Nat /\ Seqs \subseteq Nat
        BY <2>3, ConnAssumption DEF Offer, IInv, TypeOK, Seqs, ConnAssumption
      <4>2. /\ s \in Reliable /\ s = delivered[1] /\ 1 \in DOMAIN delivered
            /\ Len(delivered) \in Nat
        BY <4>1, TailElements
      <4>3. s = nextExpected - Len(delivered)
        BY <4>1, <4>2 DEF IInv, OrderInv
      <4>4. s > Stream!LastGot
        <5>1. CASE got = <<>>
          <6>1. s \in Nat \ {0}
            BY <4>2 DEF Reliable, IInv, TypeOK
          <6> QED
            BY <5>1, <6>1 DEF Stream!LastGot
        <5>2. CASE got # <<>>
          <6>1. Len(got) \in DOMAIN got /\ got[Len(got)] \in Seqs
            BY <4>1, <5>2
          <6>2. got[Len(got)] + Len(delivered) < nextExpected
            BY <6>1 DEF IInv, OrderInv
          <6> QED
            <7>1. got[Len(got)] \in Nat
              BY <4>1, <6>1
            <7>2. got[Len(got)] < nextExpected - Len(delivered)
              BY <4>1, <4>2, <6>2, <7>1
            <7>3. Stream!LastGot < s
              BY <4>3, <5>2, <7>2 DEF Stream!LastGot
            <7>4. s \in Nat /\ Stream!LastGot \in Nat
              BY <4>2, <5>2, <7>1 DEF Stream!LastGot, Reliable, IInv, TypeOK
            <7> QED
              BY <7>3, <7>4
        <5> QED
          BY <5>1, <5>2
      <4>5. s \in DOMAIN sent /\ sent[s] = "reliable" /\ sent' = sent
        BY <2>3, <4>2 DEF Reliable, Offer, sendVars
      <4> QED
        BY <3>1, <4>4, <4>5 DEF Stream!Next, Stream!Deliver
    <3>2. CASE UNCHANGED <<sent, got>>
      BY <3>2 DEF Stream!vars
    <3> QED
      BY <2>3, <3>1, <3>2 DEF Offer, sendVars, outVars
  <2>4. ASSUME ~Send, ~SendUnreliable, ~Offer PROVE UNCHANGED <<sent, got>>
    BY <2>4 DEF Next, Tick, ReceiveAck, LoseAck, SendAck, BeginReceive, Insert,
                ReceiveUnreliable, Consume, vars, sendVars, recvVars, outVars
  <2> QED
    BY <2>1, <2>2, <2>3, <2>4 DEF Stream!vars
<1> QED
  BY Invariance, <1>1, <1>2, PTL DEF Spec, StreamSpec, Stream!Spec
=============================================================================
