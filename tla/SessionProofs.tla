--------------------------- MODULE SessionProofs ----------------------------
(***************************************************************************)
(* Proofs about Session, for every number of clients, names, rooms and     *)
(* slots: the registry's as the code is, those of the slots when AddPlayer *)
(* runs as if under a lock.                                                *)
(***************************************************************************)
EXTENDS Session, TLAPS, SequenceTheorems

-----------------------------------------------------------------------------
(* Lemmas about sequences of payloads *)

\* A sequence over a set is one over a larger set.
LEMMA SeqMono ==
  ASSUME NEW S, NEW T, S \subseteq T, NEW q \in Seq(S)
  PROVE  q \in Seq(T)
  OBVIOUS

\* What is left of a stream, and what is released of it, keep its type.
LEMMA SplitType ==
  ASSUME NEW S, NEW q \in Seq(S), NEW k \in 0..Len(q)
  PROVE  SubSeq(q, k + 1, Len(q)) \in Seq(S) /\ SubSeq(q, 1, k) \in Seq(S)
<1>1. /\ Len(q) \in Nat /\ k \in Int /\ k + 1 \in Int /\ 1 \in Int
      /\ \A i \in (k + 1)..Len(q) : q[i] \in S
      /\ \A i \in 1..k : q[i] \in S
  OBVIOUS
<1> QED
  BY <1>1, SubSeqProperties

LEMMA HeadTailType ==
  ASSUME NEW S, NEW q \in Seq(S), q # <<>>
  PROVE  Head(q) \in S /\ Tail(q) \in Seq(S)
  OBVIOUS

LEMMA AppendType ==
  ASSUME NEW S, NEW q \in Seq(S), NEW e \in S
  PROVE  Append(q, e) \in Seq(S)
  OBVIOUS

LEMMA ConcatType ==
  ASSUME NEW S, NEW a \in Seq(S), NEW b \in Seq(S)
  PROVE  a \o b \in Seq(S)
  OBVIOUS

-----------------------------------------------------------------------------
(* Types *)

LEMMA TypeInit == Init => TypeOK
<1> SUFFICES ASSUME Init PROVE TypeOK
  OBVIOUS
<1>1. /\ 0 \in PlayerIds \cup {0} /\ NoRoom \in RoomIds \cup {NoRoom}
      /\ 0 \in 0..InboxSize
  BY SessionAssumption DEF SessionAssumption
<1>2. /\ got \in [Clients -> Seq(Payloads)] /\ down \in [Clients -> Seq(Payloads)]
      /\ up \in [Clients -> Seq(Messages)]
  BY DEF Init
<1>3. /\ players \in [RoomIds -> [PlayerIds -> Clients \cup {Nobody}]]
      /\ queued \in [RoomIds -> 0..InboxSize]
      /\ served \subseteq Clients /\ overtaken \subseteq Clients
  BY <1>1 DEF Init
<1> QED
  BY <1>1, <1>2, <1>3 DEF Init, TypeOK

\* A payload added to a client's stream, and a message taken from its own.
LEMMA Sent ==
  ASSUME TypeOK, NEW p \in Clients, NEW m \in Payloads,
         down' = [down EXCEPT ![p] = Append(@, m)]
  PROVE  /\ down' \in [Clients -> Seq(Payloads)] /\ down'[p] = Append(down[p], m)
         /\ \A q \in Clients : q # p => down'[q] = down[q]
<1>1. down \in [Clients -> Seq(Payloads)]
  BY DEF TypeOK
<1>2. Append(down[p], m) \in Seq(Payloads)
  BY <1>1, AppendType
<1> QED
  BY <1>1, <1>2

LEMMA UpTaken ==
  ASSUME TypeOK, NEW p \in Clients, up[p] # <<>>, up' = [up EXCEPT ![p] = Tail(@)]
  PROVE  /\ up' \in [Clients -> Seq(Messages)] /\ up'[p] = Tail(up[p])
         /\ \A q \in Clients : q # p => up'[q] = up[q]
<1>1. up \in [Clients -> Seq(Messages)]
  BY DEF TypeOK
<1>2. Tail(up[p]) \in Seq(Messages)
  BY <1>1, HeadTailType
<1> QED
  BY <1>1, <1>2

LEMMA PayloadTypes ==
  /\ \A kind \in {"HelloAck", "Refused", "Frame"} :
       Payload(kind, 0) \in Payloads /\ Payload(kind, 0).kind = kind
  /\ \A i \in PlayerIds \cup {0} :
       /\ Payload("JoinAck", i) \in Payloads /\ Payload("JoinAck", i).kind = "JoinAck"
       /\ Payload("JoinAck", i).id = i
BY DEF Payload, Payloads

\* What reading the Inbox leaves of a client's stream, and what it may change.
LEMMA ReadInboxType ==
  ASSUME TypeOK, NEW p \in Clients, NEW k \in 0..Len(down[p]),
         NEW x \in Names \cup {NoName}, ReadInbox(p, k, x)
  PROVE  /\ got' \in [Clients -> Seq(Payloads)] /\ down' \in [Clients -> Seq(Payloads)]
         /\ up' \in [Clients -> Seq(Messages)]
         /\ client' \in [Clients -> {"syn", "hello", "join", "joined", "rejected", "expired"}]
         /\ joinedAs' \in [Clients -> PlayerIds \cup {0}]
<1> DEFINE inbox == got[p] \o SubSeq(down[p], 1, k)
           rest == SubSeq(down[p], k + 1, Len(down[p]))
<1>0. /\ got \in [Clients -> Seq(Payloads)] /\ down \in [Clients -> Seq(Payloads)]
      /\ up \in [Clients -> Seq(Messages)]
      /\ client \in [Clients -> {"syn", "hello", "join", "joined", "rejected", "expired"}]
      /\ joinedAs \in [Clients -> PlayerIds \cup {0}]
  BY DEF TypeOK
<1>1. rest \in Seq(Payloads) /\ inbox \in Seq(Payloads)
  BY <1>0, SplitType, ConcatType
<1>2. /\ down' = [down EXCEPT ![p] = rest]
      /\ \/ /\ inbox # <<>>
            /\ Answered(p, Head(inbox), x)
            /\ got' = [got EXCEPT ![p] = Tail(inbox)]
         \/ /\ inbox = <<>>
            /\ UNCHANGED <<got, client, joinedAs, up>>
  BY <1>0 DEF ReadInbox
<1>3. inbox # <<>> => Head(inbox) \in Payloads /\ Tail(inbox) \in Seq(Payloads)
  BY <1>1, HeadTailType
<1> HIDE DEF inbox, rest
<1>4. down' \in [Clients -> Seq(Payloads)] /\ got' \in [Clients -> Seq(Payloads)]
  BY <1>0, <1>1, <1>2, <1>3
<1>5. ASSUME NEW m \in Payloads, Answered(p, m, x)
      PROVE  /\ up' \in [Clients -> Seq(Messages)]
             /\ client' \in [Clients -> {"syn", "hello", "join", "joined", "rejected", "expired"}]
             /\ joinedAs' \in [Clients -> PlayerIds \cup {0}]
  <2>1. m.id \in PlayerIds \cup {0} /\ x \in Messages
    BY DEF Payloads, Messages
  <2>2. Append(up[p], x) \in Seq(Messages)
    BY <1>0, <2>1, AppendType
  <2> QED
    BY <1>0, <1>5, <2>1, <2>2 DEF Answered
<1> QED
  BY <1>0, <1>2, <1>3, <1>4, <1>5

LEMMA ClientType ==
  ASSUME TypeOK, NEW p \in Clients, ClientStep(p)
  PROVE  TypeOK'
<1>1. UNCHANGED <<handlerVars, roomVars>>
  BY DEF ClientStep, ReadSynAck, ReadInbox, ConnectTimeout, Dispatch, SendCmd
<1>2. \A m \in {"Hello", "OldHello", "Cmd"} : Append(up[p], m) \in Seq(Messages)
  BY AppendType DEF TypeOK, Messages
<1>3. CASE ReadSynAck(p)
  <2>1. up' \in [Clients -> Seq(Messages)]
    BY <1>2, <1>3 DEF ReadSynAck, TypeOK
  <2> QED
    BY <1>1, <1>3, <2>1 DEF ReadSynAck, TypeOK, handlerVars, roomVars
<1>7. CASE ConnectTimeout(p)
  BY <1>1, <1>7 DEF ConnectTimeout, TypeOK, handlerVars, roomVars
<1>4. CASE SendCmd(p)
  BY <1>1, <1>2, <1>4 DEF SendCmd, TypeOK, clientVars, handlerVars, roomVars
<1>5. CASE Dispatch(p)
  <2>1. /\ got[p] # <<>> => Tail(got[p]) \in Seq(Payloads)
        /\ down[p] # <<>> => Tail(down[p]) \in Seq(Payloads)
    BY HeadTailType DEF TypeOK
  <2>2. got' \in [Clients -> Seq(Payloads)] /\ down' \in [Clients -> Seq(Payloads)]
    BY <1>5, <2>1 DEF Dispatch, TypeOK
  <2>3. served' \subseteq Clients /\ UNCHANGED <<client, joinedAs, up>>
    BY <1>5 DEF Dispatch, TypeOK
  <2> QED
    BY <1>1, <2>2, <2>3 DEF TypeOK, handlerVars, roomVars
<1>6. ASSUME NEW k \in 0..Len(down[p]), NEW x \in Names \cup {NoName}, ReadInbox(p, k, x)
      PROVE  TypeOK'
  <2>1. served' = served
    BY <1>6 DEF ReadInbox
  <2> QED
    BY <1>1, <1>6, <2>1, ReadInboxType DEF TypeOK, handlerVars, roomVars
<1> QED
  BY <1>3, <1>4, <1>5, <1>6, <1>7 DEF ClientStep

LEMMA HandlerType ==
  ASSUME TypeOK, NEW p \in Clients, HandlerStep(p)
  PROVE  TypeOK'
<1>1. CASE Accept(p) \/ HandlerTimeout(p)
  BY <1>1 DEF Accept, HandlerTimeout, TypeOK, clientVars, roomVars
<1>2. CASE ReadHello(p)
  <2>1. PICK kind \in {"HelloAck", "Refused"} :
          down' = [down EXCEPT ![p] = Append(@, Payload(kind, 0))]
    BY <1>2 DEF ReadHello
  <2>2. down' \in [Clients -> Seq(Payloads)] /\ up' \in [Clients -> Seq(Messages)]
    BY <1>2, <2>1, PayloadTypes, Sent, UpTaken DEF ReadHello
  <2>3. handler' \in [Clients -> {"none", "hello", "join", "scan", "claim", "ack",
                                 "serve", "post", "done"}]
    BY <1>2 DEF ReadHello, TypeOK
  <2> QED
    BY <1>2, <2>2, <2>3 DEF ReadHello, TypeOK, clientVars, roomVars
<1>3. CASE ReadJoin(p)
  <2>1. PICK x \in Names, r \in RoomIds :
          GetOrCreate(x, r) /\ inRoom' = [inRoom EXCEPT ![p] = r]
    BY <1>3 DEF ReadJoin
  <2>2. /\ registry' \in [Names -> RoomIds \cup {NoRoom}]
        /\ name' \in [RoomIds -> Names \cup {NoName}]
        /\ status' \in [RoomIds -> {"none", "running", "cancelled", "stopped"}]
        /\ UNCHANGED <<players, queued, overtaken>>
    BY <2>1 DEF GetOrCreate, TypeOK, roomVars
  <2>3. up' \in [Clients -> Seq(Messages)]
    BY <1>3, UpTaken DEF ReadJoin
  <2>4. inRoom' \in [Clients -> RoomIds \cup {NoRoom}]
    BY <2>1 DEF TypeOK
  <2> QED
    BY <1>3, <2>2, <2>3, <2>4 DEF ReadJoin, TypeOK, clientVars
<1>4. CASE Scan(p)
  <2>1. /\ handler' \in [Clients -> {"none", "hello", "join", "scan", "claim", "ack",
                                    "serve", "post", "done"}]
        /\ id' \in [Clients -> PlayerIds \cup {0}]
    BY <1>4 DEF Scan, TypeOK
  <2>2. down' \in [Clients -> Seq(Payloads)]
    <3>1. CASE UNCHANGED down
      BY <3>1 DEF TypeOK
    <3>2. CASE down' = [down EXCEPT ![p] = Append(@, Payload("Refused", 0))]
      BY <3>2, PayloadTypes, Sent
    <3> QED
      BY <1>4, <3>1, <3>2 DEF Scan
  <2> QED
    BY <1>4, <2>1, <2>2 DEF Scan, TypeOK, clientVars, roomVars
<1>5. CASE Claim(p)
  BY <1>5 DEF Claim, TypeOK, clientVars
<1>6. CASE SendJoinAck(p)
  <2>1. id[p] \in PlayerIds \cup {0}
    BY DEF TypeOK
  <2>2. down' \in [Clients -> Seq(Payloads)]
    BY <1>6, <2>1, PayloadTypes, Sent DEF SendJoinAck
  <2> QED
    BY <1>6, <2>2 DEF SendJoinAck, TypeOK, clientVars, roomVars
<1>7. CASE Take(p)
  <2>1. up' \in [Clients -> Seq(Messages)]
    BY <1>7, UpTaken DEF Take
  <2> QED
    BY <1>7, <2>1 DEF Take, TypeOK, clientVars, roomVars
<1>8. CASE Post(p)
  <2>1. InboxSize \in Nat
    BY SessionAssumption DEF SessionAssumption
  <2>2. inRoom[p] \in RoomIds => queued[inRoom[p]] + 1 \in 0..InboxSize
    BY <1>8, <2>1 DEF Post, TypeOK
  <2>3. queued' \in [RoomIds -> 0..InboxSize]
    BY <1>8, <2>2 DEF Post, TypeOK
  <2> QED
    BY <1>8, <2>3 DEF Post, TypeOK, clientVars
<1> QED
  BY <1>1, <1>2, <1>3, <1>4, <1>5, <1>6, <1>7, <1>8 DEF HandlerStep

LEMMA RoomType ==
  ASSUME TypeOK, (\E r \in RoomIds : RoomStep(r)) \/ (\E x \in Names : Remove(x))
  PROVE  TypeOK'
<1>1. UNCHANGED <<clientVars, up, handlerVars, name, players>>
  BY DEF RoomStep, HandleMsgs, SealTick, Stop, Remove
<1>2. 0 \in 0..InboxSize
  BY SessionAssumption DEF SessionAssumption
<1>3. CASE \E r \in RoomIds : SealTick(r)
  <2>1. \A q \in Clients : /\ down[q] \in Seq(Payloads)
                            /\ Append(down[q], Payload("Frame", 0)) \in Seq(Payloads)
    BY PayloadTypes, AppendType DEF TypeOK
  <2>2. down' \in [Clients -> Seq(Payloads)]
    BY <1>3, <2>1 DEF SealTick, Broadcast
  <2> QED
    BY <1>1, <1>2, <1>3, <2>2 DEF SealTick, InRoom, TypeOK, clientVars, handlerVars
<1>4. CASE \E r \in RoomIds : HandleMsgs(r) \/ Stop(r)
  BY <1>1, <1>2, <1>4 DEF HandleMsgs, Stop, TypeOK, clientVars, handlerVars
<1>5. CASE \E x \in Names : Remove(x)
  BY <1>1, <1>5 DEF Remove, TypeOK, clientVars, handlerVars
<1> QED
  BY <1>3, <1>4, <1>5 DEF RoomStep

LEMMA TypeStep == TypeOK /\ [Next]_vars => TypeOK'
<1>1. TypeOK /\ UNCHANGED vars => TypeOK'
  BY DEF TypeOK, vars, clientVars, handlerVars, roomVars
<1> QED
  BY <1>1, ClientType, HandlerType, RoomType DEF Next

\* The types of the session, with AddPlayer under a lock or as it is.
THEOREM TypeCorrect == Spec => []TypeOK
BY TypeInit, TypeStep, PTL DEF Spec

-----------------------------------------------------------------------------
(* The slots *)

\* Payloads may still be on their way after a step that takes no slot away.
LEMMA AllowedMono ==
  ASSUME NEW p \in Clients, Placed(p) => Placed(p)' /\ id'[p] = id[p], NEW q \in Seq(Allowed(p))
  PROVE  q \in Seq(Allowed(p)')
<1>1. Allowed(p) \subseteq Allowed(p)'
  BY DEF Allowed
<1> QED
  BY <1>1, SeqMono

-----------------------------------------------------------------------------
(* The invariant *)

LEMMA InvInit == Init => IInv
<1> SUFFICES ASSUME Init PROVE IInv
  OBVIOUS
<1>1. TypeOK
  BY TypeInit
<1>2. ClaimInv
  BY DEF Init, ClaimInv
<1>3. PlacedInv
  BY SessionAssumption DEF SessionAssumption, Init, PlacedInv, Placed
<1>4. AnswerInv
  <2>1. ASSUME NEW p \in Clients
        PROVE  /\ down[p] \in Seq(Allowed(p)) /\ got[p] \in Seq(Allowed(p))
               /\ client[p] # "joined"
    <3>1. down[p] = <<>> /\ got[p] = <<>> /\ client[p] = "syn"
      BY DEF Init
    <3>2. <<>> \in Seq(Allowed(p))
      OBVIOUS
    <3> QED
      BY <3>1, <3>2
  <2> QED
    BY <2>1 DEF AnswerInv
<1> QED
  BY <1>1, <1>2, <1>3, <1>4 DEF IInv

\* A step that changes neither the slots nor what the handlers have of them.
LEMMA SlotsSame ==
  ASSUME IInv, UNCHANGED <<handlerVars, players>>
  PROVE  ClaimInv' /\ PlacedInv'
  BY DEF IInv, ClaimInv, PlacedInv, Placed, handlerVars

\* A step that sends no payload to a client and takes no slot away.
LEMMA AnswersKept ==
  ASSUME IInv, UNCHANGED clientVars, UNCHANGED down,
         \A p \in Clients : Placed(p) => Placed(p)' /\ id'[p] = id[p]
  PROVE  AnswerInv'
<1>1. ASSUME NEW p \in Clients
      PROVE  down[p] \in Seq(Allowed(p)') /\ got[p] \in Seq(Allowed(p)')
  BY <1>1, AllowedMono DEF IInv, AnswerInv
<1> QED
  BY <1>1 DEF IInv, AnswerInv, clientVars

-----------------------------------------------------------------------------
(* The client's steps *)

LEMMA ClientInv ==
  ASSUME IInv, NEW p \in Clients, ClientStep(p)
  PROVE  IInv'
<1>0. /\ TypeOK /\ AnswerInv
      /\ down[p] \in Seq(Allowed(p)) /\ got[p] \in Seq(Allowed(p))
      /\ down[p] \in Seq(Payloads) /\ got[p] \in Seq(Payloads) /\ up[p] \in Seq(Messages)
  BY DEF IInv, TypeOK, AnswerInv
<1>1. UNCHANGED <<handlerVars, roomVars>>
  BY DEF ClientStep, ReadSynAck, ReadInbox, ConnectTimeout, Dispatch, SendCmd
<1>2. ClaimInv' /\ PlacedInv'
  BY <1>1, SlotsSame DEF roomVars
<1>3. \A q \in Clients : Allowed(q)' = Allowed(q)
  BY <1>1 DEF Allowed, Placed, handlerVars
<1>4. CASE ReadSynAck(p)
  <2>1. "Hello" \in Messages /\ "OldHello" \in Messages
    BY DEF Messages
  <2>2. up' \in [Clients -> Seq(Messages)]
    BY <1>0, <1>4, <2>1 DEF ReadSynAck, TypeOK
  <2>3. TypeOK'
    BY TypeStep DEF IInv, Next
  <2>4. AnswerInv'
    BY <1>0, <1>1, <1>3, <1>4 DEF ReadSynAck, TypeOK, AnswerInv, Placed, handlerVars
  <2> QED
    BY <1>2, <2>3, <2>4 DEF IInv
<1>5. CASE ConnectTimeout(p)
  <2>1. TypeOK'
    BY TypeStep DEF IInv, Next
  <2>2. AnswerInv'
    BY <1>0, <1>1, <1>3, <1>5 DEF ConnectTimeout, TypeOK, AnswerInv, Placed, handlerVars
  <2> QED
    BY <1>2, <2>1, <2>2 DEF IInv
<1>6. CASE SendCmd(p)
  <2>1. "Cmd" \in Messages
    BY DEF Messages
  <2>2. up' \in [Clients -> Seq(Messages)]
    BY <1>0, <1>6, <2>1 DEF SendCmd, TypeOK
  <2>3. TypeOK'
    BY TypeStep DEF IInv, Next
  <2>4. AnswerInv'
    BY <1>0, <1>1, <1>3, <1>6 DEF SendCmd, AnswerInv, Placed, clientVars, handlerVars
  <2> QED
    BY <1>2, <2>3, <2>4 DEF IInv
<1>7. CASE Dispatch(p)
  <2>1. /\ client' = client /\ joinedAs' = joinedAs /\ up' = up /\ served' \subseteq Clients
    BY <1>0, <1>7 DEF Dispatch, TypeOK
  <2>2. /\ got' \in [Clients -> Seq(Payloads)] /\ down' \in [Clients -> Seq(Payloads)]
        /\ \A q \in Clients : /\ got'[q] \in Seq(Allowed(q))
                              /\ down'[q] \in Seq(Allowed(q))
    <3>1. CASE got[p] # <<>> /\ got' = [got EXCEPT ![p] = Tail(@)] /\ UNCHANGED down
      <4>1. Tail(got[p]) \in Seq(Allowed(p)) /\ Tail(got[p]) \in Seq(Payloads)
        BY <1>0, <3>1, HeadTailType
      <4> QED
        BY <1>0, <3>1, <4>1 DEF TypeOK, AnswerInv
    <3>2. CASE down[p] # <<>> /\ down' = [down EXCEPT ![p] = Tail(@)] /\ UNCHANGED got
      <4>1. Tail(down[p]) \in Seq(Allowed(p)) /\ Tail(down[p]) \in Seq(Payloads)
        BY <1>0, <3>2, HeadTailType
      <4> QED
        BY <1>0, <3>2, <4>1 DEF TypeOK, AnswerInv
    <3> QED
      BY <1>7, <3>1, <3>2 DEF Dispatch
  <2>3. TypeOK'
    BY TypeStep DEF IInv, Next
  <2>4. AnswerInv'
    BY <1>0, <1>1, <1>3, <2>1, <2>2 DEF AnswerInv, Placed, handlerVars
  <2> QED
    BY <1>2, <2>3, <2>4 DEF IInv
<1>8. ASSUME NEW k \in 0..Len(down[p]), NEW x \in Names \cup {NoName}, ReadInbox(p, k, x)
      PROVE  IInv'
  <2> DEFINE inbox == got[p] \o SubSeq(down[p], 1, k)
  <2>1. /\ SubSeq(down[p], k + 1, Len(down[p])) \in Seq(Allowed(p))
        /\ SubSeq(down[p], k + 1, Len(down[p])) \in Seq(Payloads)
        /\ SubSeq(down[p], 1, k) \in Seq(Allowed(p))
        /\ SubSeq(down[p], 1, k) \in Seq(Payloads)
    BY <1>0, SplitType
  <2>2. inbox \in Seq(Allowed(p)) /\ inbox \in Seq(Payloads)
    BY <1>0, <2>1, ConcatType
  <2>3. /\ served' = served
        /\ down' = [down EXCEPT ![p] = SubSeq(@, k + 1, Len(@))]
        /\ \/ /\ inbox # <<>>
              /\ Answered(p, Head(inbox), x)
              /\ got' = [got EXCEPT ![p] = Tail(inbox)]
           \/ /\ inbox = <<>>
              /\ UNCHANGED <<got, client, joinedAs, up>>
    BY <1>8 DEF ReadInbox
  <2>4. inbox # <<>> => /\ Head(inbox) \in Allowed(p) /\ Head(inbox) \in Payloads
                        /\ Tail(inbox) \in Seq(Allowed(p)) /\ Tail(inbox) \in Seq(Payloads)
    BY <2>2, HeadTailType
  <2> HIDE DEF inbox
  <2>5. /\ got' \in [Clients -> Seq(Payloads)] /\ down' \in [Clients -> Seq(Payloads)]
        /\ \A q \in Clients : /\ got'[q] \in Seq(Allowed(q))
                              /\ down'[q] \in Seq(Allowed(q))
    BY <1>0, <2>1, <2>3, <2>4 DEF TypeOK, AnswerInv
  <2> DEFINE Result ==
        /\ client' \in [Clients -> {"syn", "hello", "join", "joined", "rejected", "expired"}]
        /\ joinedAs' \in [Clients -> PlayerIds \cup {0}] /\ up' \in [Clients -> Seq(Messages)]
        /\ \A q \in Clients : client'[q] = "joined" => Placed(q) /\ joinedAs'[q] = id[q]
  <2>6. Result
    <3>1. CASE UNCHANGED <<client, joinedAs, up>>
      BY <1>0, <3>1 DEF TypeOK, AnswerInv
    <3>2. ASSUME NEW m \in Allowed(p), m \in Payloads, Answered(p, m, x)
          PROVE  Result
      <4>1. CASE client[p] = "hello" /\ m.kind = "HelloAck"
        <5>1. x \in Messages
          BY DEF Messages
        <5>2. Append(up[p], x) \in Seq(Messages)
          BY <1>0, <5>1, AppendType
        <5> QED
          BY <1>0, <3>2, <4>1, <5>2 DEF Answered, TypeOK, AnswerInv
      <4>2. CASE client[p] = "join" /\ m.kind = "JoinAck"
        <5>1. Placed(p) /\ m.id = id[p] /\ m.id \in PlayerIds \cup {0}
          BY <3>2, <4>2 DEF Allowed, Payloads
        <5> QED
          BY <1>0, <3>2, <4>2, <5>1 DEF Answered, TypeOK, AnswerInv
      <4>3. CASE m.kind # (IF client[p] = "hello" THEN "HelloAck" ELSE "JoinAck")
        BY <1>0, <3>2, <4>3 DEF Answered, TypeOK, AnswerInv
      <4> QED
        BY <3>2, <4>1, <4>2, <4>3 DEF Answered
    <3> QED
      BY <2>3, <2>4, <3>1, <3>2
  <2>7. TypeOK'
    BY TypeStep DEF IInv, Next
  <2>8. AnswerInv'
    BY <1>1, <1>3, <2>5, <2>6 DEF AnswerInv, Placed, handlerVars
  <2> QED
    BY <1>2, <2>7, <2>8 DEF IInv
<1> QED
  BY <1>4, <1>5, <1>6, <1>7, <1>8 DEF ClientStep

-----------------------------------------------------------------------------
(* The handler's steps *)

\* Steps that only move the handler p from one state to another, without a
\* slot or with the one it has.
LEMMA HandlerMoves ==
  ASSUME IInv, NEW p \in Clients, NEW h,
         h \notin {"claim", "scan"} \/ (h = "scan" /\ inRoom'[p] \in RoomIds),
         h \in {"serve", "post"} => Placed(p), Placed(p) => h \in {"serve", "post"},
         handler' = [handler EXCEPT ![p] = h], UNCHANGED <<id, players>>,
         \A q \in Clients : q # p => inRoom'[q] = inRoom[q],
         Placed(p) => inRoom'[p] = inRoom[p], h # "ack"
  PROVE  /\ ClaimInv' /\ PlacedInv'
         /\ \A q \in Clients : Placed(q) => Placed(q)' /\ id'[q] = id[q]
<1>0. handler \in [Clients -> {"none", "hello", "join", "scan", "claim", "ack",
                              "serve", "post", "done"}]
  BY DEF IInv, TypeOK
<1>1. \A q \in Clients : (q # p => handler'[q] = handler[q]) /\ handler'[p] = h
  BY <1>0
<1>2. \A q \in Clients : Placed(q) <=> Placed(q)'
  BY <1>1 DEF Placed
<1>3. ClaimInv'
  BY <1>1 DEF IInv, ClaimInv
<1>4. PlacedInv'
  BY <1>1, <1>2 DEF IInv, PlacedInv
<1> QED
  BY <1>2, <1>3, <1>4

\* A payload that is not a JoinAck, or is the one of the slot the handler has,
\* may be sent.
LEMMA AnswerSent ==
  ASSUME IInv, NEW p \in Clients, NEW m \in Payloads,
         m.kind = "JoinAck" => Placed(p)' /\ m.id = id'[p],
         down' = [down EXCEPT ![p] = Append(@, m)], UNCHANGED clientVars,
         \A q \in Clients : Placed(q) => Placed(q)' /\ id'[q] = id[q]
  PROVE  AnswerInv' /\ down' \in [Clients -> Seq(Payloads)]
<1>0. down \in [Clients -> Seq(Payloads)]
  BY DEF IInv, TypeOK
<1>1. ASSUME NEW q \in Clients
      PROVE  down[q] \in Seq(Allowed(q)') /\ got[q] \in Seq(Allowed(q)')
  BY <1>1, AllowedMono DEF IInv, AnswerInv
<1>2. m \in Allowed(p)'
  BY DEF Allowed
<1>3. Append(down[p], m) \in Seq(Allowed(p)') /\ Append(down[p], m) \in Seq(Payloads)
  BY <1>0, <1>1, <1>2, AppendType
<1>4. \A q \in Clients : down'[q] \in Seq(Allowed(q)')
  BY <1>0, <1>1, <1>3
<1>5. AnswerInv'
  BY <1>1, <1>4 DEF IInv, AnswerInv, clientVars
<1> QED
  BY <1>0, <1>3, <1>5

LEMMA AcceptInv ==
  ASSUME IInv, NEW p \in Clients, Accept(p) \/ HandlerTimeout(p)
  PROVE  IInv'
<1>1. PICK h \in {"hello", "done"} : handler' = [handler EXCEPT ![p] = h]
  BY DEF Accept, HandlerTimeout
<1>2. /\ UNCHANGED <<clientVars, up, down, inRoom, id, roomVars>> /\ ~Placed(p)
  BY DEF Accept, HandlerTimeout, Placed
<1>3. /\ ClaimInv' /\ PlacedInv'
      /\ \A q \in Clients : Placed(q) => Placed(q)' /\ id'[q] = id[q]
  BY <1>1, <1>2, HandlerMoves DEF roomVars
<1>4. AnswerInv'
  BY <1>2, <1>3, AnswersKept
<1>5. TypeOK'
  BY HandlerType DEF IInv, HandlerStep
<1> QED
  BY <1>3, <1>4, <1>5 DEF IInv

LEMMA ReadHelloInv ==
  ASSUME IInv, NEW p \in Clients, ReadHello(p)
  PROVE  IInv'
<1>1. PICK h \in {"join", "done"} : handler' = [handler EXCEPT ![p] = h]
  BY DEF ReadHello
<1>2. PICK kind \in {"HelloAck", "Refused"} :
        down' = [down EXCEPT ![p] = Append(@, Payload(kind, 0))]
  BY DEF ReadHello
<1>3. /\ UNCHANGED <<clientVars, inRoom, id, roomVars>> /\ ~Placed(p)
      /\ up[p] # <<>> /\ up' = [up EXCEPT ![p] = Tail(@)]
  BY DEF ReadHello, Placed
<1>4. /\ ClaimInv' /\ PlacedInv'
      /\ \A q \in Clients : Placed(q) => Placed(q)' /\ id'[q] = id[q]
  BY <1>1, <1>3, HandlerMoves DEF roomVars
<1>5. Payload(kind, 0) \in Payloads /\ Payload(kind, 0).kind # "JoinAck"
  BY DEF Payload, Payloads
<1>6. AnswerInv' /\ down' \in [Clients -> Seq(Payloads)]
  BY <1>2, <1>3, <1>4, <1>5, AnswerSent
<1>8. TypeOK'
  BY HandlerType DEF IInv, HandlerStep
<1> QED
  BY <1>4, <1>6, <1>8 DEF IInv

LEMMA ReadJoinInv ==
  ASSUME IInv, NEW p \in Clients, ReadJoin(p)
  PROVE  IInv'
<1>0. TypeOK
  BY DEF IInv
<1>1. PICK x \in Names, r \in RoomIds :
        GetOrCreate(x, r) /\ inRoom' = [inRoom EXCEPT ![p] = r]
  BY DEF ReadJoin
<1>2. /\ UNCHANGED <<clientVars, down, id>> /\ ~Placed(p)
      /\ up[p] # <<>> /\ up' = [up EXCEPT ![p] = Tail(@)]
      /\ handler' = [handler EXCEPT ![p] = "scan"]
  BY DEF ReadJoin, Placed
<1>3. UNCHANGED <<players, queued, overtaken>>
  BY <1>1 DEF GetOrCreate, roomVars
<1>4. /\ inRoom'[p] \in RoomIds /\ \A q \in Clients : q # p => inRoom'[q] = inRoom[q]
      /\ inRoom' \in [Clients -> RoomIds \cup {NoRoom}]
  BY <1>0, <1>1 DEF TypeOK
<1>5. /\ ClaimInv' /\ PlacedInv'
      /\ \A q \in Clients : Placed(q) => Placed(q)' /\ id'[q] = id[q]
  BY <1>2, <1>3, <1>4, HandlerMoves
<1>6. AnswerInv'
  BY <1>2, <1>5, AnswersKept
<1>8. TypeOK'
  BY HandlerType DEF IInv, HandlerStep
<1> QED
  BY <1>5, <1>6, <1>8 DEF IInv

LEMMA ScanInv ==
  ASSUME IInv, AtomicAdd, NEW p \in Clients, Scan(p)
  PROVE  IInv'
<1>0. TypeOK /\ inRoom[p] \in RoomIds /\ handler[p] = "scan" /\ ~Placed(p)
  BY DEF IInv, PlacedInv, Scan, Placed
<1>1. /\ UNCHANGED <<clientVars, up, inRoom, roomVars>>
      /\ \A q \in Clients : handler[q] = "claim" => inRoom[q] # inRoom[p]
  BY DEF Scan
<1>2. CASE /\ FreeSlots(inRoom[p]) = {}
           /\ down' = [down EXCEPT ![p] = Append(@, Payload("Refused", 0))]
           /\ handler' = [handler EXCEPT ![p] = "done"]
           /\ UNCHANGED id
  <2>1. /\ ClaimInv' /\ PlacedInv'
        /\ \A q \in Clients : Placed(q) => Placed(q)' /\ id'[q] = id[q]
    BY <1>0, <1>1, <1>2, HandlerMoves DEF roomVars
  <2>2. Payload("Refused", 0) \in Payloads /\ Payload("Refused", 0).kind # "JoinAck"
    BY DEF Payload, Payloads
  <2>3. AnswerInv' /\ down' \in [Clients -> Seq(Payloads)]
    BY <1>1, <1>2, <2>1, <2>2, AnswerSent
  <2>4. TypeOK'
    BY HandlerType DEF IInv, HandlerStep
  <2> QED
    BY <2>1, <2>3, <2>4 DEF IInv
<1>3. ASSUME NEW i \in PlayerIds, IsFirst(i, FreeSlots(inRoom[p])),
             id' = [id EXCEPT ![p] = i], handler' = [handler EXCEPT ![p] = "claim"],
             UNCHANGED down
      PROVE  IInv'
  <2>1. players[inRoom[p]][i] = Nobody
    BY <1>3 DEF IsFirst, FreeSlots
  <2>2. /\ \A q \in Clients : q # p => handler'[q] = handler[q] /\ id'[q] = id[q]
        /\ handler'[p] = "claim" /\ id'[p] = i
    BY <1>0, <1>3 DEF TypeOK
  <2>3. \A q \in Clients : Placed(q) <=> Placed(q)'
    BY <1>0, <2>2 DEF Placed
  <2>4. inRoom' = inRoom /\ players' = players
    BY <1>1 DEF roomVars
  <2>5. ClaimInv'
    BY <1>0, <1>1, <2>1, <2>2, <2>4 DEF IInv, ClaimInv
  <2>6. PlacedInv'
    BY <1>0, <2>2, <2>3, <2>4 DEF IInv, PlacedInv
  <2>7. AnswerInv'
    BY <1>0, <1>1, <1>3, <2>2, <2>3, AnswersKept
  <2>8. TypeOK'
    BY HandlerType DEF IInv, HandlerStep
  <2> QED
    BY <2>5, <2>6, <2>7, <2>8 DEF IInv
<1> QED
  BY <1>2, <1>3 DEF Scan

LEMMA ClaimStep ==
  ASSUME IInv, NEW p \in Clients, Claim(p)
  PROVE  IInv'
<1>0. /\ TypeOK /\ ~Placed(p) /\ handler[p] = "claim"
      /\ inRoom[p] \in RoomIds /\ id[p] \in PlayerIds
      /\ players[inRoom[p]][id[p]] = Nobody
  BY DEF IInv, ClaimInv, Claim, Placed
<1>1. /\ players' = [players EXCEPT ![inRoom[p]][id[p]] = p]
      /\ handler' = [handler EXCEPT ![p] = "ack"]
      /\ UNCHANGED <<clientVars, up, down, inRoom, id, registry, name, status, queued, overtaken>>
  BY DEF Claim
<1>2. /\ \A q \in Clients : q # p => handler'[q] = handler[q]
      /\ handler'[p] = "ack"
      /\ players'[inRoom[p]][id[p]] = p
      /\ \A r \in RoomIds, i \in PlayerIds :
           ~(r = inRoom[p] /\ i = id[p]) => players'[r][i] = players[r][i]
      /\ players' \in [RoomIds -> [PlayerIds -> Clients \cup {Nobody}]]
  BY <1>0, <1>1 DEF TypeOK
<1>3. \A q \in Clients : (q # p => (Placed(q) <=> Placed(q)')) /\ Placed(p)'
  BY <1>2 DEF Placed
<1>4. inRoom' = inRoom /\ id' = id
  BY <1>1
<1>5. Nobody \notin Clients
  BY SessionAssumption DEF SessionAssumption
<1>6. ClaimInv'
  BY <1>0, <1>2, <1>4 DEF IInv, ClaimInv
<1>7. ASSUME NEW q \in Clients
      PROVE  /\ handler'[q] = "scan" => inRoom'[q] \in RoomIds
             /\ Placed(q)' => /\ inRoom'[q] \in RoomIds /\ id'[q] \in PlayerIds
                              /\ players'[inRoom'[q]][id'[q]] = q
             /\ \A r \in RoomIds, i \in PlayerIds :
                  players'[r][i] = q => Placed(q)' /\ r = inRoom'[q] /\ i = id'[q]
  BY <1>0, <1>2, <1>3, <1>4, <1>5 DEF IInv, PlacedInv
<1>8. PlacedInv'
  BY <1>7 DEF PlacedInv
<1>9. AnswerInv'
  BY <1>0, <1>1, <1>3, AnswersKept
<1>10. TypeOK'
  BY HandlerType DEF IInv, HandlerStep
<1> QED
  BY <1>6, <1>8, <1>9, <1>10 DEF IInv

LEMMA SendJoinAckInv ==
  ASSUME IInv, NEW p \in Clients, SendJoinAck(p)
  PROVE  IInv'
<1>0. TypeOK /\ Placed(p) /\ id[p] \in PlayerIds
  BY DEF IInv, PlacedInv, SendJoinAck, Placed
<1>1. /\ handler' = [handler EXCEPT ![p] = "serve"]
      /\ down' = [down EXCEPT ![p] = Append(@, Payload("JoinAck", id[p]))]
      /\ UNCHANGED <<clientVars, up, inRoom, id, roomVars>>
  BY DEF SendJoinAck
<1>2. /\ ClaimInv' /\ PlacedInv'
      /\ \A q \in Clients : Placed(q) => Placed(q)' /\ id'[q] = id[q]
  BY <1>0, <1>1, HandlerMoves DEF roomVars
<1>3. Payload("JoinAck", id[p]) \in Payloads /\ Payload("JoinAck", id[p]).id = id'[p]
  BY <1>0, <1>1 DEF Payload, Payloads
<1>4. AnswerInv' /\ down' \in [Clients -> Seq(Payloads)]
  BY <1>0, <1>1, <1>2, <1>3, AnswerSent
<1>5. TypeOK'
  BY HandlerType DEF IInv, HandlerStep
<1> QED
  BY <1>2, <1>4, <1>5 DEF IInv

LEMMA ForwardInv ==
  ASSUME IInv, NEW p \in Clients, Take(p) \/ Post(p)
  PROVE  IInv'
<1>0. TypeOK /\ Placed(p) /\ inRoom[p] \in RoomIds
  BY DEF IInv, PlacedInv, Take, Post, Placed
<1>1. PICK h \in {"serve", "post"} : handler' = [handler EXCEPT ![p] = h]
  BY DEF Take, Post
<1>2. UNCHANGED <<clientVars, down, inRoom, id, registry, name, status, players, overtaken>>
  BY DEF Take, Post, roomVars
<1>3. /\ ClaimInv' /\ PlacedInv'
      /\ \A q \in Clients : Placed(q) => Placed(q)' /\ id'[q] = id[q]
  BY <1>0, <1>1, <1>2, HandlerMoves
<1>4. AnswerInv'
  BY <1>2, <1>3, AnswersKept
<1>7. TypeOK'
  BY HandlerType DEF IInv, HandlerStep
<1> QED
  BY <1>3, <1>4, <1>7 DEF IInv

-----------------------------------------------------------------------------
(* The rooms' steps *)

LEMMA RoomInv ==
  ASSUME IInv, (\E r \in RoomIds : RoomStep(r)) \/ (\E x \in Names : Remove(x))
  PROVE  IInv'
<1>0. TypeOK
  BY DEF IInv
<1>1. UNCHANGED <<clientVars, up, handlerVars, name, players>>
  BY DEF RoomStep, HandleMsgs, SealTick, Stop, Remove
<1>2. ClaimInv' /\ PlacedInv'
  BY <1>1, SlotsSame
<1>3. \A q \in Clients : Allowed(q)' = Allowed(q) /\ (Placed(q)' <=> Placed(q)) /\ id'[q] = id[q]
  BY <1>1 DEF Allowed, Placed, handlerVars
<1>5. ASSUME NEW to, Broadcast(to)
      PROVE  /\ down' \in [Clients -> Seq(Payloads)]
             /\ \A q \in Clients : down'[q] \in Seq(Allowed(q))
  <2>1. Payload("Frame", 0) \in Payloads /\ \A q \in Clients : Payload("Frame", 0) \in Allowed(q)
    BY DEF Payload, Payloads, Allowed
  <2>2. ASSUME NEW q \in Clients
        PROVE  /\ down[q] \in Seq(Payloads) /\ down[q] \in Seq(Allowed(q))
               /\ Append(down[q], Payload("Frame", 0)) \in Seq(Payloads)
               /\ Append(down[q], Payload("Frame", 0)) \in Seq(Allowed(q))
    <3>1. down[q] \in Seq(Payloads) /\ down[q] \in Seq(Allowed(q))
      BY <1>0 DEF IInv, AnswerInv, TypeOK
    <3> QED
      BY <2>1, <3>1, AppendType
  <2> QED
    BY <1>5, <2>2 DEF Broadcast
<1>6. down' \in [Clients -> Seq(Payloads)] /\ \A q \in Clients : down'[q] \in Seq(Allowed(q))
  <2>1. CASE UNCHANGED down
    BY <1>0, <2>1 DEF IInv, AnswerInv, TypeOK
  <2>2. CASE \E r \in RoomIds : SealTick(r)
    BY <1>5, <2>2 DEF SealTick
  <2> QED
    BY <2>1, <2>2 DEF RoomStep, HandleMsgs, Stop, Remove
<1>7. AnswerInv'
  BY <1>1, <1>3, <1>6 DEF IInv, AnswerInv, clientVars
<1>8. TypeOK'
  BY TypeStep DEF IInv, Next
<1> QED
  BY <1>2, <1>7, <1>8 DEF IInv

LEMMA StutterInv == IInv /\ UNCHANGED vars => IInv'
<1> SUFFICES ASSUME IInv, UNCHANGED vars PROVE IInv'
  OBVIOUS
<1>1. UNCHANGED <<clientVars, up, down, handlerVars, roomVars>>
  BY DEF vars
<1>2. ClaimInv' /\ PlacedInv'
  BY <1>1, SlotsSame DEF roomVars
<1>3. AnswerInv'
  BY <1>1, AnswersKept DEF Placed, handlerVars
<1>4. TypeOK'
  BY TypeStep DEF IInv, Next
<1> QED
  BY <1>2, <1>3, <1>4 DEF IInv

LEMMA InvStep == AtomicAdd /\ IInv /\ [Next]_vars => IInv'
<1> SUFFICES ASSUME AtomicAdd, IInv, [Next]_vars PROVE IInv'
  OBVIOUS
<1>1. ASSUME NEW p \in Clients, HandlerStep(p) PROVE IInv'
  BY <1>1, AcceptInv, ReadHelloInv, ReadJoinInv, ScanInv, ClaimStep, SendJoinAckInv, ForwardInv
     DEF HandlerStep
<1> QED
  BY <1>1, ClientInv, RoomInv, StutterInv DEF Next

LEMMA Invariance == AtomicAdd => (Spec => []IInv)
<1> SUFFICES ASSUME AtomicAdd PROVE Spec => []IInv
  OBVIOUS
<1>1. IInv /\ [Next]_vars => IInv'
  BY InvStep
<1> QED
  BY <1>1, InvInit, PTL DEF Spec

\* Under a lock, a client that joined has its slot, and has it alone.
THEOREM SlotOwnedCorrect == AtomicAdd => (Spec => []SlotOwned)
<1> SUFFICES ASSUME AtomicAdd PROVE Spec => []SlotOwned
  OBVIOUS
<1>1. IInv => SlotOwned
  BY DEF IInv, SlotOwned, AnswerInv, PlacedInv
<1>2. Spec => []IInv
  BY Invariance
<1> QED
  BY <1>1, <1>2, PTL

-----------------------------------------------------------------------------
(* Joining implements Seats *)

LEMMA SeatsInit == Init => Promise!Init
BY DEF Init, Promise!Init, Told

\* A step that leaves the slots and what clients were told is a stutter.
LEMMA SeatsStutter ==
  ASSUME UNCHANGED players,
         \A p \in Clients :
           /\ client'[p] = "joined" <=> client[p] = "joined"
           /\ client[p] = "joined" => inRoom'[p] = inRoom[p] /\ joinedAs'[p] = joinedAs[p]
  PROVE  [Promise!Next]_<<players, Told>>
BY DEF Told

LEMMA SeatsClaim ==
  ASSUME IInv, NEW p \in Clients, Claim(p)
  PROVE  [Promise!Next]_<<players, Told>>
<1>1. /\ inRoom[p] \in RoomIds /\ id[p] \in PlayerIds
      /\ players[inRoom[p]][id[p]] = Nobody
      /\ \A r \in RoomIds, i \in PlayerIds : players[r][i] # p
  BY DEF IInv, ClaimInv, PlacedInv, Placed, Claim
<1>2. Told' = Told /\ players' = [players EXCEPT ![inRoom[p]][id[p]] = p]
  BY DEF Told, Claim, clientVars
<1>3. Promise!Take(p, inRoom[p], id[p])
  BY <1>1, <1>2 DEF Promise!Take
<1> QED
  BY <1>1, <1>3 DEF Promise!Next

LEMMA SeatsTell ==
  ASSUME IInv, NEW p \in Clients, ClientStep(p)
  PROVE  [Promise!Next]_<<players, Told>>
<1>0. client \in [Clients -> {"syn", "hello", "join", "joined", "rejected", "expired"}]
      /\ joinedAs \in [Clients -> PlayerIds \cup {0}]
  BY DEF IInv, TypeOK
<1>1. UNCHANGED <<players, inRoom>>
  BY DEF ClientStep, ReadSynAck, ReadInbox, ConnectTimeout, Dispatch, SendCmd, handlerVars, roomVars
<1>2. \A q \in Clients : q # p => client'[q] = client[q] /\ joinedAs'[q] = joinedAs[q]
  BY <1>0 DEF ClientStep, ReadSynAck, ReadInbox, Answered, ConnectTimeout, Dispatch, SendCmd, clientVars
<1>3. client[p] = "joined" => client'[p] = "joined" /\ joinedAs'[p] = joinedAs[p]
  BY <1>0 DEF ClientStep, ReadSynAck, ReadInbox, ConnectTimeout, Dispatch, SendCmd, clientVars
<1>4. CASE client[p] = "joined" \/ client'[p] # "joined"
  BY <1>1, <1>2, <1>3, <1>4, SeatsStutter
<1>5. CASE client[p] # "joined" /\ client'[p] = "joined"
  <2>1. IInv'
    BY ClientInv
  <2>2. /\ inRoom[p] \in RoomIds /\ joinedAs'[p] \in PlayerIds
        /\ players[inRoom[p]][joinedAs'[p]] = p
    BY <1>1, <1>5, <2>1 DEF IInv, AnswerInv, PlacedInv
  <2>3. Told' = [Told EXCEPT ![p] = <<inRoom[p], joinedAs'[p]>>] /\ Told[p] = NoSeat
    BY <1>1, <1>2, <1>5 DEF Told
  <2>4. Promise!Tell(p, inRoom[p], joinedAs'[p])
    BY <1>1, <2>2, <2>3 DEF Promise!Tell
  <2> QED
    BY <2>2, <2>4 DEF Promise!Next
<1> QED
  BY <1>3, <1>4, <1>5

LEMMA SeatsStep ==
  ASSUME AtomicAdd, IInv, [Next]_vars
  PROVE  [Promise!Next]_<<players, Told>>
<1>1. ASSUME NEW p \in Clients, HandlerStep(p)
      PROVE  [Promise!Next]_<<players, Told>>
  <2>1. CASE Claim(p)
    BY <2>1, SeatsClaim
  <2>2. CASE ReadJoin(p)
    <3>1. client[p] # "joined"
      BY <2>2 DEF IInv, AnswerInv, Placed, ReadJoin
    <3>2. \A q \in Clients : q # p => inRoom'[q] = inRoom[q]
      BY <2>2 DEF IInv, TypeOK, ReadJoin
    <3>3. UNCHANGED <<clientVars, players>>
      BY <2>2 DEF ReadJoin, GetOrCreate, roomVars
    <3> QED
      BY <3>1, <3>2, <3>3, SeatsStutter DEF clientVars
  <2>3. CASE ~Claim(p) /\ ~ReadJoin(p)
    <3>1. UNCHANGED <<clientVars, players, inRoom>>
      BY <1>1, <2>3 DEF HandlerStep, Accept, HandlerTimeout, ReadHello, Scan, SendJoinAck,
         Take, Post, roomVars
    <3> QED
      BY <3>1, SeatsStutter DEF clientVars
  <2> QED
    BY <2>1, <2>2, <2>3
<1>2. ASSUME (\E r \in RoomIds : RoomStep(r)) \/ (\E x \in Names : Remove(x)) \/ UNCHANGED vars
      PROVE  [Promise!Next]_<<players, Told>>
  <2>1. UNCHANGED <<clientVars, players, inRoom>>
    BY <1>2 DEF RoomStep, HandleMsgs, SealTick, Stop, Remove, vars, handlerVars, roomVars
  <2> QED
    BY <2>1, SeatsStutter DEF clientVars
<1> QED
  BY <1>1, <1>2, SeatsTell DEF Next

\* Under a lock, joining implements Seats: slots are taken once and kept, and a
\* client is told of its own (AddPlayer, SendJoinAck, Connect).
THEOREM SeatsCorrect == AtomicAdd => (Spec => SeatsSpec)
<1> SUFFICES ASSUME AtomicAdd PROVE Spec => SeatsSpec
  OBVIOUS
<1>1. IInv /\ [Next]_vars => [Promise!Next]_<<players, Told>>
  BY SeatsStep
<1>2. Spec => []IInv
  BY Invariance
<1> QED
  BY <1>1, <1>2, SeatsInit, PTL DEF Spec, SeatsSpec, Promise!Spec

-----------------------------------------------------------------------------
(* What a client that waits is sent *)

\* What k of the payloads of a stream are, and the rest.
LEMMA Released ==
  ASSUME NEW S, NEW q \in Seq(S), NEW k \in 0..Len(q)
  PROVE  /\ <<>> \o SubSeq(q, 1, k) = SubSeq(q, 1, k)
         /\ Len(SubSeq(q, 1, k)) = k /\ Len(SubSeq(q, k + 1, Len(q))) = Len(q) - k
         /\ k = 0 => SubSeq(q, 1, k) = <<>> /\ SubSeq(q, k + 1, Len(q)) = q
         /\ k # 0 => SubSeq(q, 1, k) # <<>> /\ Head(SubSeq(q, 1, k)) = Head(q)
<1> DEFINE first == SubSeq(q, 1, k)
           rest == SubSeq(q, k + 1, Len(q))
<1>0. /\ Len(q) \in Nat /\ k \in Int /\ k + 1 \in Int /\ 1 \in Int
      /\ \A i \in (k + 1)..Len(q) : q[i] \in S
      /\ \A i \in 1..k : q[i] \in S
  OBVIOUS
<1>1. /\ first \in Seq(S) /\ rest \in Seq(S)
      /\ Len(first) = k /\ Len(rest) = Len(q) - k
      /\ \A i \in 1..k : first[i] = q[i]
      /\ \A i \in 1..(Len(q) - k) : rest[i] = q[k + i]
  BY <1>0, SubSeqProperties
<1> HIDE DEF first, rest
<1>2. <<>> \o first = first
  BY <1>1
<1>3. k = 0 => first = <<>> /\ rest = q
  BY <1>0, <1>1
<1>4. k # 0 => first # <<>> /\ Head(first) = Head(q)
  BY <1>0, <1>1
<1> QED
  BY <1>1, <1>2, <1>3, <1>4 DEF first, rest

\* A stream of one payload is empty without it.
LEMMA LenTail ==
  ASSUME NEW S, NEW q \in Seq(S), Len(q) = 1 PROVE q # <<>> /\ Tail(q) = <<>>
<1>1. q # <<>> /\ Tail(q) \in Seq(S) /\ Len(Tail(q)) = 0
  BY HeadTailProperties
<1> QED
  BY <1>1, EmptySeq

\* The first payload of a stream stays the first when another is added.
LEMMA FirstStays ==
  ASSUME NEW S, NEW q \in Seq(S), NEW m \in S
  PROVE  /\ Append(q, m) # <<>>
         /\ q = <<>> => Len(Append(q, m)) = 1 /\ Head(Append(q, m)) = m
         /\ q # <<>> => Head(Append(q, m)) = Head(q)
BY AppendProperties, HeadTailAppend, EmptySeq

LEMMA HandshakeInit == Init => HandshakeInv
<1> SUFFICES ASSUME Init, NEW p \in Clients
             PROVE  Expected(p) /\ \A r \in RoomIds, i \in PlayerIds : players[r][i] # p
  BY DEF HandshakeInv
<1>1. Expected(p)
  BY DEF Init, Expected
<1>2. \A r \in RoomIds, i \in PlayerIds : players[r][i] # p
  BY SessionAssumption DEF SessionAssumption, Init
<1> QED
  BY <1>1, <1>2

\* A client that a step does not reach.
LEMMA ExpectedSame ==
  ASSUME NEW q \in Clients, Expected(q),
         client'[q] = client[q], got'[q] = got[q], up'[q] = up[q], down'[q] = down[q],
         handler'[q] = handler[q], overtaken \subseteq overtaken'
  PROVE  Expected(q)'
BY DEF Expected

LEMMA ReadInboxExpected ==
  ASSUME TypeOK, HandshakeInv, NEW p \in Clients, NEW k \in 0..Len(down[p]),
         NEW x \in Names \cup {NoName}, ReadInbox(p, k, x)
  PROVE  Expected(p)'
<1> DEFINE first == SubSeq(down[p], 1, k)
           rest == SubSeq(down[p], k + 1, Len(down[p]))
<1>0. /\ down[p] \in Seq(Payloads) /\ got[p] = <<>> /\ client[p] \in {"hello", "join"}
      /\ up[p] \in Seq(Messages) /\ Expected(p)
  BY DEF TypeOK, HandshakeInv, Expected, ReadInbox
<1>1. /\ <<>> \o first = first /\ Len(first) = k /\ Len(rest) = Len(down[p]) - k
      /\ k = 0 => first = <<>> /\ rest = down[p]
      /\ k # 0 => first # <<>> /\ Head(first) = Head(down[p])
  BY <1>0, Released
<1>2. /\ down' = [down EXCEPT ![p] = rest] /\ UNCHANGED <<handler, overtaken>>
      /\ \/ /\ first # <<>>
            /\ Answered(p, Head(first), x)
            /\ got' = [got EXCEPT ![p] = Tail(first)]
         \/ /\ first = <<>>
            /\ UNCHANGED <<got, client, joinedAs, up>>
  BY <1>0, <1>1 DEF ReadInbox, handlerVars, roomVars
<1>3. first \in Seq(Payloads) /\ rest \in Seq(Payloads)
  BY <1>0, SplitType
<1> HIDE DEF first, rest
<1>4. down'[p] = rest
  BY <1>2 DEF TypeOK
<1>5. CASE k = 0
  BY <1>0, <1>1, <1>2, <1>4, <1>5, ExpectedSame
<1>6. CASE k # 0 /\ client[p] = "hello"
  <2>1. Len(first) = 1 /\ k = 1 /\ Len(down[p]) = 1
    <3>1. down[p] # <<>>
      BY <1>6, EmptySeq
    <3>2. Len(down[p]) = 1
      BY <1>0, <1>6, <3>1 DEF Expected
    <3>3. k = 1
      BY <1>6, <3>2
    <3> QED
      BY <1>1, <3>2, <3>3
  <2>2. got'[p] = <<>> /\ rest = <<>>
    <3>1. got' = [got EXCEPT ![p] = Tail(first)] /\ got \in [Clients -> Seq(Payloads)]
      BY <1>1, <1>2, <1>6 DEF TypeOK
    <3>2. Tail(first) = <<>>
      BY <1>3, <2>1, LenTail
    <3>3. Len(rest) = 0
      BY <1>0, <1>1, <1>6, <2>1 DEF Expected
    <3> QED
      BY <1>3, <3>1, <3>2, <3>3, EmptySeq
  <2>3. CASE Head(first).kind = "HelloAck"
    <3>1. client'[p] = "join" /\ handler[p] \in {"join", "done"}
      BY <1>0, <1>1, <1>2, <1>6, <2>3 DEF Answered, TypeOK, Expected
    <3> QED
      BY <1>2, <1>4, <2>2, <3>1 DEF Expected
  <2>4. CASE Head(first).kind # "HelloAck"
    <3>1. handler[p] = "done"
      <4>1. handler[p] # "hello"
        BY <1>0, <1>3, <1>6 DEF Expected
      <4>2. handler[p] = "join" => Head(down[p]).kind = "HelloAck"
        BY <1>0, <1>6 DEF Expected
      <4>3. Head(down[p]).kind # "HelloAck"
        BY <1>1, <1>6, <2>4
      <4> QED
        BY <1>0, <1>6, <4>1, <4>2, <4>3 DEF Expected
    <3>2. client'[p] = "rejected"
      BY <1>1, <1>2, <1>6, <2>4 DEF Answered, TypeOK
    <3> QED
      BY <1>2, <3>1, <3>2 DEF Expected
  <2> QED
    BY <2>3, <2>4
<1>7. CASE k # 0 /\ client[p] = "join"
  <2>1. \/ client'[p] = "joined"
        \/ client'[p] = "rejected" /\ Head(down[p]).kind # "JoinAck"
    BY <1>1, <1>2, <1>7 DEF Answered, TypeOK
  <2>2. down[p] # <<>>
    BY <1>0, <1>7
  <2>3. Head(down[p]).kind # "JoinAck" => handler[p] = "done" \/ p \in overtaken
    BY <1>0, <1>7, <2>2 DEF Expected
  <2> QED
    BY <1>2, <2>1, <2>3 DEF Expected
<1> QED
  BY <1>0, <1>5, <1>6, <1>7

LEMMA HandshakeClient ==
  ASSUME TypeOK, HandshakeInv, NEW p \in Clients, ClientStep(p)
  PROVE  HandshakeInv'
<1>0. Expected(p)
  BY DEF HandshakeInv
<1>1. UNCHANGED <<handlerVars, roomVars>>
  BY DEF ClientStep, ReadSynAck, ReadInbox, ConnectTimeout, Dispatch, SendCmd
<1>2. ASSUME NEW q \in Clients, q # p PROVE Expected(q)'
  <2>1. /\ client'[q] = client[q] /\ got'[q] = got[q] /\ up'[q] = up[q] /\ down'[q] = down[q]
    BY <1>2 DEF ClientStep, ReadSynAck, ReadInbox, Answered, ConnectTimeout, Dispatch, SendCmd,
       clientVars, TypeOK
  <2> QED
    BY <1>1, <2>1, ExpectedSame DEF HandshakeInv, handlerVars, roomVars
<1>3. ASSUME ReadSynAck(p) PROVE Expected(p)'
  <2>1. client'[p] = "hello" /\ Len(up'[p]) = 1 /\ down'[p] = <<>> /\ got'[p] = <<>>
    BY <1>0, <1>3 DEF ReadSynAck, Expected, TypeOK
  <2>2. handler'[p] \in {"hello", "done"}
    BY <1>0, <1>1, <1>3 DEF ReadSynAck, Expected, handlerVars
  <2> QED
    BY <2>1, <2>2 DEF Expected
<1>4. ASSUME ConnectTimeout(p) \/ Dispatch(p) \/ SendCmd(p) PROVE Expected(p)'
  <2>1. client'[p] \in {"joined", "expired"}
    BY <1>4 DEF ConnectTimeout, Dispatch, SendCmd, clientVars, TypeOK
  <2> QED
    BY <2>1 DEF Expected
<1>5. Expected(p)'
  BY <1>3, <1>4, ReadInboxExpected DEF ClientStep
<1> QED
  BY <1>1, <1>2, <1>5 DEF HandshakeInv, Placed, handlerVars, roomVars

\* What the handler of p does, to p's streams.
LEMMA HandlerExpected ==
  ASSUME TypeOK, HandshakeInv, NEW p \in Clients, HandlerStep(p)
  PROVE  Expected(p)'
<1>0. /\ Expected(p) /\ client' = client /\ got' = got /\ overtaken' = overtaken
      /\ down[p] \in Seq(Payloads) /\ up[p] \in Seq(Messages)
  BY DEF HandshakeInv, HandlerStep, Accept, HandlerTimeout, ReadHello, ReadJoin, GetOrCreate,
     Scan, Claim, SendJoinAck, Take, Post, clientVars, roomVars, TypeOK
<1>1. CASE Accept(p) \/ HandlerTimeout(p)
  <2>1. /\ up' = up /\ down' = down /\ handler'[p] \in {"hello", "done"}
        /\ handler'[p] = "hello" => handler[p] = "none"
        /\ handler'[p] = "done" => handler[p] \in {"hello", "join"}
    BY <1>1 DEF Accept, HandlerTimeout, TypeOK
  <2> QED
    BY <1>0, <2>1 DEF Expected
<1>2. CASE ReadHello(p)
  <2>1. PICK kind \in {"HelloAck", "Refused"} :
          /\ down' = [down EXCEPT ![p] = Append(@, Payload(kind, 0))]
          /\ handler'[p] = IF kind = "HelloAck" THEN "join" ELSE "done"
    BY <1>2 DEF ReadHello, TypeOK
  <2>2. down'[p] = Append(down[p], Payload(kind, 0)) /\ Payload(kind, 0) \in Payloads
    BY <2>1, PayloadTypes, Sent
  <2>3. up'[p] = Tail(up[p]) /\ handler[p] = "hello" /\ up[p] # <<>>
    BY <1>2, UpTaken DEF ReadHello
  <2>4. CASE client[p] = "hello"
    <3>1. Len(up[p]) = 1 /\ down[p] = <<>>
      BY <1>0, <2>3, <2>4 DEF Expected
    <3>2. up'[p] = <<>>
      BY <1>0, <2>3, <3>1, LenTail
    <3>3. Len(down'[p]) = 1 /\ Head(down'[p]).kind = kind
      BY <1>0, <2>2, <3>1, FirstStays, PayloadTypes
    <3> QED
      BY <1>0, <2>1, <2>4, <3>2, <3>3 DEF Expected
  <2>5. CASE client[p] # "hello"
    BY <1>0, <2>3, <2>5 DEF Expected
  <2> QED
    BY <2>4, <2>5
<1>3. CASE ReadJoin(p)
  <2>1. /\ down' = down /\ handler[p] = "join" /\ handler'[p] = "scan" /\ up[p] # <<>>
    BY <1>3 DEF ReadJoin, TypeOK
  <2> QED
    BY <1>0, <2>1 DEF Expected
<1>4. CASE Scan(p)
  <2>1. /\ handler[p] = "scan" /\ up' = up
        /\ handler'[p] = "done" \/ (handler'[p] = "claim" /\ down' = down)
    BY <1>4 DEF Scan, TypeOK
  <2> QED
    BY <1>0, <2>1 DEF Expected
<1>5. CASE Claim(p)
  <2>1. handler[p] = "claim" /\ handler'[p] = "ack" /\ down' = down /\ up' = up
    BY <1>5 DEF Claim, TypeOK
  <2> QED
    BY <1>0, <2>1 DEF Expected
<1>6. CASE SendJoinAck(p)
  <2>1. Payload("JoinAck", id[p]) \in Payloads /\ Payload("JoinAck", id[p]).kind = "JoinAck"
    BY PayloadTypes DEF TypeOK
  <2>2. /\ down'[p] = Append(down[p], Payload("JoinAck", id[p]))
        /\ handler[p] = "ack" /\ handler'[p] = "serve"
    BY <1>6, <2>1, Sent DEF SendJoinAck, TypeOK
  <2>3. down'[p] # <<>> /\ (down[p] = <<>> => Head(down'[p]).kind = "JoinAck")
    BY <1>0, <2>1, <2>2, FirstStays
  <2> QED
    BY <1>0, <2>2, <2>3 DEF Expected
<1>7. CASE Take(p) \/ Post(p)
  <2>1. /\ handler[p] \in {"serve", "post"} /\ handler'[p] \in {"serve", "post"} /\ down' = down
    BY <1>7 DEF Take, Post, TypeOK
  <2> QED
    BY <1>0, <2>1 DEF Expected
<1> QED
  BY <1>1, <1>2, <1>3, <1>4, <1>5, <1>6, <1>7 DEF HandlerStep

LEMMA HandshakeHandler ==
  ASSUME TypeOK, HandshakeInv, NEW p \in Clients, HandlerStep(p)
  PROVE  HandshakeInv'
<1>0. /\ client' = client /\ got' = got /\ overtaken' = overtaken
  BY DEF HandlerStep, Accept, HandlerTimeout, ReadHello, ReadJoin, GetOrCreate,
     Scan, Claim, SendJoinAck, Take, Post, clientVars, roomVars
<1>1. \A q \in Clients : q # p =>
        handler'[q] = handler[q] /\ up'[q] = up[q] /\ down'[q] = down[q]
  BY DEF HandlerStep, Accept, HandlerTimeout, ReadHello, ReadJoin,
     Scan, Claim, SendJoinAck, Take, Post, TypeOK
<1>2. \A q \in Clients : Expected(q)'
  BY <1>0, <1>1, HandlerExpected, ExpectedSame DEF HandshakeInv
<1>3. Placed(p) => Placed(p)'
  BY DEF HandlerStep, Accept, HandlerTimeout, ReadHello, ReadJoin,
     Scan, Claim, SendJoinAck, Take, Post, TypeOK, Placed
<1>4. \A q \in Clients : Placed(q) => Placed(q)'
  BY <1>1, <1>3 DEF Placed
<1>5. CASE Claim(p)
  <2>1. handler'[p] = "ack" /\ players' = [players EXCEPT ![inRoom[p]][id[p]] = p]
    BY <1>5 DEF Claim, TypeOK
  <2>2. \A r \in RoomIds, i \in PlayerIds : players'[r][i] \in {players[r][i], p}
    BY <2>1 DEF TypeOK
  <2> QED
    BY <1>2, <1>4, <2>1, <2>2 DEF HandshakeInv, Placed
<1>6. CASE ~Claim(p)
  <2>1. players' = players
    BY <1>6 DEF HandlerStep, Accept, HandlerTimeout, ReadHello, ReadJoin, GetOrCreate,
     Scan, SendJoinAck, Take, Post, roomVars
  <2> QED
    BY <1>2, <1>4, <2>1 DEF HandshakeInv
<1> QED
  BY <1>5, <1>6

LEMMA HandshakeRoom ==
  ASSUME TypeOK, HandshakeInv, (\E r \in RoomIds : RoomStep(r)) \/ (\E x \in Names : Remove(x))
  PROVE  HandshakeInv'
<1>1. /\ UNCHANGED <<clientVars, up, handlerVars, players>> /\ overtaken \subseteq overtaken'
  BY DEF RoomStep, HandleMsgs, SealTick, Stop, Remove
<1>2. ASSUME NEW q \in Clients PROVE Expected(q)'
  <2>1. CASE down'[q] = down[q]
    BY <1>1, <2>1, ExpectedSame DEF HandshakeInv, clientVars, handlerVars
  <2>2. CASE down'[q] # down[q]
    <3>1. PICK r \in RoomIds : SealTick(r)
      BY <2>2 DEF RoomStep, HandleMsgs, Stop, Remove
    <3>2. /\ q \in InRoom(r) /\ down'[q] = Append(down[q], Payload("Frame", 0))
          /\ handler[q] = "ack" => q \in overtaken'
      BY <2>2, <3>1 DEF SealTick, Broadcast
    <3>3. Placed(q) /\ Expected(q)
      BY <3>2 DEF HandshakeInv, InRoom
    <3>4. /\ down'[q] # <<>>
          /\ down[q] # <<>> => Head(down'[q]) = Head(down[q])
      BY <3>2, PayloadTypes, FirstStays DEF TypeOK
    <3>5. client[q] \notin {"syn", "hello"}
      BY <3>3 DEF Expected, Placed
    <3> QED
      BY <1>1, <3>2, <3>3, <3>4, <3>5 DEF Expected, Placed, clientVars, handlerVars
  <2> QED
    BY <2>1, <2>2
<1> QED
  BY <1>1, <1>2 DEF HandshakeInv, Placed, handlerVars

LEMMA HandshakeStep == TypeOK /\ HandshakeInv /\ [Next]_vars => HandshakeInv'
<1>1. HandshakeInv /\ UNCHANGED vars => HandshakeInv'
  BY ExpectedSame DEF HandshakeInv, Placed, vars, clientVars, handlerVars, roomVars
<1> QED
  BY <1>1, HandshakeClient, HandshakeHandler, HandshakeRoom DEF Next

LEMMA HandshakeInvariance == Spec => [](TypeOK /\ HandshakeInv)
BY TypeInit, TypeStep, HandshakeInit, HandshakeStep, PTL DEF Spec

\* While Connect waits it has read all it was sent (readInboxWithTimeout):
\* nothing more is sent until it has answered, or it stops at the first payload.
THEOREM NothingLeftBehindCorrect == Spec => []NothingLeftBehind
<1>1. HandshakeInv => NothingLeftBehind
  BY DEF HandshakeInv, Expected, NothingLeftBehind
<1> QED
  BY <1>1, HandshakeInvariance, PTL

\* A client is rejected because the server refused it or because a frame
\* overtook its JoinAck (AddPlayer before SendJoinAck in handleConnection).
THEOREM RejectionMeantCorrect == Spec => []RejectionMeant
<1>1. HandshakeInv => RejectionMeant
  BY DEF HandshakeInv, Expected, RejectionMeant
<1> QED
  BY <1>1, HandshakeInvariance, PTL

-----------------------------------------------------------------------------
(* The names of the registry *)

LEMMA NameInit == Init => NameInv
BY SessionAssumption DEF Init, NameInv, SessionAssumption, NoRoom, RoomIds

\* A room made for a name that has none, and no other step, adds to the registry.
LEMMA NameCreate ==
  ASSUME NameInv, NEW x \in Names, NEW r \in RoomIds, GetOrCreate(x, r)
  PROVE  NameInv'
<1>1. CASE UNCHANGED roomVars
  BY <1>1 DEF NameInv, roomVars
<1>2. CASE registry[x] = NoRoom /\ Unused(r)
  <2>1. /\ registry' = [registry EXCEPT ![x] = r]
        /\ name' = [name EXCEPT ![r] = x]
        /\ status' = [status EXCEPT ![r] = "running"]
        /\ status[r] = "none" /\ r # NoRoom /\ x # NoName
    BY <1>2, SessionAssumption DEF GetOrCreate, Unused, NoRoom, RoomIds, SessionAssumption
  <2>2. \A s \in RoomIds : s # NoRoom
    BY DEF RoomIds, NoRoom
  <2>3. /\ registry' \in [Names -> RoomIds \cup {NoRoom}]
        /\ name' \in [RoomIds -> Names \cup {NoName}]
        /\ status' \in [RoomIds -> {"none", "running", "cancelled", "stopped"}]
    BY <2>1 DEF NameInv
  <2>4. ASSUME NEW s \in RoomIds
        PROVE  /\ name'[s] = NoName <=> status'[s] = "none"
               /\ status'[s] = "running" => registry'[name'[s]] = s
    BY <1>2, <2>1, <2>2 DEF NameInv
  <2>5. ASSUME NEW y \in Names, registry'[y] # NoRoom
        PROVE  name'[registry'[y]] = y /\ status'[registry'[y]] = "running"
    BY <2>1, <2>5 DEF NameInv
  <2> QED
    BY <2>3, <2>4, <2>5 DEF NameInv
<1> QED
  BY <1>1, <1>2 DEF GetOrCreate

LEMMA NameRemove ==
  ASSUME NameInv, NEW x \in Names, Remove(x)
  PROVE  NameInv'
<1>1. PICK r \in RoomIds : r = registry[x] /\ name[r] = x /\ status[r] = "running" /\ r # NoRoom
  BY DEF NameInv, Remove
<1>2. registry' = [registry EXCEPT ![x] = NoRoom] /\ status' = [status EXCEPT ![r] = "cancelled"]
      /\ name' = name
  BY <1>1 DEF Remove
<1> QED
  BY <1>1, <1>2 DEF NameInv

LEMMA NameStep == NameInv /\ [Next]_vars => NameInv'
<1> SUFFICES ASSUME NameInv, [Next]_vars PROVE NameInv'
  OBVIOUS
<1>1. ASSUME UNCHANGED <<registry, name, status>> PROVE NameInv'
  BY <1>1 DEF NameInv
<1>2. ASSUME NEW p \in Clients, ClientStep(p) PROVE UNCHANGED <<registry, name, status>>
  BY <1>2 DEF ClientStep, ReadSynAck, ReadInbox, ConnectTimeout, Dispatch, SendCmd, roomVars
<1>3. ASSUME NEW p \in Clients, HandlerStep(p) PROVE NameInv'
  <2>1. CASE ReadJoin(p)
    BY <2>1, NameCreate DEF ReadJoin
  <2>2. CASE ~ReadJoin(p)
    BY <1>3, <2>2, <1>1 DEF HandlerStep, Accept, HandlerTimeout, ReadHello, Scan, Claim,
       SendJoinAck, Take, Post, roomVars
  <2> QED
    BY <2>1, <2>2
<1>4. ASSUME NEW r \in RoomIds, RoomStep(r) PROVE NameInv'
  <2>1. CASE Stop(r)
    BY <2>1 DEF Stop, NameInv
  <2>2. CASE HandleMsgs(r) \/ SealTick(r)
    BY <2>2, <1>1 DEF HandleMsgs, SealTick
  <2> QED
    BY <1>4, <2>1, <2>2 DEF RoomStep
<1>5. CASE UNCHANGED vars
  BY <1>1, <1>5 DEF vars, roomVars
<1> QED
  BY <1>1, <1>2, <1>3, <1>4, <1>5, NameRemove DEF Next

\* A room is running under its name or not at all, and no name has two
\* (Registry.GetOrCreate and Remove).
THEOREM OneRoomPerNameCorrect == Spec => []OneRoomPerName
<1>1. NameInv => OneRoomPerName
  BY DEF NameInv, OneRoomPerName, RoomIds, NoRoom
<1> QED
  BY <1>1, NameInit, NameStep, PTL DEF Spec
=============================================================================
