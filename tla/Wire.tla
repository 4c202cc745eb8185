-------------------------------- MODULE Wire --------------------------------
(***************************************************************************)
(* The messages (wire/codec.go) and the datagrams that carry them          *)
(* (transport/packet.go), from the sender's structure to what the reader   *)
(* of the socket makes of it.  Fields are numbers, strings their length.   *)
(***************************************************************************)
EXTENDS Bytes

CONSTANTS
  MaxStr,      \* 32 in the code
  Buffer,      \* the bytes the read loops make room for, 2048
  CmdsInFrame  \* commands in a frame (bound of the model)

\* The length of a name has a byte, the number of commands two.
ASSUME WireAssumption == MaxStr \in 0..255 /\ Buffer \in Nat /\ CmdsInFrame \in 0..65535

\* MsgType
TypeOf == [Hello |-> 1, HelloAck |-> 2, JoinRoom |-> 3, JoinAck |-> 4, Cmd |-> 10,
           FrameBundle |-> 11, HashAck |-> 12, RTTReport |-> 13, NPub |-> 14,
           FeedbackHint |-> 15, Resume |-> 20]

CmdFields == <<<<"Tick", 4>>, <<"Player", 1>>, <<"Op", 1>>, <<"UnitID", 4>>,
               <<"TargetX", 4>>, <<"TargetY", 4>>, <<"TargetID", 4>>>>

\* The encoders: the fields in the order they are written, after the string
\* where the structure has one.
FieldsOf ==
  [Hello        |-> <<<<"ProtocolVersion", 2>>>>,
   HelloAck     |-> <<<<"ProtocolVersion", 2>>, <<"ServerTickRate", 2>>, <<"Accepted", 1>>>>,
   JoinRoom     |-> <<>>,
   JoinAck      |-> <<<<"PlayerID", 1>>, <<"Seed", 8>>, <<"MapW", 4>>, <<"MapH", 4>>,
                      <<"Accepted", 1>>>>,
   Cmd          |-> CmdFields,
   FrameBundle  |-> <<<<"Tick", 4>>, <<"NCurrent", 1>>>>,
   HashAck      |-> <<<<"Tick", 4>>, <<"Hash", 8>>>>,
   RTTReport    |-> <<<<"Sample0", 2>>, <<"Sample1", 2>>, <<"Sample2", 2>>>>,
   NPub         |-> <<<<"EffectiveFromTick", 4>>, <<"N", 1>>>>,
   FeedbackHint |-> <<<<"Tick", 4>>, <<"Player", 1>>, <<"HintID", 2>>>>,
   Resume       |-> <<<<"ConnID", 2>>, <<"LastExecutedTick", 4>>, <<"Token", 16>>>>]

\* The decoders: where each field is read, and how many bytes must be there.
\* Mutant: the two halves of a place are exchanged.
CmdAtSwapped == [Tick |-> <<0, 4>>, Player |-> <<4, 1>>, Op |-> <<5, 1>>, UnitID |-> <<6, 4>>,
                 TargetX |-> <<14, 4>>, TargetY |-> <<10, 4>>, TargetID |-> <<18, 4>>]
CmdAt == [Tick |-> <<0, 4>>, Player |-> <<4, 1>>, Op |-> <<5, 1>>, UnitID |-> <<6, 4>>,
          TargetX |-> <<10, 4>>, TargetY |-> <<14, 4>>, TargetID |-> <<18, 4>>]
CmdPayloadSize == 22

FieldsAt ==
  [Hello        |-> [ProtocolVersion |-> <<0, 2>>],
   HelloAck     |-> [ProtocolVersion |-> <<0, 2>>, ServerTickRate |-> <<2, 2>>,
                     Accepted |-> <<4, 1>>],
   JoinRoom     |-> <<>>,
   JoinAck      |-> [PlayerID |-> <<0, 1>>, Seed |-> <<1, 8>>, MapW |-> <<9, 4>>,
                     MapH |-> <<13, 4>>, Accepted |-> <<17, 1>>],
   Cmd          |-> CmdAt,
   FrameBundle  |-> [Tick |-> <<0, 4>>, NCurrent |-> <<4, 1>>],
   HashAck      |-> [Tick |-> <<0, 4>>, Hash |-> <<4, 8>>],
   RTTReport    |-> [Sample0 |-> <<0, 2>>, Sample1 |-> <<2, 2>>, Sample2 |-> <<4, 2>>],
   NPub         |-> [EffectiveFromTick |-> <<0, 4>>, N |-> <<4, 1>>],
   FeedbackHint |-> [Tick |-> <<0, 4>>, Player |-> <<4, 1>>, HintID |-> <<5, 2>>],
   Resume       |-> [ConnID |-> <<0, 2>>, LastExecutedTick |-> <<2, 4>>, Token |-> <<6, 16>>]]

\* Without the string's own bytes.
MinLen == [Hello |-> 3, HelloAck |-> 5, JoinRoom |-> 1, JoinAck |-> 19, Cmd |-> 22,
           FrameBundle |-> 7, HashAck |-> 12, RTTReport |-> 6, NPub |-> 5,
           FeedbackHint |-> 7, Resume |-> 22]

Kinds == DOMAIN TypeOf
NameOff == [Hello |-> 2, JoinRoom |-> 0, JoinAck |-> 0]
Named == DOMAIN NameOff
FieldsOff(kind, n) == IF kind \in {"JoinRoom", "JoinAck"} THEN 1 + n ELSE 0

\* A name of n characters.  One longer than its limit is cut.
Chars(n) == [k \in 1..n |-> <<200 + k, 1, 1>>]
truncStr(n) == IF n > MaxStr THEN MaxStr ELSE n
PutName(n) == PutUint(n, 1) \o Chars(n)

\* The message, its type first.  The count of a frame has 16 bits, which is
\* more than a datagram has room for.
Encode(m) ==
  LET fields == Put(m.fields, FieldsOf[m.kind])
      name == PutName(truncStr(m.name))
      cmds == FlattenSeq([i \in DOMAIN m.cmds |-> Put(m.cmds[i], CmdFields)])
  IN  PutUint(TypeOf[m.kind], 1) \o
      CASE m.kind = "Hello" -> fields \o name
        [] m.kind \in {"JoinRoom", "JoinAck"} -> name \o fields
        [] m.kind = "FrameBundle" -> fields \o PutUint(Len(m.cmds), 2) \o cmds
        [] OTHER -> fields

Error == [kind |-> "error"]

\* One message of that kind, from the bytes after its type.
DecodePayload(kind, p) ==
  LET n == IF kind \in Named /\ Len(p) > NameOff[kind] THEN Uint(p, NameOff[kind], 1) ELSE 0
      c == IF kind = "FrameBundle" /\ Len(p) >= MinLen[kind] THEN Uint(p, 5, 2) ELSE 0
  IN  IF Len(p) < MinLen[kind] + n + c * CmdPayloadSize THEN Error
      ELSE [kind |-> kind,
            fields |-> Get(p, FieldsOff(kind, n), FieldsAt[kind]),
            name |-> IF kind \in Named /\ SubSeq(p, NameOff[kind] + 2, NameOff[kind] + 1 + n) # Chars(n)
                     THEN Garbage ELSE n,
            cmds |-> [i \in 1..c |-> Get(p, MinLen[kind] + (i - 1) * CmdPayloadSize, CmdAt)]]

Decode(data) ==
  LET kinds == {k \in Kinds : Len(data) > 0 /\ Uint(data, 0, 1) = TypeOf[k]}
  IN  IF kinds = {} THEN Error ELSE DecodePayload(CHOOSE k \in kinds : TRUE, From(data, 1))
-----------------------------------------------------------------------------
(* The datagram *)

HeaderSize == 19
HeaderFields == <<<<"Magic", 2>>, <<"Flags", 1>>, <<"ConnID", 2>>, <<"Seq", 4>>, <<"Ack", 4>>,
                  <<"AckBitmask", 4>>>>
HeaderAt == [Magic |-> <<0, 2>>, Flags |-> <<2, 1>>, ConnID |-> <<3, 2>>, Seq |-> <<5, 4>>,
             Ack |-> <<9, 4>>, AckBitmask |-> <<13, 4>>]
Header == [Magic |-> 1, Flags |-> 2, ConnID |-> 3, Seq |-> 4, Ack |-> 5, AckBitmask |-> 6]

EncodePacket(payload) == Put(Header, HeaderFields) \o PutUint(Len(payload), 2) \o payload

\* The payload if the packet is whole and ours.
DecodePacket(data) ==
  IF \/ Len(data) < HeaderSize
     \/ Uint(data, 0, 2) # Header.Magic
     \/ Uint(data, 17, 2) > Len(data) - HeaderSize
  THEN [header |-> Error, payload |-> <<>>]
  ELSE [header |-> Get(data, 0, HeaderAt),
        payload |-> SubSeq(data, HeaderSize + 1, HeaderSize + Uint(data, 17, 2))]
-----------------------------------------------------------------------------
\* One message of each kind with every number in it once, every length of name
\* about the limit, every number of commands.
Numbered(fields, base) ==
  [f \in {fields[i][1] : i \in DOMAIN fields} |->
     base + (CHOOSE i \in DOMAIN fields : fields[i][1] = f)]

Messages ==
  {[kind |-> kind, fields |-> Numbered(FieldsOf[kind], 100),
    name |-> IF kind \in Named THEN n ELSE 0,
    cmds |-> [i \in 1..(IF kind = "FrameBundle" THEN c ELSE 0) |-> Numbered(CmdFields, 100 * (i + 1))]] :
      kind \in Kinds, n \in 0..(MaxStr + 2), c \in 0..CmdsInFrame}

NotYet == [kind |-> "none"]

VARIABLES
  sent,      \* the message
  dgram,     \* the datagram that carries it
  got        \* what was made of it

wireVars == <<sent, dgram, got>>

WireInit == sent = NotYet /\ dgram = <<>> /\ got = NotYet

Send(m) ==
  /\ sent' = m /\ dgram' = EncodePacket(Encode(m)) /\ got' = NotYet

\* ReadFromUDP drops what does not fit into the buffer.
Read ==
  /\ dgram # <<>> /\ got = NotYet
  /\ LET n == IF Len(dgram) < Buffer THEN Len(dgram) ELSE Buffer
     IN  got' = Decode(DecodePacket(SubSeq(dgram, 1, n)).payload)
  /\ UNCHANGED <<sent, dgram>>

WireNext == (\E m \in Messages : Send(m)) \/ Read
WireSpec == WireInit /\ [][WireNext]_wireVars
-----------------------------------------------------------------------------
Truncated(m) == [m EXCEPT !.name = truncStr(@)]

\* A message is read as it was sent, its name cut, or, exactly when its
\* datagram is larger than the read buffer, as none: a frame with too many
\* commands is never a frame with some of them.  And wherever a message is cut,
\* what is left is taken for none and the decoder does not read beyond it
\* (codec.go:169-182 and 230-391, packet.go:46-86, listener.go:69-79).
WholeOrNothing ==
  /\ got # NotYet =>
       got = IF Len(dgram) <= Buffer THEN Truncated(sent) ELSE Error
  /\ sent # NotYet =>
       LET bytes == Encode(sent)
       IN  \A n \in 0..(Len(bytes) - 1) : Decode(SubSeq(bytes, 1, n)) = Error
=============================================================================
