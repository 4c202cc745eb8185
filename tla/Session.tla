------------------------------ MODULE Session -------------------------------
(***************************************************************************)
(* Joining a room: Connect of the client SDK (client.go), the goroutine    *)
(* handleConnection that serves each connection (cmd/server/main.go), the  *)
(* registry of rooms (registry.go), and of the rooms their slots, their    *)
(* Inbox and their broadcasts (room.go).                                   *)
(*                                                                         *)
(* A stream delivers in order; a packet that never arrives is one the      *)
(* reader does not get before its timeout.  A client's own packets are not *)
(* repeated while it connects.  The packet that arrives at a client may    *)
(* release any number of payloads: none if it comes out of order, several  *)
(* if it fills a gap.                                                      *)
(***************************************************************************)
EXTENDS Integers, Sequences

CONSTANTS
  Clients, Names, NoName, Nobody, NoSeat,
  PlayerCount,                     \* slots of a room
  InboxSize,                       \* of a room; 1024 in the code
  MaxRooms, MaxDown, MaxUp,        \* bounds of the model
  AtomicAdd                        \* TRUE: AddPlayer runs as if under a lock

RoomIds == 1..MaxRooms
NoRoom == 0
PlayerIds == 0..(PlayerCount - 1)

ASSUME SessionAssumption ==
  /\ Nobody \notin Clients /\ NoSeat \notin RoomIds \X PlayerIds
  /\ NoName \notin Names
  /\ PlayerCount \in Nat /\ MaxRooms \in Nat /\ MaxDown \in Nat /\ MaxUp \in Nat
  /\ InboxSize \in Nat \ {0}
  /\ AtomicAdd \in BOOLEAN

VARIABLES
  client,   \* where Connect is: "syn", "hello", "join"; or its result: "joined",
            \* "rejected" by a payload or "expired" by a timeout
  got,      \* payloads released to the client's Inbox and not read
  joinedAs, \* the PlayerID the client was told
  served,   \* clients that have dispatched a frame (history)
  overtaken,\* clients with a frame sent between AddPlayer and JoinAck (history)
  up, down, \* payloads sent and not yet released, in each direction
  handler,  \* where handleConnection is; "none" before the SYN
  inRoom, id,        \* the room and PlayerID the handler has
  registry,          \* name -> the room under it, or NoRoom
  name,              \* the name each room was created for
  status,            \* "none" before creation; "running", "cancelled", "stopped"
  players,           \* the slots of each room
  queued             \* messages in each room's Inbox

clientVars == <<client, got, joinedAs, served>>
handlerVars == <<handler, inRoom, id>>
roomVars == <<registry, name, status, players, queued, overtaken>>
vars == <<clientVars, up, down, handlerVars, roomVars>>

Payload(kind, i) == [kind |-> kind, id |-> i]
Payloads == [kind : {"HelloAck", "JoinAck", "Refused", "Frame"}, id : PlayerIds \cup {0}]
Messages == Names \cup {NoName, "Hello", "OldHello", "Cmd"}

Init ==
  /\ client = [p \in Clients |-> "syn"]
  /\ got = [p \in Clients |-> <<>>]
  /\ joinedAs = [p \in Clients |-> 0]
  /\ served = {} /\ overtaken = {}
  /\ up = [p \in Clients |-> <<>>] /\ down = [p \in Clients |-> <<>>]
  /\ handler = [p \in Clients |-> "none"]
  /\ inRoom = [p \in Clients |-> NoRoom] /\ id = [p \in Clients |-> 0]
  /\ registry = [x \in Names |-> NoRoom]
  /\ name = [r \in RoomIds |-> NoName]
  /\ status = [r \in RoomIds |-> "none"]
  /\ players = [r \in RoomIds |-> [i \in PlayerIds |-> Nobody]]
  /\ queued = [r \in RoomIds |-> 0]
-----------------------------------------------------------------------------
(* The client *)

\* The SYN-ACK arrives; the client sends Hello, of this protocol or another.
ReadSynAck(p) ==
  /\ client[p] = "syn" /\ handler[p] # "none"
  /\ client' = [client EXCEPT ![p] = "hello"]
  /\ \E hello \in {"Hello", "OldHello"} : up' = [up EXCEPT ![p] = Append(@, hello)]
  /\ UNCHANGED <<got, joinedAs, served, down, handlerVars, roomVars>>

\* What Connect does with the payload m it was waiting for, the asked room x.
Answered(p, m, x) ==
  \/ /\ client[p] = "hello" /\ m.kind = "HelloAck"
     /\ client' = [client EXCEPT ![p] = "join"]
     /\ up' = [up EXCEPT ![p] = Append(@, x)]
     /\ UNCHANGED joinedAs
  \/ /\ client[p] = "join" /\ m.kind = "JoinAck"
     /\ client' = [client EXCEPT ![p] = "joined"]
     /\ joinedAs' = [joinedAs EXCEPT ![p] = m.id]
     /\ UNCHANGED up
  \/ /\ m.kind # (IF client[p] = "hello" THEN "HelloAck" ELSE "JoinAck")
     /\ client' = [client EXCEPT ![p] = "rejected"]
     /\ UNCHANGED <<up, joinedAs>>

\* Mutant: the Inbox is looked at before the packet is handled.
ReadInboxFirst(p, k, x) ==
  /\ client[p] \in {"hello", "join"}
  /\ k \in 0..Len(down[p])
  /\ down' = [down EXCEPT ![p] = SubSeq(@, k + 1, Len(@))]
  /\ LET released == SubSeq(down[p], 1, k) IN
     \/ /\ got[p] # <<>>
        /\ Answered(p, Head(got[p]), x)
        /\ got' = [got EXCEPT ![p] = Tail(@) \o released]
     \/ /\ got[p] = <<>>
        /\ got' = [got EXCEPT ![p] = released]
        /\ UNCHANGED <<client, joinedAs, up>>
  /\ UNCHANGED <<served, handlerVars, roomVars>>

\* readInboxWithTimeout: a packet releases k payloads into Inbox and at most
\* one payload is read.
ReadInbox(p, k, x) ==
  /\ client[p] \in {"hello", "join"}
  /\ k \in 0..Len(down[p])
  /\ down' = [down EXCEPT ![p] = SubSeq(@, k + 1, Len(@))]
  /\ LET inbox == got[p] \o SubSeq(down[p], 1, k) IN
     \/ /\ inbox # <<>>
        /\ Answered(p, Head(inbox), x)
        /\ got' = [got EXCEPT ![p] = Tail(inbox)]
     \/ /\ inbox = <<>>
        /\ UNCHANGED <<got, client, joinedAs, up>>
  /\ UNCHANGED <<served, handlerVars, roomVars>>

ConnectTimeout(p) ==
  /\ client[p] \in {"syn", "hello", "join"}
  /\ client' = [client EXCEPT ![p] = "expired"]
  /\ UNCHANGED <<got, joinedAs, served, up, down, handlerVars, roomVars>>

\* RunReadLoop and RunDispatchLoop: payloads left by Connect come first.
Dispatch(p) ==
  /\ client[p] = "joined"
  /\ \/ /\ got[p] # <<>>
        /\ got' = [got EXCEPT ![p] = Tail(@)] /\ UNCHANGED down
        /\ served' = IF Head(got[p]).kind = "Frame" THEN served \cup {p} ELSE served
     \/ /\ got[p] = <<>> /\ down[p] # <<>>
        /\ down' = [down EXCEPT ![p] = Tail(@)] /\ UNCHANGED got
        /\ served' = IF Head(down[p]).kind = "Frame" THEN served \cup {p} ELSE served
  /\ UNCHANGED <<client, joinedAs, up, handlerVars, roomVars>>

SendCmd(p) ==
  /\ client[p] = "joined" /\ Len(up[p]) < MaxUp
  /\ up' = [up EXCEPT ![p] = Append(@, "Cmd")]
  /\ UNCHANGED <<clientVars, down, handlerVars, roomVars>>
-----------------------------------------------------------------------------
(* The server's goroutine for one connection *)

\* OnNewConn; the SYN may be late and its client gone.
Accept(p) ==
  /\ handler[p] = "none"
  /\ handler' = [handler EXCEPT ![p] = "hello"]
  /\ UNCHANGED <<clientVars, up, down, inRoom, id, roomVars>>

HandlerTimeout(p) ==
  /\ handler[p] \in {"hello", "join"}
  /\ handler' = [handler EXCEPT ![p] = "done"]
  /\ UNCHANGED <<clientVars, up, down, inRoom, id, roomVars>>

ReadHello(p) ==
  /\ handler[p] = "hello" /\ up[p] # <<>>
  /\ up' = [up EXCEPT ![p] = Tail(@)]
  /\ LET ok == Head(up[p]) = "Hello" IN
     /\ down' = [down EXCEPT ![p] = Append(@, Payload(IF ok THEN "HelloAck" ELSE "Refused", 0))]
     /\ handler' = [handler EXCEPT ![p] = IF ok THEN "join" ELSE "done"]
  /\ UNCHANGED <<clientVars, inRoom, id, roomVars>>

Unused(r) == status[r] = "none" /\ \A q \in RoomIds : q < r => status[q] # "none"

\* Mutant: the registry is not consulted.
GetOrCreateAlways(x, r) ==
  /\ Unused(r)
  /\ registry' = [registry EXCEPT ![x] = r]
  /\ name' = [name EXCEPT ![r] = x]
  /\ status' = [status EXCEPT ![r] = "running"]
  /\ UNCHANGED <<players, queued, overtaken>>

\* Registry.GetOrCreate, under its mutex: the room r of that name.
GetOrCreate(x, r) ==
  \/ /\ registry[x] # NoRoom /\ r = registry[x]
     /\ UNCHANGED roomVars
  \/ /\ registry[x] = NoRoom /\ Unused(r)
     /\ registry' = [registry EXCEPT ![x] = r]
     /\ name' = [name EXCEPT ![r] = x]
     /\ status' = [status EXCEPT ![r] = "running"]
     /\ UNCHANGED <<players, queued, overtaken>>

\* An empty name is replaced by a generated one, which another room may have.
ReadJoin(p) ==
  /\ handler[p] = "join" /\ up[p] # <<>>
  /\ up' = [up EXCEPT ![p] = Tail(@)]
  /\ \E x \in Names, r \in RoomIds :
       /\ Head(up[p]) \in {x, NoName}
       /\ GetOrCreate(x, r)
       /\ inRoom' = [inRoom EXCEPT ![p] = r]
  /\ handler' = [handler EXCEPT ![p] = "scan"]
  /\ UNCHANGED <<clientVars, down, id>>

FreeSlots(r) == {i \in PlayerIds : players[r][i] = Nobody}
IsFirst(i, S) == i \in S /\ \A j \in S : i <= j

\* AddPlayer reads the slots ...
Scan(p) ==
  /\ handler[p] = "scan"
  /\ AtomicAdd => \A q \in Clients : handler[q] = "claim" => inRoom[q] # inRoom[p]
  /\ \/ \E i \in PlayerIds :
          /\ IsFirst(i, FreeSlots(inRoom[p]))
          /\ id' = [id EXCEPT ![p] = i]
          /\ handler' = [handler EXCEPT ![p] = "claim"]
          /\ UNCHANGED down
     \/ /\ FreeSlots(inRoom[p]) = {}
        /\ down' = [down EXCEPT ![p] = Append(@, Payload("Refused", 0))]
        /\ handler' = [handler EXCEPT ![p] = "done"]
        /\ UNCHANGED id
  /\ UNCHANGED <<clientVars, up, inRoom, roomVars>>

\* ... and then writes the one it found free.
Claim(p) ==
  /\ handler[p] = "claim"
  /\ players' = [players EXCEPT ![inRoom[p]][id[p]] = p]
  /\ handler' = [handler EXCEPT ![p] = "ack"]
  /\ UNCHANGED <<clientVars, up, down, inRoom, id, registry, name, status, queued, overtaken>>

\* Mutant: the answer may go out before the slot is written.
SendJoinAckEarly(p) ==
  /\ handler[p] \in {"claim", "ack"}
  /\ down' = [down EXCEPT ![p] = Append(@, Payload("JoinAck", id[p]))]
  /\ handler' = [handler EXCEPT ![p] = "serve"]
  /\ UNCHANGED <<clientVars, up, inRoom, id, roomVars>>

SendJoinAck(p) ==
  /\ handler[p] = "ack"
  /\ down' = [down EXCEPT ![p] = Append(@, Payload("JoinAck", id[p]))]
  /\ handler' = [handler EXCEPT ![p] = "serve"]
  /\ UNCHANGED <<clientVars, up, inRoom, id, roomVars>>

\* The dispatch loop takes a message ...
Take(p) ==
  /\ handler[p] = "serve" /\ up[p] # <<>>
  /\ up' = [up EXCEPT ![p] = Tail(@)]
  /\ handler' = [handler EXCEPT ![p] = "post"]
  /\ UNCHANGED <<clientVars, down, inRoom, id, roomVars>>

\* Mutant: the Inbox takes more than its capacity.
PostUnbounded(p) ==
  /\ handler[p] = "post" /\ queued[inRoom[p]] <= InboxSize
  /\ queued' = [queued EXCEPT ![inRoom[p]] = @ + 1]
  /\ handler' = [handler EXCEPT ![p] = "serve"]
  /\ UNCHANGED <<clientVars, up, down, inRoom, id, registry, name, status, players, overtaken>>

\* ... and waits for a place in the room's Inbox.
Post(p) ==
  /\ handler[p] = "post" /\ queued[inRoom[p]] < InboxSize
  /\ queued' = [queued EXCEPT ![inRoom[p]] = @ + 1]
  /\ handler' = [handler EXCEPT ![p] = "serve"]
  /\ UNCHANGED <<clientVars, up, down, inRoom, id, registry, name, status, players, overtaken>>
-----------------------------------------------------------------------------
(* The rooms *)

Alive(r) == status[r] \in {"running", "cancelled"}

\* handleMsg, then drainInbox.
HandleMsgs(r) ==
  /\ Alive(r) /\ queued[r] > 0
  /\ queued' = [queued EXCEPT ![r] = 0]
  /\ UNCHANGED <<clientVars, up, down, handlerVars, registry, name, status, players, overtaken>>

InRoom(r) == {p \in Clients : \E i \in PlayerIds : players[r][i] = p}

\* Beyond MaxDown payloads under way the model adds no further frame, which
\* nothing tells from the others.
Broadcast(to) ==
  down' = [p \in Clients |-> IF p \in to /\ Len(down[p]) < MaxDown
                             THEN Append(down[p], Payload("Frame", 0)) ELSE down[p]]

\* Mutants: a loop that begins at the second slot; no drainInbox; a broadcast
\* to every connection that has looked the room up.
SealTickSkip(r) ==
  /\ Alive(r)
  /\ queued' = [queued EXCEPT ![r] = 0]
  /\ Broadcast({p \in InRoom(r) : players[r][0] # p})
  /\ overtaken' = overtaken \cup {p \in InRoom(r) : handler[p] = "ack"}
  /\ UNCHANGED <<clientVars, up, handlerVars, registry, name, status, players>>
SealTickNoDrain(r) ==
  /\ Alive(r)
  /\ Broadcast(InRoom(r))
  /\ overtaken' = overtaken \cup {p \in InRoom(r) : handler[p] = "ack"}
  /\ UNCHANGED <<clientVars, up, handlerVars, registry, name, status, players, queued>>
SealTickEveryone(r) ==
  /\ Alive(r)
  /\ queued' = [queued EXCEPT ![r] = 0]
  /\ Broadcast({p \in Clients : inRoom[p] = r})
  /\ overtaken' = overtaken \cup {p \in InRoom(r) : handler[p] = "ack"}
  /\ UNCHANGED <<clientVars, up, handlerVars, registry, name, status, players>>

\* drainInbox and the broadcast of sealTick, to the slots as they are.
SealTick(r) ==
  /\ Alive(r)
  /\ queued' = [queued EXCEPT ![r] = 0]
  /\ Broadcast(InRoom(r))
  /\ overtaken' = overtaken \cup {p \in InRoom(r) : handler[p] = "ack"}
  /\ UNCHANGED <<clientVars, up, handlerVars, registry, name, status, players>>

\* Registry.Remove; nothing in the commands calls it yet.
Remove(x) ==
  /\ registry[x] # NoRoom
  /\ registry' = [registry EXCEPT ![x] = NoRoom]
  /\ status' = [status EXCEPT ![registry[x]] = "cancelled"]
  /\ UNCHANGED <<clientVars, up, down, handlerVars, name, players, queued, overtaken>>

\* Run sees ctx.Done only when it waits, and may first choose a message.
Stop(r) ==
  /\ status[r] = "cancelled"
  /\ status' = [status EXCEPT ![r] = "stopped"]
  /\ UNCHANGED <<clientVars, up, down, handlerVars, registry, name, players, queued, overtaken>>
-----------------------------------------------------------------------------
ClientStep(p) ==
  \/ ReadSynAck(p)
  \/ \E k \in 0..Len(down[p]), x \in Names \cup {NoName} : ReadInbox(p, k, x)
  \/ ConnectTimeout(p)
  \/ Dispatch(p)
  \/ SendCmd(p)

HandlerStep(p) ==
  \/ Accept(p) \/ HandlerTimeout(p) \/ ReadHello(p) \/ ReadJoin(p)
  \/ Scan(p) \/ Claim(p) \/ SendJoinAck(p) \/ Take(p) \/ Post(p)

RoomStep(r) == HandleMsgs(r) \/ SealTick(r) \/ Stop(r)

Next ==
  \/ \E p \in Clients : ClientStep(p) \/ HandlerStep(p)
  \/ \E r \in RoomIds : RoomStep(r)
  \/ \E x \in Names : Remove(x)

Spec == Init /\ [][Next]_vars

\* The room's timer fires, goroutines that can run do, and the retransmission
\* loops bring a joined client its stream.
Fairness ==
  /\ \A r \in RoomIds : WF_vars(SealTick(r))
  /\ \A p \in Clients :
       WF_vars(Dispatch(p)) /\ WF_vars(Take(p)) /\ SF_vars(Post(p))

FairSpec == Spec /\ Fairness
-----------------------------------------------------------------------------
TypeOK ==
  /\ client \in [Clients -> {"syn", "hello", "join", "joined", "rejected", "expired"}]
  /\ got \in [Clients -> Seq(Payloads)] /\ down \in [Clients -> Seq(Payloads)]
  /\ up \in [Clients -> Seq(Messages)]
  /\ handler \in [Clients -> {"none", "hello", "join", "scan", "claim", "ack",
                              "serve", "post", "done"}]
  /\ inRoom \in [Clients -> RoomIds \cup {NoRoom}] /\ id \in [Clients -> PlayerIds \cup {0}]
  /\ joinedAs \in [Clients -> PlayerIds \cup {0}]
  /\ served \subseteq Clients /\ overtaken \subseteq Clients
  /\ registry \in [Names -> RoomIds \cup {NoRoom}]
  /\ name \in [RoomIds -> Names \cup {NoName}]
  /\ status \in [RoomIds -> {"none", "running", "cancelled", "stopped"}]
  /\ players \in [RoomIds -> [PlayerIds -> Clients \cup {Nobody}]]
  /\ queued \in [RoomIds -> 0..InboxSize]

\* A client that has joined has the slot it was told of, and has it alone:
\* no other join took it at the same time (AddPlayer, room.go:95-106).
SlotOwned ==
  \A p \in Clients : client[p] = "joined" => players[inRoom[p]][joinedAs[p]] = p

\* Whoever asks for a name gets the one room that is running under it
\* (GetOrCreate and Remove, registry.go:37-78).
OneRoomPerName ==
  \A r \in RoomIds : status[r] = "running" <=> name[r] # NoName /\ registry[name[r]] = r

\* While Connect waits, nothing it should have read is left in its Inbox,
\* although it reads one payload after each packet (client.go:312-317).
NothingLeftBehind ==
  \A p \in Clients : client[p] \in {"hello", "join"} => got[p] = <<>>

\* A client is rejected only if the server refused it, or if the room sealed a
\* tick between AddPlayer and JoinAck, whose frame Connect takes for the answer
\* (main.go:186-203, client.go:137-145).
RejectionMeant ==
  \A p \in Clients : client[p] = "rejected" => handler[p] = "done" \/ p \in overtaken

RoomRemoved(p) == inRoom[p] # NoRoom /\ status[inRoom[p]] \in {"cancelled", "stopped"}

\* A client that joined gets frames, unless its room is removed.
JoinedIsServed ==
  \A p \in Clients :
    client[p] = "joined" ~> p \in served \/ RoomRemoved(p)

\* A handler that waits for the room's Inbox gets on, unless the room is removed.
PostsGetOn ==
  \A p \in Clients :
    handler[p] = "post" ~> handler[p] = "serve" \/ RoomRemoved(p)

Told == [p \in Clients |->
           IF client[p] = "joined" THEN <<inRoom[p], joinedAs[p]>> ELSE NoSeat]
Promise == INSTANCE Seats WITH seats <- players, told <- Told

\* Joining implements the promise of Seats: a slot once taken stays its
\* client's, and a client is told of its own slot, once (room.go:94-107,
\* client.go:127-145).
SeatsSpec == Promise!Spec
-----------------------------------------------------------------------------
(* The inductive invariant behind SlotOwned. *)

\* The handler has its slot.
Placed(p) == handler[p] \in {"ack", "serve", "post"}

\* What may be on its way to a client: a JoinAck only of the slot it has.
Allowed(p) == {m \in Payloads : m.kind = "JoinAck" => Placed(p) /\ m.id = id[p]}

\* Under a lock, a slot that a handler is about to take is still free.
ClaimInv ==
  \A p \in Clients : handler[p] = "claim" =>
    /\ inRoom[p] \in RoomIds /\ id[p] \in PlayerIds
    /\ players[inRoom[p]][id[p]] = Nobody
    /\ \A q \in Clients : q # p /\ handler[q] = "claim" => inRoom[q] # inRoom[p]

PlacedInv ==
  \A p \in Clients :
    /\ handler[p] = "scan" => inRoom[p] \in RoomIds
    /\ Placed(p) => /\ inRoom[p] \in RoomIds /\ id[p] \in PlayerIds
                    /\ players[inRoom[p]][id[p]] = p
    /\ \A r \in RoomIds, i \in PlayerIds :
         players[r][i] = p => Placed(p) /\ r = inRoom[p] /\ i = id[p]

AnswerInv ==
  \A p \in Clients :
    /\ down[p] \in Seq(Allowed(p)) /\ got[p] \in Seq(Allowed(p))
    /\ client[p] = "joined" => Placed(p) /\ joinedAs[p] = id[p]

IInv == TypeOK /\ ClaimInv /\ PlacedInv /\ AnswerInv

\* The one behind NothingLeftBehind and RejectionMeant, with or without a lock:
\* what the handler has sent a client that still waits, and what it has read.
Expected(p) ==
  /\ client[p] \in {"syn", "hello", "join"} => got[p] = <<>>
  /\ client[p] = "syn" =>
       up[p] = <<>> /\ down[p] = <<>> /\ handler[p] \in {"none", "hello", "done"}
  /\ client[p] = "hello" =>
       \/ handler[p] = "hello" /\ Len(up[p]) = 1 /\ down[p] = <<>>
       \/ /\ handler[p] = "join" /\ up[p] = <<>>
          /\ Len(down[p]) = 1 /\ Head(down[p]).kind = "HelloAck"
       \/ handler[p] = "done" /\ (down[p] = <<>> \/ Len(down[p]) = 1)
  /\ client[p] = "join" =>
       \/ handler[p] \in {"join", "scan", "claim"} /\ down[p] = <<>>
       \/ handler[p] = "ack" /\ (down[p] = <<>> \/ p \in overtaken)
       \/ /\ handler[p] \in {"serve", "post"}
          /\ (down[p] # <<>> /\ Head(down[p]).kind = "JoinAck") \/ p \in overtaken
       \/ handler[p] = "done"
  /\ client[p] = "rejected" => handler[p] = "done" \/ p \in overtaken

HandshakeInv ==
  \A p \in Clients :
    /\ Expected(p)
    /\ \A r \in RoomIds, i \in PlayerIds : players[r][i] = p => Placed(p)

\* The one behind OneRoomPerName, which no lock in AddPlayer matters to.
NameInv ==
  /\ registry \in [Names -> RoomIds \cup {NoRoom}]
  /\ name \in [RoomIds -> Names \cup {NoName}]
  /\ status \in [RoomIds -> {"none", "running", "cancelled", "stopped"}]
  /\ \A r \in RoomIds :
       /\ name[r] = NoName <=> status[r] = "none"
       /\ status[r] = "running" => registry[name[r]] = r
  /\ \A x \in Names : registry[x] # NoRoom =>
       name[registry[x]] = x /\ status[registry[x]] = "running"
=============================================================================
