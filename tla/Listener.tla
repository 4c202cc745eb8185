------------------------------ MODULE Listener ------------------------------
(***************************************************************************)
(* The server's socket (transport/listener.go): packets are handed to the  *)
(* connection with their number, a SYN opens one, and the address that     *)
(* answers go to follows the packets.  Connections are counted in the      *)
(* order they are opened; the number a packet carries is the count modulo  *)
(* IdWrap.  A packet may arrive late, twice or not at all.                 *)
(***************************************************************************)
EXTENDS Integers, FiniteSets

CONSTANTS
  Peers, Addrs,
  AddrsOf,      \* the addresses each peer may have, no two peers the same one
  IdWrap,       \* 2^16 in the code
  MaxConns, MaxData \* connections opened, data packets sent (bounds of the model)

ASSUME ListenerAssumption ==
  /\ Peers # {} /\ Addrs # {}
  /\ AddrsOf \in [Peers -> SUBSET Addrs]
  /\ \A p, q \in Peers : p # q => AddrsOf[p] \cap AddrsOf[q] = {}
  /\ IdWrap \in Nat /\ IdWrap > 1
  /\ MaxConns \in Nat /\ MaxData \in Nat

ConnIds == 0..(IdWrap - 1)
Conns == 1..MaxConns
NoConn == 0
NoId == -1

VARIABLES
  conns,        \* connID -> connection, or NoConn
  connsByAddr,  \* address -> connection, or NoConn
  nextID,
  opened,       \* connections so far
  connID, remoteAddr, \* of each connection
  serving,      \* what the read loop is about to do, without the lock
  addr, told,   \* of each peer: its address, the number it was told
  net,          \* packets sent
  home, opener, gone, fed   \* history: see HandleSYN, RemoveConn and Deliver

connVars == <<conns, connsByAddr, nextID, opened, connID, remoteAddr, home, opener, gone>>
lisVars == <<connVars, serving, addr, told, net, fed>>

Idle == [do |-> "read", conn |-> NoConn, pkt |-> [kind |-> "none"]]

LisInit ==
  /\ conns = [i \in ConnIds |-> NoConn] /\ connsByAddr = [a \in Addrs |-> NoConn]
  /\ nextID = 1 /\ opened = 0
  /\ connID = [c \in Conns |-> NoId]
  /\ addr \in {f \in [Peers -> Addrs] : \A p \in Peers : f[p] \in AddrsOf[p]}
  /\ remoteAddr = [c \in Conns |-> CHOOSE a \in Addrs : TRUE]
  /\ home = remoteAddr
  /\ opener = [c \in Conns |-> CHOOSE p \in Peers : TRUE]
  /\ serving = Idle
  /\ told = [p \in Peers |-> NoId]
  /\ net = {} /\ gone = {} /\ fed = {}
-----------------------------------------------------------------------------
(* The peers *)

SendSYN(p) ==
  /\ told[p] = NoId
  /\ net' = net \cup {[kind |-> "syn", from |-> addr[p], by |-> p]}
  /\ UNCHANGED <<connVars, serving, addr, told, fed>>

ReadSYNACK(p) ==
  /\ told[p] = NoId
  /\ \E m \in net : /\ m.kind = "synack" /\ m.to = addr[p]
                    /\ told' = [told EXCEPT ![p] = m.id]
  /\ UNCHANGED <<connVars, serving, addr, net, fed>>

SendData(p) ==
  /\ told[p] # NoId
  /\ Cardinality({m \in net : m.kind = "data"}) < MaxData
  /\ net' = net \cup {[kind |-> "data", from |-> addr[p], id |-> told[p], by |-> p]}
  /\ UNCHANGED <<connVars, serving, addr, told, fed>>

\* The peer's address changes under it, or a new process takes its place.
Migrate(p) ==
  /\ \E a \in AddrsOf[p] \ {addr[p]} : addr' = [addr EXCEPT ![p] = a]
  /\ told' \in {told, [told EXCEPT ![p] = NoId]}
  /\ UNCHANGED <<connVars, serving, net, fed>>
-----------------------------------------------------------------------------
(* The read loop *)

\* handlePacket looks the connection up and releases the lock.
Route(m) ==
  /\ serving = Idle
  /\ m.kind = "data" /\ m.id # 0 /\ conns[m.id] # NoConn
  /\ serving' = [do |-> "feed", conn |-> conns[m.id], pkt |-> m]
  /\ UNCHANGED <<connVars, addr, told, net, fed>>

\* The address is updated and the packet handed over.
Deliver ==
  /\ serving.do = "feed"
  /\ remoteAddr' = [remoteAddr EXCEPT ![serving.conn] = serving.pkt.from]
  /\ fed' = fed \cup {<<serving.conn, serving.pkt.by>>}
  /\ serving' = Idle
  /\ UNCHANGED <<conns, connsByAddr, nextID, opened, connID, home, opener, gone, addr, told, net>>

\* The number after this one.  Mutants: it stays; it does not wrap.
NumberSame(id) == id
NumberUnbounded(id) == id + 1
NextNumber(id) == (id + 1) % IdWrap

\* Mutant: the address is not looked up.
KnownNever(a) == FALSE
Known(a) == connsByAddr[a] # NoConn

\* handleSYN: the connection of that address, or a new one.
HandleSYN(m) ==
  /\ serving = Idle /\ m.kind = "syn"
  /\ LET c == opened + 1 IN
     \/ /\ Known(m.from)
        /\ serving' = [Idle EXCEPT !.do = "answer", !.conn = connsByAddr[m.from]]
        /\ UNCHANGED connVars
     \/ /\ ~Known(m.from) /\ c \in Conns
        /\ opened' = c /\ nextID' = NextNumber(nextID)
        /\ conns' = [conns EXCEPT ![nextID] = c]
        /\ connsByAddr' = [connsByAddr EXCEPT ![m.from] = c]
        /\ connID' = [connID EXCEPT ![c] = nextID]
        /\ remoteAddr' = [remoteAddr EXCEPT ![c] = m.from]
        /\ home' = [home EXCEPT ![c] = m.from]
        /\ opener' = [opener EXCEPT ![c] = m.by]
        /\ serving' = [Idle EXCEPT !.do = "answer", !.conn = c]
        /\ UNCHANGED gone
  /\ UNCHANGED <<addr, told, net, fed>>

SendSYNACK ==
  /\ serving.do = "answer"
  /\ net' = net \cup {[kind |-> "synack", to |-> remoteAddr[serving.conn],
                       id |-> connID[serving.conn]]}
  /\ serving' = Idle
  /\ UNCHANGED <<connVars, addr, told, fed>>

\* Mutant: only the table of numbers forgets the connection.
ForgetNothing(a) == connsByAddr
Forget(a) == [connsByAddr EXCEPT ![a] = NoConn]

\* Called by another goroutine, under the lock.
RemoveConn(i) ==
  /\ conns[i] # NoConn
  /\ conns' = [conns EXCEPT ![i] = NoConn]
  /\ connsByAddr' = Forget(remoteAddr[conns[i]])
  /\ gone' = gone \cup {<<conns[i], remoteAddr[conns[i]]>>}
  /\ UNCHANGED <<nextID, opened, connID, remoteAddr, home, opener,
                 serving, addr, told, net, fed>>

LisNext ==
  \/ \E p \in Peers : SendSYN(p) \/ ReadSYNACK(p) \/ SendData(p) \/ Migrate(p)
  \/ \E m \in net : Route(m) \/ HandleSYN(m)
  \/ Deliver \/ SendSYNACK
  \/ \E i \in ConnIds : RemoveConn(i)

LisSpec == LisInit /\ [][LisNext]_lisVars
-----------------------------------------------------------------------------
Syns == [kind : {"syn"}, from : Addrs, by : Peers]
SynAcks == [kind : {"synack"}, to : Addrs, id : ConnIds]
Datas == [kind : {"data"}, from : Addrs, id : ConnIds, by : Peers]

Serving == [do : {"read"}, conn : {NoConn}, pkt : {Idle.pkt}]
  \cup [do : {"feed"}, conn : 1..opened, pkt : Datas]
  \cup [do : {"answer"}, conn : 1..opened, pkt : {Idle.pkt}]

LisTypeOK ==
  /\ conns \in [ConnIds -> Conns \cup {NoConn}]
  /\ connsByAddr \in [Addrs -> Conns \cup {NoConn}]
  /\ nextID \in ConnIds /\ opened \in 0..MaxConns
  /\ connID \in [Conns -> ConnIds \cup {NoId}] /\ told \in [Peers -> ConnIds \cup {NoId}]
  /\ remoteAddr \in [Conns -> Addrs] /\ home \in [Conns -> Addrs]
  /\ opener \in [Conns -> Peers] /\ addr \in [Peers -> Addrs]
  /\ serving \in Serving
  /\ net \subseteq Syns \cup SynAcks \cup Datas
  /\ gone \subseteq (1..opened) \X Addrs /\ fed \subseteq (1..opened) \X Peers

\* A connection is fed only by the peer that opened it, whatever is late, moved
\* or removed, until the numbers have gone round (listener.go:113-139, 154).
FedByOpener ==
  opened <= IdWrap => \A f \in fed : opener[f[1]] = f[2]

\* An address goes on standing for a connection that was removed, so that its
\* peer gets no new one, only if that connection answered to another address by
\* then (listener.go:126, 185-194).
StaleOnlyIfMoved ==
  \A g \in gone, a \in Addrs : connsByAddr[a] = g[1] => g[2] # home[g[1]]

\* A late or repeated SYN opens no second connection at an address, unless one
\* that answered to it, the first or another that had moved there, was removed
\* (listener.go:143-152, 192).
SecondOnlyAfterRemoval ==
  \A c, d \in 1..opened : c < d /\ home[c] = home[d] =>
    \E g \in gone : g[1] < d /\ g[2] = home[c]

(* What those rest on: the inductive invariant *)

\* Numbers are given in turn; a table's entry is a connection with that number,
\* or one that was opened from that address.
TableInv ==
  /\ nextID = (opened + 1) % IdWrap
  /\ \A c \in 1..opened : connID[c] = c % IdWrap
  /\ \A i \in ConnIds : conns[i] # NoConn => conns[i] <= opened /\ connID[conns[i]] = i
  /\ \A a \in Addrs : connsByAddr[a] # NoConn =>
       connsByAddr[a] <= opened /\ home[connsByAddr[a]] = a

\* The address a connection was opened from stands for one until one that
\* answered to it is removed.
HomeInv ==
  \A c \in 1..opened :
    connsByAddr[home[c]] # NoConn \/ \E g \in gone : g[2] = home[c]

\* A peer's addresses are its own.
AddrInv ==
  /\ \A p \in Peers : addr[p] \in AddrsOf[p]
  /\ \A m \in net : m.kind # "synack" => m.from \in AddrsOf[m.by]
  /\ serving.do = "feed" => serving.pkt.from \in AddrsOf[serving.pkt.by]

Owns(p, i) == \E c \in 1..opened : connID[c] = i /\ opener[c] = p

\* While no number was given twice, a number is known only to the peer that
\* opened its connection, and the connection answers to no other.
OwnerInv ==
  opened <= IdWrap =>
    /\ \A c \in 1..opened : remoteAddr[c] \in AddrsOf[opener[c]]
    /\ \A p \in Peers : told[p] # NoId => Owns(p, told[p])
    /\ \A m \in net : m.kind = "data" => Owns(m.by, m.id)
    /\ \A m \in net : m.kind = "synack" =>
         \E p \in Peers : Owns(p, m.id) /\ m.to \in AddrsOf[p]
    /\ serving.do = "feed" => opener[serving.conn] = serving.pkt.by

LisInv ==
  /\ LisTypeOK /\ TableInv /\ HomeInv /\ AddrInv /\ OwnerInv
  /\ FedByOpener /\ StaleOnlyIfMoved /\ SecondOnlyAfterRemoval
=============================================================================
