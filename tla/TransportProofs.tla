--------------------------- MODULE TransportProofs --------------------------
(***************************************************************************)
(* Proofs about Listener, for every set of peers and addresses, every      *)
(* space of connection ids and every count of connections and packets, and *)
(* about SeqSpace, for every size of the number space, the window and the  *)
(* mask, and every order of arrival.                                       *)
(***************************************************************************)
EXTENDS Listener, SeqSpace, SequenceTheorems, WellFoundedInduction, TLAPS

LEMMA DivMod ==
  ASSUME NEW a \in Int, NEW d \in Nat \ {0}
  PROVE  /\ a \div d \in Int /\ a % d \in 0..(d - 1)
         /\ a % d = a - d * (a \div d)
OBVIOUS

\* The remainder is the only one.
LEMMA ModUnique ==
  ASSUME NEW a \in Int, NEW d \in Nat \ {0}, NEW q \in Int, NEW r \in 0..(d - 1),
         a = q * d + r
  PROVE  a % d = r
OBVIOUS
-----------------------------------------------------------------------------
(* Listener *)

LEMMA IdWrapFacts == IdWrap \in Nat /\ IdWrap > 1 /\ 0 \in ConnIds /\ 1 \in ConnIds
  BY ListenerAssumption DEF ListenerAssumption, ConnIds

\* What a count is as a number, as long as the numbers have not gone round.
LEMMA NumberOf ==
  ASSUME NEW c \in Nat
  PROVE  /\ c % IdWrap \in ConnIds
         /\ c < IdWrap => c % IdWrap = c
         /\ c = IdWrap => c % IdWrap = 0
  BY IdWrapFacts DEF ConnIds

\* The next number is that of the next connection.
LEMMA NumberAfter ==
  ASSUME NEW c \in Nat PROVE ((c % IdWrap) + 1) % IdWrap = (c + 1) % IdWrap
<1> DEFINE q == c \div IdWrap
           r == c % IdWrap
<1>1. IdWrap \in Nat \ {0} /\ c \in Int /\ c + 1 \in Int
  BY IdWrapFacts
<1>2. q \in Int /\ r \in 0..(IdWrap - 1) /\ r = c - IdWrap * q
  BY <1>1, DivMod
<1>3. r + 1 < IdWrap => (r + 1) % IdWrap = r + 1
  BY <1>1, <1>2, NumberOf
<1>4. r + 1 = IdWrap => (r + 1) % IdWrap = 0
  BY <1>1, <1>2, NumberOf
<1> HIDE DEF q, r
<1>5. CASE r + 1 < IdWrap
  <2>1. c + 1 = q * IdWrap + (r + 1) /\ r + 1 \in 0..(IdWrap - 1)
    BY <1>1, <1>2, <1>5
  <2>2. (c + 1) % IdWrap = r + 1
    BY <1>1, <1>2, <2>1, ModUnique
  <2> QED
    BY <1>3, <1>5, <2>2 DEF r
<1>6. CASE r + 1 = IdWrap
  <2>1. c + 1 = (q + 1) * IdWrap + 0 /\ q + 1 \in Int /\ 0 \in 0..(IdWrap - 1)
    BY <1>1, <1>2, <1>6
  <2>2. (c + 1) % IdWrap = 0
    BY <1>1, <2>1, ModUnique
  <2> QED
    BY <1>4, <1>6, <2>2 DEF r
<1> QED
  BY <1>1, <1>2, <1>5, <1>6

\* Until then two connections have two numbers.
LEMMA Distinct ==
  ASSUME LisTypeOK, TableInv, opened <= IdWrap,
         NEW c \in 1..opened, NEW d \in 1..opened, connID[c] = connID[d]
  PROVE  c = d
<1>1. c % IdWrap = d % IdWrap
  BY DEF TableInv
<1>2. opened \in Nat /\ c \in Nat /\ d \in Nat
  BY ListenerAssumption DEF LisTypeOK, ListenerAssumption
<1> QED
  BY <1>1, <1>2, NumberOf, IdWrapFacts
-----------------------------------------------------------------------------
LEMMA LisInvInit == LisInit => LisInv
<1> SUFFICES ASSUME LisInit PROVE LisInv
  OBVIOUS
<1> USE ListenerAssumption, IdWrapFacts DEF ListenerAssumption, LisInit
<1>1. LisTypeOK
  BY DEF LisTypeOK, Conns, NoConn, NoId, Idle, Serving
<1>2. TableInv
  BY NumberOf DEF TableInv, NoConn
<1>3. HomeInv /\ AddrInv /\ SecondOnlyAfterRemoval
  BY DEF HomeInv, AddrInv, SecondOnlyAfterRemoval, Idle
<1>4. OwnerInv /\ FedByOpener /\ StaleOnlyIfMoved
  BY DEF OwnerInv, FedByOpener, StaleOnlyIfMoved, Idle
<1> QED
  BY <1>1, <1>2, <1>3, <1>4 DEF LisInv

\* What the tables say does not change where only the peers act.
LEMMA SameTables ==
  ASSUME LisInv, UNCHANGED <<connVars, fed>>
  PROVE  /\ TableInv' /\ HomeInv'
         /\ FedByOpener' /\ StaleOnlyIfMoved' /\ SecondOnlyAfterRemoval'
         /\ \A p, i : Owns(p, i)' <=> Owns(p, i)
<1>1. TableInv' /\ HomeInv'
  BY DEF LisInv, connVars, TableInv, HomeInv
<1>2. FedByOpener' /\ StaleOnlyIfMoved' /\ SecondOnlyAfterRemoval'
  BY DEF LisInv, connVars, FedByOpener, StaleOnlyIfMoved, SecondOnlyAfterRemoval
<1>3. \A p, i : Owns(p, i)' <=> Owns(p, i)
  BY DEF connVars, Owns
<1> QED
  BY <1>1, <1>2, <1>3

LEMMA SendSYNInv ==
  ASSUME LisInv, NEW p \in Peers, SendSYN(p) PROVE LisInv'
<1> DEFINE m == [kind |-> "syn", from |-> addr[p], by |-> p]
<1>1. /\ net' = net \cup {m}
      /\ UNCHANGED <<connVars, serving, addr, told, fed>>
  BY DEF SendSYN
<1>2. m \in Syns /\ m.kind = "syn" /\ m.from = addr[p] /\ m.by = p
  BY DEF LisInv, LisTypeOK, Syns
<1> HIDE DEF m
<1>3. LisTypeOK'
  BY <1>1, <1>2 DEF LisInv, LisTypeOK, connVars, Serving
<1>4. AddrInv'
  BY <1>1, <1>2 DEF LisInv, AddrInv
<1>5. OwnerInv'
  BY <1>1, <1>2, SameTables DEF LisInv, OwnerInv, connVars
<1> QED
  BY <1>1, <1>3, <1>4, <1>5, SameTables DEF LisInv

LEMMA SendDataInv ==
  ASSUME LisInv, NEW p \in Peers, SendData(p) PROVE LisInv'
<1> DEFINE m == [kind |-> "data", from |-> addr[p], id |-> told[p], by |-> p]
<1>1. /\ net' = net \cup {m} /\ told[p] # NoId
      /\ UNCHANGED <<connVars, serving, addr, told, fed>>
  BY DEF SendData
<1>2. m \in Datas /\ m.kind = "data" /\ m.from = addr[p] /\ m.by = p /\ m.id = told[p]
  BY <1>1 DEF LisInv, LisTypeOK, Datas
<1> HIDE DEF m
<1>3. LisTypeOK'
  BY <1>1, <1>2 DEF LisInv, LisTypeOK, connVars, Serving
<1>4. AddrInv'
  BY <1>1, <1>2 DEF LisInv, AddrInv
<1>5. OwnerInv'
  BY <1>1, <1>2, SameTables DEF LisInv, OwnerInv, connVars
<1> QED
  BY <1>1, <1>3, <1>4, <1>5, SameTables DEF LisInv

\* Two peers have no address in common, so the answer that reaches a peer is
\* about its own connection.
LEMMA ReadSYNACKInv ==
  ASSUME LisInv, NEW p \in Peers, ReadSYNACK(p) PROVE LisInv'
<1>1. PICK m \in net : /\ m.kind = "synack" /\ m.to = addr[p]
                       /\ told' = [told EXCEPT ![p] = m.id]
  BY DEF ReadSYNACK
<1>2. UNCHANGED <<connVars, serving, addr, net, fed>>
  BY DEF ReadSYNACK
<1>3. m.id \in ConnIds
  BY <1>1 DEF LisInv, LisTypeOK, Syns, SynAcks, Datas
<1>4. LisTypeOK'
  BY <1>1, <1>2, <1>3 DEF LisInv, LisTypeOK, connVars, Serving
<1>5. AddrInv'
  BY <1>2 DEF LisInv, AddrInv
<1>6. ASSUME opened <= IdWrap PROVE Owns(p, m.id)
  <2>1. PICK q \in Peers : Owns(q, m.id) /\ m.to \in AddrsOf[q]
    BY <1>1, <1>6 DEF LisInv, OwnerInv
  <2>2. p = q
    BY <1>1, <2>1, ListenerAssumption DEF LisInv, AddrInv, ListenerAssumption
  <2> QED
    BY <2>1, <2>2
<1>7. OwnerInv'
  BY <1>1, <1>2, <1>6, SameTables DEF LisInv, OwnerInv, connVars, LisTypeOK
<1> QED
  BY <1>2, <1>4, <1>5, <1>7, SameTables DEF LisInv

LEMMA MigrateInv ==
  ASSUME LisInv, NEW p \in Peers, Migrate(p) PROVE LisInv'
<1>1. PICK a \in AddrsOf[p] : addr' = [addr EXCEPT ![p] = a]
  BY DEF Migrate
<1>2. /\ told' = told \/ told' = [told EXCEPT ![p] = NoId]
      /\ UNCHANGED <<connVars, serving, net, fed>>
  BY DEF Migrate
<1>3. a \in Addrs
  BY ListenerAssumption DEF ListenerAssumption
<1>4. LisTypeOK'
  BY <1>1, <1>2, <1>3 DEF LisInv, LisTypeOK, connVars, Serving
<1>5. AddrInv'
  BY <1>1, <1>2 DEF LisInv, AddrInv, LisTypeOK
<1>6. OwnerInv'
  BY <1>2, SameTables DEF LisInv, OwnerInv, connVars, LisTypeOK
<1> QED
  BY <1>2, <1>4, <1>5, <1>6, SameTables DEF LisInv

\* The number is the sender's own, and stands for one connection only.
LEMMA RouteInv ==
  ASSUME LisInv, NEW m \in net, Route(m) PROVE LisInv'
<1> DEFINE c == conns[m.id]
<1>1. /\ m.kind = "data" /\ c # NoConn
      /\ serving' = [do |-> "feed", conn |-> c, pkt |-> m]
      /\ UNCHANGED <<connVars, addr, told, net, fed>>
  BY DEF Route
<1>2. m \in Datas
  BY <1>1 DEF LisInv, LisTypeOK, Syns, SynAcks, Datas
<1>3. c \in 1..opened /\ connID[c] = m.id
  <2>1. m.id \in ConnIds /\ opened \in Nat
    BY <1>2, ListenerAssumption DEF LisInv, LisTypeOK, Datas, ListenerAssumption
  <2>2. c \in Conns /\ c \in Nat /\ c # 0
    BY <1>1, <2>1, ListenerAssumption DEF LisInv, LisTypeOK, Conns, NoConn, ListenerAssumption
  <2>3. c <= opened /\ connID[c] = m.id
    BY <1>1, <2>1 DEF LisInv, TableInv
  <2> QED
    BY <2>1, <2>2, <2>3
<1> HIDE DEF c
<1>4. LisTypeOK'
  <2>1. serving' \in Serving'
    BY <1>1, <1>2, <1>3 DEF Serving, connVars
  <2> QED
    BY <1>1, <2>1 DEF LisInv, LisTypeOK, connVars
<1>5. AddrInv'
  BY <1>1 DEF LisInv, AddrInv
<1>6. ASSUME opened <= IdWrap PROVE opener[c] = m.by
  <2>1. PICK d \in 1..opened : connID[d] = m.id /\ opener[d] = m.by
    BY <1>1, <1>6 DEF LisInv, OwnerInv, Owns
  <2>2. c = d
    BY <1>3, <1>6, <2>1, Distinct DEF LisInv
  <2> QED
    BY <2>1, <2>2
<1>7. OwnerInv'
  BY <1>1, <1>6, SameTables DEF LisInv, OwnerInv, connVars
<1> QED
  BY <1>1, <1>4, <1>5, <1>7, SameTables DEF LisInv

LEMMA DeliverInv ==
  ASSUME LisInv, Deliver PROVE LisInv'
<1> DEFINE c == serving.conn
           m == serving.pkt
<1>1. /\ remoteAddr' = [remoteAddr EXCEPT ![c] = m.from]
      /\ fed' = fed \cup {<<c, m.by>>} /\ serving' = Idle /\ serving.do = "feed"
      /\ UNCHANGED <<conns, connsByAddr, nextID, opened, connID, home, opener, gone>>
      /\ UNCHANGED <<addr, told, net>>
  BY DEF Deliver
<1>2. c \in 1..opened /\ m \in Datas
  BY <1>1 DEF LisInv, LisTypeOK, Serving
<1>3. /\ m.from \in Addrs /\ m.by \in Peers /\ c \in Conns
      /\ opened <= IdWrap => opener[c] = m.by /\ m.from \in AddrsOf[opener[c]]
  BY <1>1, <1>2, ListenerAssumption
  DEF LisInv, LisTypeOK, OwnerInv, AddrInv, Datas, Conns, ListenerAssumption
<1> HIDE DEF c, m
<1>4. LisTypeOK'
  <2>1. serving' \in Serving'
    BY <1>1 DEF Serving, Idle, NoConn
  <2>2. fed' \subseteq (1..opened') \X Peers
    BY <1>1, <1>2, <1>3 DEF LisInv, LisTypeOK
  <2>3. remoteAddr' \in [Conns -> Addrs]
    BY <1>1, <1>3 DEF LisInv, LisTypeOK
  <2> QED
    BY <1>1, <2>1, <2>2, <2>3 DEF LisInv, LisTypeOK
<1>5. TableInv' /\ HomeInv' /\ AddrInv'
  BY <1>1 DEF LisInv, TableInv, HomeInv, AddrInv, Idle
<1>6. \A p, i : Owns(p, i)' <=> Owns(p, i)
  BY <1>1 DEF Owns
<1>7. OwnerInv'
  BY <1>1, <1>2, <1>3, <1>6 DEF LisInv, LisTypeOK, OwnerInv, Idle, Conns
<1>8. FedByOpener'
  BY <1>1, <1>3 DEF LisInv, FedByOpener
<1>9. StaleOnlyIfMoved' /\ SecondOnlyAfterRemoval'
  BY <1>1 DEF LisInv, StaleOnlyIfMoved, SecondOnlyAfterRemoval
<1> QED
  BY <1>4, <1>5, <1>7, <1>8, <1>9 DEF LisInv

LEMMA SendSYNACKInv ==
  ASSUME LisInv, SendSYNACK PROVE LisInv'
<1> DEFINE c == serving.conn
           m == [kind |-> "synack", to |-> remoteAddr[c], id |-> connID[c]]
<1>1. /\ net' = net \cup {m} /\ serving' = Idle /\ serving.do = "answer"
      /\ UNCHANGED <<connVars, addr, told, fed>>
  BY DEF SendSYNACK
<1>2. c \in 1..opened /\ c \in Conns
  BY <1>1, ListenerAssumption DEF LisInv, LisTypeOK, Serving, Conns, ListenerAssumption
<1>3. connID[c] \in ConnIds /\ remoteAddr[c] \in Addrs /\ opener[c] \in Peers
  BY <1>2, NumberOf DEF LisInv, LisTypeOK, TableInv
<1>4. /\ m \in SynAcks /\ m.kind = "synack"
      /\ m.to = remoteAddr[c] /\ m.id = connID[c]
  BY <1>3 DEF SynAcks
<1> HIDE DEF c, m
<1>5. LisTypeOK'
  <2>1. serving' \in Serving'
    BY <1>1 DEF Serving, Idle, NoConn
  <2> QED
    BY <1>1, <1>4, <2>1 DEF LisInv, LisTypeOK, connVars
<1>6. AddrInv'
  BY <1>1, <1>4 DEF LisInv, AddrInv, Idle
<1>7. OwnerInv'
  <2>1. Owns(opener[c], m.id)
    BY <1>2, <1>4 DEF Owns
  <2> QED
    BY <1>1, <1>2, <1>3, <1>4, <2>1, SameTables DEF LisInv, OwnerInv, connVars, Idle
<1> QED
  BY <1>1, <1>5, <1>6, <1>7, SameTables DEF LisInv

\* The connection of an address that is known.
LEMMA HandleKnownInv ==
  ASSUME LisInv, NEW m \in net, m.kind = "syn", Known(m.from),
         serving' = [Idle EXCEPT !.do = "answer", !.conn = connsByAddr[m.from]],
         UNCHANGED <<connVars, addr, told, net, fed>>
  PROVE  LisInv'
<1> DEFINE c == connsByAddr[m.from]
<1>1. m.from \in Addrs /\ c # NoConn
  BY DEF LisInv, LisTypeOK, Syns, SynAcks, Datas, Known
<1>2. c \in 1..opened
  BY <1>1, ListenerAssumption
  DEF LisInv, LisTypeOK, TableInv, Conns, NoConn, ListenerAssumption
<1>3. serving' = [do |-> "answer", conn |-> c, pkt |-> Idle.pkt]
  BY DEF Idle
<1> HIDE DEF c
<1>4. LisTypeOK'
  <2>1. serving' \in Serving'
    BY <1>2, <1>3 DEF Serving, Idle, connVars
  <2> QED
    BY <2>1 DEF LisInv, LisTypeOK, connVars
<1>5. AddrInv'
  BY <1>3 DEF LisInv, AddrInv
<1>6. OwnerInv'
  BY <1>3, SameTables DEF LisInv, OwnerInv, connVars
<1> QED
  BY <1>4, <1>5, <1>6, SameTables DEF LisInv

\* A new connection, numbered one after the last.
LEMMA HandleNewInv ==
  ASSUME LisInv, NEW m \in net, m.kind = "syn", ~Known(m.from),
         NEW c, c = opened + 1, c \in Conns,
         opened' = c, nextID' = NextNumber(nextID),
         conns' = [conns EXCEPT ![nextID] = c],
         connsByAddr' = [connsByAddr EXCEPT ![m.from] = c],
         connID' = [connID EXCEPT ![c] = nextID],
         remoteAddr' = [remoteAddr EXCEPT ![c] = m.from],
         home' = [home EXCEPT ![c] = m.from],
         opener' = [opener EXCEPT ![c] = m.by],
         serving' = [Idle EXCEPT !.do = "answer", !.conn = c],
         UNCHANGED <<gone, addr, told, net, fed>>
  PROVE  LisInv'
<1>1. m.from \in Addrs /\ m.by \in Peers /\ m.from \in AddrsOf[m.by]
  BY DEF LisInv, LisTypeOK, AddrInv, Syns, SynAcks, Datas
<1>2. opened \in Nat /\ c \in Nat /\ c # 0 /\ 1..opened' = 1..opened \cup {c}
  BY ListenerAssumption DEF LisInv, LisTypeOK, ListenerAssumption, Conns
<1>3. \A d \in 1..opened : d # c /\ d \in Conns
  BY <1>2, ListenerAssumption DEF LisInv, LisTypeOK, ListenerAssumption, Conns
<1>4. nextID = c % IdWrap /\ nextID \in ConnIds
  BY DEF LisInv, TableInv, LisTypeOK
<1>5. nextID' = (opened' + 1) % IdWrap /\ nextID' \in ConnIds
  BY <1>2, <1>4, NumberAfter, NumberOf DEF NextNumber
<1>6. /\ connID'[c] = nextID /\ home'[c] = m.from /\ opener'[c] = m.by /\ remoteAddr'[c] = m.from
      /\ \A d \in 1..opened : /\ connID'[d] = connID[d] /\ home'[d] = home[d]
                             /\ opener'[d] = opener[d] /\ remoteAddr'[d] = remoteAddr[d]
  BY <1>2, <1>3 DEF LisInv, LisTypeOK
<1>7. LisTypeOK'
  <2>1. serving' \in Serving'
    BY <1>2 DEF Serving, Idle
  <2>2. gone' \subseteq (1..opened') \X Addrs /\ fed' \subseteq (1..opened') \X Peers
    BY <1>2 DEF LisInv, LisTypeOK
  <2>3. opened' \in 0..MaxConns
    BY <1>2 DEF Conns
  <2>4. conns' \in [ConnIds -> Conns \cup {NoConn}] /\ connsByAddr' \in [Addrs -> Conns \cup {NoConn}]
    BY DEF LisInv, LisTypeOK
  <2>5. /\ connID' \in [Conns -> ConnIds \cup {NoId}]
        /\ remoteAddr' \in [Conns -> Addrs] /\ home' \in [Conns -> Addrs]
        /\ opener' \in [Conns -> Peers]
    BY <1>1, <1>4 DEF LisInv, LisTypeOK
  <2> QED
    BY <1>5, <2>1, <2>2, <2>3, <2>4, <2>5 DEF LisInv, LisTypeOK
<1>8. TableInv'
  <2>1. \A d \in 1..opened' : connID'[d] = d % IdWrap
    BY <1>2, <1>4, <1>6 DEF LisInv, TableInv
  <2>2. ASSUME NEW i \in ConnIds, conns'[i] # NoConn
        PROVE  conns'[i] <= opened' /\ connID'[conns'[i]] = i
    <3>1. CASE i = nextID
      BY <1>2, <1>4, <1>6, <3>1 DEF LisInv, LisTypeOK
    <3>2. CASE i # nextID
      <4>1. conns'[i] = conns[i] /\ conns[i] <= opened /\ connID[conns[i]] = i
        BY <2>2, <3>2 DEF LisInv, LisTypeOK, TableInv
      <4>2. conns[i] \in 1..opened
        BY <1>2, <2>2, <4>1 DEF LisInv, LisTypeOK, Conns, NoConn
      <4> QED
        BY <1>2, <1>6, <4>1, <4>2
    <3> QED
      BY <3>1, <3>2
  <2>3. ASSUME NEW a \in Addrs, connsByAddr'[a] # NoConn
        PROVE  connsByAddr'[a] <= opened' /\ home'[connsByAddr'[a]] = a
    <3>1. CASE a = m.from
      BY <1>2, <1>6, <3>1 DEF LisInv, LisTypeOK
    <3>2. CASE a # m.from
      <4>1. /\ connsByAddr'[a] = connsByAddr[a]
            /\ connsByAddr[a] <= opened /\ home[connsByAddr[a]] = a
        BY <2>3, <3>2 DEF LisInv, LisTypeOK, TableInv
      <4>2. connsByAddr[a] \in 1..opened
        BY <1>2, <2>3, <4>1 DEF LisInv, LisTypeOK, Conns, NoConn
      <4> QED
        BY <1>2, <1>6, <4>1, <4>2
    <3> QED
      BY <3>1, <3>2
  <2> QED
    BY <1>5, <2>1, <2>2, <2>3 DEF TableInv
<1>9. HomeInv'
  <2>1. \A d \in 1..opened : home[d] \in Addrs
    BY <1>3 DEF LisInv, LisTypeOK
  <2> QED
    BY <1>1, <1>2, <1>6, <2>1 DEF LisInv, LisTypeOK, HomeInv, NoConn
<1>10. AddrInv'
  BY DEF LisInv, AddrInv, Idle
<1>11. OwnerInv'
  <2>1. \A p, i : Owns(p, i) => Owns(p, i)'
    BY <1>2, <1>6 DEF Owns
  <2>2. opened' <= IdWrap => opened <= IdWrap
    BY <1>2, IdWrapFacts
  <2>3. \A d \in 1..opened : opener[d] \in Peers
    BY <1>3 DEF LisInv, LisTypeOK
  <2>4. opened' <= IdWrap => \A d \in 1..opened' : remoteAddr'[d] \in AddrsOf[opener'[d]]
    BY <1>1, <1>2, <1>6, <2>2 DEF LisInv, OwnerInv
  <2>5. serving'.do # "feed"
    BY DEF Idle
  <2>6. opened' <= IdWrap => \A p \in Peers : told'[p] # NoId => Owns(p, told[p])'
    BY <2>1, <2>2 DEF LisInv, OwnerInv
  <2> QED
    BY <2>1, <2>2, <2>4, <2>5, <2>6 DEF LisInv, OwnerInv
<1>12. FedByOpener'
  BY <1>2, <1>6, IdWrapFacts DEF LisInv, LisTypeOK, FedByOpener
<1>13. StaleOnlyIfMoved'
  <2>1. ASSUME NEW g \in gone, NEW a \in Addrs, connsByAddr'[a] = g[1]
        PROVE  g[2] # home'[g[1]]
    <3>1. g[1] \in 1..opened
      BY DEF LisInv, LisTypeOK
    <3>2. connsByAddr[a] = g[1]
      BY <1>3, <2>1, <3>1 DEF LisInv, LisTypeOK
    <3> QED
      BY <1>6, <3>1, <3>2 DEF LisInv, StaleOnlyIfMoved
  <2> QED
    BY <2>1 DEF StaleOnlyIfMoved
<1>14. SecondOnlyAfterRemoval'
  <2>1. ASSUME NEW d \in 1..opened, home[d] = m.from
        PROVE  \E g \in gone : g[1] < c /\ g[2] = home[d]
    <3>1. PICK g \in gone : g[2] = home[d]
      BY <2>1 DEF LisInv, HomeInv, Known
    <3>2. g[1] \in 1..opened
      BY DEF LisInv, LisTypeOK
    <3> QED
      BY <1>2, <3>1, <3>2
  <2>2. ASSUME NEW d \in 1..opened', NEW e \in 1..opened', d < e, home'[d] = home'[e]
        PROVE  \E g \in gone' : g[1] < e /\ g[2] = home'[d]
    <3>1. d \in 1..opened /\ (e \in 1..opened \/ e = c)
      BY <1>2, <2>2
    <3> QED
      BY <1>6, <2>1, <2>2, <3>1 DEF LisInv, SecondOnlyAfterRemoval
  <2> QED
    BY <2>2 DEF SecondOnlyAfterRemoval
<1> QED
  BY <1>7, <1>8, <1>9, <1>10, <1>11, <1>12, <1>13, <1>14 DEF LisInv

LEMMA HandleSYNInv ==
  ASSUME LisInv, NEW m \in net, HandleSYN(m) PROVE LisInv'
<1>1. m.kind = "syn" /\ UNCHANGED <<addr, told, net, fed>>
  BY DEF HandleSYN
<1>2. CASE Known(m.from)
  BY <1>1, <1>2, HandleKnownInv DEF HandleSYN
<1>3. CASE ~Known(m.from)
  BY <1>1, <1>3, HandleNewInv DEF HandleSYN
<1> QED
  BY <1>2, <1>3

\* What the address of the removed connection stood for is forgotten with it,
\* be it that connection or another.
LEMMA RemoveConnInv ==
  ASSUME LisInv, NEW i \in ConnIds, RemoveConn(i) PROVE LisInv'
<1> DEFINE c == conns[i]
           r == remoteAddr[c]
<1>1. /\ c # NoConn /\ conns' = [conns EXCEPT ![i] = NoConn]
      /\ connsByAddr' = [connsByAddr EXCEPT ![r] = NoConn]
      /\ gone' = gone \cup {<<c, r>>}
      /\ UNCHANGED <<nextID, opened, connID, remoteAddr, home, opener>>
      /\ UNCHANGED <<serving, addr, told, net, fed>>
  BY DEF RemoveConn, Forget
<1>2. c \in 1..opened /\ c \in Conns /\ r \in Addrs
  <2>1. c \in Conns /\ opened \in Nat
    BY <1>1, ListenerAssumption DEF LisInv, LisTypeOK, ListenerAssumption
  <2>2. c <= opened
    BY <1>1 DEF LisInv, TableInv
  <2> QED
    BY <2>1, <2>2 DEF LisInv, LisTypeOK, Conns
<1> HIDE DEF c, r
<1>3. /\ connsByAddr'[r] = NoConn
      /\ \A a \in Addrs : a # r => connsByAddr'[a] = connsByAddr[a]
      /\ \A k \in ConnIds : conns'[k] # NoConn => conns'[k] = conns[k]
  BY <1>1, <1>2 DEF LisInv, LisTypeOK
<1>4. LisTypeOK'
  <2>1. gone' \subseteq (1..opened') \X Addrs
    BY <1>1, <1>2 DEF LisInv, LisTypeOK
  <2>2. /\ conns' \in [ConnIds -> Conns \cup {NoConn}]
        /\ connsByAddr' \in [Addrs -> Conns \cup {NoConn}]
    BY <1>1, <1>2 DEF LisInv, LisTypeOK
  <2>3. serving' \in Serving'
    BY <1>1 DEF LisInv, LisTypeOK, Serving
  <2> QED
    BY <1>1, <2>1, <2>2, <2>3 DEF LisInv, LisTypeOK
<1>5. TableInv'
  BY <1>1, <1>3 DEF LisInv, TableInv
<1>6. HomeInv'
  <2>1. ASSUME NEW d \in 1..opened
        PROVE  connsByAddr'[home[d]] # NoConn \/ \E g \in gone' : g[2] = home[d]
    <3>1. home[d] \in Addrs
      BY ListenerAssumption DEF LisInv, LisTypeOK, Conns, ListenerAssumption
    <3>2. CASE home[d] = r
      <4>1. <<c, r>> \in gone' /\ <<c, r>>[2] = home[d]
        BY <1>1, <3>2
      <4> QED
        BY <4>1
    <3>3. CASE home[d] # r
      BY <1>1, <1>3, <3>1, <3>3 DEF LisInv, HomeInv
    <3> QED
      BY <3>2, <3>3
  <2> QED
    BY <1>1, <2>1 DEF HomeInv
<1>7. AddrInv' /\ FedByOpener'
  BY <1>1 DEF LisInv, AddrInv, FedByOpener
<1>8. OwnerInv'
  BY <1>1 DEF LisInv, OwnerInv, Owns
<1>9. StaleOnlyIfMoved'
  <2>1. ASSUME NEW g \in gone', NEW a \in Addrs, connsByAddr'[a] = g[1]
        PROVE  g[2] # home[g[1]]
    <3>1. g[1] \in 1..opened
      BY <1>1, <1>4 DEF LisTypeOK
    <3>2. g[1] # NoConn
      BY <3>1 DEF NoConn
    <3>3. a # r /\ connsByAddr[a] = g[1]
      BY <1>3, <2>1, <3>2
    <3>4. home[g[1]] = a
      BY <3>2, <3>3 DEF LisInv, TableInv
    <3>5. CASE g \in gone
      BY <3>3, <3>5 DEF LisInv, StaleOnlyIfMoved
    <3>6. CASE g = <<c, r>>
      BY <3>3, <3>4, <3>6
    <3> QED
      BY <1>1, <3>5, <3>6
  <2> QED
    BY <1>1, <2>1 DEF StaleOnlyIfMoved
<1>10. SecondOnlyAfterRemoval'
  BY <1>1 DEF LisInv, SecondOnlyAfterRemoval
<1> QED
  BY <1>4, <1>5, <1>6, <1>7, <1>8, <1>9, <1>10 DEF LisInv

LEMMA LisStutterInv == LisInv /\ UNCHANGED lisVars => LisInv'
<1> SUFFICES ASSUME LisInv, UNCHANGED lisVars PROVE LisInv'
  OBVIOUS
<1>1. UNCHANGED <<connVars, fed>> /\ UNCHANGED <<serving, addr, told, net>>
  BY DEF lisVars
<1>2. LisTypeOK'
  BY <1>1 DEF LisInv, LisTypeOK, connVars, Serving
<1>3. AddrInv' /\ OwnerInv'
  BY <1>1, SameTables DEF LisInv, AddrInv, OwnerInv, connVars
<1> QED
  BY <1>1, <1>2, <1>3, SameTables DEF LisInv

LEMMA LisInvStep == LisInv /\ [LisNext]_lisVars => LisInv'
<1> SUFFICES ASSUME LisInv, [LisNext]_lisVars PROVE LisInv'
  OBVIOUS
<1>1. ASSUME NEW p \in Peers, SendSYN(p) \/ ReadSYNACK(p) \/ SendData(p) \/ Migrate(p)
      PROVE  LisInv'
  BY <1>1, SendSYNInv, ReadSYNACKInv, SendDataInv, MigrateInv
<1>2. ASSUME NEW m \in net, Route(m) \/ HandleSYN(m)
      PROVE  LisInv'
  BY <1>2, RouteInv, HandleSYNInv
<1>3. CASE Deliver \/ SendSYNACK
  BY <1>3, DeliverInv, SendSYNACKInv
<1>4. ASSUME NEW i \in ConnIds, RemoveConn(i) PROVE LisInv'
  BY <1>4, RemoveConnInv
<1> QED
  BY <1>1, <1>2, <1>3, <1>4, LisStutterInv DEF LisNext
-----------------------------------------------------------------------------
\* The tables, the packets and the read loop keep their types
\* (listener.go:18-37).
THEOREM LisTypeCorrect == LisSpec => []LisTypeOK
<1>1. LisInv => LisTypeOK
  BY DEF LisInv
<1> QED
  BY <1>1, LisInvInit, LisInvStep, PTL DEF LisSpec

\* Whatever is late, repeated, moved or removed, a connection is fed only by the
\* peer that opened it, as long as no number was given twice: however many peers
\* and addresses there are (listener.go:113-139, 154).
THEOREM FedByOpenerCorrect == LisSpec => []FedByOpener
<1>1. LisInv => FedByOpener
  BY DEF LisInv
<1> QED
  BY <1>1, LisInvInit, LisInvStep, PTL DEF LisSpec

\* The entry of an address outlives its connection only if that one answered to
\* another address when it was removed (listener.go:126, 185-194).
THEOREM StaleOnlyIfMovedCorrect == LisSpec => []StaleOnlyIfMoved
<1>1. LisInv => StaleOnlyIfMoved
  BY DEF LisInv
<1> QED
  BY <1>1, LisInvInit, LisInvStep, PTL DEF LisSpec

\* A late or repeated SYN opens a second connection at an address only after
\* one that answered to it was removed (listener.go:143-152, 192).
THEOREM SecondOnlyAfterRemovalCorrect == LisSpec => []SecondOnlyAfterRemoval
<1>1. LisInv => SecondOnlyAfterRemoval
  BY DEF LisInv
<1> QED
  BY <1>1, LisInvInit, LisInvStep, PTL DEF LisSpec
-----------------------------------------------------------------------------
(* SeqSpace: numbers modulo SeqWrap tell the packets that can be under way *)
(* apart.                                                                  *)

LEMMA SizeFacts ==
  /\ SeqWrap \in Nat \ {0} /\ SeqWrap > 1 /\ Mask \in Nat /\ Ahead \in Nat
  /\ MaxPackets \in Nat /\ MaxOld \in Nat
  /\ SeqWrap \div 2 \in Nat /\ SeqWrap \div 2 > 0 /\ 2 * (SeqWrap \div 2) <= SeqWrap
  /\ Ahead + 1 <= SeqWrap \div 2 /\ MaxOld + 1 <= SeqWrap \div 2 /\ Ahead + Mask + 1 < SeqWrap
  /\ Seqs = 0..(SeqWrap - 1)
<1>1. /\ SeqWrap \in Nat \ {0} /\ SeqWrap > 1 /\ Mask \in Nat /\ Ahead \in Nat
      /\ MaxPackets \in Nat /\ MaxOld \in Nat
      /\ 2 * (Ahead + 1) <= SeqWrap /\ 2 * (MaxOld + 1) <= SeqWrap /\ Ahead + Mask + 1 < SeqWrap
  BY SeqAssumption DEF SeqAssumption
<1> QED
  BY <1>1 DEF Seqs
-----------------------------------------------------------------------------
(* Numbers modulo SeqWrap *)

\* A number is less than a turn, and whole turns make no difference.
LEMMA NumberType == ASSUME NEW a \in Int PROVE SeqNo(a) \in Seqs /\ SeqNo(a) \in Int
<1>1. SeqWrap \in Nat \ {0} /\ Seqs = 0..(SeqWrap - 1)
  BY SizeFacts
<1>2. a % SeqWrap \in 0..(SeqWrap - 1)
  BY <1>1, DivMod
<1> QED
  BY <1>1, <1>2 DEF SeqNo

LEMMA Turns ==
  ASSUME NEW a \in Int PROVE \E p \in Int : SeqNo(a) = a - SeqWrap * p
<1>1. SeqWrap \in Nat \ {0}
  BY SizeFacts
<1>2. a \div SeqWrap \in Int /\ a % SeqWrap = a - SeqWrap * (a \div SeqWrap)
  BY <1>1, DivMod
<1> QED
  BY <1>2 DEF SeqNo

LEMMA TurnsAway ==
  ASSUME NEW a \in Int, NEW p \in Int, NEW x \in Int, x = a - SeqWrap * p
  PROVE  SeqNo(x) = SeqNo(a)
<1> DEFINE q == a \div SeqWrap
           r == a % SeqWrap
<1>1. SeqWrap \in Nat \ {0}
  BY SizeFacts
<1>2. q \in Int /\ r \in 0..(SeqWrap - 1) /\ r = a - SeqWrap * q
  BY <1>1, DivMod
<1>3. SeqNo(a) = r
  BY DEF SeqNo
<1> HIDE DEF q, r
<1>4. x = (q - p) * SeqWrap + r /\ q - p \in Int
  BY <1>1, <1>2
<1>5. x % SeqWrap = r
  BY <1>1, <1>2, <1>4, ModUnique
<1> QED
  BY <1>3, <1>5 DEF SeqNo

\* The number of a sum, or of a difference, is that of the numbers'.
LEMMA NumberSum ==
  ASSUME NEW a \in Int, NEW b \in Int
  PROVE  SeqNo(SeqNo(a) + b) = SeqNo(a + b)
<1>1. PICK p \in Int : SeqNo(a) = a - SeqWrap * p
  BY Turns
<1>2. /\ SeqNo(a) + b = (a + b) - SeqWrap * p
      /\ SeqNo(a) + b \in Int /\ a + b \in Int
  BY <1>1, SizeFacts
<1> QED
  BY <1>2, TurnsAway

LEMMA NumberDifference ==
  ASSUME NEW a \in Int, NEW b \in Int
  PROVE  /\ Minus(SeqNo(a), SeqNo(b)) = SeqNo(a - b)
         /\ Minus(SeqNo(a), b) = SeqNo(a - b)
<1>1. PICK p \in Int : SeqNo(a) = a - SeqWrap * p
  BY Turns
<1>2. PICK q \in Int : SeqNo(b) = b - SeqWrap * q
  BY Turns
<1>3. SeqNo(SeqNo(a) - SeqNo(b)) = SeqNo(a - b)
  <2>1. /\ SeqNo(a) - SeqNo(b) = (a - b) - SeqWrap * (p - q)
        /\ SeqNo(a) - SeqNo(b) \in Int /\ a - b \in Int /\ p - q \in Int
    BY <1>1, <1>2, SizeFacts
  <2> QED
    BY <2>1, TurnsAway
<1>4. SeqNo(SeqNo(a) - b) = SeqNo(a - b)
  <2>1. /\ SeqNo(a) - b = (a - b) - SeqWrap * p
        /\ SeqNo(a) - b \in Int /\ a - b \in Int
    BY <1>1, SizeFacts
  <2> QED
    BY <2>1, TurnsAway
<1> QED
  BY <1>3, <1>4 DEF Minus

\* Less than a turn away from 0.
LEMMA NumberSmall ==
  ASSUME NEW d \in Int
  PROVE  /\ 0 <= d /\ d < SeqWrap => SeqNo(d) = d
         /\ d < 0 /\ -SeqWrap <= d => SeqNo(d) = d + SeqWrap
<1>1. SeqWrap \in Nat \ {0}
  BY SizeFacts
<1>2. ASSUME 0 <= d, d < SeqWrap PROVE d % SeqWrap = d
  <2>1. d = 0 * SeqWrap + d /\ d \in 0..(SeqWrap - 1)
    BY <1>1, <1>2
  <2> QED
    BY <1>1, <2>1, ModUnique
<1>3. ASSUME d < 0, -SeqWrap <= d PROVE d % SeqWrap = d + SeqWrap
  <2>1. d = (-1) * SeqWrap + (d + SeqWrap) /\ d + SeqWrap \in 0..(SeqWrap - 1) /\ -1 \in Int
    BY <1>1, <1>3
  <2> QED
    BY <1>1, <2>1, ModUnique
<1> QED
  BY <1>2, <1>3 DEF SeqNo

\* Less than a turn apart, the numbers tell how far; the same number is the
\* same packet.
LEMMA MinusExact ==
  ASSUME NEW a \in Int, NEW b \in Int
  PROVE  /\ 0 <= a - b /\ a - b < SeqWrap => Minus(SeqNo(a), SeqNo(b)) = a - b
         /\ a - b < 0 /\ b - a <= SeqWrap => Minus(SeqNo(a), SeqNo(b)) = a - b + SeqWrap
<1>1. Minus(SeqNo(a), SeqNo(b)) = SeqNo(a - b)
  BY NumberDifference
<1>2. SeqWrap \in Nat /\ a - b \in Int
  BY SizeFacts
<1> QED
  BY <1>1, <1>2, NumberSmall

LEMMA SameNumber ==
  ASSUME NEW a \in Int, NEW b \in Int, SeqNo(a) = SeqNo(b),
         a - b < SeqWrap, b - a < SeqWrap
  PROVE  a = b
<1>1. Minus(SeqNo(a), SeqNo(b)) = 0 /\ Minus(SeqNo(b), SeqNo(a)) = 0
  BY NumberType, NumberSmall, SizeFacts DEF Minus
<1> QED
  BY <1>1, MinusExact
-----------------------------------------------------------------------------
(* Delivery in order *)

\* The least number in a set.
LEMMA LeastNat ==
  ASSUME NEW T \in SUBSET Nat, T # {}
  PROVE  \E k \in T : \A i \in T : k <= i
<1>1. PICK k \in T : \A i \in T : <<i, k>> \notin OpToRel(<, Nat)
  BY NatLessThanWellFounded, WFMin
<1>2. \A i \in T : ~(i < k)
  BY <1>1 DEF OpToRel
<1> QED
  BY <1>2

\* A packet that may be kept is the one its place stands for.
LEMMA KeptIs ==
  ASSUME SeqTypeOK, StreamInv,
         NEW n \in Int, Len(released) < n, n <= Len(released) + Ahead + 2,
         buffer[SeqNo(n)] # 0
  PROVE  buffer[SeqNo(n)] = n /\ n \in arrived /\ n > Len(released) + 1
<1> DEFINE L == Len(released)
           s == SeqNo(n)
<1>1. s \in Seqs /\ L \in Nat /\ packets \in Nat /\ packets <= L + Ahead + 1
  BY NumberType, SizeFacts DEF SeqTypeOK, StreamInv
<1>2. /\ buffer[s] \in arrived /\ buffer[s] > L /\ SeqNo(buffer[s]) = s
      /\ L + 1 \notin arrived
  BY <1>1 DEF StreamInv
<1>3. buffer[s] \in 1..packets
  BY <1>2 DEF SeqTypeOK
<1>4. buffer[s] = n
  BY <1>1, <1>2, <1>3, SameNumber, SizeFacts
<1> QED
  BY <1>1, <1>2, <1>4

\* The run of packets kept after the next one ends within the window.
LEMMA RunFacts ==
  ASSUME SeqTypeOK, StreamInv,
         NEW s, s = SeqNo(Len(released) + 1), NEW k, k = Run(buffer, SeqNo(s + 1))
  PROVE  /\ k \in 0..Ahead
         /\ \A i \in 1..k : buffer[SeqNo(s + i)] = Len(released) + 1 + i
         /\ buffer[SeqNo(Len(released) + 2 + k)] = 0
<1> DEFINE L == Len(released)
           t == SeqNo(s + 1)
           T == {i \in Nat : buffer[SeqNo(t + i)] = 0}
<1>1. L \in Nat /\ packets \in Nat /\ packets <= L + Ahead + 1 /\ Ahead \in Nat /\ s \in Int
  BY SizeFacts, NumberType DEF SeqTypeOK, StreamInv
<1>2. t = SeqNo(L + 2)
  <2>1. SeqNo(s + 1) = SeqNo(L + 1 + 1)
    BY <1>1, NumberSum
  <2> QED
    BY <1>1, <2>1
<1>3. ASSUME NEW i \in Nat
      PROVE  SeqNo(t + i) = SeqNo(L + 2 + i) /\ SeqNo(s + i) = SeqNo(L + 1 + i)
  <2>1. SeqNo(SeqNo(L + 2) + i) = SeqNo(L + 2 + i) /\ SeqNo(SeqNo(L + 1) + i) = SeqNo(L + 1 + i)
    <3>1. L + 1 \in Int /\ L + 2 \in Int /\ i \in Int
      BY <1>1
    <3> HIDE DEF L
    <3> QED
      BY <3>1, NumberSum
  <2> QED
    BY <1>2, <2>1
<1> HIDE DEF t
<1>4. Ahead \in T
  <2>1. buffer[SeqNo(L + 2 + Ahead)] # 0 => L + 2 + Ahead \in arrived
    BY <1>1, KeptIs
  <2>2. L + 2 + Ahead \notin arrived
    BY <1>1 DEF SeqTypeOK
  <2> QED
    BY <1>1, <1>3, <2>1, <2>2
<1>5. PICK j \in T : \A i \in T : j <= i
  BY <1>4, LeastNat
<1>6. /\ j \in 0..Ahead
      /\ \A i \in 0..(j - 1) : buffer[SeqNo(t + i)] # 0
      /\ buffer[SeqNo(t + j)] = 0
  BY <1>1, <1>4, <1>5
<1>7. /\ k \in 0..Ahead
      /\ \A i \in 0..(k - 1) : buffer[SeqNo(t + i)] # 0
      /\ buffer[SeqNo(t + k)] = 0
  BY <1>6 DEF Run, t
<1>8. ASSUME NEW i \in 1..k PROVE buffer[SeqNo(s + i)] = L + 1 + i
  <2>1. i - 1 \in 0..(k - 1) /\ i - 1 \in Nat /\ i \in Nat /\ i <= Ahead
    BY <1>1, <1>7
  <2>2. buffer[SeqNo(t + (i - 1))] # 0
    BY <1>7, <2>1
  <2>3. SeqNo(t + (i - 1)) = SeqNo(L + 1 + i)
    <3>1. L + 2 + (i - 1) = L + 1 + i
      BY <1>1, <2>1
    <3> QED
      BY <1>3, <2>1, <3>1
  <2>4. buffer[SeqNo(L + 1 + i)] = L + 1 + i
    BY <1>1, <2>1, <2>2, <2>3, KeptIs
  <2> QED
    BY <1>3, <2>1, <2>4
<1>9. buffer[SeqNo(L + 2 + k)] = 0
  <2>1. k \in Nat
    BY <1>1, <1>7
  <2> QED
    BY <1>3, <1>7, <2>1
<1> QED
  BY <1>7, <1>8, <1>9

\* Where a packet that arrives stands to the next one to deliver.
LEMMA WhereIs ==
  ASSUME SeqTypeOK, StreamInv, NEW n \in 1..packets, packets - n <= MaxOld
  PROVE  LET L == Len(released)
             s == SeqNo(n)
         IN  /\ n <= L => Old(s) /\ s # nextExpected
             /\ n = L + 1 => s = nextExpected /\ ~Old(s) /\ ~(Minus(s, nextExpected) > Ahead)
             /\ n > L + 1 => s # nextExpected /\ ~Old(s) /\ ~(Minus(s, nextExpected) > Ahead)
<1> DEFINE L == Len(released)
           s == SeqNo(n)
           e == nextExpected
           H == SeqWrap \div 2
<1>1. /\ L \in Nat /\ packets \in Nat /\ n \in Int /\ L + 1 \in Int
      /\ L <= packets /\ packets <= L + Ahead + 1 /\ e = SeqNo(L + 1)
  BY SizeFacts DEF SeqTypeOK, StreamInv
<1>2. /\ SeqWrap \in Nat /\ Ahead \in Nat /\ MaxOld \in Nat /\ H \in Nat
      /\ 2 * H <= SeqWrap /\ Ahead + 1 <= H /\ MaxOld + 1 <= H
  BY SizeFacts
<1>3. /\ 0 <= n - (L + 1) /\ n - (L + 1) < SeqWrap => Minus(s, e) = n - (L + 1)
      /\ n - (L + 1) < 0 /\ (L + 1) - n <= SeqWrap => Minus(s, e) = n - (L + 1) + SeqWrap
  BY <1>1, MinusExact
<1>4. s = e => Minus(s, e) = 0
  BY <1>1, <1>2, NumberType, NumberSmall DEF Minus
<1>5. Old(s) <=> Minus(s, e) >= H
  BY DEF Old, seqLT
<1>6. n = L + 1 => s = e
  BY <1>1
<1> HIDE DEF L, s, e, H
<1>7. n <= L => Old(s) /\ s # e
  BY <1>1, <1>2, <1>3, <1>4, <1>5
<1>8. n = L + 1 => ~Old(s) /\ ~(Minus(s, e) > Ahead)
  BY <1>1, <1>2, <1>3, <1>5
<1>9. n > L + 1 => s # e /\ ~Old(s) /\ ~(Minus(s, e) > Ahead)
  BY <1>1, <1>2, <1>3, <1>4, <1>5
<1> QED
  BY <1>6, <1>7, <1>8, <1>9 DEF L, s, e

\* A packet kept at a place within the window is told from the others there.
LEMMA KeptApart ==
  ASSUME SeqTypeOK, StreamInv,
         NEW a \in Int, Len(released) < a, a <= Len(released) + Ahead + 1,
         NEW b \in Int, Len(released) < b, b <= Len(released) + Ahead + 1,
         SeqNo(a) = SeqNo(b)
  PROVE  a = b
<1>1. Len(released) \in Nat
  BY DEF SeqTypeOK
<1>2. a - b < SeqWrap /\ b - a < SeqWrap
  BY <1>1, SizeFacts
<1> QED
  BY <1>2, SameNumber

StreamTypes ==
  /\ nextExpected \in Seqs /\ buffer \in [Seqs -> 0..MaxPackets]
  /\ released \in Seq(1..MaxPackets)

\* A packet delivered before changes nothing.
LEMMA InsertOld ==
  ASSUME SeqTypeOK, StreamInv, NEW n \in 1..packets, packets - n <= MaxOld,
         n <= Len(released), Insert(SeqNo(n), n),
         arrived' = arrived \cup {n}, UNCHANGED packets
  PROVE  StreamInv' /\ StreamTypes'
<1>1. UNCHANGED <<nextExpected, buffer, released>>
  BY WhereIs DEF Insert
<1>2. n \in arrived
  BY DEF StreamInv, SeqTypeOK
<1>3. arrived' = arrived
  BY <1>2
<1> QED
  BY <1>1, <1>3 DEF StreamInv, StreamTypes, SeqTypeOK

\* A packet that comes before its turn is kept where no other can be.
LEMMA InsertLater ==
  ASSUME SeqTypeOK, StreamInv, NEW n \in 1..packets, packets - n <= MaxOld,
         n > Len(released) + 1, Insert(SeqNo(n), n),
         arrived' = arrived \cup {n}, UNCHANGED packets
  PROVE  StreamInv' /\ StreamTypes'
<1> DEFINE L == Len(released)
           s == SeqNo(n)
<1>1. /\ buffer' = [buffer EXCEPT ![s] = IF @ = 0 THEN n ELSE @]
      /\ UNCHANGED <<nextExpected, released>>
  <2>1. s # nextExpected /\ ~Old(s) /\ ~(Minus(s, nextExpected) > Ahead)
    BY WhereIs
  <2> HIDE DEF s
  <2>2. s = SeqNo(n) /\ Insert(s, n)
    BY DEF s
  <2> QED
    BY <2>1, <2>2 DEF Insert
<1>2. /\ L \in Nat /\ packets \in Nat /\ packets <= L + Ahead + 1 /\ Ahead \in Nat /\ n \in Int
      /\ s \in Seqs /\ n \in 1..MaxPackets /\ MaxPackets \in Nat
  BY SizeFacts, NumberType DEF SeqTypeOK, StreamInv
<1>3. buffer[s] # 0 => buffer[s] = n
  BY <1>2, KeptIs
<1>4. buffer' = [buffer EXCEPT ![s] = n]
  BY <1>1, <1>2, <1>3 DEF SeqTypeOK
<1>5. StreamTypes'
  BY <1>1, <1>2, <1>4 DEF SeqTypeOK, StreamTypes
<1>6. ASSUME NEW q \in Seqs, buffer'[q] # 0
      PROVE  buffer'[q] \in arrived' /\ buffer'[q] > L /\ SeqNo(buffer'[q]) = q
  BY <1>2, <1>4, <1>6 DEF SeqTypeOK, StreamInv
<1>7. ASSUME NEW m \in arrived', m > L
      PROVE  buffer'[SeqNo(m)] = m
  <2>1. CASE m = n
    BY <1>2, <1>4, <2>1 DEF SeqTypeOK
  <2>2. CASE m # n
    <3>1. m \in arrived /\ m \in 1..packets /\ buffer[SeqNo(m)] = m
      BY <1>7, <2>2 DEF SeqTypeOK, StreamInv
    <3>2. SeqNo(m) # s
      BY <1>2, <1>7, <2>2, <3>1, KeptApart
    <3>3. SeqNo(m) \in Seqs
      BY <3>1, NumberType
    <3> QED
      BY <1>4, <3>1, <3>2, <3>3 DEF SeqTypeOK
  <2> QED
    BY <2>1, <2>2
<1>8. L + 1 \notin arrived'
  BY <1>2 DEF StreamInv
<1>9. Len(released') = L /\ L <= packets' /\ packets' <= L + Ahead + 1 /\ nextExpected' = SeqNo(L + 1)
  BY <1>1 DEF StreamInv
<1>10. \A i \in 1..L : released'[i] = i /\ i \in arrived'
  BY <1>1 DEF StreamInv
<1> HIDE DEF L
<1> QED
  BY <1>5, <1>6, <1>7, <1>8, <1>9, <1>10 DEF StreamInv

LEMMA FunctionSeq ==
  ASSUME NEW S, NEW k \in Nat, NEW f \in [1..k -> S]
  PROVE  f \in Seq(S) /\ Len(f) = k
<1>1. f \in Seq(S)
  BY SeqDef
<1>2. Len(f) \in Nat /\ 1..Len(f) = 1..k
  BY <1>1, LenProperties
<1> QED
  BY <1>1, <1>2

\* Two sequences that count on from each other.
LEMMA CountOn ==
  ASSUME NEW P \in Nat, NEW a \in Seq(1..P), NEW b \in Seq(1..P),
         \A i \in 1..Len(a) : a[i] = i, \A i \in 1..Len(b) : b[i] = Len(a) + i
  PROVE  /\ a \o b \in Seq(1..P) /\ Len(a \o b) = Len(a) + Len(b)
         /\ \A i \in 1..(Len(a) + Len(b)) : (a \o b)[i] = i
<1> DEFINE c == a \o b
<1>1. /\ c \in Seq(1..P) /\ Len(c) = Len(a) + Len(b)
      /\ \A i \in 1..(Len(a) + Len(b)) : c[i] = IF i <= Len(a) THEN a[i] ELSE b[i - Len(a)]
  BY ConcatProperties
<1> HIDE DEF c
<1>2. Len(a) \in Nat /\ Len(b) \in Nat
  OBVIOUS
<1>3. ASSUME NEW i \in 1..(Len(a) + Len(b)) PROVE c[i] = i
  <2>1. CASE i <= Len(a)
    <3>1. i \in 1..Len(a)
      BY <1>2, <2>1
    <3> QED
      BY <1>1, <2>1, <3>1
  <2>2. CASE ~(i <= Len(a))
    <3>1. i - Len(a) \in 1..Len(b)
      BY <1>2, <2>2
    <3>2. b[i - Len(a)] = Len(a) + (i - Len(a))
      BY <3>1
    <3> QED
      BY <1>1, <1>2, <2>2, <3>2
  <2> QED
    BY <2>1, <2>2
<1> QED
  BY <1>1, <1>3 DEF c

\* The packet whose turn it is goes out, and with it all that are kept next to it.
LEMMA InsertNext ==
  ASSUME SeqTypeOK, StreamInv, NEW n \in 1..packets, packets - n <= MaxOld,
         n = Len(released) + 1, Insert(SeqNo(n), n),
         arrived' = arrived \cup {n}, UNCHANGED packets
  PROVE  StreamInv' /\ StreamTypes'
<1> DEFINE L == Len(released)
           s == SeqNo(n)
           k == Run(buffer, SeqNo(s + 1))
           run == {SeqNo(s + i) : i \in 1..k}
           after == [i \in 1..k |-> buffer[SeqNo(s + i)]]
<1>1. /\ nextExpected' = SeqNo(s + k + 1)
      /\ buffer' = [q \in Seqs |-> IF q \in run THEN 0 ELSE buffer[q]]
      /\ released' = released \o <<n>> \o after
  <2>1. s = nextExpected /\ ~Old(s) /\ ~(Minus(s, nextExpected) > Ahead)
    BY WhereIs
  <2> HIDE DEF s
  <2>2. s = SeqNo(n) /\ Insert(s, n)
    BY DEF s
  <2> QED
    BY <2>1, <2>2 DEF Insert
<1>2. /\ k \in 0..Ahead
      /\ \A i \in 1..k : buffer[SeqNo(s + i)] = L + 1 + i
      /\ buffer[SeqNo(L + 2 + k)] = 0
  BY RunFacts
<1>3. /\ L \in Nat /\ packets \in Nat /\ packets <= L + Ahead + 1 /\ Ahead \in Nat /\ n \in Int
      /\ s \in Seqs /\ s \in Int /\ n \in 1..MaxPackets /\ MaxPackets \in Nat
  <2>1. /\ L \in Nat /\ packets \in Nat /\ packets <= L + Ahead + 1 /\ Ahead \in Nat /\ n \in Int
        /\ n \in 1..MaxPackets /\ MaxPackets \in Nat
    BY SizeFacts DEF SeqTypeOK, StreamInv
  <2> QED
    BY <2>1, NumberType
<1> HIDE DEF L, s, k
<1>4. k \in Nat /\ L = Len(released) /\ n = L + 1 /\ s = SeqNo(L + 1)
  BY <1>2, <1>3 DEF L, s
<1>5. ASSUME NEW i \in Int PROVE SeqNo(s + i) = SeqNo(L + 1 + i)
  <2>1. SeqNo(SeqNo(L + 1) + i) = SeqNo(L + 1 + i)
    BY <1>3, NumberSum
  <2> QED
    BY <1>4, <2>1
<1>6. \A i \in 1..k : L + 1 + i \in arrived /\ L + 1 + i \in 1..packets
  <2>1. ASSUME NEW i \in 1..k PROVE L + 1 + i \in arrived
    <3>1. i \in Int /\ L + 1 + i # 0
      BY <1>3
    <3>2. SeqNo(s + i) \in Seqs
      BY <1>3, <3>1, NumberType
    <3> QED
      BY <1>2, <3>1, <3>2 DEF StreamInv
  <2> QED
    BY <2>1 DEF SeqTypeOK
\* The sequence delivered.
<1>7. /\ released' \in Seq(1..MaxPackets) /\ Len(released') = L + 1 + k
      /\ \A i \in 1..(L + 1 + k) : released'[i] = i
  <2>1. after \in Seq(1..MaxPackets) /\ Len(after) = k /\ \A i \in 1..k : after[i] = L + 1 + i
    <3>1. \A i \in 1..k : after[i] = L + 1 + i
      BY <1>2
    <3>2. \A i \in 1..k : L + 1 + i \in 1..MaxPackets
      BY <1>3, <1>6 DEF SeqTypeOK
    <3>3. after \in [1..k -> 1..MaxPackets]
      BY <3>1, <3>2
    <3> HIDE DEF after
    <3> QED
      BY <1>4, <3>1, <3>3, FunctionSeq
  <2> DEFINE one == <<n>>
             head == released \o one
  <2>2. one \in Seq(1..MaxPackets) /\ Len(one) = 1 /\ one[1] = L + 1
    BY <1>3, <1>4
  <2>3. released' = head \o after
    BY <1>1
  <2> HIDE DEF one, after
  <2>4. released \in Seq(1..MaxPackets) /\ \A i \in 1..Len(released) : released[i] = i
    BY <1>4 DEF SeqTypeOK, StreamInv
  <2>5. \A i \in 1..Len(one) : one[i] = Len(released) + i
    BY <1>3, <1>4, <2>2
  <2>6. /\ head \in Seq(1..MaxPackets) /\ Len(head) = L + 1
        /\ \A i \in 1..(L + 1) : head[i] = i
    <3>1. /\ head \in Seq(1..MaxPackets) /\ Len(head) = Len(released) + Len(one)
          /\ \A i \in 1..(Len(released) + Len(one)) : head[i] = i
      BY <1>3, <2>2, <2>4, <2>5, CountOn
    <3> HIDE DEF head
    <3> QED
      BY <1>4, <2>2, <3>1
  <2> HIDE DEF head
  <2>7. \A i \in 1..Len(after) : after[i] = Len(head) + i
    BY <2>1, <2>6
  <2>8. /\ head \o after \in Seq(1..MaxPackets) /\ Len(head \o after) = Len(head) + Len(after)
        /\ \A i \in 1..(Len(head) + Len(after)) : (head \o after)[i] = i
    BY <1>3, <2>1, <2>6, <2>7, CountOn
  <2> QED
    BY <2>1, <2>3, <2>6, <2>8
<1>8. nextExpected' = SeqNo(L + 1 + k + 1) /\ nextExpected' \in Seqs
  <2>1. SeqNo(s + (k + 1)) = SeqNo(L + 1 + (k + 1))
    BY <1>4, <1>5
  <2>2. s + (k + 1) = s + k + 1 /\ L + 1 + (k + 1) = L + 1 + k + 1 /\ s + k + 1 \in Int
    BY <1>3, <1>4
  <2> QED
    BY <1>1, <2>1, <2>2, NumberType
\* What stays in the buffer.
<1> HIDE DEF after
<1>9. ASSUME NEW m \in arrived', m > L + 1 + k PROVE buffer'[SeqNo(m)] = m
  <2>1. m \in arrived /\ m \in 1..packets /\ m \in Int
    BY <1>3, <1>4, <1>9 DEF SeqTypeOK
  <2>2. buffer[SeqNo(m)] = m /\ SeqNo(m) \in Seqs
    BY <1>3, <1>4, <1>9, <2>1, NumberType DEF StreamInv
  <2>3. ASSUME NEW i \in 1..k PROVE SeqNo(m) # SeqNo(s + i)
    <3>1. SeqNo(s + i) = SeqNo(L + 1 + i)
      BY <1>5
    <3>2. /\ L + 1 + i \in Int /\ Len(released) < L + 1 + i /\ L + 1 + i <= L + Ahead + 1
          /\ Len(released) < m /\ m <= Len(released) + Ahead + 1 /\ m # L + 1 + i
      BY <1>2, <1>3, <1>4, <1>9, <2>1
    <3>3. SeqNo(m) # SeqNo(L + 1 + i)
      BY <1>4, <2>1, <3>2, KeptApart
    <3> QED
      BY <3>1, <3>3
  <2> QED
    BY <1>1, <2>2, <2>3
<1>10. ASSUME NEW q \in Seqs, buffer'[q] # 0
       PROVE  /\ buffer'[q] \in arrived' /\ buffer'[q] > L + 1 + k
              /\ SeqNo(buffer'[q]) = q
  <2>1. q \notin run /\ buffer'[q] = buffer[q]
    BY <1>1, <1>10
  <2>2. /\ buffer[q] \in arrived /\ buffer[q] > L /\ SeqNo(buffer[q]) = q
        /\ buffer[q] \in 1..packets /\ buffer[q] # L + 1
    BY <1>4, <1>10, <2>1 DEF StreamInv, SeqTypeOK
  <2>3. ASSUME NEW i \in 1..k PROVE buffer[q] # L + 1 + i
    <3>1. SeqNo(s + i) = SeqNo(L + 1 + i) /\ SeqNo(s + i) \in run
      BY <1>5
    <3> QED
      BY <2>1, <2>2, <3>1
  <2>4. buffer[q] > L + 1 + k
    <3> DEFINE i == buffer[q] - (L + 1)
    <3>1. buffer[q] = L + 1 + i /\ i \in Int /\ i > 0
      BY <1>3, <2>2
    <3> HIDE DEF i
    <3>2. ~(i \in 1..k)
      BY <2>3, <3>1
    <3> QED
      BY <1>3, <1>4, <3>1, <3>2
  <2> QED
    BY <2>1, <2>2, <2>4
<1>11. buffer' \in [Seqs -> 0..MaxPackets]
  BY <1>1, <1>3 DEF SeqTypeOK
<1>12. L + 1 + k + 1 \notin arrived'
  <2>1. L + 1 + k + 1 \in arrived => buffer[SeqNo(L + 1 + k + 1)] = L + 1 + k + 1
    BY <1>3, <1>4 DEF StreamInv
  <2>2. L + 1 + k + 1 = L + 2 + k /\ L + 2 + k # 0 /\ L + 2 + k # n
    BY <1>3, <1>4
  <2> QED
    BY <1>2, <2>1, <2>2
<1>13. \A i \in 1..(L + 1 + k) : i \in arrived'
  <2>1. ASSUME NEW i \in 1..(L + 1 + k) PROVE i \in arrived'
    <3>1. CASE i <= L
      BY <1>3, <1>4, <3>1 DEF StreamInv
    <3>2. CASE i = L + 1
      BY <1>4, <3>2
    <3>3. CASE i > L + 1
      <4>1. i - (L + 1) \in 1..k /\ L + 1 + (i - (L + 1)) = i
        BY <1>3, <1>4, <3>3
      <4> QED
        BY <1>6, <4>1
    <3> QED
      BY <1>3, <1>4, <3>1, <3>2, <3>3
  <2> QED
    BY <2>1
<1>14. L + 1 + k <= packets /\ packets <= L + 1 + k + Ahead + 1
  <2>1. k = 0 \/ k \in 1..k
    BY <1>4
  <2>2. L + 1 + k <= packets
    <3>1. k \in 1..k => L + 1 + k \in 1..packets
      BY <1>6
    <3> QED
      BY <1>3, <1>4, <2>1, <3>1
  <2> QED
    BY <1>3, <1>4, <2>2
<1>15. StreamTypes'
  BY <1>7, <1>8, <1>11 DEF StreamTypes
<1> DEFINE M == L + 1 + k
<1>16. Len(released') = M /\ \A i \in 1..M : released'[i] = i /\ i \in arrived'
  BY <1>7, <1>13
<1>17. M <= packets' /\ packets' <= M + Ahead + 1 /\ nextExpected' = SeqNo(M + 1) /\ M + 1 \notin arrived'
  BY <1>8, <1>12, <1>14
<1>18. /\ \A q \in Seqs : buffer'[q] # 0 =>
             buffer'[q] \in arrived' /\ buffer'[q] > M /\ SeqNo(buffer'[q]) = q
       /\ \A m \in arrived' : m > M => buffer'[SeqNo(m)] = m
  BY <1>9, <1>10
<1> HIDE DEF M
<1> QED
  BY <1>15, <1>16, <1>17, <1>18 DEF StreamInv
-----------------------------------------------------------------------------
(* The acknowledgement *)

LEMMA TimesMono ==
  ASSUME NEW a \in Int, NEW b \in Int, NEW d \in Nat, a <= b
  PROVE  d * a <= d * b
OBVIOUS

LEMMA TurnFacts ==
  ASSUME NEW a \in Int
  PROVE  /\ Turn(a) \in Int /\ SeqWrap * Turn(a) \in Int
         /\ SeqNo(a) = a - SeqWrap * Turn(a) /\ SeqNo(a) \in 0..(SeqWrap - 1)
<1>1. SeqWrap \in Nat \ {0}
  BY SizeFacts
<1>2. /\ a \div SeqWrap \in Int /\ a % SeqWrap \in 0..(SeqWrap - 1)
      /\ a % SeqWrap = a - SeqWrap * (a \div SeqWrap)
  BY <1>1, DivMod
<1> QED
  BY <1>1, <1>2 DEF SeqNo, Turn

LEMMA TurnMono ==
  ASSUME NEW a \in Int, NEW b \in Int, a <= b PROVE Turn(a) <= Turn(b)
<1>1. SeqWrap \in Nat
  BY SizeFacts
<1>2. SUFFICES ASSUME Turn(b) + 1 <= Turn(a) PROVE FALSE
  BY TurnFacts
<1>3. SeqWrap * (Turn(b) + 1) <= SeqWrap * Turn(a)
  BY <1>1, <1>2, TurnFacts, TimesMono
<1>4. SeqWrap * (Turn(b) + 1) = SeqWrap * Turn(b) + SeqWrap
  BY <1>1, TurnFacts
<1> QED
  BY <1>1, <1>3, <1>4, TurnFacts

\* Of two packets on one side of the wrap the older has the lower number.
LEMMA SameTurn ==
  ASSUME NEW a \in Int, NEW b \in Int, a < b, Turn(a) = Turn(b)
  PROVE  SeqNo(a) < SeqNo(b)
  BY TurnFacts

\* Where a packet that arrives stands to the newest.
LEMMA WhereNewest ==
  ASSUME SeqTypeOK, StreamInv, NEW m \in 0..packets, AckOf(m),
         NEW n \in 1..packets, packets - n <= MaxOld
  PROVE  /\ n > m => seqLT(recvAck, SeqNo(n)) /\ Minus(SeqNo(n), recvAck) = n - m
         /\ n <= m => ~seqLT(recvAck, SeqNo(n)) /\ Minus(recvAck, SeqNo(n)) = m - n
<1> DEFINE L == Len(released)
           H == SeqWrap \div 2
<1>1. /\ L \in Nat /\ packets \in Nat /\ n \in Int /\ m \in Int /\ packets <= L + Ahead + 1
      /\ recvAck = SeqNo(m)
  BY SizeFacts DEF SeqTypeOK, StreamInv, AckOf
<1>2. /\ SeqWrap \in Nat /\ Ahead \in Nat /\ MaxOld \in Nat /\ H \in Nat
      /\ 2 * H <= SeqWrap /\ Ahead + 1 <= H /\ MaxOld + 1 <= H
  BY SizeFacts
<1>3. L <= m
  <2>1. CASE L = 0
    BY <2>1
  <2>2. CASE L # 0
    BY <1>1, <2>2 DEF StreamInv, AckOf
  <2> QED
    BY <2>1, <2>2
<1> HIDE DEF L
<1>4. ASSUME n > m
      PROVE  Minus(recvAck, SeqNo(n)) = m - n + SeqWrap /\ Minus(SeqNo(n), recvAck) = n - m
  BY <1>1, <1>2, <1>3, <1>4, MinusExact
<1>5. ASSUME n <= m PROVE Minus(recvAck, SeqNo(n)) = m - n
  BY <1>1, <1>2, <1>5, MinusExact
<1>6. ASSUME NEW x PROVE seqLT(recvAck, x) <=> Minus(recvAck, x) >= H
  BY DEF seqLT
<1> HIDE DEF H
<1>7. n > m => m - n + SeqWrap >= H
  BY <1>1, <1>2, <1>3
<1>8. n <= m => ~(m - n >= H)
  BY <1>1, <1>2
<1> QED
  BY <1>4, <1>5, <1>6, <1>7, <1>8

LEMMA AckNewer ==
  ASSUME SeqTypeOK, StreamInv, NEW m \in 0..packets, AckOf(m),
         NEW n \in 1..packets, packets - n <= MaxOld, n > m,
         UpdateRecvAck(SeqNo(n)), arrived' = arrived \cup {n}
  PROVE  AckOf(n)' /\ recvAck' \in Seqs /\ recvBitmask' \subseteq 0..(Mask - 1)
<1> DEFINE d == n - m
<1>1. recvAck' = SeqNo(n) /\ recvBitmask' = Jumped(d)
  BY WhereNewest DEF UpdateRecvAck
<1>2. /\ n \in Int /\ m \in Nat /\ d \in Nat /\ d > 0 /\ Mask \in Nat /\ n = m + d
      /\ m \in arrived \cup {0} /\ \A k \in arrived : k <= m /\ k \in Int
      /\ \A i \in recvBitmask : m - 1 - i \in arrived \cup {0} /\ i \in 0..(Mask - 1)
  BY SizeFacts DEF SeqTypeOK, AckOf
<1>3. /\ d > Mask => recvBitmask' = {}
      /\ d <= Mask => recvBitmask' = ({i + d : i \in recvBitmask} \cup {d - 1}) \cap 0..(Mask - 1)
  BY <1>1, <1>2 DEF Jumped
<1> HIDE DEF d
<1>4. recvAck' \in Seqs /\ recvBitmask' \subseteq 0..(Mask - 1)
  BY <1>1, <1>2, <1>3, NumberType
<1>5. ASSUME NEW i \in recvBitmask' PROVE n - 1 - i \in arrived' \cup {0}
  <2>1. CASE i = d - 1
    <3>1. n - 1 - i = m
      BY <1>2, <2>1
    <3> QED
      BY <1>2, <3>1
  <2>2. ASSUME NEW j \in recvBitmask, i = j + d PROVE n - 1 - i \in arrived' \cup {0}
    <3>1. n - 1 - i = m - 1 - j
      BY <1>2, <2>2
    <3> QED
      BY <1>2, <3>1
  <2> QED
    BY <1>2, <1>3, <2>1, <2>2
<1>6. ASSUME NEW k \in arrived', k < n, n - k <= Mask, Turn(k) = Turn(n)
      PROVE  n - k - 1 \in recvBitmask'
  <2>1. k \in arrived /\ k <= m /\ k \in Int
    BY <1>2, <1>6
  <2>2. d <= Mask /\ n - k - 1 \in 0..(Mask - 1)
    BY <1>2, <1>6, <2>1
  <2>3. CASE k = m
    <3>1. n - k - 1 = d - 1
      BY <1>2, <2>3
    <3> QED
      BY <1>3, <2>2, <3>1
  <2>4. CASE k < m
    <3>1. Turn(k) <= Turn(m) /\ Turn(m) <= Turn(n) /\ Turn(k) \in Int /\ Turn(m) \in Int
      BY <1>2, <2>1, TurnMono, TurnFacts
    <3>2. Turn(k) = Turn(m)
      BY <1>6, <3>1
    <3>3. m - k <= Mask
      BY <1>2, <1>6, <2>1
    <3>4. m - k - 1 \in recvBitmask
      BY <2>1, <2>4, <3>2, <3>3 DEF AckOf
    <3>5. n - k - 1 = (m - k - 1) + d
      BY <1>2, <2>1
    <3> QED
      BY <1>3, <2>2, <3>4, <3>5
  <2> QED
    BY <1>2, <2>1, <2>3, <2>4
<1>7. \A k \in arrived' : k <= n
  BY <1>2
<1> QED
  BY <1>1, <1>4, <1>5, <1>6, <1>7 DEF AckOf

LEMMA AckOlder ==
  ASSUME SeqTypeOK, StreamInv, NEW m \in 0..packets, AckOf(m),
         NEW n \in 1..packets, packets - n <= MaxOld, n <= m,
         UpdateRecvAck(SeqNo(n)), arrived' = arrived \cup {n}
  PROVE  AckOf(m)' /\ recvAck' \in Seqs /\ recvBitmask' \subseteq 0..(Mask - 1)
<1> DEFINE d == m - n
<1>1. /\ recvAck' = recvAck
      /\ recvBitmask' = IF SeqNo(n) < recvAck THEN Behind(d) ELSE recvBitmask
  BY WhereNewest DEF UpdateRecvAck
<1>2. /\ n \in Int /\ n > 0 /\ m \in Nat /\ d \in Nat /\ Mask \in Nat /\ n = m - d /\ recvAck = SeqNo(m)
      /\ m \in arrived \cup {0} /\ \A k \in arrived : k <= m /\ k \in Int
      /\ \A i \in recvBitmask : m - 1 - i \in arrived \cup {0} /\ i \in 0..(Mask - 1)
      /\ recvAck \in Seqs
  BY SizeFacts DEF SeqTypeOK, AckOf
<1>3. /\ recvBitmask \subseteq recvBitmask'
      /\ \A i \in recvBitmask' : i \in recvBitmask \/ (i = d - 1 /\ i \in 0..(Mask - 1))
      /\ SeqNo(n) < recvAck /\ d - 1 \in 0..(Mask - 1) => d - 1 \in recvBitmask'
  BY <1>1 DEF Behind
<1> HIDE DEF d
<1>4. recvAck' \in Seqs /\ recvBitmask' \subseteq 0..(Mask - 1)
  BY <1>1, <1>2, <1>3
<1>5. ASSUME NEW i \in recvBitmask' PROVE m - 1 - i \in arrived' \cup {0}
  <2>1. CASE i = d - 1
    <3>1. m - 1 - i = n
      BY <1>2, <2>1
    <3> QED
      BY <3>1
  <2> QED
    BY <1>2, <1>3, <2>1
<1>6. ASSUME NEW k \in arrived', k < m, m - k <= Mask, Turn(k) = Turn(m)
      PROVE  m - k - 1 \in recvBitmask'
  <2>1. CASE k \in arrived
    BY <1>3, <1>6, <2>1 DEF AckOf
  <2>2. CASE k = n
    <3>1. SeqNo(n) < recvAck
      BY <1>2, <1>6, <2>2, SameTurn
    <3>2. m - k - 1 = d - 1 /\ d - 1 \in 0..(Mask - 1)
      BY <1>2, <1>6, <2>2
    <3> QED
      BY <1>3, <3>1, <3>2
  <2> QED
    BY <2>1, <2>2
<1> QED
  BY <1>1, <1>2, <1>4, <1>5, <1>6 DEF AckOf
-----------------------------------------------------------------------------
LEMMA SeqInvInit == SeqInit => SeqInv
<1> SUFFICES ASSUME SeqInit PROVE SeqInv
  OBVIOUS
<1>1. /\ packets = 0 /\ arrived = {} /\ recvAck = 0 /\ recvBitmask = {}
      /\ nextExpected = 1 /\ buffer = [s \in Seqs |-> 0] /\ released = <<>>
  BY DEF SeqInit
<1>2. SeqNo(0) = 0 /\ SeqNo(1) = 1 /\ 0 \in Seqs /\ 1 \in Seqs
  BY SizeFacts, NumberSmall
<1>3. released \in Seq(1..MaxPackets) /\ Len(released) = 0
  BY <1>1, EmptySeq
<1>4. SeqTypeOK
  BY <1>1, <1>2, <1>3, SizeFacts DEF SeqTypeOK
<1>5. StreamInv
  BY <1>1, <1>2, <1>3, SizeFacts DEF StreamInv
<1>6. AckOf(0)
  BY <1>1, <1>2 DEF AckOf
<1>7. 0 \in 0..packets
  BY <1>1
<1> QED
  BY <1>4, <1>5, <1>6, <1>7 DEF SeqInv

LEMMA SendNextInv == ASSUME SeqInv, SendNext PROVE SeqInv'
<1>1. /\ packets < MaxPackets /\ packets - Len(released) <= Ahead /\ packets' = packets + 1
      /\ UNCHANGED <<arrived, recvAck, recvBitmask, nextExpected, buffer, released>>
  BY DEF SendNext
<1>2. Len(released) \in Nat /\ packets \in Nat /\ MaxPackets \in Nat /\ Ahead \in Nat
  BY SizeFacts DEF SeqInv, SeqTypeOK
<1>3. SeqTypeOK'
  BY <1>1, <1>2 DEF SeqInv, SeqTypeOK
<1>4. StreamInv'
  BY <1>1, <1>2 DEF SeqInv, StreamInv
<1>5. PICK m \in 0..packets : AckOf(m)
  BY DEF SeqInv
<1>6. AckOf(m)'
  BY <1>1, <1>5 DEF AckOf
<1>7. m \in 0..packets'
  BY <1>1, <1>2
<1> QED
  BY <1>3, <1>4, <1>6, <1>7 DEF SeqInv

LEMMA ArriveInv == ASSUME SeqInv, NEW n \in 1..MaxPackets, Arrive(n) PROVE SeqInv'
<1>1. /\ n \in 1..packets /\ packets - n <= MaxOld /\ arrived' = arrived \cup {n}
      /\ UpdateRecvAck(SeqNo(n)) /\ Insert(SeqNo(n), n) /\ UNCHANGED packets
      /\ SeqTypeOK /\ StreamInv
  BY DEF Arrive, SeqInv
<1>2. Len(released) \in Nat /\ n \in Int
  BY <1>1 DEF SeqTypeOK
<1>3. StreamInv' /\ StreamTypes'
  <2>1. CASE n <= Len(released)
    BY <1>1, <2>1, InsertOld
  <2>2. CASE n = Len(released) + 1
    BY <1>1, <2>2, InsertNext
  <2>3. CASE n > Len(released) + 1
    BY <1>1, <2>3, InsertLater
  <2> QED
    BY <1>2, <2>1, <2>2, <2>3
<1>4. PICK m \in 0..packets : AckOf(m)
  BY DEF SeqInv
<1>5. m \in Int
  BY <1>4
<1>6. /\ \E k \in 0..packets' : AckOf(k)'
      /\ recvAck' \in Seqs /\ recvBitmask' \subseteq 0..(Mask - 1)
  <2>1. CASE n > m
    <3>1. AckOf(n)' /\ recvAck' \in Seqs /\ recvBitmask' \subseteq 0..(Mask - 1)
      BY <1>1, <1>4, <2>1, AckNewer
    <3>2. n \in 0..packets'
      BY <1>1
    <3> QED
      BY <3>1, <3>2
  <2>2. CASE n <= m
    <3>1. AckOf(m)' /\ recvAck' \in Seqs /\ recvBitmask' \subseteq 0..(Mask - 1)
      BY <1>1, <1>4, <2>2, AckOlder
    <3>2. m \in 0..packets'
      BY <1>1, <1>4
    <3> QED
      BY <3>1, <3>2
  <2> QED
    BY <1>2, <1>5, <2>1, <2>2
<1>7. packets' \in 0..MaxPackets /\ arrived' \subseteq 1..packets'
  BY <1>1 DEF SeqTypeOK
<1>8. SeqTypeOK'
  BY <1>3, <1>6, <1>7 DEF SeqTypeOK, StreamTypes
<1> QED
  BY <1>3, <1>6, <1>8 DEF SeqInv

LEMMA SeqInvStep == SeqInv /\ [SeqNext]_seqVars => SeqInv'
<1> SUFFICES ASSUME SeqInv, [SeqNext]_seqVars PROVE SeqInv'
  OBVIOUS
<1>1. CASE SendNext
  BY <1>1, SendNextInv
<1>2. ASSUME NEW n \in 1..MaxPackets, Arrive(n) PROVE SeqInv'
  BY <1>2, ArriveInv
<1>3. CASE UNCHANGED seqVars
  BY <1>3 DEF seqVars, SeqInv, SeqTypeOK, StreamInv, AckOf
<1> QED
  BY <1>1, <1>2, <1>3 DEF SeqNext

\* What is kept is what arrived and was not delivered.
LEMMA InOrder == ASSUME SeqInv PROVE OrderedAcrossWrap
<1> DEFINE L == Len(released)
<1>1. /\ L \in Nat /\ released \in [1..L -> 1..MaxPackets] /\ arrived \subseteq 1..packets
      /\ \A i \in 1..L : released[i] = i
  BY LenProperties DEF SeqInv, SeqTypeOK, StreamInv
<1>2. released = [i \in 1..L |-> i]
  BY <1>1
<1>3. ASSUME NEW s \in Seqs, buffer[s] # 0 PROVE buffer[s] \in arrived \ 1..L
  BY <1>1, <1>3 DEF SeqInv, StreamInv
<1>4. ASSUME NEW n \in arrived \ 1..L PROVE n # 0 /\ \E s \in Seqs : buffer[s] = n
  <2>1. n \in Int /\ n > L /\ n # 0
    BY <1>1
  <2>2. buffer[SeqNo(n)] = n /\ SeqNo(n) \in Seqs
    BY <2>1, NumberType DEF SeqInv, StreamInv
  <2> QED
    BY <2>1, <2>2
<1>5. {buffer[s] : s \in Seqs} \ {0} = arrived \ 1..L
  BY <1>3, <1>4
<1> QED
  BY <1>2, <1>5 DEF OrderedAcrossWrap

\* Of the packets that may be waiting the acknowledgement names only the one it means.
LEMMA AckRight == ASSUME SeqInv PROVE AckedAcrossWrap
<1>1. PICK m \in 0..packets : AckOf(m)
  BY DEF SeqInv
<1>2. Newest = m
  <2>1. m \in arrived \cup {0} /\ \A k \in arrived : k <= m
    BY <1>1 DEF AckOf
  <2>2. ASSUME NEW n \in arrived \cup {0}, \A k \in arrived : k <= n PROVE n = m
    <3>1. n \in Nat /\ m \in Nat /\ arrived \subseteq Nat \ {0}
      BY DEF SeqInv, SeqTypeOK
    <3> QED
      BY <2>1, <2>2, <3>1
  <2> QED
    BY <2>1, <2>2 DEF Newest
<1>3. /\ recvAck = SeqNo(m) /\ m \in Int /\ packets \in Nat /\ Len(released) \in Nat
      /\ Len(released) <= m /\ packets <= Len(released) + Ahead + 1 /\ m <= packets
  <2>1. /\ Len(released) \in Nat /\ packets <= Len(released) + Ahead + 1 /\ packets \in Nat
        /\ \A i \in 1..Len(released) : i \in arrived
    BY DEF SeqInv, SeqTypeOK, StreamInv
  <2>2. Len(released) = 0 \/ Len(released) \in arrived
    BY <2>1
  <2> QED
    BY <1>1, <2>1, <2>2 DEF AckOf
<1>4. ASSUME NEW n \in 1..packets, packets - n <= MaxOld, SeqNo(n) \in Acked
      PROVE  n \in arrived
  <2>1. ASSUME NEW j \in arrived \cup {0}, SeqNo(n) = SeqNo(j), j <= m, m - j <= Mask
        PROVE  n \in arrived
    <3>1. j \in Int /\ n \in Int /\ n # 0
      BY DEF SeqInv, SeqTypeOK
    <3>2. n - j < SeqWrap /\ j - n < SeqWrap
      BY <1>3, <1>4, <2>1, <3>1, SizeFacts
    <3>3. n = j
      BY <2>1, <3>1, <3>2, SameNumber
    <3> QED
      BY <3>1, <3>3
  <2>2. CASE SeqNo(n) = recvAck
    BY <1>1, <1>3, <2>1, <2>2, SizeFacts DEF AckOf
  <2>3. ASSUME NEW i \in recvBitmask, SeqNo(n) = Minus(recvAck, i + 1) PROVE n \in arrived
    <3>1. i \in 0..(Mask - 1) /\ i + 1 \in Int
      BY SizeFacts DEF SeqInv, SeqTypeOK
    <3>2. SeqNo(n) = SeqNo(m - (i + 1)) /\ m - (i + 1) = m - 1 - i
      BY <1>3, <2>3, <3>1, NumberDifference
    <3>3. m - 1 - i \in arrived \cup {0} /\ m - 1 - i <= m /\ m - (m - 1 - i) <= Mask
      BY <1>1, <1>3, <3>1, SizeFacts DEF AckOf
    <3> QED
      BY <2>1, <3>2, <3>3
  <2> QED
    BY <1>4, <2>2, <2>3 DEF Acked
<1>5. ASSUME NEW n \in arrived, m - n <= Mask, Turn(n) = Turn(m)
      PROVE  SeqNo(n) \in Acked
  <2>1. n \in Int /\ n <= m
    BY <1>1 DEF SeqInv, SeqTypeOK, AckOf
  <2>2. CASE n = m
    BY <1>3, <2>2 DEF Acked
  <2>3. CASE n < m
    <3>1. m - n - 1 \in recvBitmask
      BY <1>1, <1>5, <2>3 DEF AckOf
    <3>2. (m - n - 1) + 1 \in Int /\ m - ((m - n - 1) + 1) = n
      BY <1>3, <2>1
    <3>3. Minus(recvAck, (m - n - 1) + 1) = SeqNo(n)
      BY <1>3, <3>2, NumberDifference
    <3> QED
      BY <3>1, <3>3 DEF Acked
  <2> QED
    BY <1>3, <2>1, <2>2, <2>3
<1> QED
  BY <1>2, <1>4, <1>5 DEF AckedAcrossWrap

\* The receiver's records keep their types, its numbers below the wrap
\* (conn.go:30-50, reorder.go:8-19).
THEOREM SeqTypeCorrect == SeqSpec => []SeqTypeOK
<1>1. SeqInv => SeqTypeOK
  BY DEF SeqInv
<1> QED
  BY <1>1, SeqInvInit, SeqInvStep, PTL DEF SeqSpec

\* However often the numbers go round, packets are delivered in order, each
\* once, and none that arrived is lost (reorder.go:21-55).
THEOREM OrderedCorrect == SeqSpec => []OrderedAcrossWrap
<1>1. SeqInv => OrderedAcrossWrap
  BY InOrder
<1> QED
  BY <1>1, SeqInvInit, SeqInvStep, PTL DEF SeqSpec

\* However often the numbers go round, the acknowledgement covers nothing that
\* did not arrive and misses nothing on its own side of the wrap
\* (conn.go:244-262).
THEOREM AckedCorrect == SeqSpec => []AckedAcrossWrap
<1>1. SeqInv => AckedAcrossWrap
  BY AckRight
<1> QED
  BY <1>1, SeqInvInit, SeqInvStep, PTL DEF SeqSpec
=============================================================================
