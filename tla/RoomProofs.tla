----------------------------- MODULE RoomProofs -----------------------------
(***************************************************************************)
(* Proofs about Room, for every number of players, ticks and commands and  *)
(* every length of history.                                                *)
(***************************************************************************)
EXTENDS Room, TLAPS, SequenceTheorems

-----------------------------------------------------------------------------
(* Lemmas about the operators *)

\* The elements of a sequence without its head.
LEMMA TailElements ==
  ASSUME NEW S, NEW q \in Seq(S), q # <<>>
  PROVE  /\ Tail(q) \in Seq(S)
         /\ Len(q) \in Nat \ {0} /\ DOMAIN q = 1..Len(q)
         /\ Len(Tail(q)) = Len(q) - 1 /\ DOMAIN Tail(q) = 1..(Len(q) - 1)
         /\ \A i \in 1..(Len(q) - 1) : Tail(q)[i] = q[i + 1]
  OBVIOUS

\* The elements of a sequence with one more.
LEMMA AppendElements ==
  ASSUME NEW S, NEW q \in Seq(S), NEW e \in S
  PROVE  /\ Append(q, e) \in Seq(S)
         /\ Len(q) \in Nat /\ DOMAIN q = 1..Len(q)
         /\ Len(Append(q, e)) = Len(q) + 1
         /\ DOMAIN Append(q, e) = 1..(Len(q) + 1)
         /\ \A i \in 1..Len(q) : Append(q, e)[i] = q[i]
         /\ Append(q, e)[Len(q) + 1] = e
  OBVIOUS

\* The elements of a sequence have its type.
LEMMA Elements ==
  ASSUME NEW S, NEW q \in Seq(S)
  PROVE  \A i \in DOMAIN q : q[i] \in S
  OBVIOUS

\* A part of a sequence has the type of the sequence and the length one expects.
LEMMA SubSeqType ==
  ASSUME NEW S, NEW q \in Seq(S),
         NEW a \in 1..(Len(q) + 1), NEW b \in (a - 1)..Len(q)
  PROVE  SubSeq(q, a, b) \in Seq(S) /\ Len(SubSeq(q, a, b)) = b - a + 1
<1>1. a \in Int /\ b \in Int /\ \A i \in a..b : q[i] \in S
  OBVIOUS
<1>2. /\ SubSeq(q, a, b) \in Seq(S)
      /\ Len(SubSeq(q, a, b)) = IF a <= b THEN b - a + 1 ELSE 0
  BY <1>1, SubSeqProperties, Zenon
<1>3. ~(a <= b) => b - a + 1 = 0
  OBVIOUS
<1> QED
  BY <1>2, <1>3

\* Removing one element, as HandleResume removes a limbo slot.
LEMMA RemoveType ==
  ASSUME NEW S, NEW q \in Seq(S), NEW i \in DOMAIN q
  PROVE  LET r == SubSeq(q, 1, i - 1) \o SubSeq(q, i + 1, Len(q)) IN
         r \in Seq(S) /\ Len(r) = Len(q) - 1
<1> DEFINE a == SubSeq(q, 1, i - 1)
           b == SubSeq(q, i + 1, Len(q))
<1>0. /\ Len(q) \in Nat /\ i \in 1..Len(q)
      /\ 1 \in 1..(Len(q) + 1) /\ i - 1 \in (1 - 1)..Len(q)
      /\ i + 1 \in 1..(Len(q) + 1) /\ Len(q) \in (i + 1 - 1)..Len(q)
  OBVIOUS
<1>1. a \in Seq(S) /\ Len(a) = i - 1 - 1 + 1
  BY <1>0, SubSeqType, Zenon
<1>2. b \in Seq(S) /\ Len(b) = Len(q) - (i + 1) + 1
  <2> DEFINE k == Len(q)
             c == i + 1
  <2>1. c \in 1..(Len(q) + 1) /\ k \in (c - 1)..Len(q)
    BY <1>0
  <2> HIDE DEF k, c
  <2>2. SubSeq(q, c, k) \in Seq(S) /\ Len(SubSeq(q, c, k)) = k - c + 1
    BY <2>1, SubSeqType
  <2> QED
    BY <2>2 DEF k, c
<1> HIDE DEF a, b
<1>3. a \o b \in Seq(S) /\ Len(a \o b) = Len(a) + Len(b)
  BY <1>1, <1>2
<1>4. (i - 1 - 1 + 1) + (Len(q) - (i + 1) + 1) = Len(q) - 1
  BY <1>0
<1>5. Len(a \o b) = Len(q) - 1
  BY <1>1, <1>2, <1>3, <1>4, Zenon
<1> QED
  BY <1>3, <1>5 DEF a, b

\* sealTick pushes one tick on the history and never exceeds maxHistory.
LEMMA HistoryPush ==
  ASSUME NEW S, history \in Seq(S), NEW t \in S, Len(history) <= MaxHistory,
         history' = HistoryWith(t)
  PROVE  /\ history' \in Seq(S) /\ Len(history') <= MaxHistory
         /\ Len(history') = Len(history) + 1 - (IF Len(history) >= MaxHistory THEN 1 ELSE 0)
         /\ DOMAIN history' = 1..Len(history') /\ history'[Len(history')] = t
         /\ \A i \in 1..(Len(history') - 1) :
              history'[i] = history[i + (IF Len(history) >= MaxHistory THEN 1 ELSE 0)]
<1> DEFINE q == IF Len(history) >= MaxHistory THEN Tail(history) ELSE history
           old == Len(history)
           drop == IF old >= MaxHistory THEN 1 ELSE 0
<1>1. /\ MaxHistory \in Nat \ {0} /\ old \in Nat /\ DOMAIN history = 1..old
      /\ old <= MaxHistory
  BY RoomAssumption DEF RoomAssumption
<1>2. /\ q \in Seq(S) /\ Len(q) = old - drop /\ Len(q) \in Nat
      /\ \A i \in 1..Len(q) : q[i] = history[i + drop]
  <2>1. CASE old >= MaxHistory
    <3>1. history # <<>>
      BY <1>1, <2>1
    <3> QED
      BY <1>1, <2>1, <3>1, TailElements
  <2>2. CASE ~(old >= MaxHistory)
    BY <1>1, <2>2
  <2> QED
    BY <2>1, <2>2
<1> HIDE DEF q
<1>3. /\ Append(q, t) \in Seq(S) /\ Len(Append(q, t)) = Len(q) + 1
      /\ DOMAIN Append(q, t) = 1..(Len(q) + 1)
      /\ \A i \in 1..Len(q) : Append(q, t)[i] = q[i]
      /\ Append(q, t)[Len(q) + 1] = t
  BY <1>2, AppendElements
<1>4. history' = Append(q, t)
  BY DEF HistoryWith, q
<1> HIDE DEF old
<1>5. Len(q) + 1 <= MaxHistory
  BY <1>1, <1>2
<1> DEFINE h == history'
<1>6. /\ h \in Seq(S) /\ Len(h) = old + 1 - drop /\ Len(h) <= MaxHistory
      /\ DOMAIN h = 1..Len(h) /\ h[Len(h)] = t
  BY <1>1, <1>2, <1>3, <1>4, <1>5
<1>7. ASSUME NEW i \in 1..(Len(h) - 1) PROVE h[i] = history[i + drop]
  <2>1. i \in 1..Len(q)
    BY <1>2, <1>3, <1>4
  <2> QED
    BY <1>2, <1>3, <1>4, <2>1
<1> HIDE DEF h, drop, old
<1> QED
  BY <1>1, <1>6, <1>7 DEF h, drop, old

\* A new N is a natural number.
LEMMA RecalculateType ==
  ASSUME n \in Nat, Delay!Recalculate
  PROVE  n' \in Nat
<1>1. CASE UNCHANGED n
  BY <1>1
<1>2. ASSUME NEW m \in RTTs \cup {0}, n' = Delay!Needed(m) PROVE n' \in Nat
  <2>1. /\ m \in Nat /\ TickInterval \in Nat \ {0} /\ MinN \in Nat /\ MaxN \in Nat
    BY RoomAssumption DEF RoomAssumption
  <2>2. m \div TickInterval \in Int
    BY <2>1
  <2> QED
    BY <1>2, <2>1, <2>2 DEF Delay!Needed, Delay!Clamped
<1> QED
  BY <1>1, <1>2 DEF Delay!Recalculate

-----------------------------------------------------------------------------
(* The invariant *)

\* It holds initially.
LEMMA InvInit == Init => IInv
<1> SUFFICES ASSUME Init PROVE IInv
  OBVIOUS
<1> USE RoomAssumption DEF RoomAssumption
<1>1. TypeOK
  BY DEF Init, TypeOK, Ticks, Delay!Init
<1>2. ArrivedInv /\ BucketInv /\ CommandsExact /\ HistorySuffix
  BY DEF Init, ArrivedInv, BucketInv, CommandsExact, HistorySuffix, Ticks
<1> QED
  BY <1>1, <1>2 DEF IInv

\* A command message: its bucket gains the command, whatever its tick.
LEMMA CmdStep ==
  ASSUME IInv, NEW t \in Ticks, HandleCmd(t)
  PROVE  IInv'
<1> USE RoomAssumption DEF RoomAssumption
<1> DEFINE m == Len(arrived) + 1
<1>1. /\ arrived \in Seq([for : Ticks, at : Ticks]) /\ tick \in Ticks
      /\ [for |-> t, at |-> tick] \in [for : Ticks, at : Ticks]
  BY DEF IInv, TypeOK
<1>2. /\ arrived' \in Seq([for : Ticks, at : Ticks])
      /\ Len(arrived) \in Nat /\ DOMAIN arrived = 1..Len(arrived)
      /\ Len(arrived') = m /\ DOMAIN arrived' = 1..m
      /\ \A i \in 1..Len(arrived) : arrived'[i] = arrived[i]
      /\ arrived'[m].for = t /\ arrived'[m].at = tick
  BY <1>1, AppendElements DEF HandleCmd
<1>3. m \in 1..MaxCmds /\ tick \in Nat /\ Ticks \subseteq Nat
  BY <1>1, <1>2 DEF HandleCmd, Ticks
<1>4. /\ buckets' = [buckets EXCEPT ![t] = Append(@, m)]
      /\ UNCHANGED <<tick, log, history, slot, limbo, view, n>>
  BY <1>2 DEF HandleCmd, rosterVars, delayVars
<1>5. /\ buckets \in [Ticks -> Seq(1..MaxCmds)]
      /\ Append(buckets[t], m) \in Seq(1..MaxCmds)
      /\ Len(buckets[t]) \in Nat /\ DOMAIN buckets[t] = 1..Len(buckets[t])
      /\ buckets'[t] = Append(buckets[t], m)
      /\ DOMAIN buckets'[t] = 1..(Len(buckets[t]) + 1)
      /\ \A k \in 1..Len(buckets[t]) : buckets'[t][k] = buckets[t][k]
      /\ buckets'[t][Len(buckets[t]) + 1] = m
      /\ \A u \in Ticks : u # t => buckets'[u] = buckets[u]
      /\ buckets' \in [Ticks -> Seq(1..MaxCmds)]
  <2>1. buckets \in [Ticks -> Seq(1..MaxCmds)] /\ buckets[t] \in Seq(1..MaxCmds)
    BY DEF IInv, TypeOK
  <2>2. buckets'[t] = Append(buckets[t], m)
    BY <1>4, <2>1
  <2>3. /\ Append(buckets[t], m) \in Seq(1..MaxCmds)
        /\ Len(buckets[t]) \in Nat /\ DOMAIN buckets[t] = 1..Len(buckets[t])
        /\ DOMAIN Append(buckets[t], m) = 1..(Len(buckets[t]) + 1)
        /\ \A k \in 1..Len(buckets[t]) : Append(buckets[t], m)[k] = buckets[t][k]
        /\ Append(buckets[t], m)[Len(buckets[t]) + 1] = m
    BY <1>3, <2>1, AppendElements
  <2> QED
    BY <1>4, <2>1, <2>2, <2>3
<1> HIDE DEF m
<1>6. TypeOK'
  BY <1>2, <1>3, <1>4, <1>5 DEF IInv, TypeOK
<1>7. ArrivedInv'
  BY <1>2, <1>3, <1>4 DEF IInv, ArrivedInv, m
<1>8. CommandsExact'
  <2>1. ASSUME NEW u \in DOMAIN log
        PROVE  /\ \A i \in DOMAIN arrived' :
                    (\E k \in DOMAIN log[u].cmds : log[u].cmds[k] = i)
                      <=> arrived'[i].for = u /\ arrived'[i].at < u
               /\ \A j, k \in DOMAIN log[u].cmds : j < k => log[u].cmds[j] < log[u].cmds[k]
    <3>1. ASSUME NEW i \in DOMAIN arrived
          PROVE  (\E k \in DOMAIN log[u].cmds : log[u].cmds[k] = i)
                   <=> arrived'[i].for = u /\ arrived'[i].at < u
      BY <1>2, <3>1 DEF IInv, CommandsExact
    <3>2. ~\E k \in DOMAIN log[u].cmds : log[u].cmds[k] = m
      BY <1>2 DEF IInv, ArrivedInv, m
    <3>3. ~(arrived'[m].at < u)
      BY <1>2, <1>3 DEF IInv, TypeOK
    <3>4. \A i \in DOMAIN arrived' : i \in DOMAIN arrived \/ i = m
      BY <1>2 DEF m
    <3> QED
      BY <3>1, <3>2, <3>3, <3>4 DEF IInv, CommandsExact
  <2> QED
    BY <1>4, <2>1 DEF CommandsExact
<1>9. BucketInv'
  <2>1. ASSUME NEW u \in Ticks, NEW i \in DOMAIN arrived
        PROVE  (\E k \in DOMAIN buckets[u] : buckets[u][k] = i)
                 <=> arrived'[i].for = u /\ (u > tick \/ arrived'[i].at >= u)
    BY <1>2 DEF IInv, BucketInv
  <2>2. ASSUME NEW u \in Ticks
        PROVE  ~\E k \in DOMAIN buckets[u] : buckets[u][k] = m
    BY <1>2 DEF IInv, BucketInv, m
  <2>3. \A i \in DOMAIN arrived' : i \in DOMAIN arrived \/ i = m
    BY <1>2 DEF m
  <2>4. \A i \in DOMAIN arrived : i \in DOMAIN arrived' /\ i < m /\ i # m
    BY <1>2 DEF m
  <2>5. t > tick \/ tick >= t
    BY <1>3
  <2>6. ASSUME NEW u \in Ticks, u # t
        PROVE  /\ \A i \in DOMAIN arrived' :
                    (\E k \in DOMAIN buckets[u] : buckets[u][k] = i)
                      <=> arrived'[i].for = u /\ (u > tick \/ arrived'[i].at >= u)
               /\ \A j, k \in DOMAIN buckets[u] : j < k => buckets[u][j] < buckets[u][k]
               /\ \A k \in DOMAIN buckets[u] : buckets[u][k] \in DOMAIN arrived'
    BY <1>2, <2>1, <2>2, <2>3, <2>4, <2>6 DEF IInv, BucketInv
  <2>7. /\ \A i \in DOMAIN arrived' :
             (\E k \in DOMAIN buckets'[t] : buckets'[t][k] = i)
               <=> arrived'[i].for = t /\ (t > tick \/ arrived'[i].at >= t)
        /\ \A j, k \in DOMAIN buckets'[t] : j < k => buckets'[t][j] < buckets'[t][k]
        /\ \A k \in DOMAIN buckets'[t] : buckets'[t][k] \in DOMAIN arrived'
    <3> DEFINE b == buckets[t]
               L == Len(buckets[t])
               c == buckets'[t]
    <3>1. /\ L \in Nat /\ DOMAIN b = 1..L /\ DOMAIN c = 1..(L + 1)
          /\ \A k \in 1..L : c[k] = b[k]
          /\ c[L + 1] = m
      BY <1>5
    <3>2. /\ \A j, k \in DOMAIN b : j < k => b[j] < b[k]
          /\ \A k \in DOMAIN b : b[k] \in DOMAIN arrived
      BY DEF IInv, BucketInv
    <3>3. \A k \in DOMAIN c : k \in 1..L \/ k = L + 1
      BY <3>1
    <3>4. \A k \in 1..L : k \in DOMAIN c /\ k < L + 1 /\ ~(L + 1 < k) /\ ~(L + 1 < L + 1)
      BY <3>1
    <3>5. L + 1 \in DOMAIN c /\ m \in DOMAIN arrived'
      BY <1>2, <3>1 DEF m
    <3> HIDE DEF b, c, L
    <3>6. ASSUME NEW i \in DOMAIN arrived'
          PROVE  (\E k \in DOMAIN c : c[k] = i)
                   <=> arrived'[i].for = t /\ (t > tick \/ arrived'[i].at >= t)
      <4>1. CASE i = m
        BY <1>2, <2>5, <3>1, <3>5, <4>1
      <4>2. CASE i \in DOMAIN arrived
        <5>1. (\E k \in DOMAIN c : c[k] = i) <=> (\E k \in DOMAIN b : b[k] = i)
          BY <2>4, <3>1, <3>3, <3>4, <4>2
        <5> QED
          BY <2>1, <4>2, <5>1 DEF b
      <4> QED
        BY <2>3, <4>1, <4>2
    <3>7. ASSUME NEW j \in DOMAIN c, NEW k \in DOMAIN c, j < k PROVE c[j] < c[k]
      BY <2>4, <3>1, <3>2, <3>3, <3>4, <3>7
    <3>8. \A k \in DOMAIN c : c[k] \in DOMAIN arrived'
      BY <2>4, <3>1, <3>2, <3>3, <3>5
    <3> QED
      BY <3>6, <3>7, <3>8 DEF c
  <2> QED
    BY <1>4, <1>5, <2>6, <2>7 DEF BucketInv
<1>10. HistorySuffix'
  BY <1>4 DEF IInv, HistorySuffix
<1> QED
  BY <1>6, <1>7, <1>8, <1>9, <1>10 DEF IInv

\* Sealing a tick: its bucket becomes the frame and is emptied.
LEMMA SealStep ==
  ASSUME IInv, SealTick
  PROVE  IInv'
<1> USE RoomAssumption DEF RoomAssumption
<1>0. \A i \in DOMAIN arrived : arrived[i].at \in Nat /\ arrived[i].at <= tick
  <2>0. arrived \in Seq([for : Ticks, at : Ticks])
    BY DEF IInv, TypeOK
  <2>1. \A i \in DOMAIN arrived : arrived[i] \in [for : Ticks, at : Ticks]
    BY <2>0, Elements
  <2>2. \A i \in DOMAIN arrived : arrived[i].at \in Ticks
    BY <2>1
  <2>3. Ticks \subseteq Nat
    BY DEF Ticks
  <2>4. \A i \in DOMAIN arrived : arrived[i].at \in Nat
    BY <2>2, <2>3
  <2>5. \A i \in DOMAIN arrived : arrived[i].at <= tick
    BY DEF IInv, ArrivedInv
  <2> QED
    BY <2>4, <2>5
<1>1. /\ tick' = tick + 1 /\ tick \in Nat /\ tick' \in Ticks /\ tick' \in 1..MaxTick
      /\ UNCHANGED <<arrived, slot>>
      /\ buckets \in [Ticks -> Seq(1..MaxCmds)]
      /\ buckets' = [buckets EXCEPT ![tick'] = <<>>]
  BY DEF IInv, TypeOK, Ticks, SealTick, BucketsAfterSeal
<1> DEFINE f == [cmds |-> buckets[tick'], n |-> n]
<1>2. /\ log' \in Seq([cmds : Seq(1..MaxCmds), n : Nat])
      /\ DOMAIN log = 1..tick /\ DOMAIN log' = 1..tick' /\ Len(log') = tick'
      /\ \A t \in 1..tick : log'[t] = log[t]
      /\ log'[tick'].cmds = buckets[tick']
  <2>1. /\ log \in Seq([cmds : Seq(1..MaxCmds), n : Nat]) /\ Len(log) = tick
        /\ f \in [cmds : Seq(1..MaxCmds), n : Nat]
        /\ f.cmds = buckets[tick']
    BY <1>1 DEF IInv, TypeOK
  <2>2. log' = Append(log, f)
    BY DEF SealTick, BucketsAfterSeal, Sealed
  <2> HIDE DEF f
  <2> QED
    BY <1>1, <2>1, <2>2, AppendElements
<1>3. /\ history' \in Seq(1..MaxTick) /\ Len(history') <= MaxHistory
      /\ HistorySuffix'
  <2> DEFINE old == Len(history)
             drop == IF old >= MaxHistory THEN 1 ELSE 0
  <2>1. history \in Seq(1..MaxTick) /\ Len(history) <= MaxHistory
    BY DEF IInv, TypeOK
  <2>2. /\ old \in Nat /\ DOMAIN history = 1..old
        /\ old = IF tick < MaxHistory THEN tick ELSE MaxHistory
        /\ \A i \in 1..old : history[i] = tick - old + i
    <3>1. HistorySuffix
      BY DEF IInv
    <3>2. old \in Nat /\ DOMAIN history = 1..old
      BY <2>1
    <3> QED
      BY <3>1, <3>2 DEF HistorySuffix
  <2>3. /\ history' \in Seq(1..MaxTick)
        /\ Len(history') = old + 1 - drop /\ Len(history') <= MaxHistory
        /\ DOMAIN history' = 1..Len(history')
        /\ history'[Len(history')] = tick'
        /\ \A i \in 1..(Len(history') - 1) : history'[i] = history[i + drop]
    <3>1. history' = HistoryWith(tick') /\ tick' \in 1..MaxTick
      BY <1>1 DEF SealTick, BucketsAfterSeal
    <3> QED
      BY <2>1, <3>1, HistoryPush
  <2> HIDE DEF old
  <2>4. Len(history') = IF tick' < MaxHistory THEN tick' ELSE MaxHistory
    BY <1>1, <2>2, <2>3
  <2>5. ASSUME NEW i \in 1..(Len(history') - 1)
        PROVE  history'[i] = tick' - Len(history') + i
    <3>1. i + drop \in 1..old /\ history'[i] = history[i + drop]
      BY <2>2, <2>3
    <3>2. history[i + drop] = tick - old + (i + drop)
      BY <2>2, <3>1
    <3>3. /\ Len(history') = old + 1 - drop /\ tick' = tick + 1
          /\ tick \in Int /\ old \in Int /\ drop \in Int /\ i \in Int
      BY <1>1, <2>2, <2>3
    <3> HIDE DEF drop
    <3> QED
      BY <3>1, <3>2, <3>3
  <2>6. \A i \in DOMAIN history' :
          i \in 1..(Len(history') - 1) \/ i = Len(history')
    BY <2>2, <2>3
  <2>7. history'[Len(history')] = tick' - Len(history') + Len(history')
    BY <1>1, <2>2, <2>3
  <2> QED
    BY <2>3, <2>4, <2>5, <2>6, <2>7 DEF HistorySuffix
<1>4. limbo' \in Seq(Players) /\ Len(limbo') <= MaxLimbo /\ n' \in Nat
  <2>1. limbo \in Seq(Players) /\ Len(limbo) <= MaxLimbo /\ n \in Nat
    BY DEF IInv, TypeOK
  <2>2. CASE Periodic
    <3>1. PICK k \in 0..Len(limbo) : limbo' = SubSeq(limbo, k + 1, Len(limbo))
      BY <2>2 DEF Periodic, CleanupLimbo
    <3> DEFINE a == k + 1
               b == Len(limbo)
    <3>2. a \in 1..(Len(limbo) + 1) /\ b \in (a - 1)..Len(limbo) /\ b - a + 1 <= MaxLimbo
      BY <2>1, <3>1
    <3> HIDE DEF a, b
    <3>3. SubSeq(limbo, a, b) \in Seq(Players) /\ Len(SubSeq(limbo, a, b)) = b - a + 1
      BY <2>1, <3>2, SubSeqType
    <3>4. limbo' = SubSeq(limbo, a, b)
      BY <3>1 DEF a, b
    <3>5. n' \in Nat
      BY <2>1, <2>2, RecalculateType DEF Periodic
    <3> QED
      BY <3>2, <3>3, <3>4, <3>5
  <2>3. CASE UNCHANGED <<limbo, delayVars>>
    BY <2>1, <2>3 DEF delayVars
  <2> QED
    BY <2>2, <2>3 DEF SealTick, BucketsAfterSeal
<1>5. view' \in [Players -> Ticks]
  BY <1>1 DEF IInv, TypeOK, SealTick, BucketsAfterSeal
<1>6. buckets' \in [Ticks -> Seq(1..MaxCmds)]
  <2>1. <<>> \in Seq(1..MaxCmds)
    OBVIOUS
  <2> QED
    BY <1>1, <2>1
<1>7. TypeOK'
  BY <1>1, <1>2, <1>3, <1>4, <1>5, <1>6 DEF IInv, TypeOK
<1>8. ArrivedInv'
  <2>1. \A k \in DOMAIN buckets[tick'] : buckets[tick'][k] \in DOMAIN arrived
    BY <1>1 DEF IInv, BucketInv
  <2>2. \A i \in DOMAIN arrived' : arrived'[i].at <= tick'
    BY <1>0, <1>1
  <2>3. \A t \in DOMAIN log' : (t \in DOMAIN log /\ log'[t] = log[t]) \/ t = tick'
    BY <1>1, <1>2
  <2>4. ASSUME NEW t \in DOMAIN log', NEW k \in DOMAIN log'[t].cmds
        PROVE  log'[t].cmds[k] \in DOMAIN arrived
    <3>1. CASE t = tick'
      BY <1>2, <2>1, <2>4, <3>1
    <3>2. CASE t \in DOMAIN log /\ log'[t] = log[t]
      BY <2>4, <3>2 DEF IInv, ArrivedInv
    <3> QED
      BY <2>3, <3>1, <3>2
  <2> QED
    BY <1>1, <2>2, <2>4 DEF ArrivedInv
<1>9. CommandsExact'
  <2>1. ASSUME NEW i \in DOMAIN arrived
        PROVE  (\E k \in DOMAIN buckets[tick'] : buckets[tick'][k] = i)
                 <=> arrived[i].for = tick' /\ arrived[i].at < tick'
    <3>1. tick' > tick /\ arrived[i].at < tick'
      BY <1>0, <1>1
    <3> QED
      BY <1>1, <3>1 DEF IInv, BucketInv
  <2>2. \A j, k \in DOMAIN buckets[tick'] : j < k => buckets[tick'][j] < buckets[tick'][k]
    BY <1>1 DEF IInv, BucketInv
  <2>3. \A t \in DOMAIN log' : (t \in DOMAIN log /\ log'[t] = log[t]) \/ t = tick'
    BY <1>1, <1>2
  <2>4. CommandsExact
    BY DEF IInv
  <2>5. ASSUME NEW t \in DOMAIN log'
        PROVE  /\ \A i \in DOMAIN arrived :
                    (\E k \in DOMAIN log'[t].cmds : log'[t].cmds[k] = i)
                      <=> arrived[i].for = t /\ arrived[i].at < t
               /\ \A j, k \in DOMAIN log'[t].cmds :
                    j < k => log'[t].cmds[j] < log'[t].cmds[k]
    <3>1. CASE t = tick'
      BY <1>2, <2>1, <2>2, <3>1
    <3>2. CASE t \in DOMAIN log /\ log'[t] = log[t]
      BY <2>4, <3>2 DEF CommandsExact
    <3> QED
      BY <2>3, <3>1, <3>2
  <2> QED
    BY <1>1, <2>5 DEF CommandsExact
<1>10. BucketInv'
  <2>1. buckets'[tick'] = <<>> /\ \A t \in Ticks : t # tick' => buckets'[t] = buckets[t]
    BY <1>1
  <2>2. ASSUME NEW i \in DOMAIN arrived
        PROVE  ~(tick' > tick' \/ arrived[i].at >= tick')
    BY <1>0, <1>1
  <2>3. ASSUME NEW t \in Ticks, t # tick' PROVE t > tick <=> t > tick'
    BY <1>1, <2>3 DEF Ticks
  <2>4. ASSUME NEW t \in Ticks
        PROVE  /\ \A i \in DOMAIN arrived :
                    (\E k \in DOMAIN buckets'[t] : buckets'[t][k] = i)
                      <=> arrived[i].for = t /\ (t > tick' \/ arrived[i].at >= t)
               /\ \A j, k \in DOMAIN buckets'[t] :
                    j < k => buckets'[t][j] < buckets'[t][k]
               /\ \A k \in DOMAIN buckets'[t] : buckets'[t][k] \in DOMAIN arrived
    <3>1. CASE t = tick'
      <4>1. DOMAIN buckets'[t] = {}
        BY <2>1, <3>1
      <4> QED
        BY <2>2, <3>1, <4>1
    <3>2. CASE t # tick'
      BY <2>1, <2>3, <3>2 DEF IInv, BucketInv
    <3> QED
      BY <3>1, <3>2
  <2> QED
    BY <1>1, <2>4 DEF BucketInv
<1> QED
  BY <1>3, <1>7, <1>8, <1>9, <1>10 DEF IInv

\* The other steps leave commands, frames and history alone.
LEMMA OtherStep ==
  ASSUME IInv, [Next]_vars, ~SealTick, \A t \in Ticks : ~HandleCmd(t)
  PROVE  IInv'
<1> USE RoomAssumption DEF RoomAssumption
<1>1. CASE \/ \E p \in Players, t \in Ticks, h \in Hashes : HandleHashAck(p, t, h)
           \/ \E p \in Players, s \in Delay!Triple : HandleRTTReport(p, s)
           \/ UNCHANGED vars
  <2>1. UNCHANGED <<tick, arrived, buckets, log, history, slot, limbo, view, n>>
    BY <1>1 DEF HandleHashAck, HandleRTTReport, Delay!ReportRTT, vars,
                inputVars, rosterVars, delayVars
  <2> QED
    BY <2>1 DEF IInv, TypeOK, ArrivedInv, BucketInv, CommandsExact, HistorySuffix
<1>2. ASSUME UNCHANGED <<tick, inputVars, log, history, n>>,
             slot' \in [Players -> {"free", "joined", "gone"}],
             limbo' \in Seq(Players), Len(limbo') <= MaxLimbo,
             view' \in [Players -> Ticks]
      PROVE  IInv'
  BY <1>2 DEF IInv, TypeOK, ArrivedInv, BucketInv, CommandsExact, HistorySuffix, inputVars
<1>3. /\ tick \in Ticks /\ slot \in [Players -> {"free", "joined", "gone"}]
      /\ limbo \in Seq(Players) /\ Len(limbo) <= MaxLimbo /\ Len(limbo) \in Nat
      /\ view \in [Players -> Ticks]
  BY DEF IInv, TypeOK
<1>4. ASSUME NEW p \in Players, AddPlayer(p) PROVE IInv'
  BY <1>2, <1>3, <1>4 DEF AddPlayer, delayVars
<1>5. ASSUME NEW p \in Players, HandleDisconnect(p) PROVE IInv'
  <2>1. limbo' \in Seq(Players) /\ Len(limbo') <= MaxLimbo
    BY <1>3, <1>5, AppendElements DEF HandleDisconnect
  <2> QED
    BY <1>2, <1>3, <1>5, <2>1 DEF HandleDisconnect, delayVars
<1>6. ASSUME NEW p \in Players, NEW last \in Executable(p), HandleResume(p, last)
      PROVE  IInv'
  <2>1. limbo' \in Seq(Players) /\ Len(limbo') <= MaxLimbo
    <3>1. PICK i \in DOMAIN limbo :
            limbo' = SubSeq(limbo, 1, i - 1) \o SubSeq(limbo, i + 1, Len(limbo))
      BY <1>6 DEF HandleResume
    <3>2. limbo' \in Seq(Players) /\ Len(limbo') = Len(limbo) - 1
      BY <1>3, <3>1, RemoveType, Zenon
    <3> QED
      BY <1>3, <3>2
  <2>2. ViewAfterResume(last) \in Ticks
    BY <1>3 DEF ViewAfterResume, Executable
  <2> QED
    BY <1>2, <1>3, <1>6, <2>1, <2>2 DEF HandleResume, delayVars
<1> QED
  BY <1>1, <1>4, <1>5, <1>6 DEF Next

-----------------------------------------------------------------------------
(* The theorems *)

\* Every step preserves the invariant.
LEMMA InvStep == IInv /\ [Next]_vars => IInv'
  BY CmdStep, SealStep, OtherStep

\* Together: the invariant holds in every reachable state.
LEMMA Invariance == Spec => []IInv
  BY InvInit, InvStep, PTL DEF Spec

\* The variables keep their types, and no queue exceeds its capacity.
THEOREM TypeCorrect == Spec => []TypeOK
<1>1. IInv => TypeOK
  BY DEF IInv
<1> QED
  BY Invariance, <1>1, PTL

\* A command is in the frame of its tick, once and in order of arrival, when
\* it arrived before that tick was sealed, and in no frame otherwise.
THEOREM CommandsCorrect == Spec => []CommandsExact
<1>1. IInv => CommandsExact
  BY DEF IInv
<1> QED
  BY Invariance, <1>1, PTL

\* The frames kept for reconnection are the last MaxHistory, without a gap.
THEOREM HistoryCorrect == Spec => []HistorySuffix
<1>1. IInv => HistorySuffix
  BY DEF IInv
<1> QED
  BY Invariance, <1>1, PTL

\* What HandleResume sends brings the player up to the current tick: the
\* history reaches back far enough for every incremental answer.
LEMMA ResumeComplete ==
  ASSUME IInv, MaxIncremental <= MaxHistory, NEW last \in Ticks
  PROVE  ViewAfterResume(last) = tick
<1> DEFINE behind == IF last <= tick THEN tick - last ELSE tick - last + Wrap
           L == Len(history)
<1>1. /\ tick \in Nat /\ last \in Nat /\ tick <= MaxTick /\ last <= MaxTick
      /\ MaxIncremental \in Nat /\ MaxHistory \in Nat /\ MaxTick \in Nat
      /\ Wrap \in Nat /\ MaxTick + MaxIncremental < Wrap
  BY RoomAssumption DEF RoomAssumption, IInv, TypeOK, Ticks
<1>2. /\ L \in Nat /\ DOMAIN history = 1..L
      /\ L = IF tick < MaxHistory THEN tick ELSE MaxHistory
      /\ \A i \in 1..L : history[i] = tick - L + i
  <2>1. history \in Seq(1..MaxTick) /\ HistorySuffix
    BY DEF IInv, TypeOK
  <2>2. L \in Nat /\ DOMAIN history = 1..L
    BY <2>1
  <2> QED
    BY <2>1, <2>2 DEF HistorySuffix
<1> HIDE DEF L
<1>3. ASSUME behind <= MaxIncremental
      PROVE  {history[i] : i \in FramesAfter(last)} = (last + 1)..tick
  <2>1. last <= tick /\ tick - last <= MaxIncremental
    BY <1>1, <1>3
  <2>2. ASSUME NEW t \in (last + 1)..tick
        PROVE  \E i \in FramesAfter(last) : history[i] = t
    <3>1. t - tick + L \in 1..L
      BY <1>1, <1>2, <2>1
    <3>2. history[t - tick + L] = t
      BY <1>1, <1>2, <3>1
    <3>3. t > last
      BY <1>1
    <3>4. t - tick + L \in FramesAfter(last)
      BY <1>2, <3>1, <3>2, <3>3 DEF FramesAfter
    <3> QED
      BY <3>2, <3>4
  <2>3. ASSUME NEW i \in FramesAfter(last) PROVE history[i] \in (last + 1)..tick
    BY <1>1, <1>2 DEF FramesAfter
  <2> QED
    BY <2>2, <2>3
<1>4. CASE behind > MaxIncremental
  BY <1>4 DEF ViewAfterResume
<1>5. CASE behind <= MaxIncremental
  BY <1>3, <1>5 DEF ViewAfterResume
<1> QED
  BY <1>1, <1>4, <1>5

\* A connected player has been given every frame, provided the history is no
\* shorter than the longest incremental answer (200 and 100 in the code).
THEOREM CaughtUpCorrect ==
  ASSUME MaxIncremental <= MaxHistory
  PROVE  Spec => []CaughtUp
<1>1. Init => CaughtUp
  BY DEF Init, CaughtUp
<1>2. IInv /\ CaughtUp /\ [Next]_vars => CaughtUp'
  <2> SUFFICES ASSUME IInv, CaughtUp, [Next]_vars PROVE CaughtUp'
    OBVIOUS
  <2>1. /\ view \in [Players -> Ticks]
        /\ slot \in [Players -> {"free", "joined", "gone"}]
    BY DEF IInv, TypeOK
  <2>2. CASE SealTick
    BY <2>1, <2>2 DEF SealTick, BucketsAfterSeal, CaughtUp
  <2>3. ASSUME NEW p \in Players, AddPlayer(p) PROVE CaughtUp'
    BY <2>1, <2>3 DEF AddPlayer, CaughtUp
  <2>4. ASSUME NEW p \in Players, HandleDisconnect(p) PROVE CaughtUp'
    BY <2>1, <2>4 DEF HandleDisconnect, CaughtUp
  <2>5. ASSUME NEW p \in Players, NEW last \in Executable(p), HandleResume(p, last)
        PROVE  CaughtUp'
    <3>1. ViewAfterResume(last) = tick
      BY ResumeComplete DEF Executable
    <3> QED
      BY <2>1, <2>5, <3>1 DEF HandleResume, CaughtUp
  <2>6. CASE \/ \E t \in Ticks : HandleCmd(t)
             \/ \E p \in Players, t \in Ticks, h \in Hashes : HandleHashAck(p, t, h)
             \/ \E p \in Players, s \in Delay!Triple : HandleRTTReport(p, s)
             \/ UNCHANGED vars
    BY <2>6 DEF HandleCmd, HandleHashAck, HandleRTTReport, vars, rosterVars, CaughtUp
  <2> QED
    BY <2>2, <2>3, <2>4, <2>5, <2>6 DEF Next
<1> QED
  BY Invariance, <1>1, <1>2, PTL DEF Spec

\* A bucket holds the commands of a tick to come, or the late ones of a sealed
\* tick, in order of arrival (InputBuf.Add, InputBuf.Seal).
THEOREM BucketsCorrect == Spec => []BucketInv
<1>1. IInv => BucketInv
  BY DEF IInv
<1> QED
  BY <1>1, Invariance, PTL

-----------------------------------------------------------------------------
(* The input delay inside the room *)

\* One compare-exchange puts two values in order and leaves the third.
LEMMA ExchangeFacts ==
  ASSUME NEW s \in [1..3 -> RTTs], NEW i \in 1..3, NEW j \in 1..3, i < j
  PROVE  LET e == Delay!Exchange(s, i, j) IN
         /\ e \in [1..3 -> RTTs]
         /\ e[i] = (IF s[i] > s[j] THEN s[j] ELSE s[i])
         /\ e[j] = (IF s[i] > s[j] THEN s[i] ELSE s[j])
         /\ \A k \in 1..3 : k # i /\ k # j => e[k] = s[k]
  BY DEF Delay!Exchange

\* The middle value after the three exchanges is one of the three and the median.
LEMMA MedianFacts ==
  ASSUME NEW s \in [1..3 -> RTTs]
  PROVE  Delay!Median(s) \in RTTs /\ Delay!IsMedian(Delay!Median(s), s)
<1> DEFINE a == Delay!Exchange(s, 1, 2)
           b == Delay!Exchange(a, 2, 3)
           c == Delay!Exchange(b, 1, 2)
<1>0. /\ 1 \in 1..3 /\ 2 \in 1..3 /\ 3 \in 1..3
      /\ s[1] \in Nat /\ s[2] \in Nat /\ s[3] \in Nat
  <2>1. RTTs \subseteq Nat
    BY RoomAssumption DEF RoomAssumption
  <2>2. 1 \in 1..3 /\ 2 \in 1..3 /\ 3 \in 1..3
    OBVIOUS
  <2>3. s[1] \in RTTs /\ s[2] \in RTTs /\ s[3] \in RTTs
    BY <2>2
  <2> QED
    BY <2>1, <2>2, <2>3
<1>1. /\ a \in [1..3 -> RTTs] /\ a[3] = s[3]
      /\ a[2] = (IF s[1] > s[2] THEN s[1] ELSE s[2])
      /\ a[1] = (IF s[1] > s[2] THEN s[2] ELSE s[1])
  BY <1>0, ExchangeFacts
<1> HIDE DEF a
<1>2. /\ b \in [1..3 -> RTTs] /\ b[1] = a[1]
      /\ b[2] = (IF a[2] > a[3] THEN a[3] ELSE a[2])
  BY <1>0, <1>1, ExchangeFacts
<1> HIDE DEF b
<1>3. /\ c \in [1..3 -> RTTs]
      /\ c[2] = (IF b[1] > b[2] THEN b[1] ELSE b[2])
  BY <1>0, <1>2, ExchangeFacts
<1>4. Delay!Median(s) = c[2]
  BY DEF Delay!Median, a, b, c
<1> HIDE DEF c
<1>5. c[2] \in RTTs
  BY <1>0, <1>3
<1>6. \/ s[1] <= c[2] /\ s[2] = c[2] /\ c[2] <= s[3]
      \/ s[1] <= c[2] /\ s[3] = c[2] /\ c[2] <= s[2]
      \/ s[2] <= c[2] /\ s[1] = c[2] /\ c[2] <= s[3]
      \/ s[2] <= c[2] /\ s[3] = c[2] /\ c[2] <= s[1]
      \/ s[3] <= c[2] /\ s[1] = c[2] /\ c[2] <= s[2]
      \/ s[3] <= c[2] /\ s[2] = c[2] /\ c[2] <= s[1]
  BY <1>0, <1>1, <1>2, <1>3
<1>7. /\ {1, 2, 3} = 1..3 /\ {1, 3, 2} = 1..3 /\ {2, 1, 3} = 1..3
      /\ {2, 3, 1} = 1..3 /\ {3, 1, 2} = 1..3 /\ {3, 2, 1} = 1..3
  OBVIOUS
<1>8. Delay!IsMedian(c[2], s)
  BY <1>0, <1>6, <1>7 DEF Delay!IsMedian
<1> QED
  BY <1>4, <1>5, <1>8

DelayInv == DelayTypeOK /\ SampleIsMedian

LEMMA DelayInit == Init => DelayInv
<1> SUFFICES ASSUME Init PROVE DelayInv
  OBVIOUS
<1>1. Delay!Init
  BY DEF Init
<1>2. DelayTypeOK
  BY <1>1 DEF Delay!Init, DelayTypeOK, Delay!TypeOK
<1>3. ASSUME NEW p \in Players PROVE Delay!IsMedian(samples[p], reports[p])
  <2>1. \A i \in 1..3 : reports[p][i] = samples[p] /\ samples[p] \in Int
    BY <1>1, <1>3 DEF Delay!Init, Delay!NoSample
  <2>2. {1, 2, 3} = 1..3 /\ 1 \in 1..3 /\ 2 \in 1..3 /\ 3 \in 1..3
    OBVIOUS
  <2> QED
    BY <2>1, <2>2 DEF Delay!IsMedian
<1> QED
  BY <1>2, <1>3 DEF DelayInv, SampleIsMedian, Delay!SampleIsMedian

LEMMA DelayStep == DelayInv /\ [Next]_vars => DelayInv'
<1> SUFFICES ASSUME DelayInv, [Next]_vars PROVE DelayInv'
  OBVIOUS
<1>1. CASE UNCHANGED <<samples, reports>> /\ n' \in {InitialN} \cup MinN..MaxN
  BY <1>1 DEF DelayInv, DelayTypeOK, SampleIsMedian, Delay!TypeOK, Delay!SampleIsMedian
<1>2. n \in {InitialN} \cup MinN..MaxN
  BY DEF DelayInv, DelayTypeOK, Delay!TypeOK
<1>3. CASE UNCHANGED delayVars
  BY <1>1, <1>2, <1>3 DEF delayVars
<1>4. ASSUME Delay!Recalculate PROVE UNCHANGED <<samples, reports>> /\ n' \in {InitialN} \cup MinN..MaxN
  <2>1. UNCHANGED <<samples, reports>>
    BY <1>4 DEF Delay!Recalculate
  <2>2. ASSUME NEW m \in RTTs \cup {0} PROVE Delay!Needed(m) \in MinN..MaxN
    <3>1. m \in Nat /\ TickInterval \in Nat \ {0} /\ MinN \in Nat /\ MaxN \in Nat /\ MinN <= MaxN
      BY RoomAssumption DEF RoomAssumption
    <3>2. m \div TickInterval \in Int
      BY <3>1
    <3> QED
      BY <3>1, <3>2 DEF Delay!Needed, Delay!Clamped
  <2> QED
    BY <1>2, <1>4, <2>1, <2>2 DEF Delay!Recalculate
<1>5. CASE SealTick
  BY <1>1, <1>3, <1>4, <1>5 DEF SealTick, BucketsAfterSeal, Periodic
<1>6. ASSUME NEW p \in Players, NEW s \in Delay!Triple, HandleRTTReport(p, s) PROVE DelayInv'
  <2>0. s \in [1..3 -> RTTs]
    BY DEF Delay!Triple
  <2>1. /\ samples' = [samples EXCEPT ![p] = Delay!Median(s)]
        /\ reports' = [reports EXCEPT ![p] = s] /\ n' = n
    BY <1>6 DEF HandleRTTReport, Delay!ReportRTT
  <2>2. DelayTypeOK'
    BY <1>2, <2>0, <2>1, MedianFacts DEF DelayInv, DelayTypeOK, Delay!TypeOK
  <2>3. ASSUME NEW q \in Players PROVE Delay!IsMedian(samples'[q], reports'[q])
    <3>1. CASE q = p
      <4>1. reports'[q] = s /\ samples'[q] = Delay!Median(s)
        BY <2>1, <3>1 DEF DelayInv, DelayTypeOK, Delay!TypeOK
      <4>2. Delay!IsMedian(Delay!Median(s), s)
        BY <2>0, MedianFacts
      <4> QED
        BY <4>1, <4>2, Zenon
    <3>2. CASE q # p
      <4>1. reports'[q] = reports[q] /\ samples'[q] = samples[q]
        BY <2>1, <3>2 DEF DelayInv, DelayTypeOK, Delay!TypeOK
      <4>2. Delay!IsMedian(samples[q], reports[q])
        BY DEF DelayInv, SampleIsMedian, Delay!SampleIsMedian
      <4> QED
        BY <4>1, <4>2, Zenon
    <3> QED
      BY <3>1, <3>2
  <2> QED
    BY <2>2, <2>3 DEF DelayInv, SampleIsMedian, Delay!SampleIsMedian, Delay!IsMedian
<1>7. ASSUME \/ UNCHANGED vars
             \/ \E t \in Ticks : HandleCmd(t)
             \/ \E p \in Players, t \in Ticks, h \in Hashes : HandleHashAck(p, t, h)
             \/ \E p \in Players : AddPlayer(p)
             \/ \E p \in Players : HandleDisconnect(p)
             \/ \E p \in Players : \E last \in Executable(p) : HandleResume(p, last)
      PROVE  UNCHANGED delayVars
  BY <1>7 DEF vars, HandleCmd, HandleHashAck, AddPlayer, HandleDisconnect, HandleResume
<1> QED
  BY <1>3, <1>5, <1>6, <1>7 DEF Next

\* The input delay keeps its type inside the room: N is its initial value or
\* within MinN and MaxN (adaptive.go:53-58), whatever the players report.
THEOREM DelayTypeCorrect == Spec => []DelayTypeOK
<1>1. DelayInv => DelayTypeOK
  BY DEF DelayInv
<1> QED
  BY <1>1, DelayInit, DelayStep, PTL DEF Spec

\* The sample that handleMsg keeps of a report is its median (room.go:191-202).
THEOREM MedianCorrect == Spec => []SampleIsMedian
<1>1. DelayInv => SampleIsMedian
  BY DEF DelayInv
<1> QED
  BY <1>1, DelayInit, DelayStep, PTL DEF Spec

\* What rounding down leaves, and that a product grows with its factor.
LEMMA DivFacts ==
  ASSUME NEW m \in Nat, NEW d \in Nat \ {0}
  PROVE  /\ m \div d \in Nat
         /\ (m \div d) * d <= m /\ m < (m \div d) * d + d
OBVIOUS

LEMMA TimesMono ==
  ASSUME NEW a \in Int, NEW b \in Int, NEW d \in Nat, a <= b
  PROVE  a * d <= b * d
OBVIOUS

\* A new N covers the round trip it is computed from, and is the least that does.
LEMMA NeededFits ==
  ASSUME NEW m \in Nat
  PROVE  LET x == Delay!Needed(m) IN
         /\ x = MaxN \/ x * TickInterval > m + TickInterval
         /\ x = MinN \/ (x - 2) * TickInterval <= m
<1> DEFINE q == m \div TickInterval
           x == Delay!Needed(m)
<1>1. /\ TickInterval \in Nat \ {0} /\ MinN \in Nat /\ MaxN \in Nat /\ MinN <= MaxN
  BY RoomAssumption DEF RoomAssumption
<1>2. /\ q \in Nat /\ q * TickInterval <= m /\ m < q * TickInterval + TickInterval
  BY <1>1, DivFacts
<1>3. x = IF q + 2 < MinN THEN MinN ELSE IF q + 2 > MaxN THEN MaxN ELSE q + 2
  BY DEF Delay!Needed, Delay!Clamped
<1> HIDE DEF q, x
<1>4. x \in Nat /\ (x = MaxN \/ q + 2 <= x) /\ (x = MinN \/ x - 2 <= q)
  BY <1>1, <1>2, <1>3
<1>5. ASSUME q + 2 <= x PROVE x * TickInterval > m + TickInterval
  <2>1. (q + 2) * TickInterval <= x * TickInterval
    BY <1>1, <1>2, <1>4, <1>5, TimesMono
  <2>2. (q + 2) * TickInterval = q * TickInterval + TickInterval + TickInterval
    BY <1>1, <1>2
  <2>3. q * TickInterval \in Nat /\ x * TickInterval \in Nat
    BY <1>1, <1>2, <1>4
  <2> QED
    BY <1>1, <1>2, <2>1, <2>2, <2>3
<1>6. ASSUME x - 2 <= q PROVE (x - 2) * TickInterval <= m
  <2>1. (x - 2) * TickInterval <= q * TickInterval
    BY <1>1, <1>2, <1>4, <1>6, TimesMono
  <2>2. q * TickInterval \in Nat /\ (x - 2) * TickInterval \in Int
    BY <1>1, <1>2, <1>4
  <2> QED
    BY <1>1, <1>2, <2>1, <2>2
<1> QED
  BY <1>4, <1>5, <1>6 DEF x

\* All maxima of the samples are the same.
LEMMA OneMax ==
  ASSUME DelayInv, Delay!HasSample, NEW m \in RTTs \cup {0}, NEW k \in RTTs \cup {0},
         Delay!IsMaxRTT(m), Delay!IsMaxRTT(k)
  PROVE  m = k
<1>1. RTTs \subseteq Nat /\ m \in Nat /\ k \in Nat
  BY RoomAssumption DEF RoomAssumption
<1>2. PICK p \in Players : samples[p] # Delay!NoSample
  BY DEF Delay!HasSample
<1>3. samples[p] \in Nat
  BY <1>1, <1>2 DEF DelayInv, DelayTypeOK, Delay!TypeOK
<1>4. samples[p] <= m /\ samples[p] <= k
  BY DEF Delay!IsMaxRTT
<1>5. m <= k
  <2>1. CASE m = 0
    BY <1>1, <2>1
  <2>2. CASE m # 0
    BY <2>2 DEF Delay!IsMaxRTT
  <2> QED
    BY <2>1, <2>2
<1>6. k <= m
  <2>1. CASE k = 0
    BY <1>1, <2>1
  <2>2. CASE k # 0
    BY <2>2 DEF Delay!IsMaxRTT
  <2> QED
    BY <2>1, <2>2
<1> QED
  BY <1>1, <1>5, <1>6

\* Only Recalculate, within SealTick, changes N.
LEMMA NewDelay ==
  ASSUME [Next]_vars, n' # n
  PROVE  Delay!Recalculate
BY DEF Next, vars, SealTick, Periodic, HandleCmd, HandleHashAck, HandleRTTReport,
   Delay!ReportRTT, AddPlayer, HandleDisconnect, HandleResume, delayVars

\* Whenever the room changes N, it covers the slowest player's round trip and
\* a tick of margin, and is the least that does (Recalculate, adaptive.go).
THEOREM DelayFitsCorrect == Spec => DelayFits
<1>1. ASSUME DelayInv, [Next]_vars, NEW m \in RTTs \cup {0},
             Delay!HasSample, Delay!IsMaxRTT(m), n' # n
      PROVE  /\ n' = MaxN \/ n' * TickInterval > m + TickInterval
             /\ n' = MinN \/ (n' - 2) * TickInterval <= m
  <2>1. PICK k \in RTTs \cup {0} : Delay!IsMaxRTT(k) /\ n' = Delay!Needed(k)
    BY <1>1, NewDelay DEF Delay!Recalculate
  <2>2. k = m /\ m \in Nat
    BY <1>1, <2>1, OneMax, RoomAssumption DEF RoomAssumption
  <2> QED
    BY <2>1, <2>2, NeededFits
<1>2. DelayInv /\ [Next]_vars =>
        [\A m \in RTTs \cup {0} :
           Delay!HasSample /\ Delay!IsMaxRTT(m) /\ n' # n =>
             /\ n' = MaxN \/ n' * TickInterval > m + TickInterval
             /\ n' = MinN \/ (n' - 2) * TickInterval <= m]_delayVars
  BY <1>1
<1>3. Spec => []DelayInv
  BY DelayInit, DelayStep, PTL DEF Spec
<1> QED
  BY <1>2, <1>3, PTL DEF Spec, DelayFits, Delay!DelayFits, Delay!adaptiveVars, delayVars

-----------------------------------------------------------------------------
(* The hashes inside the room *)

AggP == INSTANCE HashAggProofs

\* A step of the room is one of the aggregator or leaves it alone.
LEMMA AggStep == TypeOK /\ [Next]_vars => [Agg!Next]_<<tick, window>>
<1> SUFFICES ASSUME TypeOK, [Next]_vars PROVE [Agg!Next]_<<tick, window>>
  OBVIOUS
<1>1. CASE SealTick
  <2>1. Agg!SealTick
    BY <1>1 DEF SealTick, WindowAfterSeal, Agg!SealTick
  <2> QED
    BY <2>1 DEF Agg!Next
<1>2. ASSUME NEW p \in Players, NEW t \in Ticks, NEW h \in Hashes, HandleHashAck(p, t, h)
      PROVE  [Agg!Next]_<<tick, window>>
  <2>1. Agg!Report(t, p, h)
    BY <1>2 DEF HandleHashAck, Agg!Report
  <2> QED
    BY <2>1 DEF Agg!Next, Ticks
<1>3. CASE \/ \E t \in Ticks : HandleCmd(t)
           \/ \E p \in Players, s \in Delay!Triple : HandleRTTReport(p, s)
           \/ \E p \in Players : AddPlayer(p)
           \/ \E p \in Players : HandleDisconnect(p)
           \/ \E p \in Players : \E last \in Executable(p) : HandleResume(p, last)
           \/ UNCHANGED vars
  BY <1>3 DEF HandleCmd, HandleRTTReport, AddPlayer, HandleDisconnect, HandleResume, vars
<1> QED
  BY <1>1, <1>2, <1>3 DEF Next

\* The room uses the aggregator as HashAgg allows (handleMsg and sealTick).
THEOREM AggCorrect == Spec => AggSpec
<1>1. Init => Agg!Init
  BY DEF Init, Agg!Init
<1>2. TypeOK /\ [Next]_vars => [Agg!Next]_<<tick, window>>
  BY AggStep
<1> QED
  BY <1>1, <1>2, TypeCorrect, PTL DEF Spec, AggSpec, Agg!Spec, Agg!aggVars

\* So the verdicts in the room are exact, whatever else it does (Report,
\* CheckTimeouts): the aggregator's own theorem, for the room.
THEOREM RoomVerdicts == Spec => []Agg!VerdictExact
<1>1. AggP!HashAggAssumption
  <2>1. 0 \in Players
    BY RoomAssumption DEF RoomAssumption, Players
  <2> QED
    BY <2>1, RoomAssumption DEF RoomAssumption, AggP!HashAggAssumption
<1>2. AggP!Spec => []AggP!VerdictExact
  BY <1>1, AggP!VerdictCorrect
<1>3. Agg!Init => AggP!Init
  BY DEF Agg!Init, AggP!Init
<1>4. [Agg!Next]_<<tick, window>> => [AggP!Next]_<<tick, window>>
  <2>1. Agg!SealTick => AggP!SealTick
    BY DEF Agg!SealTick, AggP!SealTick, Agg!Created, AggP!Created, Agg!TimedOut, AggP!TimedOut,
       Agg!NewSlot, AggP!NewSlot, Agg!Open, AggP!Open
  <2>2. ASSUME NEW t, NEW p, NEW h, Agg!Report(t, p, h) PROVE AggP!Report(t, p, h)
    BY <2>2 DEF Agg!Report, AggP!Report, Agg!Reported, AggP!Reported, Agg!Verdict, AggP!Verdict,
       Agg!AllReported, AggP!AllReported, Agg!Agree, AggP!Agree
  <2> QED
    BY <2>1, <2>2 DEF Agg!Next, AggP!Next
<1>5. AggP!VerdictExact => Agg!VerdictExact
  BY DEF Agg!VerdictExact, AggP!VerdictExact, Agg!AllReported, AggP!AllReported, Agg!Agree, AggP!Agree
<1>6. Agg!Spec => AggP!Spec
  BY <1>3, <1>4, PTL DEF Agg!Spec, AggP!Spec, Agg!aggVars, AggP!aggVars
<1> QED
  BY <1>2, <1>5, <1>6, AggCorrect, PTL DEF AggSpec
=============================================================================
