--------------------------- MODULE LockstepProofs ---------------------------
(***************************************************************************)
(* Proofs about Lockstep, for every set of clients and of commands, every  *)
(* window and every number of ticks.                                       *)
(***************************************************************************)
EXTENDS Lockstep, SequenceTheorems, TLAPS

\* The frames on their way are in order, ahead of the client and not lost.
StreamInv ==
  \A p \in Players :
    /\ \A i \in DOMAIN frames[p] :
         /\ Len(world[p]) < frames[p][i] /\ frames[p][i] <= Len(log)
         /\ frames[p][i] \notin lost[p]
    /\ \A i, j \in DOMAIN frames[p] : i < j => frames[p][i] < frames[p][j]
    /\ lost[p] \subseteq 1..Len(log)

\* A tick that a player has not executed is on its way to it or lost.
CoverInv ==
  /\ \A p \in Players \ joined : frames[p] = <<>> /\ world[p] = <<>> /\ lost[p] = {}
  /\ \A p \in joined : \A t \in 1..Len(log) :
       \/ t <= Len(world[p]) \/ t \in lost[p]
       \/ \E i \in DOMAIN frames[p] : frames[p][i] = t

LogInv == TypeOK /\ StreamInv /\ CoverInv /\ ExecutesLog

\* The reports of a queue are for later and later ticks.
Rising(s) == \A i, j \in DOMAIN s : i < j => s[i].tick < s[j].tick

\* The reports on their way are about the world as it was, each for a tick
\* that the client has not reported before.
ReportInv ==
  /\ acks \in [Players -> Seq([tick : 1..MaxTick, hash : Hashes])]
  /\ \A p \in Players :
       /\ \A i \in DOMAIN acks[p] :
            /\ acks[p][i].tick <= Len(world[p])
            /\ acks[p][i].hash = WorldAt(p, acks[p][i].tick)
            /\ acks[p][i].tick \in DOMAIN window =>
                 window[acks[p][i].tick].hash[p] = NoHash
       /\ Rising(acks[p])

\* The hashes in the window are those of the worlds, the states are exact.
WindowInv ==
  /\ DOMAIN window \subseteq 1..Len(log)
  /\ \A u \in DOMAIN window :
       /\ window[u] \in Agg!Slot
       /\ \A p \in Players : window[u].hash[p] # NoHash =>
            u <= Len(world[p]) /\ window[u].hash[p] = WorldAt(p, u)
       /\ window[u].state = "match" <=>
            Agg!AllReported(window[u].hash) /\ Agg!Agree(window[u].hash)
       /\ window[u].state = "desync" <=>
            Agg!AllReported(window[u].hash) /\ ~Agg!Agree(window[u].hash)

IInv == LogInv /\ ReportInv /\ WindowInv
-----------------------------------------------------------------------------
(* Operators *)

\* What the loop of OnFrame executes, tick by tick.
LEMMA StepsFacts ==
  ASSUME log \in Seq(Frame), NEW w \in Seq(Frame), NEW t \in DOMAIN log, Len(w) < t
  PROVE  /\ Steps(w, t) \in Seq(Frame) /\ Len(Steps(w, t)) = t
         /\ \A u \in 1..t : Steps(w, t)[u] =
              IF u <= Len(w) THEN w[u] ELSE IF u = t THEN log[t] ELSE NoCmds
<1> DEFINE s == [i \in 1..(t - Len(w)) |-> IF Len(w) + i = t THEN log[t] ELSE NoCmds]
<1>1. t \in Nat /\ Len(w) \in Nat /\ t - Len(w) \in Nat /\ log[t] \in Frame /\ NoCmds \in Frame
  BY DEF Frame
<1>2. s \in Seq(Frame) /\ Len(s) = t - Len(w)
  BY <1>1
<1>3. \A i \in 1..(t - Len(w)) : s[i] = IF Len(w) + i = t THEN log[t] ELSE NoCmds
  BY <1>1
<1>4. Steps(w, t) = w \o s
  BY Zenon DEF Steps
<1> HIDE DEF s
<1>5. w \o s \in Seq(Frame) /\ Len(w \o s) = t
  BY <1>1, <1>2
<1>6. ASSUME NEW u \in 1..t
      PROVE  (w \o s)[u] = IF u <= Len(w) THEN w[u]
                           ELSE IF u = t THEN log[t] ELSE NoCmds
  <2>1. CASE u <= Len(w)
    BY <1>1, <1>2, <2>1
  <2>2. CASE Len(w) < u
    <3>1. u - Len(w) \in 1..(t - Len(w)) /\ Len(w) + (u - Len(w)) = u /\ ~(u <= Len(w))
      BY <1>1, <2>2
    <3>2. (w \o s)[u] = s[u - Len(w)]
      BY <1>1, <1>2, <2>2
    <3> QED
      BY <1>3, <3>1, <3>2
  <2>3. u <= Len(w) \/ Len(w) < u
    BY <1>1
  <2> QED
    BY <2>1, <2>2, <2>3, Zenon
<1> QED
  BY <1>4, <1>5, <1>6

\* Taking the head off a queue.
LEMMA TailFacts ==
  ASSUME NEW S, NEW q \in Seq(S), q # <<>>
  PROVE  /\ Head(q) = q[1] /\ 1 \in DOMAIN q /\ q[1] \in S /\ Tail(q) \in Seq(S)
         /\ \A i \in DOMAIN Tail(q) : i + 1 \in DOMAIN q /\ Tail(q)[i] = q[i + 1]
         /\ \A i \in DOMAIN q : i # 1 => i - 1 \in DOMAIN Tail(q) /\ Tail(q)[i - 1] = q[i]
<1>1. Len(q) \in Nat /\ Len(q) # 0 /\ Len(Tail(q)) = Len(q) - 1
  BY EmptySeq, HeadTailProperties
<1>2. Tail(q) \in Seq(S) /\ Head(q) = q[1]
  BY HeadTailProperties
<1>3. \A i \in 1..Len(Tail(q)) : Tail(q)[i] = q[i + 1]
  BY HeadTailProperties
<1>4. DOMAIN q = 1..Len(q) /\ DOMAIN Tail(q) = 1..(Len(q) - 1)
  BY <1>1, <1>2
<1>5. \A i \in DOMAIN Tail(q) : i + 1 \in DOMAIN q /\ Tail(q)[i] = q[i + 1]
  BY <1>1, <1>3, <1>4
<1>6. ASSUME NEW i \in DOMAIN q, i # 1
      PROVE  i - 1 \in DOMAIN Tail(q) /\ Tail(q)[i - 1] = q[i]
  <2>1. i - 1 \in DOMAIN Tail(q) /\ (i - 1) + 1 = i
    BY <1>1, <1>4, <1>6
  <2> QED
    BY <1>5, <2>1
<1> QED
  BY <1>1, <1>2, <1>4, <1>5, <1>6
-----------------------------------------------------------------------------
(* The log and the worlds *)

\* The invariant holds initially.
LEMMA LogInit == Init => LogInv
<1> SUFFICES ASSUME Init PROVE LogInv
  OBVIOUS
<1>1. /\ log = <<>> /\ joined = {} /\ MaxTick \in Nat
      /\ \A p \in Players : frames[p] = <<>> /\ world[p] = <<>> /\ lost[p] = {}
  BY LockstepAssumption DEF Init, LockstepAssumption
<1>2. TypeOK
  BY <1>1 DEF Init, TypeOK
<1> QED
  BY <1>1, <1>2 DEF LogInv, StreamInv, CoverInv, ExecutesLog

\* What the invariant says about one player.
LEMMA PlayerFacts ==
  ASSUME TypeOK, NEW p \in Players
  PROVE  /\ frames[p] \in Seq(1..MaxTick) /\ world[p] \in Seq(Frame)
         /\ Len(frames[p]) \in Nat /\ Len(world[p]) \in Nat
         /\ Len(world[p]) <= Len(log) /\ lost[p] \subseteq 1..MaxTick
         /\ log \in Seq(Frame) /\ Len(log) \in Nat /\ MaxTick \in Nat
         /\ Len(log) <= MaxTick
  BY LockstepAssumption DEF TypeOK, LockstepAssumption

\* sealTick: the new frame is the last of the stream to every joined player.
LEMMA LogSeal ==
  ASSUME LogInv, NEW c \in Frame, SealTick(c)
  PROVE  LogInv'
<1> USE DEF LogInv
<1>1. /\ log \in Seq(Frame) /\ Len(log) \in Nat /\ Len(log) < MaxTick /\ MaxTick \in Nat
      /\ log' = Append(log, c) /\ UNCHANGED <<joined, world, lost>>
  BY LockstepAssumption DEF TypeOK, SealTick, tick, LockstepAssumption
<1>2. /\ log' \in Seq(Frame) /\ Len(log') = Len(log) + 1
      /\ \A t \in 1..Len(log) : log'[t] = log[t]
  BY <1>1
<1>3. \A p \in Players :
        frames'[p] = IF p \in joined THEN Append(frames[p], Len(log) + 1) ELSE frames[p]
  BY DEF SealTick, tick
<1>4. ASSUME NEW p \in Players
      PROVE  /\ frames'[p] \in Seq(1..MaxTick)
             /\ \A i \in DOMAIN frames'[p] :
                  /\ i \in Nat
                  /\ IF i \in DOMAIN frames[p] THEN frames'[p][i] = frames[p][i]
                     ELSE i = Len(frames[p]) + 1 /\ frames'[p][i] = Len(log) + 1
             /\ \A i \in DOMAIN frames[p] : i \in DOMAIN frames'[p] /\ i <= Len(frames[p])
             /\ p \in joined =>
                  \E i \in DOMAIN frames'[p] : frames'[p][i] = Len(log) + 1
             /\ p \notin joined => frames'[p] = frames[p]
  <2>1. frames[p] \in Seq(1..MaxTick) /\ Len(frames[p]) \in Nat
    BY PlayerFacts
  <2>2. CASE p \in joined
    <3>1. frames'[p] = Append(frames[p], Len(log) + 1)
      BY <1>3, <2>2, Zenon
    <3>2. Len(log) + 1 \in 1..MaxTick
      BY <1>1
    <3>3. /\ frames'[p] \in Seq(1..MaxTick) /\ Len(frames'[p]) = Len(frames[p]) + 1
          /\ \A i \in 1..Len(frames[p]) : frames'[p][i] = frames[p][i]
          /\ frames'[p][Len(frames[p]) + 1] = Len(log) + 1
      BY <2>1, <3>1, <3>2, AppendProperties
    <3>4. /\ DOMAIN frames[p] = 1..Len(frames[p])
          /\ DOMAIN frames'[p] = 1..(Len(frames[p]) + 1)
      BY <2>1, <3>3, LenProperties
    <3> QED
      BY <2>1, <2>2, <3>3, <3>4
  <2>3. CASE p \notin joined
    BY <1>3, <2>1, <2>3
  <2> QED
    BY <2>2, <2>3
<1>5. TypeOK'
  <2>2. frames' \in [Players -> Seq(1..MaxTick)]
    <3>1. frames' = [p \in Players |->
                       IF p \in joined THEN Append(frames[p], tick + 1) ELSE frames[p]]
      BY DEF SealTick
    <3> QED
      BY <1>4, <3>1
  <2>3. \A p \in Players : Len(world'[p]) <= Len(log')
    BY <1>1, <1>2, PlayerFacts
  <2> QED
    BY <1>1, <1>2, <2>2, <2>3 DEF TypeOK
<1>6. StreamInv'
  <2> SUFFICES ASSUME NEW p \in Players
               PROVE  /\ \A i \in DOMAIN frames'[p] :
                           /\ Len(world[p]) < frames'[p][i] /\ frames'[p][i] <= Len(log')
                           /\ frames'[p][i] \notin lost[p]
                      /\ \A i, j \in DOMAIN frames'[p] :
                           i < j => frames'[p][i] < frames'[p][j]
                      /\ lost[p] \subseteq 1..Len(log')
    BY <1>1 DEF StreamInv
  <2>0. /\ Len(world[p]) \in Nat /\ Len(log) \in Nat /\ Len(world[p]) <= Len(log)
        /\ Len(log') = Len(log) + 1 /\ lost[p] \subseteq 1..Len(log)
        /\ \A i \in DOMAIN frames[p] : frames[p][i] \in Nat
    BY <1>2, PlayerFacts DEF StreamInv
  <2>1. ASSUME NEW i \in DOMAIN frames'[p]
        PROVE  /\ Len(world[p]) < frames'[p][i] /\ frames'[p][i] <= Len(log')
               /\ frames'[p][i] \notin lost[p]
    <3>1. CASE i \in DOMAIN frames[p]
      BY <1>4, <2>0, <3>1 DEF StreamInv
    <3>2. CASE i \notin DOMAIN frames[p]
      BY <1>4, <2>0, <3>2
    <3> QED
      BY <3>1, <3>2
  <2>2. ASSUME NEW i \in DOMAIN frames'[p], NEW j \in DOMAIN frames'[p], i < j
        PROVE  frames'[p][i] < frames'[p][j]
    <3>0. /\ Len(frames[p]) \in Nat /\ i \in Nat /\ j \in Nat
          /\ j <= Len(frames[p]) + 1
          /\ i \in DOMAIN frames[p] \/ i = Len(frames[p]) + 1
      <4>1. Len(frames[p]) \in Nat
        BY PlayerFacts
      <4>2. \A k \in DOMAIN frames'[p] :
              k \in Nat /\ (k \in DOMAIN frames[p] \/ k = Len(frames[p]) + 1)
        BY <1>4
      <4>3. \A k \in DOMAIN frames[p] : k <= Len(frames[p])
        BY <1>4
      <4> QED
        BY <4>1, <4>2, <4>3
    <3>1. i \in DOMAIN frames[p]
      BY <2>2, <3>0
    <3>2. CASE j \in DOMAIN frames[p]
      BY <1>4, <2>2, <3>1, <3>2 DEF StreamInv
    <3>3. CASE j \notin DOMAIN frames[p]
      BY <1>4, <2>0, <3>1, <3>3 DEF StreamInv
    <3> QED
      BY <3>2, <3>3
  <2> QED
    BY <2>0, <2>1, <2>2
<1>7. CoverInv'
  <2>1. ASSUME NEW p \in joined, NEW t \in 1..Len(log')
        PROVE  \/ t <= Len(world[p]) \/ t \in lost[p]
               \/ \E i \in DOMAIN frames'[p] : frames'[p][i] = t
    <3>1. p \in Players /\ (t = Len(log) + 1 \/ t \in 1..Len(log))
      BY <1>1, <1>2 DEF TypeOK
    <3>2. CASE t = Len(log) + 1
      BY <1>4, <3>1, <3>2
    <3>3. CASE t \in 1..Len(log)
      <4>1. \/ t <= Len(world[p]) \/ t \in lost[p]
            \/ \E i \in DOMAIN frames[p] : frames[p][i] = t
        BY <3>3 DEF CoverInv
      <4> QED
        BY <1>4, <3>1, <4>1
    <3> QED
      BY <3>1, <3>2, <3>3
  <2>2. ASSUME NEW p \in Players \ joined
        PROVE  frames'[p] = <<>> /\ world[p] = <<>> /\ lost[p] = {}
    BY <1>4 DEF CoverInv
  <2> QED
    BY <1>1, <2>1, <2>2 DEF CoverInv
<1>8. ExecutesLog'
  BY <1>1, <1>2, PlayerFacts DEF ExecutesLog, TypeOK
<1> QED
  BY <1>5, <1>6, <1>7, <1>8

\* AddPlayer: what was sealed before is lost to the player, the rest will come.
LEMMA LogJoin ==
  ASSUME LogInv, NEW p \in Players, Join(p)
  PROVE  LogInv'
<1> USE DEF LogInv
<1>1. /\ p \notin joined /\ joined' = joined \cup {p}
      /\ lost' = [lost EXCEPT ![p] = 1..Len(log)]
      /\ UNCHANGED <<log, frames, world>>
  BY DEF Join, tick
<1>2. frames[p] = <<>> /\ world[p] = <<>> /\ Len(log) \in Nat /\ Len(log) <= MaxTick
  BY <1>1, PlayerFacts DEF CoverInv
<1>3. /\ lost'[p] = 1..Len(log)
      /\ \A q \in Players : q # p => lost'[q] = lost[q]
  BY <1>1 DEF TypeOK
<1>4. TypeOK'
  BY <1>1, <1>2, PlayerFacts DEF TypeOK
<1>5. StreamInv'
  BY <1>1, <1>2, <1>3 DEF StreamInv
<1>6. CoverInv'
  BY <1>1, <1>2, <1>3 DEF CoverInv
<1>7. ExecutesLog'
  BY <1>1, <1>2, <1>3 DEF ExecutesLog
<1> QED
  BY <1>4, <1>5, <1>6, <1>7

\* The streams after their first frame was taken off.
LEMMA NextFrame ==
  ASSUME LogInv, NEW p \in Players, frames[p] # <<>>,
         frames' = [frames EXCEPT ![p] = Tail(@)]
  PROVE  /\ Head(frames[p]) = frames[p][1] /\ 1 \in DOMAIN frames[p]
         /\ Head(frames[p]) \in 1..Len(log)
         /\ Head(frames[p]) > Len(world[p]) /\ Head(frames[p]) \notin lost[p]
         /\ frames' \in [Players -> Seq(1..MaxTick)]
         /\ \A q \in Players : q # p => frames'[q] = frames[q]
         /\ \A i \in DOMAIN frames'[p] :
              /\ i + 1 \in DOMAIN frames[p] /\ frames'[p][i] = frames[p][i + 1]
              /\ frames'[p][i] > Head(frames[p])
         /\ \A i \in DOMAIN frames[p] :
              i # 1 => i - 1 \in DOMAIN frames'[p] /\ frames'[p][i - 1] = frames[p][i]
         /\ \A i, j \in DOMAIN frames'[p] : i < j => frames'[p][i] < frames'[p][j]
         /\ p \in joined
<1> USE DEF LogInv
<1>1. /\ frames[p] \in Seq(1..MaxTick) /\ Len(world[p]) \in Nat /\ Len(log) \in Nat
      /\ frames'[p] = Tail(frames[p])
      /\ \A q \in Players : q # p => frames'[q] = frames[q]
  BY PlayerFacts DEF TypeOK
<1>2. /\ Head(frames[p]) = frames[p][1] /\ 1 \in DOMAIN frames[p]
      /\ frames[p][1] \in 1..MaxTick /\ Tail(frames[p]) \in Seq(1..MaxTick)
      /\ \A i \in DOMAIN Tail(frames[p]) :
           i + 1 \in DOMAIN frames[p] /\ Tail(frames[p])[i] = frames[p][i + 1]
      /\ \A i \in DOMAIN frames[p] :
           i # 1 => i - 1 \in DOMAIN Tail(frames[p])
                    /\ Tail(frames[p])[i - 1] = frames[p][i]
  <2> DEFINE q == frames[p]
             S == 1..MaxTick
  <2>1. q \in Seq(S) /\ q # <<>>
    BY <1>1
  <2> HIDE DEF q, S
  <2>2. /\ Head(q) = q[1] /\ 1 \in DOMAIN q /\ q[1] \in S /\ Tail(q) \in Seq(S)
        /\ \A i \in DOMAIN Tail(q) : i + 1 \in DOMAIN q /\ Tail(q)[i] = q[i + 1]
        /\ \A i \in DOMAIN q :
             i # 1 => i - 1 \in DOMAIN Tail(q) /\ Tail(q)[i - 1] = q[i]
    BY <2>1, TailFacts
  <2> QED
    BY <2>2, Zenon DEF q, S
<1>3. Len(world[p]) < frames[p][1] /\ frames[p][1] <= Len(log) /\ frames[p][1] \notin lost[p]
  BY <1>2 DEF StreamInv
<1>4. DOMAIN frames[p] \subseteq Nat /\ DOMAIN frames'[p] \subseteq Nat \ {0}
  BY <1>1, <1>2
<1>5. \A i, j \in DOMAIN frames[p] : i < j => frames[p][i] < frames[p][j]
  BY DEF StreamInv
<1>6. ASSUME NEW i \in DOMAIN frames'[p]
      PROVE  /\ i + 1 \in DOMAIN frames[p] /\ frames'[p][i] = frames[p][i + 1]
             /\ frames[p][1] < frames[p][i + 1]
  <2>1. i + 1 \in DOMAIN frames[p] /\ frames'[p][i] = frames[p][i + 1]
    BY <1>1, <1>2
  <2>2. i \in Nat \ {0} /\ 1 < i + 1
    BY <1>4
  <2> QED
    BY <1>2, <1>5, <2>1, <2>2
<1>7. ASSUME NEW i \in DOMAIN frames'[p], NEW j \in DOMAIN frames'[p], i < j
      PROVE  frames'[p][i] < frames'[p][j]
  <2>1. i + 1 < j + 1
    BY <1>4, <1>7
  <2> QED
    BY <1>5, <1>6, <2>1
<1>8. frames' \in [Players -> Seq(1..MaxTick)]
  BY <1>1, <1>2 DEF TypeOK
<1>9. \A i \in DOMAIN frames'[p] : frames'[p][i] > frames[p][1]
  <2> SUFFICES ASSUME NEW i \in DOMAIN frames'[p] PROVE frames'[p][i] > frames[p][1]
    OBVIOUS
  <2>1. \A k \in DOMAIN frames[p] : frames[p][k] \in Nat
    BY <1>1, PlayerFacts
  <2>2. frames'[p][i] \in Nat /\ frames[p][1] \in Nat
    BY <1>2, <1>6, <2>1
  <2> QED
    BY <1>6, <2>2
<1>10. p \in joined
  BY DEF CoverInv
<1> QED
  BY <1>1, <1>2, <1>3, <1>6, <1>7, <1>8, <1>9, <1>10

\* A frame dropped on the way: the client will execute its tick as empty.
LEMMA LogLose ==
  ASSUME LogInv, NEW p \in Players, LoseFrame(p)
  PROVE  LogInv'
<1> USE DEF LogInv
<1> DEFINE t == Head(frames[p])
<1>1. /\ frames[p] # <<>> /\ frames' = [frames EXCEPT ![p] = Tail(@)]
      /\ lost' = [lost EXCEPT ![p] = @ \cup {t}]
      /\ UNCHANGED <<log, joined, world>>
  BY DEF LoseFrame
<1>2. /\ t = frames[p][1] /\ t \in 1..Len(log) /\ t > Len(world[p])
      /\ frames' \in [Players -> Seq(1..MaxTick)]
      /\ \A q \in Players : q # p => frames'[q] = frames[q]
      /\ \A i \in DOMAIN frames'[p] :
           /\ i + 1 \in DOMAIN frames[p] /\ frames'[p][i] = frames[p][i + 1]
           /\ frames'[p][i] > t
      /\ \A i \in DOMAIN frames[p] :
           i # 1 => i - 1 \in DOMAIN frames'[p] /\ frames'[p][i - 1] = frames[p][i]
      /\ \A i, j \in DOMAIN frames'[p] : i < j => frames'[p][i] < frames'[p][j]
      /\ p \in joined
  BY <1>1, NextFrame, Zenon
<1>3. /\ lost'[p] = lost[p] \cup {t}
      /\ \A q \in Players : q # p => lost'[q] = lost[q]
      /\ Len(world[p]) \in Nat /\ Len(log) \in Nat /\ Len(log) <= MaxTick
      /\ MaxTick \in Nat
  BY <1>1, PlayerFacts DEF TypeOK
<1> HIDE DEF t
<1>4. TypeOK'
  BY <1>1, <1>2, <1>3 DEF TypeOK
<1>5. StreamInv'
  <2>1. ASSUME NEW i \in DOMAIN frames'[p]
        PROVE  /\ Len(world[p]) < frames'[p][i] /\ frames'[p][i] <= Len(log)
               /\ frames'[p][i] \notin lost'[p]
    <3>1. /\ i + 1 \in DOMAIN frames[p] /\ frames'[p][i] = frames[p][i + 1]
          /\ frames'[p][i] > t
      BY <1>2
    <3>2. /\ Len(world[p]) < frames'[p][i] /\ frames'[p][i] <= Len(log)
          /\ frames'[p][i] \notin lost[p]
      BY <3>1 DEF StreamInv
    <3>3. frames'[p][i] # t
      BY <1>2, <1>4, <3>1 DEF TypeOK
    <3> QED
      BY <1>3, <3>2, <3>3
  <2>2. lost'[p] \subseteq 1..Len(log)
    BY <1>2, <1>3 DEF StreamInv
  <2>3. \A q \in Players : q # p => frames'[q] = frames[q] /\ lost'[q] = lost[q]
    BY <1>2, <1>3
  <2> QED
    BY <1>1, <1>2, <2>1, <2>2, <2>3 DEF StreamInv
<1>6. CoverInv'
  <2>1. ASSUME NEW u \in 1..Len(log)
        PROVE  \/ u <= Len(world[p]) \/ u \in lost'[p]
               \/ \E i \in DOMAIN frames'[p] : frames'[p][i] = u
    <3>1. \/ u <= Len(world[p]) \/ u \in lost[p]
          \/ \E i \in DOMAIN frames[p] : frames[p][i] = u
      BY <1>2 DEF CoverInv
    <3>2. ASSUME NEW i \in DOMAIN frames[p], frames[p][i] = u
          PROVE  u \in lost'[p] \/ \E j \in DOMAIN frames'[p] : frames'[p][j] = u
      <4>1. CASE i = 1
        BY <1>2, <1>3, <3>2, <4>1
      <4>2. CASE i # 1
        BY <1>2, <3>2, <4>2
      <4> QED
        BY <4>1, <4>2
    <3> QED
      BY <1>3, <3>1, <3>2
  <2>2. ASSUME NEW q \in joined, NEW u \in 1..Len(log), q # p
        PROVE  \/ u <= Len(world[q]) \/ u \in lost'[q]
               \/ \E i \in DOMAIN frames'[q] : frames'[q][i] = u
    <3>1. frames'[q] = frames[q] /\ lost'[q] = lost[q]
      BY <1>2, <1>3, <2>2 DEF TypeOK
    <3> QED
      BY <3>1 DEF CoverInv
  <2>3. ASSUME NEW q \in Players \ joined
        PROVE  frames'[q] = <<>> /\ world[q] = <<>> /\ lost'[q] = {}
    <3>1. frames'[q] = frames[q] /\ lost'[q] = lost[q]
      BY <1>2, <1>3
    <3> QED
      BY <3>1 DEF CoverInv
  <2>4. \A q \in joined : \A u \in 1..Len(log) :
          \/ u <= Len(world[q]) \/ u \in lost'[q]
          \/ \E i \in DOMAIN frames'[q] : frames'[q][i] = u
    BY <2>1, <2>2
  <2> QED
    BY <1>1, <2>3, <2>4 DEF CoverInv
<1>7. ExecutesLog'
  <2>1. \A u \in DOMAIN world[p] : u # t
    BY <1>2, <1>3, PlayerFacts
  <2> QED
    BY <1>1, <1>3, <2>1 DEF ExecutesLog
<1> QED
  BY <1>4, <1>5, <1>6, <1>7

\* What OnFrame does to the world: it was shorter, it keeps what it executed,
\* every tick that it passes over is lost, and the last one is executed.
LEMMA FrameFacts ==
  ASSUME LogInv, NEW p \in Players, OnFrame(p)
  PROVE  /\ Head(frames[p]) \in 1..Len(log) /\ Len(world[p]) < Head(frames[p])
         /\ world'[p] = Steps(world[p], Head(frames[p]))
         /\ world'[p] \in Seq(Frame) /\ Len(world'[p]) = Head(frames[p])
         /\ \A u \in 1..Head(frames[p]) : world'[p][u] =
              IF u <= Len(world[p]) THEN world[p][u]
              ELSE IF u = Head(frames[p]) THEN log[u] ELSE NoCmds
         /\ \A q \in Players : q # p => world'[q] = world[q]
         /\ \A u \in (Len(world[p]) + 1)..(Head(frames[p]) - 1) : u \in lost[p]
         /\ Head(frames[p]) \notin lost[p]
<1> USE DEF LogInv
<1> DEFINE t == Head(frames[p])
<1>1. /\ frames[p] # <<>> /\ frames' = [frames EXCEPT ![p] = Tail(@)]
      /\ world' = [world EXCEPT ![p] = Steps(@, t)]
  BY DEF OnFrame
<1>2. /\ t = frames[p][1] /\ 1 \in DOMAIN frames[p] /\ t \in 1..Len(log)
      /\ Len(world[p]) < t /\ t \notin lost[p] /\ p \in joined
      /\ \A i \in DOMAIN frames'[p] : frames'[p][i] > t
      /\ \A i \in DOMAIN frames[p] :
           i # 1 => i - 1 \in DOMAIN frames'[p] /\ frames'[p][i - 1] = frames[p][i]
  <2>1. t > Len(world[p])
    BY <1>1, NextFrame, Zenon
  <2>2. Len(world[p]) \in Nat
    BY PlayerFacts
  <2>3. t \in 1..Len(log)
    BY <1>1, NextFrame, Zenon
  <2>4. Len(world[p]) < t
    BY <2>1, <2>2, <2>3
  <2> QED
    BY <1>1, <2>3, <2>4, NextFrame, Zenon
<1> HIDE DEF t
<1>3. /\ world[p] \in Seq(Frame) /\ log \in Seq(Frame) /\ t \in DOMAIN log
      /\ Len(world[p]) \in Nat /\ Len(log) \in Nat
  BY <1>2, PlayerFacts
<1>4. /\ world'[p] = Steps(world[p], t)
      /\ \A q \in Players : q # p => world'[q] = world[q]
  BY <1>1 DEF TypeOK
<1>5. /\ world'[p] \in Seq(Frame) /\ Len(world'[p]) = t
      /\ \A u \in 1..t : world'[p][u] =
           IF u <= Len(world[p]) THEN world[p][u] ELSE IF u = t THEN log[t] ELSE NoCmds
  BY <1>2, <1>3, <1>4, StepsFacts
<1>6. ASSUME NEW u \in (Len(world[p]) + 1)..(t - 1) PROVE u \in lost[p]
  <2>1. u \in 1..Len(log) /\ ~(u <= Len(world[p])) /\ u < t
    BY <1>2, <1>3
  <2>2. u \in lost[p] \/ \E i \in DOMAIN frames[p] : frames[p][i] = u
    BY <1>2, <2>1 DEF CoverInv
  <2>3. ASSUME NEW i \in DOMAIN frames[p], frames[p][i] = u PROVE FALSE
    <3>1. i # 1
      BY <1>2, <2>1, <2>3
    <3>2. u > t
      BY <1>2, <2>3, <3>1
    <3> QED
      BY <1>2, <1>3, <2>1, <3>2
  <2> QED
    BY <2>2, <2>3
<1> QED
  BY <1>2, <1>4, <1>5, <1>6 DEF t

\* A frame executed.
LEMMA LogOnFrame ==
  ASSUME LogInv, NEW p \in Players, OnFrame(p)
  PROVE  LogInv'
<1> USE DEF LogInv
<1> DEFINE t == Head(frames[p])
<1>1. /\ frames[p] # <<>> /\ frames' = [frames EXCEPT ![p] = Tail(@)]
      /\ UNCHANGED <<log, joined, lost>>
      /\ world' = [world EXCEPT ![p] = Steps(@, t)]
  BY DEF OnFrame
<1>2. /\ t = frames[p][1]
      /\ frames' \in [Players -> Seq(1..MaxTick)]
      /\ \A q \in Players : q # p => frames'[q] = frames[q]
      /\ \A i \in DOMAIN frames'[p] :
           /\ i + 1 \in DOMAIN frames[p] /\ frames'[p][i] = frames[p][i + 1]
           /\ frames'[p][i] > t
      /\ \A i \in DOMAIN frames[p] :
           i # 1 => i - 1 \in DOMAIN frames'[p] /\ frames'[p][i - 1] = frames[p][i]
      /\ \A i, j \in DOMAIN frames'[p] : i < j => frames'[p][i] < frames'[p][j]
      /\ p \in joined
  BY <1>1, NextFrame, Zenon
<1>3. /\ t \in 1..Len(log) /\ Len(world[p]) < t /\ t \notin lost[p]
      /\ world'[p] = Steps(world[p], t)
      /\ world'[p] \in Seq(Frame) /\ Len(world'[p]) = t
      /\ \A u \in 1..t : world'[p][u] =
           IF u <= Len(world[p]) THEN world[p][u] ELSE IF u = t THEN log[u] ELSE NoCmds
      /\ \A q \in Players : q # p => world'[q] = world[q]
      /\ \A u \in (Len(world[p]) + 1)..(t - 1) : u \in lost[p]
  BY FrameFacts, Zenon
<1>4. Len(world[p]) \in Nat /\ Len(log) \in Nat /\ MaxTick \in Nat
  BY PlayerFacts
<1> HIDE DEF t
<1>5. TypeOK'
  <2>1. world' \in [Players -> Seq(Frame)]
    <3>1. world \in [Players -> Seq(Frame)]
      BY DEF TypeOK
    <3>2. Steps(world[p], t) \in Seq(Frame)
      BY <1>3, Zenon
    <3> QED
      BY <1>1, <3>1, <3>2
  <2>2. ASSUME NEW q \in Players PROVE Len(world'[q]) <= Len(log)
    <3>1. CASE q = p
      BY <1>3, <1>4, <3>1
    <3>2. CASE q # p
      BY <1>3, <3>2, PlayerFacts
    <3> QED
      BY <3>1, <3>2
  <2> QED
    BY <1>1, <1>2, <2>1, <2>2 DEF TypeOK
<1>6. StreamInv'
  <2>1. ASSUME NEW i \in DOMAIN frames'[p]
        PROVE  /\ Len(world'[p]) < frames'[p][i] /\ frames'[p][i] <= Len(log)
               /\ frames'[p][i] \notin lost[p]
    <3>1. /\ i + 1 \in DOMAIN frames[p] /\ frames'[p][i] = frames[p][i + 1]
          /\ frames'[p][i] > t
      BY <1>2
    <3>2. frames'[p][i] <= Len(log) /\ frames'[p][i] \notin lost[p]
      BY <3>1 DEF StreamInv
    <3>3. frames'[p][i] \in Nat
      BY <1>2, <1>4
    <3> QED
      BY <1>3, <1>4, <3>1, <3>2, <3>3
  <2>2. ASSUME NEW q \in Players, q # p
        PROVE  frames'[q] = frames[q] /\ world'[q] = world[q]
    BY <1>2, <1>3, <2>2
  <2> QED
    BY <1>1, <1>2, <2>1, <2>2 DEF StreamInv
<1>7. CoverInv'
  <2>1. ASSUME NEW u \in 1..Len(log)
        PROVE  \/ u <= Len(world'[p]) \/ u \in lost[p]
               \/ \E i \in DOMAIN frames'[p] : frames'[p][i] = u
    <3>1. \/ u <= Len(world[p]) \/ u \in lost[p]
          \/ \E i \in DOMAIN frames[p] : frames[p][i] = u
      BY <1>2 DEF CoverInv
    <3>2. ASSUME NEW i \in DOMAIN frames[p], frames[p][i] = u
          PROVE  u <= Len(world'[p]) \/ \E j \in DOMAIN frames'[p] : frames'[p][j] = u
      <4>1. CASE i = 1
        BY <1>2, <1>3, <1>4, <3>2, <4>1
      <4>2. CASE i # 1
        BY <1>2, <3>2, <4>2
      <4> QED
        BY <4>1, <4>2
    <3>3. u <= Len(world[p]) => u <= Len(world'[p])
      BY <1>3, <1>4
    <3> QED
      BY <3>1, <3>2, <3>3
  <2>2. ASSUME NEW q \in Players, q # p
        PROVE  frames'[q] = frames[q] /\ world'[q] = world[q]
    BY <1>2, <1>3, <2>2
  <2>3. \A q \in joined : \A u \in 1..Len(log) :
          \/ u <= Len(world'[q]) \/ u \in lost[q]
          \/ \E i \in DOMAIN frames'[q] : frames'[q][i] = u
    <3> SUFFICES ASSUME NEW q \in joined, NEW u \in 1..Len(log)
                 PROVE  \/ u <= Len(world'[q]) \/ u \in lost[q]
                        \/ \E i \in DOMAIN frames'[q] : frames'[q][i] = u
      OBVIOUS
    <3>1. CASE q = p
      BY <2>1, <3>1
    <3>2. CASE q # p
      <4>1. frames'[q] = frames[q] /\ world'[q] = world[q]
        BY <2>2, <3>2 DEF TypeOK
      <4> QED
        BY <4>1 DEF CoverInv
    <3> QED
      BY <3>1, <3>2
  <2>4. \A q \in Players \ joined :
          frames'[q] = <<>> /\ world'[q] = <<>> /\ lost[q] = {}
    BY <1>2, <2>2 DEF CoverInv
  <2> QED
    BY <1>1, <2>3, <2>4 DEF CoverInv
<1>8. ExecutesLog'
  <2>1. ASSUME NEW u \in 1..t
        PROVE  world'[p][u] = IF u \in lost[p] THEN NoCmds ELSE log[u]
    <3>1. CASE u <= Len(world[p])
      <4>1. u \in DOMAIN world[p]
        BY <1>3, <1>4, <3>1, PlayerFacts
      <4> QED
        BY <1>3, <3>1, <4>1 DEF ExecutesLog
    <3>2. CASE u = t
      BY <1>3, <1>4, <3>2
    <3>3. CASE ~(u <= Len(world[p])) /\ u # t
      <4>1. u \in (Len(world[p]) + 1)..(t - 1)
        BY <1>3, <1>4, <3>3
      <4> QED
        BY <1>3, <3>3, <4>1
    <3> QED
      BY <3>1, <3>2, <3>3
  <2>2. DOMAIN world'[p] = 1..t
    BY <1>3
  <2>3. ASSUME NEW q \in Players, NEW u \in DOMAIN world'[q]
        PROVE  world'[q][u] = IF u \in lost[q] THEN NoCmds ELSE log[u]
    <3>1. CASE q = p
      BY <2>1, <2>2, <3>1
    <3>2. CASE q # p
      <4>1. world'[q] = world[q]
        BY <1>3, <3>2
      <4> QED
        BY <4>1 DEF ExecutesLog
    <3> QED
      BY <3>1, <3>2
  <2> QED
    BY <1>1, <2>3 DEF ExecutesLog
<1> QED
  BY <1>5, <1>6, <1>7, <1>8

\* Every step preserves it.
LEMMA LogStep == LogInv /\ [Next]_vars => LogInv'
<1> SUFFICES ASSUME LogInv, [Next]_vars PROVE LogInv'
  OBVIOUS
<1>1. ASSUME NEW c \in Frame, SealTick(c) PROVE LogInv'
  BY <1>1, LogSeal
<1>2. ASSUME NEW p \in Players, Join(p) PROVE LogInv'
  BY <1>2, LogJoin
<1>3. ASSUME NEW p \in Players, OnFrame(p) PROVE LogInv'
  BY <1>3, LogOnFrame
<1>4. ASSUME NEW p \in Players, LoseFrame(p) PROVE LogInv'
  BY <1>4, LogLose
<1>5. CASE UNCHANGED <<log, joined, frames, world, lost>>
  BY <1>5 DEF LogInv, TypeOK, StreamInv, CoverInv, ExecutesLog
<1>6. ASSUME NEW p \in Players, HandleHashAck(p) \/ LoseHashAck(p) PROVE LogInv'
  BY <1>5, <1>6 DEF HandleHashAck, LoseHashAck
<1> QED
  BY <1>1, <1>2, <1>3, <1>4, <1>5, <1>6 DEF Next, vars

\* Together: it holds in every reachable state.
LEMMA LogInvariance == Spec => []LogInv
  BY LogInit, LogStep, PTL DEF Spec

\* The variables keep their types.
THEOREM TypeCorrect == Spec => []TypeOK
<1>1. LogInv => TypeOK
  BY DEF LogInv
<1> QED
  BY LogInvariance, <1>1, PTL

\* Every client executes the log, but for the commands of the frames it never
\* gets.
THEOREM ExecutesCorrect == Spec => []ExecutesLog
<1>1. LogInv => ExecutesLog
  BY DEF LogInv
<1> QED
  BY LogInvariance, <1>1, PTL

\* The room and its clients implement the log of frames.
THEOREM LogCorrect == Spec => LogSpec
<1>1. Init => Log!Init
  BY DEF Init, Log!Init
<1>2. LogInv /\ [Next]_vars => [Log!Next]_(Log!vars)
  <2> SUFFICES ASSUME LogInv, [Next]_vars PROVE [Log!Next]_(Log!vars)
    OBVIOUS
  <2>1. ASSUME NEW c \in Frame, SealTick(c) PROVE Log!Next
    BY <2>1 DEF SealTick, Log!Next, Log!Seal, Frame
  <2>2. ASSUME NEW p \in Players, OnFrame(p) PROVE Log!Next
    <3> DEFINE t == Head(frames[p])
    <3>1. /\ t \in 1..Len(log) /\ Len(world[p]) < t
          /\ world'[p] \in Seq(Frame) /\ Len(world'[p]) = t
          /\ \A u \in 1..t : world'[p][u] =
               IF u <= Len(world[p]) THEN world[p][u]
               ELSE IF u = t THEN log[u] ELSE NoCmds
      BY <2>2, FrameFacts, Zenon
    <3>2. world' = [world EXCEPT ![p] = world'[p]] /\ UNCHANGED log
      BY <2>2 DEF OnFrame, LogInv, TypeOK
    <3>3. Len(world[p]) \in Nat /\ Len(log) \in Nat /\ log \in Seq(Frame)
      BY PlayerFacts DEF LogInv
    <3> HIDE DEF t
    <3>4. world'[p] \in [1..t -> Frame]
      BY <3>1
    <3>5. world'[p][t] = log[t] /\ t > Len(world[p]) /\ t \in DOMAIN log
      BY <3>1, <3>3
    <3>6. \A u \in 1..(t - 1) :
            world'[p][u] = IF u <= Len(world[p]) THEN world[p][u] ELSE NoCmds
      BY <3>1, <3>3
    <3>7. Log!Execute(p, t)
      BY <3>2, <3>4, <3>5, <3>6 DEF Log!Execute, Frame
    <3> QED
      BY <3>5, <3>7 DEF Log!Next
  <2>3. CASE UNCHANGED <<log, world>>
    BY <2>3 DEF Log!vars
  <2>4. ASSUME NEW p \in Players,
               Join(p) \/ HandleHashAck(p) \/ LoseFrame(p) \/ LoseHashAck(p)
        PROVE  UNCHANGED <<log, world>>
    BY <2>4 DEF Join, HandleHashAck, LoseFrame, LoseHashAck
  <2> QED
    BY <2>1, <2>2, <2>3, <2>4 DEF Next, vars
<1> QED
  BY LogInvariance, <1>1, <1>2, PTL DEF Spec, LogSpec, Log!Spec
-----------------------------------------------------------------------------
(* The verdicts *)

\* A world cut off at a tick is a sequence of commands and has a hash.
LEMMA WorldAtFacts ==
  ASSUME TypeOK, NEW p \in Players, NEW u \in 0..Len(world[p])
  PROVE  /\ WorldAt(p, u) \in Seq(Frame) /\ Len(WorldAt(p, u)) = u
         /\ \A i \in 1..u : WorldAt(p, u)[i] = world[p][i]
         /\ WorldAt(p, u) \in Hashes
<1>1. /\ world[p] \in Seq(Frame) /\ Len(world[p]) \in Nat /\ MaxTick \in Nat
      /\ u \in 0..MaxTick
  BY PlayerFacts
<1>2. \A i \in 1..u : world[p][i] \in Frame
  BY <1>1
<1>3. /\ WorldAt(p, u) \in Seq(Frame) /\ Len(WorldAt(p, u)) = u
      /\ \A i \in 1..u : WorldAt(p, u)[i] = world[p][i]
  BY <1>1, <1>2, SubSeqProperties DEF WorldAt
<1>4. WorldAt(p, u) \in [1..u -> Frame]
  BY <1>1, <1>3
<1> QED
  BY <1>1, <1>3, <1>4 DEF Hashes

\* What a client has executed it keeps.
LEMMA WorldKept ==
  ASSUME LogInv, LogInv', [Next]_vars, NEW p \in Players
  PROVE  /\ Len(world[p]) \in Nat /\ Len(world'[p]) \in Nat
         /\ Len(world[p]) <= Len(world'[p])
         /\ \A u \in 0..Len(world[p]) : WorldAt(p, u)' = WorldAt(p, u)
<1>1. CASE OnFrame(p)
  <2>1. /\ Head(frames[p]) \in 1..Len(log) /\ Len(world[p]) < Head(frames[p])
        /\ world'[p] \in Seq(Frame) /\ Len(world'[p]) = Head(frames[p])
        /\ \A u \in 1..Head(frames[p]) : world'[p][u] =
             IF u <= Len(world[p]) THEN world[p][u]
             ELSE IF u = Head(frames[p]) THEN log[u] ELSE NoCmds
    BY <1>1, FrameFacts, Zenon
  <2>2. world[p] \in Seq(Frame) /\ Len(world[p]) \in Nat /\ Len(log) \in Nat
    BY PlayerFacts DEF LogInv
  <2>3. ASSUME NEW u \in 0..Len(world[p]) PROVE WorldAt(p, u)' = WorldAt(p, u)
    <3>1. /\ WorldAt(p, u) \in Seq(Frame) /\ Len(WorldAt(p, u)) = u
          /\ \A i \in 1..u : WorldAt(p, u)[i] = world[p][i]
      BY WorldAtFacts DEF LogInv
    <3>2. /\ SubSeq(world'[p], 1, u) \in Seq(Frame)
          /\ Len(SubSeq(world'[p], 1, u)) = u
          /\ \A i \in 1..u : SubSeq(world'[p], 1, u)[i] = world'[p][i]
      <4>1. \A i \in 1..u : world'[p][i] \in Frame
        BY <2>1, <2>2
      <4> QED
        BY <2>2, <4>1, SubSeqProperties
    <3>3. \A i \in 1..u : world'[p][i] = world[p][i]
      BY <2>1, <2>2
    <3> QED
      BY <3>1, <3>2, <3>3, SeqEqual DEF WorldAt
  <2> QED
    BY <2>1, <2>2, <2>3
<1>2. CASE ~OnFrame(p)
  <2>1. world'[p] = world[p]
    BY <1>2 DEF Next, vars, SealTick, Join, OnFrame, HandleHashAck, LoseFrame,
                LoseHashAck, LogInv, TypeOK
  <2> QED
    BY <2>1, PlayerFacts DEF WorldAt, LogInv
<1> QED
  BY <1>1, <1>2

\* The hash of a client's world after a frame.
LEMMA HashAfterFrame ==
  ASSUME LogInv, LogInv', NEW p \in Players, OnFrame(p)
  PROVE  /\ Head(frames[p]) \in 1..MaxTick /\ Len(world'[p]) = Head(frames[p])
         /\ world'[p] \in Hashes
         /\ world'[p] = SubSeq(world'[p], 1, Head(frames[p]))
<1>1. /\ Head(frames[p]) \in 1..Len(log) /\ world'[p] \in Seq(Frame)
      /\ Len(world'[p]) = Head(frames[p])
  BY FrameFacts, Zenon
<1>2. Len(log) \in Nat /\ Len(log) <= MaxTick /\ MaxTick \in Nat
  BY PlayerFacts DEF LogInv
<1>3. /\ Head(frames[p]) \in 1..MaxTick /\ Head(frames[p]) \in 0..MaxTick
      /\ Head(frames[p]) \in Nat
  BY <1>1, <1>2
<1>4. world'[p] \in [1..Head(frames[p]) -> Frame]
  BY <1>1
<1>5. world'[p] \in Hashes
  BY <1>3, <1>4 DEF Hashes
<1>6. SubSeq(world'[p], 1, Head(frames[p])) = world'[p]
  <2>1. \A i \in 1..Head(frames[p]) : world'[p][i] \in Frame
    BY <1>1
  <2>2. /\ SubSeq(world'[p], 1, Head(frames[p])) \in Seq(Frame)
        /\ Len(SubSeq(world'[p], 1, Head(frames[p]))) = Head(frames[p])
        /\ \A i \in 1..Head(frames[p]) :
             SubSeq(world'[p], 1, Head(frames[p]))[i] = world'[p][i]
    BY <1>3, <2>1, SubSeqProperties
  <2> QED
    BY <1>1, <2>2, SeqEqual
<1> QED
  BY <1>1, <1>3, <1>5, <1>6

\* A fresh slot is well formed and has no verdict.
LEMMA NewSlotFacts ==
  /\ Agg!NewSlot \in Agg!Slot /\ Agg!NewSlot.state = "pending"
  /\ \A p \in Players : Agg!NewSlot.hash[p] = NoHash
  /\ ~Agg!AllReported(Agg!NewSlot.hash)
  BY LockstepAssumption
     DEF Agg!NewSlot, Agg!Slot, Agg!State, Agg!AllReported, LockstepAssumption

\* The sealed window, slot by slot: hashes stay, a verdict stays.
LEMMA SealedSlots ==
  ASSUME LogInv, WindowInv, NEW c \in Frame, SealTick(c), NEW u \in DOMAIN window'
  PROVE  /\ u \in 1..Len(log')
         /\ window'[u] \in Agg!Slot
         /\ u \in DOMAIN window =>
              /\ u # Len(log) + 1
              /\ window'[u].hash = window[u].hash
              /\ \/ window'[u].state = window[u].state
                 \/ window[u].state \in Agg!Open /\ window'[u].state = "timeout"
         /\ u \notin DOMAIN window =>
              /\ window'[u].hash = Agg!NewSlot.hash
              /\ window'[u].state \in {"pending", "timeout"}
<1> DEFINE n == Len(log) + 1
           s == IF u = n THEN Agg!NewSlot ELSE window[u]
<1>1. /\ n \in Nat /\ Len(log') = n /\ log \in Seq(Frame)
      /\ window' = Agg!TimedOut(Agg!Created(window, n), n)
  BY DEF SealTick, WindowAfterSeal, tick, LogInv, TypeOK
<1>2. DOMAIN window \subseteq 1..Len(log)
  BY DEF WindowInv
<1>3. /\ u \in DOMAIN window \cup {n}
      /\ window'[u] = IF s.state \in Agg!Open /\ n - u > MaxAge
                      THEN [s EXCEPT !.state = "timeout"] ELSE s
  BY <1>1 DEF Agg!TimedOut, Agg!Created
<1>4. u \in 1..n /\ (u \in DOMAIN window <=> u # n)
  BY <1>1, <1>2, <1>3
<1>5. s \in Agg!Slot
  BY <1>3, <1>4, NewSlotFacts DEF WindowInv
<1>6. CASE s.state \in Agg!Open /\ n - u > MaxAge
  <2>1. /\ window'[u] \in Agg!Slot
        /\ window'[u].hash = s.hash /\ window'[u].state = "timeout"
    BY <1>3, <1>5, <1>6 DEF Agg!Slot, Agg!State
  <2> QED
    BY <1>1, <1>4, <1>6, <2>1
<1>7. CASE ~(s.state \in Agg!Open /\ n - u > MaxAge)
  <2>1. window'[u] = s
    BY <1>3, <1>7
  <2> QED
    BY <1>1, <1>4, <1>5, <2>1, NewSlotFacts
<1> QED
  BY <1>6, <1>7

\* The window after a report: one slot changes, in the hash of one player.
LEMMA ReportedSlots ==
  ASSUME WindowInv, NEW p \in Players, NEW t, NEW h \in Hashes,
         window' = Agg!Reported(window, t, p, h)
  PROVE  /\ DOMAIN window' = DOMAIN window
         /\ \A u \in DOMAIN window : u # t => window'[u] = window[u]
         /\ t \in DOMAIN window =>
              /\ window'[t] \in Agg!Slot
              /\ window'[t].state = Agg!Verdict(window'[t].hash)
              /\ window'[t].hash[p] = h
              /\ \A q \in Players : q # p =>
                   window'[t].hash[q] = window[t].hash[q]
<1>1. /\ DOMAIN window' = DOMAIN window
      /\ \A u \in DOMAIN window : u # t => window'[u] = window[u]
  BY DEF Agg!Reported
<1>2. ASSUME t \in DOMAIN window
      PROVE  /\ window'[t] \in Agg!Slot
             /\ window'[t].state = Agg!Verdict(window'[t].hash)
             /\ window'[t].hash[p] = h
             /\ \A q \in Players : q # p => window'[t].hash[q] = window[t].hash[q]
  <2> DEFINE new == [window[t].hash EXCEPT ![p] = h]
  <2>1. window'[t] = [hash |-> new, state |-> Agg!Verdict(new)]
    BY <1>2 DEF Agg!Reported
  <2>2. window[t].hash \in [Players -> Hashes \cup {NoHash}]
    BY <1>2 DEF WindowInv, Agg!Slot
  <2>3. /\ new \in [Players -> Hashes \cup {NoHash}] /\ new[p] = h
        /\ \A q \in Players : q # p => new[q] = window[t].hash[q]
    BY <2>2
  <2> HIDE DEF new
  <2>4. Agg!Verdict(new) \in Agg!State
    BY DEF Agg!Verdict, Agg!State
  <2> QED
    BY <2>1, <2>3, <2>4 DEF Agg!Slot
<1> QED
  BY <1>1, <1>2

\* The invariant of reports and verdicts holds initially.
LEMMA InvInit == Init => IInv
<1> SUFFICES ASSUME Init PROVE ReportInv /\ WindowInv
  BY LogInit DEF IInv
<1>1. log = <<>> /\ DOMAIN window = {} /\ \A p \in Players : acks[p] = <<>>
  BY DEF Init
<1>2. acks \in [Players -> Seq([tick : 1..MaxTick, hash : Hashes])]
  BY DEF Init
<1> QED
  BY <1>1, <1>2 DEF ReportInv, WindowInv, Rising

\* Steps that leave the window alone keep it, since worlds only grow.
LEMMA WindowKept ==
  ASSUME IInv, LogInv', [Next]_vars, UNCHANGED <<log, window>>
  PROVE  WindowInv'
<1>1. ASSUME NEW u \in DOMAIN window, NEW p \in Players, window[u].hash[p] # NoHash
      PROVE  u <= Len(world'[p]) /\ window[u].hash[p] = WorldAt(p, u)'
  <2>1. /\ u \in Nat /\ u <= Len(world[p]) /\ window[u].hash[p] = WorldAt(p, u)
        /\ log \in Seq(Frame)
    BY <1>1 DEF IInv, WindowInv, LogInv, TypeOK
  <2>2. /\ Len(world[p]) \in Nat /\ Len(world'[p]) \in Nat
        /\ Len(world[p]) <= Len(world'[p])
        /\ \A v \in 0..Len(world[p]) : WorldAt(p, v)' = WorldAt(p, v)
    BY WorldKept DEF IInv
  <2> QED
    BY <2>1, <2>2
<1>2. /\ log' = log /\ window' = window
      /\ DOMAIN window \subseteq 1..Len(log)
      /\ \A u \in DOMAIN window :
           /\ window[u] \in Agg!Slot
           /\ window[u].state = "match" <=>
                Agg!AllReported(window[u].hash) /\ Agg!Agree(window[u].hash)
           /\ window[u].state = "desync" <=>
                Agg!AllReported(window[u].hash) /\ ~Agg!Agree(window[u].hash)
  BY DEF IInv, WindowInv
<1> QED
  BY <1>1, <1>2 DEF WindowInv

\* Sealing a tick.
LEMMA VerdictSeal ==
  ASSUME IInv, LogInv', NEW c \in Frame, SealTick(c)
  PROVE  ReportInv' /\ WindowInv'
<1>1. acks' = acks /\ world' = world
  BY DEF SealTick
<1>2. \A u \in DOMAIN window' :
        /\ u \in 1..Len(log')
        /\ window'[u] \in Agg!Slot
        /\ u \in DOMAIN window =>
             /\ u # Len(log) + 1
             /\ window'[u].hash = window[u].hash
             /\ \/ window'[u].state = window[u].state
                \/ window[u].state \in Agg!Open /\ window'[u].state = "timeout"
        /\ u \notin DOMAIN window =>
             /\ window'[u].hash = Agg!NewSlot.hash
             /\ window'[u].state \in {"pending", "timeout"}
  BY SealedSlots DEF IInv
<1>3. ReportInv'
  <2>1. ASSUME NEW p \in Players, NEW i \in DOMAIN acks[p],
               acks[p][i].tick \in DOMAIN window'
        PROVE  window'[acks[p][i].tick].hash[p] = NoHash
    <3>1. CASE acks[p][i].tick \in DOMAIN window
      BY <1>2, <2>1, <3>1 DEF IInv, ReportInv
    <3>2. CASE acks[p][i].tick \notin DOMAIN window
      BY <1>2, <2>1, <3>2, NewSlotFacts
    <3> QED
      BY <3>1, <3>2
  <2>2. \A p \in Players : \A u : WorldAt(p, u)' = SubSeq(world[p], 1, u)
    BY <1>1 DEF WorldAt
  <2> QED
    BY <1>1, <2>1 DEF IInv, ReportInv, WorldAt
<1>4. WindowInv'
  <2> SUFFICES ASSUME NEW u \in DOMAIN window'
               PROVE  /\ \A p \in Players : window'[u].hash[p] # NoHash =>
                           /\ u <= Len(world[p])
                           /\ window'[u].hash[p] = SubSeq(world[p], 1, u)
                      /\ window'[u].state = "match" <=>
                           /\ Agg!AllReported(window'[u].hash)
                           /\ Agg!Agree(window'[u].hash)
                      /\ window'[u].state = "desync" <=>
                           /\ Agg!AllReported(window'[u].hash)
                           /\ ~Agg!Agree(window'[u].hash)
    BY <1>1, <1>2 DEF WindowInv, WorldAt
  <2>1. CASE u \in DOMAIN window
    <3>1. /\ \A p \in Players : window[u].hash[p] # NoHash =>
               u <= Len(world[p]) /\ window[u].hash[p] = SubSeq(world[p], 1, u)
          /\ window[u].state = "match" <=>
               Agg!AllReported(window[u].hash) /\ Agg!Agree(window[u].hash)
          /\ window[u].state = "desync" <=>
               Agg!AllReported(window[u].hash) /\ ~Agg!Agree(window[u].hash)
      BY <2>1 DEF IInv, WindowInv, WorldAt
    <3>2. window'[u].hash = window[u].hash
      BY <1>2, <2>1
    <3>3. CASE window'[u].state = window[u].state
      BY <3>1, <3>2, <3>3
    <3>4. CASE window[u].state \in Agg!Open /\ window'[u].state = "timeout"
      <4>1. ~Agg!AllReported(window[u].hash)
        BY <3>1, <3>4 DEF Agg!Open
      <4> QED
        BY <3>1, <3>2, <3>4, <4>1
    <3> QED
      BY <1>2, <2>1, <3>3, <3>4
  <2>2. CASE u \notin DOMAIN window
    BY <1>2, <2>2, NewSlotFacts
  <2> QED
    BY <2>1, <2>2
<1> QED
  BY <1>3, <1>4

\* The reports of a player after the first was taken off.
LEMMA NextAck ==
  ASSUME IInv, NEW p \in Players, acks[p] # <<>>,
         acks' = [acks EXCEPT ![p] = Tail(@)]
  PROVE  /\ Head(acks[p]) = acks[p][1] /\ 1 \in DOMAIN acks[p]
         /\ acks[p][1].tick \in 1..MaxTick /\ acks[p][1].hash \in Hashes
         /\ \A q \in Players : acks'[q] \in Seq([tick : 1..MaxTick, hash : Hashes])
         /\ \A q \in Players : q # p => acks'[q] = acks[q]
         /\ \A i \in DOMAIN acks'[p] :
              /\ i + 1 \in DOMAIN acks[p] /\ acks'[p][i] = acks[p][i + 1]
              /\ acks'[p][i].tick > acks[p][1].tick
              /\ acks'[p][i].tick # acks[p][1].tick
         /\ Rising(acks'[p])
<1> DEFINE Ack == [tick : 1..MaxTick, hash : Hashes]
<1>0. MaxTick \in Nat
  BY PlayerFacts DEF IInv, LogInv
<1>1. \A q \in Players : acks[q] \in Seq(Ack)
  BY DEF IInv, ReportInv
<1>2. acks'[p] = Tail(acks[p]) /\ \A q \in Players : q # p => acks'[q] = acks[q]
  <2>1. p \in DOMAIN acks
    BY DEF IInv, ReportInv
  <2> QED
    BY <2>1
<1> HIDE DEF Ack
<1>3. /\ Head(acks[p]) = acks[p][1] /\ 1 \in DOMAIN acks[p]
      /\ acks[p][1] \in Ack /\ Tail(acks[p]) \in Seq(Ack)
      /\ \A i \in DOMAIN Tail(acks[p]) :
           i + 1 \in DOMAIN acks[p] /\ Tail(acks[p])[i] = acks[p][i + 1]
  BY <1>1, TailFacts
<1>4. /\ DOMAIN acks[p] \subseteq Nat /\ DOMAIN acks'[p] \subseteq Nat \ {0}
      /\ \A i \in DOMAIN acks[p] : acks[p][i] \in Ack
  BY <1>1, <1>2, <1>3
<1>5. \A i, j \in DOMAIN acks[p] : i < j => acks[p][i].tick < acks[p][j].tick
  BY DEF IInv, ReportInv, Rising
<1>6. \A i \in DOMAIN acks[p] : acks[p][i].tick \in 1..MaxTick /\ acks[p][i].hash \in Hashes
  BY <1>4 DEF Ack
<1>7. ASSUME NEW i \in DOMAIN acks'[p]
      PROVE  /\ i + 1 \in DOMAIN acks[p] /\ acks'[p][i] = acks[p][i + 1]
             /\ acks'[p][i].tick > acks[p][1].tick
             /\ acks'[p][i].tick # acks[p][1].tick
  <2>1. i + 1 \in DOMAIN acks[p] /\ acks'[p][i] = acks[p][i + 1]
    BY <1>2, <1>3
  <2>2. i \in Nat \ {0} /\ 1 < i + 1
    BY <1>4
  <2>3. acks[p][1].tick < acks[p][i + 1].tick
    BY <1>3, <1>5, <2>1, <2>2
  <2>4. acks[p][1].tick \in Nat /\ acks[p][i + 1].tick \in Nat
    BY <1>0, <1>3, <1>6, <2>1
  <2> QED
    BY <2>1, <2>3, <2>4
<1>8. ASSUME NEW i \in DOMAIN acks'[p], NEW j \in DOMAIN acks'[p], i < j
      PROVE  acks'[p][i].tick < acks'[p][j].tick
  <2>1. i + 1 < j + 1
    BY <1>4, <1>8
  <2> QED
    BY <1>5, <1>7, <2>1
<1>9. \A q \in Players : acks'[q] \in Seq(Ack)
  BY <1>1, <1>2, <1>3
<1> QED
  BY <1>2, <1>3, <1>6, <1>7, <1>8, <1>9 DEF Ack, Rising

\* The reports after one was taken off: those that are left speak of later
\* ticks, so a change of the slot of the first leaves them unreported.
LEMMA ReportsLeft ==
  ASSUME IInv, NEW p \in Players, acks[p] # <<>>,
         acks' = [acks EXCEPT ![p] = Tail(@)],
         UNCHANGED <<log, world>>, DOMAIN window' = DOMAIN window,
         \A u \in DOMAIN window : \A q \in Players :
           u # acks[p][1].tick \/ q # p => window'[u].hash[q] = window[u].hash[q]
  PROVE  ReportInv'
<1>1. /\ \A q \in Players : acks'[q] \in Seq([tick : 1..MaxTick, hash : Hashes])
      /\ \A q \in Players : q # p => acks'[q] = acks[q]
      /\ acks[p][1].tick \in 1..MaxTick
      /\ \A i \in DOMAIN acks'[p] :
           /\ i + 1 \in DOMAIN acks[p] /\ acks'[p][i] = acks[p][i + 1]
           /\ acks'[p][i].tick # acks[p][1].tick
      /\ Rising(acks'[p])
  BY NextAck
<1>2. \A q \in Players : \A i \in DOMAIN acks[q] :
        /\ acks[q][i].tick <= Len(world[q])
        /\ acks[q][i].hash = SubSeq(world[q], 1, acks[q][i].tick)
        /\ acks[q][i].tick \in DOMAIN window => window[acks[q][i].tick].hash[q] = NoHash
  BY DEF IInv, ReportInv, WorldAt
<1>3. \A q \in Players : Rising(acks[q])
  BY DEF IInv, ReportInv
<1>4. ASSUME NEW q \in Players, NEW i \in DOMAIN acks'[q]
      PROVE  /\ acks'[q][i].tick <= Len(world[q])
             /\ acks'[q][i].hash = SubSeq(world[q], 1, acks'[q][i].tick)
             /\ acks'[q][i].tick \in DOMAIN window =>
                  window'[acks'[q][i].tick].hash[q] = NoHash
  <2>1. CASE q = p
    <3>1. /\ i + 1 \in DOMAIN acks[p] /\ acks'[p][i] = acks[p][i + 1]
          /\ acks'[p][i].tick # acks[p][1].tick
      BY <1>1, <2>1
    <3>2. /\ acks[p][i + 1].tick <= Len(world[p])
          /\ acks[p][i + 1].hash = SubSeq(world[p], 1, acks[p][i + 1].tick)
          /\ acks[p][i + 1].tick \in DOMAIN window =>
               window[acks[p][i + 1].tick].hash[p] = NoHash
      BY <1>2, <3>1
    <3> QED
      BY <2>1, <3>1, <3>2
  <2>2. CASE q # p
    <3>1. i \in DOMAIN acks[q] /\ acks'[q][i] = acks[q][i]
      BY <1>1, <2>2
    <3>2. /\ acks[q][i].tick <= Len(world[q])
          /\ acks[q][i].hash = SubSeq(world[q], 1, acks[q][i].tick)
          /\ acks[q][i].tick \in DOMAIN window =>
               window[acks[q][i].tick].hash[q] = NoHash
      BY <1>2, <3>1
    <3> QED
      BY <2>2, <3>1, <3>2
  <2> QED
    BY <2>1, <2>2
<1>5. ASSUME NEW q \in Players PROVE Rising(acks'[q])
  BY <1>1, <1>3
<1>6. acks' \in [Players -> Seq([tick : 1..MaxTick, hash : Hashes])]
  BY <1>1 DEF IInv, ReportInv
<1> QED
  BY <1>4, <1>5, <1>6 DEF ReportInv, WorldAt

\* A report handled.
LEMMA VerdictReport ==
  ASSUME IInv, LogInv', NEW p \in Players, HandleHashAck(p)
  PROVE  ReportInv' /\ WindowInv'
<1> DEFINE t == acks[p][1].tick
           h == acks[p][1].hash
<1>1. /\ acks[p] # <<>> /\ acks' = [acks EXCEPT ![p] = Tail(@)]
      /\ UNCHANGED <<log, world>>
  BY DEF HandleHashAck
<1>2. Head(acks[p]) = acks[p][1] /\ 1 \in DOMAIN acks[p] /\ h \in Hashes
  BY <1>1, NextAck
<1>3. window' = Agg!Reported(window, t, p, h)
  BY <1>2 DEF HandleHashAck
<1>4. t <= Len(world[p]) /\ h = SubSeq(world[p], 1, t)
  BY <1>2 DEF IInv, ReportInv, WorldAt
<1> HIDE DEF t, h
<1>5. /\ DOMAIN window' = DOMAIN window
      /\ \A u \in DOMAIN window : u # t => window'[u] = window[u]
      /\ t \in DOMAIN window =>
           /\ window'[t] \in Agg!Slot
           /\ window'[t].state = Agg!Verdict(window'[t].hash)
           /\ window'[t].hash[p] = h
           /\ \A q \in Players : q # p => window'[t].hash[q] = window[t].hash[q]
  BY <1>2, <1>3, ReportedSlots DEF IInv
<1>6. ReportInv'
  <2>1. \A u \in DOMAIN window : \A q \in Players :
          u # t \/ q # p => window'[u].hash[q] = window[u].hash[q]
    BY <1>5
  <2> QED
    BY <1>1, <1>5, <2>1, ReportsLeft DEF t
<1>7. WindowInv'
  <2>1. ASSUME NEW u \in DOMAIN window, u # t
        PROVE  /\ window'[u] = window[u] /\ window[u] \in Agg!Slot
               /\ \A q \in Players : window[u].hash[q] # NoHash =>
                    u <= Len(world[q]) /\ window[u].hash[q] = SubSeq(world[q], 1, u)
               /\ window[u].state = "match" <=>
                    Agg!AllReported(window[u].hash) /\ Agg!Agree(window[u].hash)
               /\ window[u].state = "desync" <=>
                    Agg!AllReported(window[u].hash) /\ ~Agg!Agree(window[u].hash)
    BY <1>5, <2>1 DEF IInv, WindowInv, WorldAt
  <2>2. ASSUME t \in DOMAIN window
        PROVE  /\ window'[t] \in Agg!Slot
               /\ \A q \in Players : window'[t].hash[q] # NoHash =>
                    t <= Len(world[q]) /\ window'[t].hash[q] = SubSeq(world[q], 1, t)
               /\ window'[t].state = "match" <=>
                    Agg!AllReported(window'[t].hash) /\ Agg!Agree(window'[t].hash)
               /\ window'[t].state = "desync" <=>
                    Agg!AllReported(window'[t].hash) /\ ~Agg!Agree(window'[t].hash)
    <3>1. ASSUME NEW q \in Players, window'[t].hash[q] # NoHash
          PROVE  t <= Len(world[q]) /\ window'[t].hash[q] = SubSeq(world[q], 1, t)
      <4>1. CASE q = p
        BY <1>4, <1>5, <2>2, <4>1
      <4>2. CASE q # p
        <5>1. window'[t].hash[q] = window[t].hash[q]
          BY <1>5, <2>2, <4>2
        <5> QED
          BY <2>2, <3>1, <5>1 DEF IInv, WindowInv, WorldAt
      <4> QED
        BY <4>1, <4>2
    <3> QED
      BY <1>5, <2>2, <3>1 DEF Agg!Verdict
  <2>3. DOMAIN window \subseteq 1..Len(log)
    BY DEF IInv, WindowInv
  <2>4. ASSUME NEW u \in DOMAIN window
        PROVE  /\ window'[u] \in Agg!Slot
               /\ \A q \in Players : window'[u].hash[q] # NoHash =>
                    u <= Len(world[q]) /\ window'[u].hash[q] = SubSeq(world[q], 1, u)
               /\ window'[u].state = "match" <=>
                    Agg!AllReported(window'[u].hash) /\ Agg!Agree(window'[u].hash)
               /\ window'[u].state = "desync" <=>
                    Agg!AllReported(window'[u].hash) /\ ~Agg!Agree(window'[u].hash)
    BY <2>1, <2>2
  <2> QED
    BY <1>1, <1>5, <2>3, <2>4 DEF WindowInv, WorldAt
<1> QED
  BY <1>6, <1>7

\* A report for a later tick keeps the order.
LEMMA RisingAppend ==
  ASSUME NEW S, NEW s \in Seq(S), NEW a \in S, Rising(s),
         \A i \in DOMAIN s : s[i].tick < a.tick
  PROVE  Rising(Append(s, a))
<1>1. /\ Len(s) \in Nat /\ Len(Append(s, a)) = Len(s) + 1
      /\ DOMAIN s = 1..Len(s) /\ DOMAIN Append(s, a) = 1..(Len(s) + 1)
      /\ \A i \in 1..Len(s) : Append(s, a)[i] = s[i]
      /\ Append(s, a)[Len(s) + 1] = a
  BY AppendProperties, LenProperties
<1> DEFINE r == Append(s, a)
<1> HIDE DEF r
<1>2. ASSUME NEW i \in DOMAIN r, NEW j \in DOMAIN r, i < j
      PROVE  r[i].tick < r[j].tick
  <2>1. i \in DOMAIN s /\ r[i] = s[i]
    BY <1>1, <1>2 DEF r
  <2>2. CASE j = Len(s) + 1
    BY <1>1, <2>1, <2>2 DEF r
  <2>3. CASE j # Len(s) + 1
    <3>1. j \in DOMAIN s /\ r[j] = s[j]
      BY <1>1, <2>3 DEF r
    <3> QED
      BY <1>2, <2>1, <3>1 DEF Rising
  <2> QED
    BY <2>2, <2>3
<1> QED
  BY <1>2 DEF Rising, r

\* A frame executed and its hash reported.
LEMMA VerdictOnFrame ==
  ASSUME IInv, LogInv', NEW p \in Players, OnFrame(p)
  PROVE  ReportInv'
<1> DEFINE t == Head(frames[p])
           a == [tick |-> t, hash |-> world'[p]]
<1>1. /\ acks' = [acks EXCEPT ![p] = Append(@, a)] /\ UNCHANGED window
  BY DEF OnFrame
<1>2. /\ t \in 1..MaxTick /\ Len(world'[p]) = t /\ world'[p] \in Hashes
      /\ world'[p] = SubSeq(world'[p], 1, t)
  BY HashAfterFrame DEF IInv
<1>3. Len(world[p]) \in Nat /\ Len(world[p]) < t
  <2>1. Len(world[p]) < t
    BY FrameFacts, Zenon DEF IInv
  <2> QED
    BY <2>1, PlayerFacts DEF IInv, LogInv
<1> HIDE DEF t
<1>4. a \in [tick : 1..MaxTick, hash : Hashes] /\ a.tick = t /\ a.hash = world'[p]
  BY <1>2
<1> HIDE DEF a
<1>5. /\ acks'[p] = Append(acks[p], a)
      /\ \A q \in Players : q # p => acks'[q] = acks[q]
      /\ acks[p] \in Seq([tick : 1..MaxTick, hash : Hashes])
      /\ Len(acks[p]) \in Nat
  <2>1. acks \in [Players -> Seq([tick : 1..MaxTick, hash : Hashes])]
    BY DEF IInv, ReportInv
  <2>2. acks[p] \in Seq([tick : 1..MaxTick, hash : Hashes])
    BY <2>1
  <2>3. Len(acks[p]) \in Nat
    BY <2>2, LenProperties
  <2>4. /\ acks'[p] = Append(acks[p], a)
        /\ \A q \in Players : q # p => acks'[q] = acks[q]
    BY <1>1, <2>1, Zenon
  <2> QED
    BY <2>2, <2>3, <2>4
<1>6. /\ acks'[p] \in Seq([tick : 1..MaxTick, hash : Hashes])
      /\ DOMAIN acks'[p] = 1..(Len(acks[p]) + 1) /\ DOMAIN acks[p] = 1..Len(acks[p])
      /\ \A i \in 1..Len(acks[p]) : acks'[p][i] = acks[p][i]
      /\ acks'[p][Len(acks[p]) + 1] = a
  BY <1>4, <1>5, AppendProperties
<1>7. \A q \in Players :
        /\ Len(world[q]) \in Nat /\ Len(world'[q]) \in Nat
        /\ Len(world[q]) <= Len(world'[q])
        /\ \A u \in 0..Len(world[q]) : SubSeq(world'[q], 1, u) = SubSeq(world[q], 1, u)
  <2>1. [Next]_vars
    BY DEF Next
  <2> QED
    BY <2>1, WorldKept DEF IInv, WorldAt
<1>8. ASSUME NEW q \in Players, NEW i \in DOMAIN acks[q]
      PROVE  /\ acks[q][i].tick \in 1..Len(world[q])
             /\ acks[q][i].hash = SubSeq(world[q], 1, acks[q][i].tick)
             /\ acks[q][i].tick \in DOMAIN window =>
                  window[acks[q][i].tick].hash[q] = NoHash
  <2>0. acks[q][i] \in [tick : 1..MaxTick, hash : Hashes]
    <3>1. acks[q] \in Seq([tick : 1..MaxTick, hash : Hashes])
      BY DEF IInv, ReportInv
    <3>2. i \in 1..Len(acks[q])
      BY <3>1, LenProperties
    <3> QED
      BY <3>1, <3>2, ElementOfSeq
  <2>1. /\ acks[q][i].tick \in 1..MaxTick
        /\ acks[q][i].tick <= Len(world[q])
        /\ acks[q][i].hash = SubSeq(world[q], 1, acks[q][i].tick)
        /\ acks[q][i].tick \in DOMAIN window => window[acks[q][i].tick].hash[q] = NoHash
    BY <2>0 DEF IInv, ReportInv, WorldAt
  <2>2. MaxTick \in Nat
    BY PlayerFacts DEF IInv, LogInv
  <2> QED
    BY <1>7, <2>1, <2>2
<1>9. \A q \in Players : \A i \in DOMAIN acks[q] :
        /\ acks[q][i].tick <= Len(world'[q])
        /\ acks[q][i].hash = SubSeq(world'[q], 1, acks[q][i].tick)
        /\ acks[q][i].tick \in DOMAIN window => window[acks[q][i].tick].hash[q] = NoHash
  BY <1>7, <1>8
<1>10. t \in DOMAIN window => window[t].hash[p] = NoHash
  <2>1. ASSUME t \in DOMAIN window, window[t].hash[p] # NoHash PROVE t <= Len(world[p])
    BY <2>1 DEF IInv, WindowInv
  <2> QED
    BY <1>2, <1>3, <2>1
<1>11. ASSUME NEW q \in Players, NEW i \in DOMAIN acks'[q]
       PROVE  /\ acks'[q][i].tick <= Len(world'[q])
              /\ acks'[q][i].hash = SubSeq(world'[q], 1, acks'[q][i].tick)
              /\ acks'[q][i].tick \in DOMAIN window =>
                   window[acks'[q][i].tick].hash[q] = NoHash
  <2>1. CASE q = p /\ i = Len(acks[p]) + 1
    BY <1>2, <1>4, <1>6, <1>10, <2>1
  <2>2. CASE ~(q = p /\ i = Len(acks[p]) + 1)
    <3>1. i \in DOMAIN acks[q] /\ acks'[q][i] = acks[q][i]
      BY <1>5, <1>6, <2>2
    <3> QED
      BY <1>9, <3>1
  <2> QED
    BY <2>1, <2>2
<1>12. ASSUME NEW q \in Players PROVE Rising(acks'[q])
  <2>0. Rising(acks[q])
    BY DEF IInv, ReportInv
  <2>1. CASE q # p
    <3>1. acks'[q] = acks[q]
      BY <1>5, <2>1
    <3> QED
      BY <2>0, <3>1
  <2>2. CASE q = p
    <3>1. ASSUME NEW i \in DOMAIN acks[p] PROVE acks[p][i].tick < t
      <4>1. acks[p][i].tick \in 1..Len(world[p])
        BY <1>8
      <4> QED
        BY <1>2, <1>3, <4>1
    <3>2. Rising(Append(acks[p], a))
      BY <1>4, <1>5, <2>0, <2>2, <3>1, RisingAppend
    <3> QED
      BY <1>5, <2>2, <3>2
  <2> QED
    BY <2>1, <2>2
<1>13. acks' \in [Players -> Seq([tick : 1..MaxTick, hash : Hashes])]
  <2>1. \A q \in Players : acks'[q] \in Seq([tick : 1..MaxTick, hash : Hashes])
    BY <1>5, <1>6 DEF IInv, ReportInv
  <2> QED
    BY <1>1, <2>1 DEF IInv, ReportInv
<1> QED
  BY <1>1, <1>11, <1>12, <1>13 DEF ReportInv, WorldAt

\* Steps that change neither the reports nor the window nor any world.
LEMMA ReportKept ==
  ASSUME IInv, UNCHANGED <<world, acks, window>>
  PROVE  ReportInv'
<1>1. world' = world /\ acks' = acks /\ window' = window /\ ReportInv
  BY DEF IInv
<1> QED
  BY <1>1, Zenon DEF ReportInv, WorldAt

\* Every step preserves the invariant.
LEMMA InvStep == IInv /\ [Next]_vars => IInv'
<1> SUFFICES ASSUME IInv, [Next]_vars PROVE ReportInv' /\ WindowInv'
  BY LogStep DEF IInv
<1>0. LogInv'
  BY LogStep DEF IInv
<1>1. ASSUME NEW c \in Frame, SealTick(c) PROVE ReportInv' /\ WindowInv'
  BY <1>0, <1>1, VerdictSeal
<1>2. ASSUME NEW p \in Players, HandleHashAck(p) PROVE ReportInv' /\ WindowInv'
  BY <1>0, <1>2, VerdictReport
<1>3. ASSUME NEW p \in Players, OnFrame(p) PROVE ReportInv' /\ WindowInv'
  <2>1. UNCHANGED <<log, window>>
    BY <1>3 DEF OnFrame
  <2> QED
    BY <1>0, <1>3, <2>1, VerdictOnFrame, WindowKept
<1>4. ASSUME NEW p \in Players, LoseHashAck(p) PROVE ReportInv' /\ WindowInv'
  <2>1. /\ acks[p] # <<>> /\ acks' = [acks EXCEPT ![p] = Tail(@)]
        /\ UNCHANGED <<log, world, window>>
    BY <1>4 DEF LoseHashAck
  <2>2. ReportInv'
    BY <2>1, ReportsLeft
  <2> QED
    BY <1>0, <2>1, <2>2, WindowKept
<1>5. CASE UNCHANGED <<log, world, acks, window>>
  BY <1>0, <1>5, ReportKept, WindowKept
<1>6. ASSUME NEW p \in Players, Join(p) \/ LoseFrame(p)
      PROVE  ReportInv' /\ WindowInv'
  BY <1>5, <1>6 DEF Join, LoseFrame
<1> QED
  BY <1>1, <1>2, <1>3, <1>4, <1>5, <1>6 DEF Next, vars

\* Together: the invariant holds in every reachable state.
LEMMA Invariance == Spec => []IInv
  BY InvInit, InvStep, PTL DEF Spec

\* Clients that missed no commands have executed the log.
LEMMA NothingMissed ==
  ASSUME IInv, NEW u \in Nat, NEW p \in Players, u <= Len(world[p]),
         \A t \in lost[p] \cap 1..u : log[t] = NoCmds
  PROVE  \A t \in 1..u : world[p][t] = log[t]
<1>1. DOMAIN world[p] = 1..Len(world[p]) /\ Len(world[p]) \in Nat
  BY PlayerFacts DEF IInv, LogInv
<1> QED
  BY <1>1 DEF IInv, LogInv, ExecutesLog

\* A match means equal worlds, a desync that a client missed commands.
THEOREM VerdictCorrect == Spec => []VerdictSound
<1>1. IInv => VerdictSound
  <2> SUFFICES ASSUME IInv, NEW u \in DOMAIN window
               PROVE  /\ window[u].state = "match" =>
                           \A p, q \in Players :
                             u <= Len(world[p]) /\ WorldAt(p, u) = WorldAt(q, u)
                      /\ window[u].state = "desync" =>
                           \E p \in Players : \E t \in lost[p] \cap 1..u : log[t] # NoCmds
    BY DEF VerdictSound
  <2>0. u \in Nat
    BY DEF IInv, WindowInv, LogInv, TypeOK
  <2>1. ASSUME Agg!AllReported(window[u].hash), NEW p \in Players
        PROVE  u <= Len(world[p]) /\ window[u].hash[p] = WorldAt(p, u)
    BY <2>1 DEF IInv, WindowInv, Agg!AllReported
  <2>2. ASSUME window[u].state = "match", NEW p \in Players, NEW q \in Players
        PROVE  u <= Len(world[p]) /\ WorldAt(p, u) = WorldAt(q, u)
    <3>1. Agg!AllReported(window[u].hash) /\ Agg!Agree(window[u].hash)
      BY <2>2 DEF IInv, WindowInv
    <3> QED
      BY <2>1, <3>1 DEF Agg!Agree
  <2>3. ASSUME window[u].state = "desync",
               \A p \in Players : \A t \in lost[p] \cap 1..u : log[t] = NoCmds
        PROVE  FALSE
    <3>1. Agg!AllReported(window[u].hash) /\ ~Agg!Agree(window[u].hash)
      BY <2>3 DEF IInv, WindowInv
    <3>2. PICK p \in Players, q \in Players : window[u].hash[p] # window[u].hash[q]
      BY <3>1 DEF Agg!Agree
    <3>3. /\ u <= Len(world[p]) /\ u <= Len(world[q])
          /\ WorldAt(p, u) # WorldAt(q, u)
      BY <2>1, <3>1, <3>2
    <3>4. u \in 0..Len(world[p]) /\ u \in 0..Len(world[q])
      BY <2>0, <3>3, PlayerFacts DEF IInv, LogInv
    <3>5. /\ WorldAt(p, u) \in Seq(Frame) /\ Len(WorldAt(p, u)) = u
          /\ WorldAt(q, u) \in Seq(Frame) /\ Len(WorldAt(q, u)) = u
          /\ \A i \in 1..u : WorldAt(p, u)[i] = world[p][i]
          /\ \A i \in 1..u : WorldAt(q, u)[i] = world[q][i]
      BY <3>4, WorldAtFacts DEF IInv, LogInv
    <3>6. \A i \in 1..u : world[p][i] = log[i] /\ world[q][i] = log[i]
      BY <2>0, <2>3, <3>3, NothingMissed
    <3>7. \A i \in 1..u : WorldAt(p, u)[i] = WorldAt(q, u)[i]
      BY <3>5, <3>6
    <3> QED
      BY <3>3, <3>5, <3>7, SeqEqual
  <2> QED
    BY <2>2, <2>3
<1> QED
  BY Invariance, <1>1, PTL

\* A match and a desync are never taken back.
THEOREM FinalCorrect == Spec => VerdictFinal
<1>1. IInv /\ [Next]_vars =>
        [\A u \in DOMAIN window \cap DOMAIN window' :
           window[u].state \in {"match", "desync"} =>
             window'[u].state = window[u].state]_vars
  <2> SUFFICES ASSUME IInv, [Next]_vars,
                      NEW u \in DOMAIN window, u \in DOMAIN window',
                      window[u].state \in {"match", "desync"}
               PROVE  window'[u].state = window[u].state
    OBVIOUS
  <2>1. ASSUME NEW c \in Frame, SealTick(c) PROVE window'[u].state = window[u].state
    <3>1. \/ window'[u].state = window[u].state
          \/ window[u].state \in Agg!Open /\ window'[u].state = "timeout"
      BY <2>1, SealedSlots DEF IInv
    <3> QED
      BY <3>1 DEF Agg!Open
  <2>2. ASSUME NEW p \in Players, HandleHashAck(p)
        PROVE  window'[u].state = window[u].state
    <3>1. /\ Head(acks[p]) = acks[p][1] /\ 1 \in DOMAIN acks[p]
          /\ acks[p][1].hash \in Hashes
      BY <2>2, NextAck DEF HandleHashAck
    <3>2. window' = Agg!Reported(window, acks[p][1].tick, p, acks[p][1].hash)
      BY <2>2, <3>1 DEF HandleHashAck
    <3>3. u # acks[p][1].tick
      <4>1. Agg!AllReported(window[u].hash)
        BY DEF IInv, WindowInv
      <4>2. u = acks[p][1].tick => window[u].hash[p] = NoHash
        BY <3>1 DEF IInv, ReportInv
      <4> QED
        BY <4>1, <4>2 DEF Agg!AllReported
    <3>4. window'[u] = window[u]
      BY <3>2, <3>3 DEF Agg!Reported
    <3> QED
      BY <3>4
  <2>3. CASE UNCHANGED window
    BY <2>3
  <2>4. ASSUME NEW p \in Players,
               Join(p) \/ OnFrame(p) \/ LoseFrame(p) \/ LoseHashAck(p)
        PROVE  UNCHANGED window
    BY <2>4 DEF Join, OnFrame, LoseFrame, LoseHashAck
  <2> QED
    BY <2>1, <2>2, <2>3, <2>4 DEF Next, vars
<1> QED
  BY Invariance, <1>1, PTL DEF Spec, VerdictFinal
=============================================================================
