--------------------------- MODULE HashAggProofs ---------------------------
(***************************************************************************)
(* Proofs about HashAgg, for every number of players, hashes and ticks and *)
(* every size of window.                                                   *)
(***************************************************************************)
EXTENDS HashAgg, TLAPS

IInv == TypeOK /\ WindowExact /\ VerdictExact

\* A fresh slot is well formed and has no verdict.
LEMMA NewSlotFacts ==
  /\ NewSlot \in Slot /\ NewSlot.state = "pending"
  /\ ~AllReported(NewSlot.hash)
  BY HashAggAssumption DEF NewSlot, Slot, State, AllReported, HashAggAssumption

\* The sealed window, slot by slot.
LEMMA SealedSlots ==
  ASSUME SealTick, TypeOK
  PROVE  /\ tick' = tick + 1 /\ tick' \in 1..MaxTick
         /\ DOMAIN window' = {v \in DOMAIN window \cup {tick'} : v + WindowSize >= tick'}
         /\ \A u \in DOMAIN window' :
              LET s == IF u = tick' THEN NewSlot ELSE window[u] IN
              window'[u] = IF s.state \in Open /\ tick' - u > MaxAge
                           THEN [s EXCEPT !.state = "timeout"] ELSE s
  BY HashAggAssumption DEF SealTick, TypeOK, TimedOut, Created, HashAggAssumption

\* The invariant holds initially.
LEMMA InvInit == Init => IInv
  BY HashAggAssumption DEF Init, IInv, TypeOK, WindowExact, VerdictExact, HashAggAssumption

\* Every step preserves it.
LEMMA InvStep == IInv /\ [Next]_aggVars => IInv'
<1> SUFFICES ASSUME IInv, [Next]_aggVars PROVE IInv'
  OBVIOUS
<1> USE HashAggAssumption DEF HashAggAssumption
<1>1. CASE SealTick
  <2>1. /\ tick' = tick + 1 /\ tick' \in 1..MaxTick /\ tick \in Nat
        /\ DOMAIN window' = {v \in DOMAIN window \cup {tick'} : v + WindowSize >= tick'}
    BY <1>1, SealedSlots DEF IInv, TypeOK
  <2>2. WindowExact'
    BY <2>1 DEF IInv, WindowExact
  <2>3. ASSUME NEW u \in DOMAIN window'
        PROVE  /\ window'[u] \in Slot
               /\ window'[u].state = "match" <=>
                    AllReported(window'[u].hash) /\ Agree(window'[u].hash)
               /\ window'[u].state = "desync" <=>
                    AllReported(window'[u].hash) /\ ~Agree(window'[u].hash)
    <3> DEFINE s == IF u = tick' THEN NewSlot ELSE window[u]
    <3>1. /\ s \in Slot
          /\ s.state = "match" <=> AllReported(s.hash) /\ Agree(s.hash)
          /\ s.state = "desync" <=> AllReported(s.hash) /\ ~Agree(s.hash)
      <4>1. CASE u = tick'
        BY <4>1, NewSlotFacts
      <4>2. CASE u # tick'
        BY <2>1, <4>2 DEF IInv, TypeOK, VerdictExact
      <4> QED
        BY <4>1, <4>2
    <3>2. window'[u] = IF s.state \in Open /\ tick' - u > MaxAge
                       THEN [s EXCEPT !.state = "timeout"] ELSE s
      BY <1>1, SealedSlots DEF IInv
    <3> HIDE DEF s
    <3>3. CASE s.state \in Open /\ tick' - u > MaxAge
      <4>1. /\ window'[u] \in Slot
            /\ window'[u].hash = s.hash /\ window'[u].state = "timeout"
        BY <3>1, <3>2, <3>3 DEF Slot, State
      <4>2. ~AllReported(s.hash)
        BY <3>1, <3>3 DEF Open
      <4> QED
        BY <4>1, <4>2
    <3>4. CASE ~(s.state \in Open /\ tick' - u > MaxAge)
      BY <3>1, <3>2, <3>4
    <3> QED
      BY <3>3, <3>4
  <2> QED
    BY <2>1, <2>2, <2>3 DEF IInv, TypeOK, VerdictExact
<1>2. ASSUME NEW t \in 0..MaxTick, NEW p \in Players, NEW h \in Hashes, Report(t, p, h)
      PROVE  IInv'
  <2>1. /\ tick' = tick /\ DOMAIN window' = DOMAIN window
        /\ \A u \in DOMAIN window : u # t => window'[u] = window[u]
    BY <1>2 DEF Report, Reported
  <2>2. ASSUME t \in DOMAIN window
        PROVE  /\ window'[t] \in Slot
               /\ window'[t].state = Verdict(window'[t].hash)
    <3> DEFINE new == [window[t].hash EXCEPT ![p] = h]
    <3>1. window'[t] = [hash |-> new, state |-> Verdict(new)]
      BY <1>2, <2>2 DEF Report, Reported
    <3>2. new \in [Players -> Hashes \cup {NoHash}]
      BY <2>2 DEF IInv, TypeOK, Slot
    <3>3. Verdict(new) \in State
      BY DEF Verdict, State
    <3> QED
      BY <3>1, <3>2, <3>3 DEF Slot
  <2>3. VerdictExact'
    BY <2>1, <2>2 DEF IInv, VerdictExact, Verdict
  <2> QED
    BY <2>1, <2>2, <2>3 DEF IInv, TypeOK, WindowExact
<1>3. CASE UNCHANGED aggVars
  BY <1>3 DEF aggVars, IInv, TypeOK, WindowExact, VerdictExact
<1> QED
  BY <1>1, <1>2, <1>3 DEF Next

\* Together: the invariant holds in every reachable state.
LEMMA Invariance == Spec => []IInv
  BY InvInit, InvStep, PTL DEF Spec

\* The variables keep their types.
THEOREM TypeCorrect == Spec => []TypeOK
<1>1. IInv => TypeOK
  BY DEF IInv
<1> QED
  BY Invariance, <1>1, PTL

\* The window holds exactly the current tick and the WindowSize before it.
THEOREM WindowCorrect == Spec => []WindowExact
<1>1. IInv => WindowExact
  BY DEF IInv
<1> QED
  BY Invariance, <1>1, PTL

\* A tick in the window is judged exactly when all its hashes are in, and as
\* they deserve.
THEOREM VerdictCorrect == Spec => []VerdictExact
<1>1. IInv => VerdictExact
  BY DEF IInv
<1> QED
  BY Invariance, <1>1, PTL

\* Sealing a tick leaves no tick open that is older than MaxAge.
THEOREM TimeoutsCorrect == Spec => TimeoutsFire
<1>1. IInv /\ [Next]_aggVars =>
        [tick' # tick =>
           \A u \in DOMAIN window' : window'[u].state \in Open => tick' - u <= MaxAge]_aggVars
  <2> SUFFICES ASSUME IInv, [Next]_aggVars, tick' # tick,
                      NEW u \in DOMAIN window', window'[u].state \in Open
               PROVE  tick' - u <= MaxAge
    OBVIOUS
  <2>1. SealTick
    BY DEF Next, Report, aggVars
  <2> DEFINE s == IF u = tick' THEN NewSlot ELSE window[u]
  <2>2. /\ window'[u] = IF s.state \in Open /\ tick' - u > MaxAge
                        THEN [s EXCEPT !.state = "timeout"] ELSE s
        /\ tick' \in Nat /\ u \in Nat
    BY <2>1, SealedSlots DEF IInv, TypeOK
  <2>3. s \in Slot
    BY <2>1, SealedSlots, NewSlotFacts DEF IInv, TypeOK
  <2> HIDE DEF s
  <2>4. CASE s.state \in Open /\ tick' - u > MaxAge
    <3>1. window'[u].state = "timeout"
      BY <2>2, <2>3, <2>4 DEF Slot
    <3> QED
      BY <3>1 DEF Open
  <2>5. CASE ~(s.state \in Open /\ tick' - u > MaxAge)
    BY <2>2, <2>5, HashAggAssumption DEF HashAggAssumption
  <2> QED
    BY <2>4, <2>5
<1> QED
  BY Invariance, <1>1, PTL DEF Spec, TimeoutsFire
=============================================================================
