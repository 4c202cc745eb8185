------------------------------ MODULE HashAgg ------------------------------
(***************************************************************************)
(* lockstep/hashagg.go: the state hashes the players report for each tick, *)
(* kept for a sliding window of ticks, and the verdict on each tick.       *)
(* Created, TimedOut and Reported are the three operations as functions of *)
(* the window; the room applies the first two, in this order, in every     *)
(* sealTick and the third for every HashAck message.                       *)
(***************************************************************************)
EXTENDS Integers

CONSTANTS
  Players,     \* the players of the room (PlayerCount of them)
  Hashes,      \* state hashes
  NoHash,      \* not reported yet
  WindowSize,  \* ticks kept behind the current one; 100 in the code
  MaxAge,      \* age at which an open tick times out; 60 in the code
  MaxTick      \* last tick (bound of the model)

ASSUME HashAggAssumption ==
  /\ Players # {} /\ NoHash \notin Hashes
  /\ WindowSize \in Nat /\ MaxAge \in Nat /\ MaxTick \in Nat

VARIABLES
  tick,        \* last sealed tick
  window       \* tick -> the hashes reported for it and the state

aggVars == <<tick, window>>

State == {"pending", "partial", "match", "timeout", "desync"}
Open  == {"pending", "partial"}
Slot  == [hash : [Players -> Hashes \cup {NoHash}], state : State]

NewSlot == [hash |-> [p \in Players |-> NoHash], state |-> "pending"]

\* Mutant: the oldest tick of the window is deleted too.
CreatedShort(w, t) ==
  [u \in {v \in DOMAIN w \cup {t} : v + WindowSize > t} |->
     IF u = t THEN NewSlot ELSE w[u]]

\* CreateSlot: a fresh slot for t, and the ticks before the cutoff deleted.
Created(w, t) ==
  [u \in {v \in DOMAIN w \cup {t} : v + WindowSize >= t} |->
     IF u = t THEN NewSlot ELSE w[u]]

\* Mutant: only ticks that nobody reported time out.
TimedOutPending(w, now) ==
  [u \in DOMAIN w |->
     IF w[u].state = "pending" /\ now - u > MaxAge
     THEN [w[u] EXCEPT !.state = "timeout"] ELSE w[u]]

\* CheckTimeouts
TimedOut(w, now) ==
  [u \in DOMAIN w |->
     IF w[u].state \in Open /\ now - u > MaxAge
     THEN [w[u] EXCEPT !.state = "timeout"] ELSE w[u]]

AllReported(h) == \A p \in Players : h[p] # NoHash
Agree(h) == \A p, q \in Players : h[p] = h[q]

\* Mutant: the hashes are compared as soon as somebody reported.
VerdictEarly(h) == IF Agree(h) THEN "match" ELSE "desync"

Verdict(h) == IF ~AllReported(h) THEN "partial"
              ELSE IF Agree(h) THEN "match" ELSE "desync"

\* Report: a later hash of the same player replaces the earlier one; a tick
\* outside the window is left alone.
Reported(w, t, p, h) ==
  [u \in DOMAIN w |->
     IF u # t THEN w[u]
     ELSE LET new == [w[u].hash EXCEPT ![p] = h]
          IN [hash |-> new, state |-> Verdict(new)]]
-----------------------------------------------------------------------------
Init == tick = 0 /\ window = [u \in {} |-> NewSlot]

SealTick ==
  /\ tick < MaxTick
  /\ tick' = tick + 1
  /\ window' = TimedOut(Created(window, tick'), tick')

Report(t, p, h) ==
  /\ window' = Reported(window, t, p, h)
  /\ UNCHANGED tick

Next ==
  \/ SealTick
  \/ \E t \in 0..MaxTick, p \in Players, h \in Hashes : Report(t, p, h)

Spec == Init /\ [][Next]_aggVars
-----------------------------------------------------------------------------
TypeOK ==
  /\ tick \in 0..MaxTick
  /\ DOMAIN window \subseteq 1..MaxTick
  /\ \A u \in DOMAIN window : window[u] \in Slot

\* The window holds the current tick and the WindowSize ticks before it, and
\* nothing else: no tick is lost early and none stays behind.
WindowExact == DOMAIN window = {u \in 1..tick : u + WindowSize >= tick}

\* Whatever the order of reports, repetitions and timeouts, a tick in the
\* window is called a match, or a desync, exactly when every player's latest
\* hash is in and they agree, or differ.
VerdictExact ==
  \A u \in DOMAIN window :
    /\ window[u].state = "match" <=>
         AllReported(window[u].hash) /\ Agree(window[u].hash)
    /\ window[u].state = "desync" <=>
         AllReported(window[u].hash) /\ ~Agree(window[u].hash)

\* After a tick is sealed no tick older than MaxAge is still open, although a
\* late report may have reopened one that had timed out.
TimeoutsFire ==
  [][tick' # tick =>
       \A u \in DOMAIN window' : window'[u].state \in Open => tick' - u <= MaxAge]_aggVars
=============================================================================
