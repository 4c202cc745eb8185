------------------------------ MODULE Lockstep ------------------------------
(***************************************************************************)
(* The room and its clients together: frames go out on an ordered stream   *)
(* to each player, every client executes them (OnFrame in cmd/fake-client, *)
(* and the same loop in the tests) and reports the hash of its world, and  *)
(* the room judges the hashes (lockstep/room.go, hashagg.go).              *)
(*                                                                         *)
(* A stream is what OrderedStream says of a connection: the order is kept, *)
(* a message may be missing.  The simulation is deterministic, so the      *)
(* world of a client is given by the commands it executed tick by tick;    *)
(* the hash of a world is taken to identify it.  A frame carries one of    *)
(* the Batches or nothing.                                                 *)
(***************************************************************************)
EXTENDS Integers, Sequences

CONSTANTS
  Players,
  Batches,     \* non-empty lists of commands
  NoCmds,      \* the empty list
  NoHash,
  WindowSize, MaxAge,   \* of HashAgg
  MaxTick      \* bound of the model

Frame == Batches \cup {NoCmds}
Hashes == UNION {[1..t -> Frame] : t \in 0..MaxTick}

ASSUME LockstepAssumption ==
  /\ Players # {} /\ NoCmds \notin Batches /\ NoHash \notin Hashes
  /\ WindowSize \in Nat /\ MaxAge \in Nat /\ MaxTick \in Nat

VARIABLES
  log,      \* the frames sealed, by tick: their commands
  joined,   \* the players that receive broadcasts
  frames,   \* ticks of the frames on their way to each client
  world,    \* what each client executed, by tick
  acks,     \* HashAcks on their way to the room: [tick, hash]
  window,   \* HashAgg
  lost      \* ticks whose frame a client never gets (history)

vars == <<log, joined, frames, world, acks, window, lost>>

tick == Len(log)

Agg == INSTANCE HashAgg

Init ==
  /\ log = <<>> /\ joined = {}
  /\ frames = [p \in Players |-> <<>>]
  /\ world = [p \in Players |-> <<>>]
  /\ acks = [p \in Players |-> <<>>]
  /\ window = [u \in {} |-> Agg!NewSlot]
  /\ lost = [p \in Players |-> {}]
-----------------------------------------------------------------------------
(* The room *)

\* Mutant: every tick that is old enough times out, judged or not.
WindowTimeouts(t) ==
  LET w == Agg!Created(window, t)
  IN [u \in DOMAIN w |->
        IF t - u > MaxAge THEN [w[u] EXCEPT !.state = "timeout"] ELSE w[u]]

\* CreateSlot and CheckTimeouts of sealTick.
WindowAfterSeal(t) == Agg!TimedOut(Agg!Created(window, t), t)

\* sealTick: the commands come from players that have joined.
SealTick(c) ==
  /\ tick < MaxTick
  /\ c = NoCmds \/ joined # {}
  /\ log' = Append(log, c)
  /\ window' = WindowAfterSeal(tick + 1)
  /\ frames' = [p \in Players |->
                  IF p \in joined THEN Append(frames[p], tick + 1) ELSE frames[p]]
  /\ UNCHANGED <<joined, world, acks, lost>>

\* AddPlayer at any time: the frames sealed before are not sent.
Join(p) ==
  /\ p \notin joined
  /\ joined' = joined \cup {p}
  /\ lost' = [lost EXCEPT ![p] = 1..tick]
  /\ UNCHANGED <<log, frames, world, acks, window>>

\* Mutant: the report counts for the room's tick, not for the client's.
HandleHashAckNow(p) ==
  /\ acks[p] # <<>>
  /\ window' = Agg!Reported(window, tick, p, Head(acks[p]).hash)
  /\ acks' = [acks EXCEPT ![p] = Tail(@)]
  /\ UNCHANGED <<log, joined, frames, world, lost>>

HandleHashAck(p) ==
  /\ acks[p] # <<>>
  /\ window' = Agg!Reported(window, Head(acks[p]).tick, p, Head(acks[p]).hash)
  /\ acks' = [acks EXCEPT ![p] = Tail(@)]
  /\ UNCHANGED <<log, joined, frames, world, lost>>
-----------------------------------------------------------------------------
(* The streams: what Inbox drops, at either end *)

LoseFrame(p) ==
  /\ frames[p] # <<>>
  /\ frames' = [frames EXCEPT ![p] = Tail(@)]
  /\ lost' = [lost EXCEPT ![p] = @ \cup {Head(frames[p])}]
  /\ UNCHANGED <<log, joined, world, acks, window>>

LoseHashAck(p) ==
  /\ acks[p] # <<>>
  /\ acks' = [acks EXCEPT ![p] = Tail(@)]
  /\ UNCHANGED <<log, joined, frames, world, window, lost>>
-----------------------------------------------------------------------------
(* The clients *)

\* Mutants of the loop of OnFrame: no step for a tick whose frame is missing;
\* the commands applied in the first step, not the last.
StepsNoGap(w, t) == IF Len(w) < t THEN Append(w, log[t]) ELSE w
StepsEarly(w, t) ==
  w \o [i \in 1..(t - Len(w)) |-> IF i = 1 THEN log[t] ELSE NoCmds]

\* The loop of OnFrame: it executes every tick up to t, with the commands of
\* the frame in the last step and none in the steps before.
Steps(w, t) ==
  w \o [i \in 1..(t - Len(w)) |-> IF Len(w) + i = t THEN log[t] ELSE NoCmds]

OnFrame(p) ==
  /\ frames[p] # <<>>
  /\ LET t == Head(frames[p]) IN
       /\ world' = [world EXCEPT ![p] = Steps(@, t)]
       /\ acks' = [acks EXCEPT ![p] = Append(@, [tick |-> t, hash |-> world'[p]])]
  /\ frames' = [frames EXCEPT ![p] = Tail(@)]
  /\ UNCHANGED <<log, joined, window, lost>>

Next ==
  \/ \E c \in Frame : SealTick(c)
  \/ \E p \in Players :
       Join(p) \/ OnFrame(p) \/ HandleHashAck(p) \/ LoseFrame(p) \/ LoseHashAck(p)

Spec == Init /\ [][Next]_vars
-----------------------------------------------------------------------------
TypeOK ==
  /\ log \in Seq(Frame) /\ Len(log) <= MaxTick
  /\ joined \subseteq Players
  /\ frames \in [Players -> Seq(1..MaxTick)]
  /\ world \in [Players -> Seq(Frame)]
  /\ \A p \in Players : Len(world[p]) <= Len(log)
  /\ lost \in [Players -> SUBSET (1..MaxTick)]

\* A client that got every frame holds the server's world; one that missed
\* some differs from it in those ticks only, which it executed as empty.
ExecutesLog ==
  \A p \in Players : \A t \in DOMAIN world[p] :
    world[p][t] = IF t \in lost[p] THEN NoCmds ELSE log[t]

WorldAt(p, t) == SubSeq(world[p], 1, t)

\* The verdicts tell the truth about the worlds, however late the reports
\* are: after a tick called a match all clients had the same world, and a
\* desync means that a client missed a frame that carried commands.
VerdictSound ==
  \A u \in DOMAIN window :
    /\ window[u].state = "match" =>
         \A p, q \in Players : u <= Len(world[p]) /\ WorldAt(p, u) = WorldAt(q, u)
    /\ window[u].state = "desync" =>
         \E p \in Players : \E t \in lost[p] \cap 1..u : log[t] # NoCmds

\* A verdict is final: a client reports a tick once, so no later report, seal
\* or timeout turns a match or a desync into anything else.
VerdictFinal ==
  [][\A u \in DOMAIN window \cap DOMAIN window' :
       window[u].state \in {"match", "desync"} =>
         window'[u].state = window[u].state]_vars

\* The server runs the simulation "to validate correctness against clients"
\* (room.go, sealTick): a tick called a match agrees with the server's world.
MatchIsServer ==
  \A u \in DOMAIN window :
    window[u].state = "match" =>
      \A p \in Players : WorldAt(p, u) = SubSeq(log, 1, u)

\* The room and its clients implement the log of frames.
Log == INSTANCE FrameLog
LogSpec == Log!Spec
=============================================================================
