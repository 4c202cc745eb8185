------------------------------ MODULE FrameLog ------------------------------
(***************************************************************************)
(* What lockstep promises: one log of frames grows at the server, and each *)
(* client executes its ticks one after the other, each of them once.  For  *)
(* a tick it executes the commands of the frame or, when it never gets the *)
(* frame, none; it goes forward only up to a frame that it has.            *)
(***************************************************************************)
EXTENDS Naturals, Sequences

CONSTANTS Players, Batches, NoCmds

VARIABLES
  log,     \* the commands of each frame, by tick
  world    \* the commands each client executed, by tick

vars == <<log, world>>

Init == log = <<>> /\ world = [p \in Players |-> <<>>]

Seal(c) == log' = Append(log, c) /\ UNCHANGED world

Execute(p, t) ==
  /\ t > Len(world[p])
  /\ \E w \in [1..t -> Batches \cup {NoCmds}] :
       /\ w[t] = log[t]
       /\ \A u \in 1..(t - 1) :
            w[u] = IF u <= Len(world[p]) THEN world[p][u] ELSE NoCmds
       /\ world' = [world EXCEPT ![p] = w]
  /\ UNCHANGED log

Next == \/ \E c \in Batches \cup {NoCmds} : Seal(c)
        \/ \E p \in Players : \E t \in DOMAIN log : Execute(p, t)

Spec == Init /\ [][Next]_vars
=============================================================================
