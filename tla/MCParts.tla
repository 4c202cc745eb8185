------------------------------ MODULE MCParts -------------------------------
(***************************************************************************)
(* The parts that are checked on their own, on small instances: a          *)
(* behaviour is about one of Topics.  In one about anything but the world  *)
(* there is no unit in it, and no file in one about anything but replays.  *)
(***************************************************************************)
EXTENDS HashAgg, Listener, Replay, Roots, SeqSpace, Wire, World

CONSTANTS
  Topics,
  Mover, FixedAddr   \* the second peer of the listener has one address

VARIABLE topic

\* Three corners of a small map, one of them just outside it; and, for three
\* players, a place straight ahead of the first.
Corners == {[x |-> 0, y |-> 0], [x |-> 96, y |-> 80], [x |-> 112, y |-> 40]}
North == {[x |-> 0, y |-> 96]}

\* The runs with two players satisfy what World's theorems assume.
ASSUME TwoPlayersFit == PlayerCount = 2 => OnMap /\ OrdersFit /\ QuickEnough

MCAddrsOf == [p \in Peers |-> IF p = Mover THEN Addrs \ {FixedAddr} ELSE {FixedAddr}]

MCInit ==
  /\ topic \in Topics
  /\ RawInit /\ Init /\ LisInit /\ WireInit /\ SeqInit
  /\ IF topic = "world" THEN SimInit
     ELSE /\ world = [tick |-> 0, units |-> <<>>]
          /\ replica = NoWorld /\ tail = <<>> /\ desync = FALSE /\ orders = 0
  /\ IF topic = "replay" THEN RepInit
     ELSE file = <<>> /\ recorded = <<>> /\ good = 0 /\ reader = Recording
  /\ addr = [p \in Peers |-> CHOOSE a \in AddrsOf[p] : TRUE]  \* the others are alike

Rest(t) ==
  /\ UNCHANGED topic
  /\ IF t = "hashes" THEN TRUE ELSE UNCHANGED aggVars
  /\ IF t = "world" THEN TRUE ELSE UNCHANGED simVars
  /\ IF t = "numbers" THEN TRUE ELSE UNCHANGED raw
  /\ IF t = "listener" THEN TRUE ELSE UNCHANGED lisVars
  /\ IF t = "wire" THEN TRUE ELSE UNCHANGED wireVars
  /\ IF t = "replay" THEN TRUE ELSE UNCHANGED repVars
  /\ IF t = "wrap" THEN TRUE ELSE UNCHANGED seqVars

MCNext ==
  \/ topic = "hashes" /\ Next /\ Rest("hashes")
  \/ topic = "world" /\ SimNext /\ Rest("world")
  \/ topic = "numbers" /\ NextRaw /\ Rest("numbers")
  \/ topic = "listener" /\ LisNext /\ Rest("listener")
  \/ topic = "wire" /\ WireNext /\ Rest("wire")
  \/ topic = "replay" /\ RepNext /\ Rest("replay")
  \/ topic = "wrap" /\ SeqNext /\ Rest("wrap")

allVars == <<topic, aggVars, simVars, raw, lisVars, wireVars, repVars, seqVars>>

MCSpec == MCInit /\ [][MCNext]_allVars
-----------------------------------------------------------------------------
\* Most properties are those of the modules; see there.
PartsTypeOK == TypeOK /\ SimTypeOK /\ LisTypeOK /\ SeqTypeOK
=============================================================================
