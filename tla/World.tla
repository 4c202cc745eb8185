------------------------------- MODULE World --------------------------------
(***************************************************************************)
(* The simulated world (internal/sim): units that move and attack, one     *)
(* Step per tick, its digest and its snapshot; and a copy of it that is    *)
(* restored from a snapshot and fed the recorded ticks, as a client that   *)
(* resumes and replay-play do.  The generator, the seed and the next unit  *)
(* number do not change once the units are there.                          *)
(***************************************************************************)
EXTENDS Fixed, Sequences

CONSTANTS
  PlayerCount, UnitsPerPlayer,
  MapSize,                       \* 100 in the code
  SpawnX, SpawnStep, RowStep,    \* 10, 80 and 3 in the code
  UnitHP, Speed, AttackDamage, AttackRange,
  Targets,                       \* places a move command may name
  MaxCmds, MaxOrders,            \* commands in a tick and in all (bounds)
  TickWrap,                      \* 2^32 in the code
  MaxLag                         \* ticks the copy may be behind

\* The square of a unit's step does not wrap around: stepMove would divide by
\* the root of a number below zero, which is zero.
ASSUME WorldAssumption ==
  /\ PlayerCount \in Nat /\ UnitsPerPlayer \in Nat
  /\ MapSize \in Int /\ SpawnX \in Int /\ SpawnStep \in Int /\ RowStep \in Int
  /\ UnitHP \in Nat \ {0} /\ AttackDamage \in Nat
  /\ Speed \in Int /\ Mul(Speed, Speed) >= 0
  /\ Targets \subseteq Place
  /\ TickWrap \in Nat \ {0} /\ MaxLag \in Nat /\ MaxOrders \in Nat

PlayerIds == 0..(PlayerCount - 1)
UnitIds == 1..(PlayerCount * UnitsPerPlayer)
NoUnit == 0
NoWorld == [tick |-> 0]

VARIABLES
  world,    \* [tick, units] of the room
  replica,  \* the restored copy, or NoWorld
  tail,     \* the ticks recorded since the snapshot and not yet replayed
  desync,   \* a replayed tick had another hash than the recorded one
  orders    \* commands given so far (bound of the model)

simVars == <<world, replica, tail, desync, orders>>

Unit == [id : UnitIds, owner : PlayerIds, state : {"idle", "moving"},
         hp : 1..UnitHP, maxHP : {UnitHP}, speed : {Speed}, target : UnitIds \cup {NoUnit},
         pos : Place, moveTo : Place]

Cmd == [player : PlayerIds, unit : UnitIds, op : {"move"}, pos : Targets, target : {NoUnit}]
  \cup [player : PlayerIds, unit : UnitIds, op : {"attack"}, pos : {V(0, 0)}, target : UnitIds]
  \cup [player : PlayerIds, unit : UnitIds, op : {"stop"}, pos : {V(0, 0)}, target : {NoUnit}]

\* SpawnInitialUnits: players side by side, their units one above the other.
Spawned(i) ==
  LET p == (i - 1) \div UnitsPerPlayer
      k == (i - 1) % UnitsPerPlayer
  IN  [id |-> i, owner |-> p, state |-> "idle", hp |-> UnitHP, maxHP |-> UnitHP,
       speed |-> Speed, target |-> NoUnit, moveTo |-> V(0, 0),
       pos |-> V(FromInt(SpawnX + p * SpawnStep), FromInt(SpawnX + k * RowStep))]

NewWorld == [tick |-> 0, units |-> [i \in UnitIds |-> Spawned(i)]]
-----------------------------------------------------------------------------
(* Step *)

Ordered(u, c) ==
  CASE c.op = "move"   -> [u EXCEPT !.state = "moving", !.moveTo = c.pos, !.target = NoUnit]
    [] c.op = "attack" -> [u EXCEPT !.state = "idle", !.target = c.target]
    [] c.op = "stop"   -> [u EXCEPT !.state = "idle", !.target = NoUnit]

\* Mutant: nobody asks who owns the unit.
ApplyAnyones(units, c) ==
  [i \in DOMAIN units |-> IF units[i].id = c.unit THEN Ordered(units[i], c) ELSE units[i]]

\* applyCommands, one command: only the owner's counts.
Apply(units, c) ==
  [i \in DOMAIN units |->
     IF units[i].id = c.unit /\ units[i].owner = c.player THEN Ordered(units[i], c)
     ELSE units[i]]

\* Mutant: the new position is not clamped.
MovedAnywhere(u) ==
  LET pos == MoveToward(u.pos, u.moveTo, u.speed)
  IN  [u EXCEPT !.pos = pos,
                !.state = IF DistSq(pos, u.moveTo) <= Eps THEN "idle" ELSE "moving"]

\* stepMove
Moved(u) ==
  LET to  == MoveToward(u.pos, u.moveTo, u.speed)
      pos == V(Clamp(to.x, 0, FromInt(MapSize)), Clamp(to.y, 0, FromInt(MapSize)))
  IN  [u EXCEPT !.pos = pos,
                !.state = IF DistSq(pos, u.moveTo) <= Eps THEN "idle" ELSE "moving"]

Hit(u) ==
  IF u.hp > AttackDamage THEN [u EXCEPT !.hp = @ - AttackDamage]
  ELSE [u EXCEPT !.hp = 0, !.state = "dead"]

\* stepAttack of the i-th unit; its target may have died earlier in the tick.
Attacked(units, i) ==
  LET u == units[i]
      found == {j \in DOMAIN units : units[j].id = u.target /\ units[j].state # "dead"}
  IN  IF u.target = NoUnit THEN units
      ELSE IF found = {} THEN [units EXCEPT ![i].target = NoUnit]
      ELSE LET j == CHOOSE k \in found : TRUE
           IN  IF DistSq(u.pos, units[j].pos) <= Mul(AttackRange, AttackRange)
               THEN [units EXCEPT ![j] = Hit(@)]
               ELSE [units EXCEPT ![i].pos = MoveToward(u.pos, units[j].pos, u.speed)]

StepUnit(units, i) ==
  CASE units[i].state = "dead"   -> units
    [] units[i].state = "moving" -> [units EXCEPT ![i] = Moved(@)]
    [] units[i].state = "idle"   -> Attacked(units, i)

\* applyCommands
Applied(units, cmds) ==
  LET after[n \in 0..Len(cmds)] ==
        IF n = 0 THEN units ELSE Apply(after[n - 1], cmds[n])
  IN  after[Len(cmds)]

\* sortUnitsByID; no two have one number.
Sorted(units) ==
  LET D == DOMAIN units
      place == CHOOSE f \in [D -> D] : \A i, j \in D : i < j => units[f[i]].id < units[f[j]].id
  IN  [i \in D |-> units[place[i]]]

\* The units in that order, each seeing what those before it did.
Stepped(units) ==
  LET after[n \in 0..Len(units)] ==
        IF n = 0 THEN units ELSE StepUnit(after[n - 1], n)
  IN  after[Len(units)]

RemoveDead(units) ==
  LET alive[n \in 0..Len(units)] ==
        IF n = 0 THEN <<>>
        ELSE IF units[n].state = "dead" THEN alive[n - 1]
        ELSE Append(alive[n - 1], units[n])
  IN  alive[Len(units)]

Step(w, cmds) ==
  [tick  |-> (w.tick + 1) % TickWrap,
   units |-> RemoveDead(Stepped(Sorted(Applied(w.units, cmds))))]
-----------------------------------------------------------------------------
(* Hash and snapshot *)

\* What Hash mixes; two digests with one 64-bit hash are left out.
Digest(w) ==
  <<w.tick, [i \in DOMAIN w.units |->
     LET u == w.units[i] IN <<u.id, u.owner, u.state, u.hp, u.pos, u.target>>]>>

HeaderCells == 2
UnitCells == 11

Cells(u) ==
  <<u.id, u.owner, u.state, u.hp, u.maxHP, u.speed, u.pos.x, u.pos.y, u.target,
    u.moveTo.x, u.moveTo.y>>

Marshal(w) ==
  [k \in 1..(HeaderCells + Len(w.units) * UnitCells) |->
     IF k = 1 THEN w.tick
     ELSE IF k = 2 THEN Len(w.units)
     ELSE LET c == k - HeaderCells - 1
          IN  Cells(w.units[(c \div UnitCells) + 1])[(c % UnitCells) + 1]]

\* Mutant: the destination is not restored.
UnmarshalHalted(data) ==
  [tick |-> data[1],
   units |-> [i \in 1..data[2] |->
     LET f(k) == data[HeaderCells + (i - 1) * UnitCells + k] IN
     [id |-> f(1), owner |-> f(2), state |-> f(3), hp |-> f(4), maxHP |-> f(5),
      speed |-> f(6), pos |-> V(f(7), f(8)), target |-> f(9), moveTo |-> V(0, 0)]]]

Unmarshal(data) ==
  [tick |-> data[1],
   units |-> [i \in 1..data[2] |->
     LET f(k) == data[HeaderCells + (i - 1) * UnitCells + k] IN
     [id |-> f(1), owner |-> f(2), state |-> f(3), hp |-> f(4), maxHP |-> f(5),
      speed |-> f(6), pos |-> V(f(7), f(8)), target |-> f(9), moveTo |-> V(f(10), f(11))]]]
-----------------------------------------------------------------------------
SimInit ==
  /\ world = NewWorld
  /\ replica = NoWorld /\ tail = <<>> /\ desync = FALSE /\ orders = 0

\* sealTick executes the tick and records it with its hash.
Tick(cmds) ==
  /\ Len(tail) < MaxLag /\ orders + Len(cmds) <= MaxOrders
  /\ orders' = orders + Len(cmds)
  /\ world' = Step(world, cmds)
  /\ tail' = IF replica = NoWorld THEN tail
             ELSE Append(tail, [cmds |-> cmds, hash |-> Digest(world')])
  /\ UNCHANGED <<replica, desync>>

\* A client resumes, or a replay is begun.
Restore ==
  /\ replica = NoWorld
  /\ replica' = Unmarshal(Marshal(world))
  /\ UNCHANGED <<world, tail, desync, orders>>

\* One recorded tick is executed and its hash compared.
PlayTick ==
  /\ replica # NoWorld /\ tail # <<>>
  /\ replica' = Step(replica, Head(tail).cmds)
  /\ tail' = Tail(tail)
  /\ desync' = (desync \/ Digest(replica') # Head(tail).hash)
  /\ UNCHANGED <<world, orders>>

Frames == UNION {[1..n -> Cmd] : n \in 0..MaxCmds}

SimNext == (\E cmds \in Frames : Tick(cmds)) \/ Restore \/ PlayTick

SimSpec == SimInit /\ [][SimNext]_simVars
-----------------------------------------------------------------------------
UnitsOK(units) ==
  /\ units \in Seq(Unit)
  /\ \A i, j \in DOMAIN units : i < j => units[i].id < units[j].id

SimTypeOK ==
  /\ world.tick \in 0..(TickWrap - 1) /\ UnitsOK(world.units)
  /\ replica # NoWorld => replica.tick \in 0..(TickWrap - 1) /\ UnitsOK(replica.units)
  /\ \A i \in DOMAIN tail : tail[i].cmds \in Seq(Cmd)
  /\ Len(tail) <= MaxLag /\ desync \in BOOLEAN /\ orders \in 0..MaxOrders

\* The units begin on the map, none crosses it in a tick, and the square of a
\* distance on it does not wrap around: with numbers of 32 bits, maps of up to
\* 127 and the two players the server has by default.
OnMap ==
  /\ MapSize \in Nat \ {0} /\ 2 * MapSize * MapSize * One <= Largest
  /\ Speed \in 0..(MapSize * One)
  /\ \A i \in UnitIds :
       /\ SpawnX + ((i - 1) \div UnitsPerPlayer) * SpawnStep \in 0..MapSize
       /\ SpawnX + ((i - 1) % UnitsPerPlayer) * RowStep \in 0..MapSize

\* The places that units are sent to are on a map whose squares do not wrap
\* around, be it larger than their own; and the speed is no less than a half, as
\* in the code: of a shorter step rounding is a greater part.
OrdersFit ==
  /\ One <= 2 * Speed
  /\ \E reach \in 0..Largest :
       /\ MapSize <= reach /\ 2 * reach * reach * One <= Largest
       /\ Targets \subseteq [x : 0..(reach * One), y : 0..(reach * One)]

\* So that no step across the map is rounded to nothing.
QuickEnough == 3 * (MapSize + 1) <= 2 * Speed

\* No unit leaves the map, though a command may name a place outside it and a
\* unit that goes after its target is not clamped (step.go:70-106).
InsideMap ==
  \A i \in DOMAIN world.units :
    LET p == world.units[i].pos
    IN  {p.x, p.y} \subseteq 0..FromInt(MapSize)

\* A copy restored from a snapshot, wherever its units were going, is the world
\* again once it has executed the recorded ticks, and every recorded hash on the
\* way is its own (snapshot.go, replay-play main.go:57-75).
ReplicaFollows ==
  ~desync /\ (replica # NoWorld /\ tail = <<>> => replica = world)

\* The commands of different players in one tick have the same effect in either
\* order: the order in which the room collected them does not matter
\* (step.go:45-68, lockstep inputbuf.go:15-25).
PlayersCommute ==
  \A i \in DOMAIN world.units : \A c, d \in Cmd : c.player < d.player =>
    Apply(Apply(world.units, c), d)[i] = Apply(Apply(world.units, d), c)[i]

\* Of two places, without wrapping around.
SquaredDistance(v, w) == (v.x - w.x) * (v.x - w.x) + (v.y - w.y) * (v.y - w.y)

WithinSpeed ==
  \A i \in DOMAIN world.units, j \in DOMAIN world'.units :
    world'.units[j].id = world.units[i].id =>
      SquaredDistance(world.units[i].pos, world'.units[j].pos)
        <= (Speed + 5 * Eps) * (Speed + 5 * Eps)

Nearer ==
  \A i \in DOMAIN world.units, j \in DOMAIN world'.units :
    LET u == world.units[i]
        v == world'.units[j]
        moving == /\ u.id = v.id /\ v.state = "moving"
                  /\ {v.moveTo.x, v.moveTo.y} \subseteq 0..FromInt(MapSize)
    IN  world'.tick # world.tick /\ moving =>
          SquaredDistance(v.pos, v.moveTo) < SquaredDistance(u.pos, v.moveTo)

\* In a tick no unit moves farther than its speed, up to rounding: five times the
\* smallest number covers it (vec2.go:70-78).
NobodyTeleports ==
  [][WithinSpeed]_simVars

\* A unit on its way to a place on the map comes nearer in every tick, by no
\* more than its speed: rounding does not keep it on its way for ever
\* (step.go:70-80, vec2.go:70-78).
MovesAsOrdered ==
  [][WithinSpeed /\ Nearer]_simVars
=============================================================================
