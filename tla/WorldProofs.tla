----------------------------- MODULE WorldProofs -----------------------------
(***************************************************************************)
(* Proofs about World and the fixed-point numbers it is built on, for      *)
(* every width of the numbers, every number of units and every size of the *)
(* map.  The loop of Sqrt finds the largest root.  Units stay units and,   *)
(* on a map whose squared distances are numbers, stay on it and move as    *)
(* they are ordered.  A snapshot holds all there is to a world, and so a   *)
(* copy follows its original.                                              *)
(***************************************************************************)
EXTENDS World, Roots, SequenceTheorems, WellFoundedInduction, TLAPS

\* Units as they are in the middle of a step, where some may have died.
AnyUnit ==
  {u \in [id : UnitIds, owner : PlayerIds, state : {"idle", "moving", "dead"},
          hp : 0..UnitHP, maxHP : {UnitHP}, speed : {Speed}, target : UnitIds \cup {NoUnit},
          pos : Place, moveTo : Place] :
     u.state # "dead" => u.hp # 0}

OnMapPlace == [x : 0..FromInt(MapSize), y : 0..FromInt(MapSize)]
OnMapUnit == {u \in AnyUnit : u.pos \in OnMapPlace}

\* The places in play are within M, where squares do not wrap around.
Fits(M) ==
  /\ M \in Nat /\ One <= M /\ 2 * ((M * M) \div One) <= Largest
  /\ FromInt(MapSize) <= M /\ Speed \in 0..M /\ One <= 2 * Speed
  /\ Targets \subseteq [x : 0..M, y : 0..M]

SentUnit(M) == {u \in OnMapUnit : u.moveTo \in [x : 0..M, y : 0..M]}

Living(X) == {u \in X : u.state # "dead"}

\* What a step does to a unit leaves it in X.
Keeps(X) ==
  /\ X \subseteq AnyUnit
  /\ \A u \in Living(X) :
       /\ \A c \in Cmd : Ordered(u, c) \in Living(X)
       /\ u.state = "moving" => Moved(u) \in X
       /\ Hit(u) \in X
       /\ [u EXCEPT !.target = NoUnit] \in X
       /\ \A v \in Living(X) : [u EXCEPT !.pos = MoveToward(u.pos, v.pos, u.speed)] \in X

\* n units of X in the order of their numbers.
Lined(units, n, X) ==
  /\ units = [i \in 1..n |-> units[i]]
  /\ \A i \in 1..n : units[i] \in X
  /\ \A i, j \in 1..n : i < j => units[i].id < units[j].id

WorldOf(w, X) ==
  /\ w = [tick |-> w.tick, units |-> w.units]
  /\ w.tick \in 0..(TickWrap - 1)
  /\ \E n \in Nat : Lined(w.units, n, Living(X))

\* The worlds ws the copy goes through with the n recorded ticks: each is the
\* step of the one before, with the recorded hash; the last is the room's.
Leads(ws, n) ==
  /\ ws[0] = replica /\ ws[n] = world
  /\ \A i \in 1..n : /\ ws[i] = Step(ws[i - 1], tail[i].cmds)
                     /\ Digest(ws[i]) = tail[i].hash

CopyInv ==
  /\ WorldOf(world, AnyUnit)
  /\ replica # NoWorld => WorldOf(replica, AnyUnit)
  /\ desync = FALSE
  /\ \E n \in Nat : /\ tail = [i \in 1..n |-> tail[i]] /\ n <= MaxLag
                    /\ \A i \in 1..n : tail[i].cmds \in Seq(Cmd)
                    /\ replica # NoWorld => \E ws : Leads(ws, n)
  /\ replica = NoWorld => tail = <<>>
  /\ orders \in 0..MaxOrders

\* The first m of r are among the first n of units.
Among(r, m, units, n) == \A i \in 1..m : \E j \in 1..n : r[i] = units[j]

\* F is what the units are after each of the commands.
AppliedBy(F, units, cmds) ==
  /\ F[0] = units /\ Applied(units, cmds) = F[Len(cmds)]
  /\ \A k \in 1..Len(cmds) : F[k] = Apply(F[k - 1], cmds[k])

\* R holds of a unit's place before its turn and the unit after it, whatever it
\* does, and of the unit as others leave it.
Turns(R, X) ==
  /\ \A u \in X, v \in X :
       /\ u.state # "moving" /\ v.state # "moving" /\ v.pos = u.pos => <<u.pos, v>> \in R
       /\ \A p \in Place :
            /\ <<p, u>> \in R /\ v.pos = u.pos /\ v.moveTo = u.moveTo /\ v.state \in {u.state, "dead"}
            => <<p, v>> \in R
       /\ \A q \in X : /\ v.pos = MoveToward(u.pos, q.pos, u.speed) /\ v.state # "moving"
                       => <<u.pos, v>> \in R
  /\ \A u \in X : u.state = "moving" => <<u.pos, Moved(u)>> \in R

\* No farther apart than a step.
Close(p, q) == SquaredDistance(p, q) <= (Speed + 5) * (Speed + 5)

StaysClose == {x \in Place \X AnyUnit : Close(x[1], x[2].pos)}

\* Nearer to where it goes.
ComesNearer ==
  {x \in Place \X AnyUnit :
     LET u == x[2]
     IN  u.state = "moving" /\ u.moveTo \in OnMapPlace =>
           SquaredDistance(u.pos, u.moveTo) < SquaredDistance(x[1], u.moveTo)}

MapInv == WorldOf(world, OnMapUnit)

\* p is dist away from a place, towards one that is farther by dx and dy: r is
\* its distance, ratio what of it dist is.
PartWay(M, from, dx, dy, far, dist, p) ==
  \E r \in Nat \ {0}, ratio \in 0..One :
    LET mx == (dx * ratio) \div One
        my == (dy * ratio) \div One
    IN  /\ dist <= r /\ r * ratio <= dist * One /\ dist * One < r * ratio + r
        /\ r * r <= far * One /\ far * One < (r + 1) * (r + 1)
        /\ mx \in Int /\ my \in Int
        /\ from.x + mx \in 0..M /\ from.y + my \in 0..M
        /\ p = V(from.x + mx, from.y + my)
-----------------------------------------------------------------------------
(* Finite induction, and functions as sequences *)

LEMMA LeastNat ==
  ASSUME NEW T \in SUBSET Nat, T # {}
  PROVE  \E k \in T : \A i \in T : k <= i
<1>1. PICK k \in T : \A i \in T : <<i, k>> \notin OpToRel(<, Nat)
  BY NatLessThanWellFounded, WFMin
<1>2. \A i \in T : ~(i < k)
  BY <1>1 DEF OpToRel
<1> QED
  BY <1>2

LEMMA UpTo ==
  ASSUME NEW n \in Nat, NEW T, 0 \in T,
         \A k \in 0..n : k \in T /\ k < n => k + 1 \in T
  PROVE  \A k \in 0..n : k \in T
<1> DEFINE B == {k \in 0..n : k \notin T}
<1> SUFFICES ASSUME B # {} PROVE FALSE
  OBVIOUS
<1>1. B \in SUBSET Nat
  OBVIOUS
<1>2. PICK k \in B : \A i \in B : k <= i
  BY <1>1, LeastNat
<1>3. k \in 1..n /\ k \notin T
  BY <1>2
<1>4. k - 1 \in 0..n /\ k - 1 < n /\ k - 1 \notin B
  BY <1>2, <1>3
<1>5. k - 1 \in T
  BY <1>4
<1>6. (k - 1) + 1 = k
  BY <1>3
<1> QED
  BY <1>3, <1>4, <1>5, <1>6

LEMMA AsSeq ==
  ASSUME NEW s, NEW n \in Nat, s = [i \in 1..n |-> s[i]]
  PROVE  /\ s \in Seq({s[i] : i \in 1..n}) /\ Len(s) = n /\ DOMAIN s = 1..n
<1> DEFINE S == {s[i] : i \in 1..n}
<1>1. \A i \in 1..n : s[i] \in S
  OBVIOUS
<1>2. s \in [1..n -> S] /\ DOMAIN s = 1..n
  BY <1>1
<1>3. s \in Seq(S)
  BY <1>2, IsASeq
<1>4. Len(s) \in Nat /\ DOMAIN s = 1..Len(s)
  BY <1>3, LenProperties
<1>5. Len(s) = n
  BY <1>2, <1>4
<1> QED
  BY <1>2, <1>3, <1>5

\* Append and Tail, by their elements.
With(s, e) == Append(s, e)

LEMMA Longer ==
  ASSUME NEW s, NEW n \in Nat, s = [i \in 1..n |-> s[i]], NEW e
  PROVE  /\ With(s, e) = [i \in 1..(n + 1) |-> With(s, e)[i]]
         /\ \A i \in 1..n : With(s, e)[i] = s[i]
         /\ With(s, e)[n + 1] = e
<1> DEFINE S == {s[i] : i \in 1..n} \cup {e}
           a == Append(s, e)
           r == With(s, e)
<1>1. s \in Seq({s[i] : i \in 1..n}) /\ Len(s) = n
  BY AsSeq
<1>2. s \in Seq(S)
  BY <1>1, SeqMonotonic
<1>3. /\ a \in Seq(S) /\ Len(a) = n + 1
      /\ \A i \in 1..n : a[i] = s[i]
      /\ a[n + 1] = e
  BY <1>1, <1>2, AppendProperties
<1>4. r = a
  BY DEF With
<1> HIDE DEF S, a, r
<1>5. /\ r \in Seq(S) /\ Len(r) = n + 1
      /\ \A i \in 1..n : r[i] = s[i]
      /\ r[n + 1] = e
  BY <1>3, <1>4
<1>6. r = [i \in 1..(n + 1) |-> r[i]]
  <2>1. r \in [1..Len(r) -> S]
    BY <1>5, LenProperties
  <2> QED
    BY <1>5, <2>1
<1> QED
  BY <1>5, <1>6 DEF r

LEMMA Shorter ==
  ASSUME NEW s, NEW n \in Nat, s = [i \in 1..n |-> s[i]], s # <<>>
  PROVE  /\ n # 0 /\ Head(s) = s[1]
         /\ Tail(s) = [i \in 1..(n - 1) |-> Tail(s)[i]]
         /\ \A i \in 1..(n - 1) : Tail(s)[i] = s[i + 1]
<1> DEFINE S == {s[i] : i \in 1..n}
           t == Tail(s)
<1>1. s \in Seq(S) /\ Len(s) = n
  BY AsSeq
<1>2. Head(s) = s[1]
  OBVIOUS
<1>3. n # 0
  BY <1>1, EmptySeq
<1>4. t \in Seq(S) /\ Len(t) = n - 1 /\ \A i \in 1..Len(t) : t[i] = s[i + 1]
  BY <1>1, HeadTailProperties
<1> HIDE DEF t, S
<1>5. t = [i \in 1..(n - 1) |-> t[i]]
  <2>1. t \in [1..Len(t) -> S]
    BY <1>4, LenProperties
  <2> QED
    BY <1>4, <2>1
<1> QED
  BY <1>2, <1>3, <1>4, <1>5 DEF t
-----------------------------------------------------------------------------
(* The numbers *)

\* The powers of two are what their definition says.
LEMMA PowDef ==
  \A k \in 0..Width : Pow2[k] = IF k = 0 THEN 1 ELSE 2 * Pow2[k - 1]
<1> DEFINE Fold(f, n) == f = [m \in 0..n |-> IF m = 0 THEN 1 ELSE 2 * f[m - 1]]
           T == {n \in 0..Width : \E f : Fold(f, n)}
<1>1. Width \in Nat
  BY FixedAssumption DEF FixedAssumption
<1>2. 0 \in T
  <2> DEFINE g == [m \in 0..0 |-> 1]
  <2>1. Fold(g, 0)
    OBVIOUS
  <2> HIDE DEF g
  <2>2. \E f : Fold(f, 0)
    BY <2>1
  <2> QED
    BY <1>1, <2>2
<1>3. ASSUME NEW n \in 0..Width, n \in T, n < Width PROVE n + 1 \in T
  <2>1. PICK f : Fold(f, n)
    BY <1>3
  <2> DEFINE g == [m \in 0..(n + 1) |-> IF m <= n THEN f[m] ELSE 2 * f[n]]
  <2>2. \A m \in 0..(n + 1) : g[m] = IF m = 0 THEN 1 ELSE 2 * g[m - 1]
    <3> TAKE m \in 0..(n + 1)
    <3>1. CASE m = 0
      BY <2>1, <3>1
    <3>2. CASE m \in 1..n
      <4>1. m - 1 \in 0..n /\ m \in 0..n
        BY <3>2
      <4> QED
        BY <2>1, <3>2, <4>1
    <3>3. CASE m = n + 1
      BY <3>3
    <3> QED
      BY <3>1, <3>2, <3>3
  <2>3. Fold(g, n + 1)
    BY <2>2
  <2> HIDE DEF g
  <2>4. \E h : Fold(h, n + 1)
    BY <2>3
  <2> QED
    BY <1>1, <1>3, <2>4
<1>4. Width \in T
  <2> HIDE DEF T
  <2>1. \A k \in 0..Width : k \in T
    BY <1>1, <1>2, <1>3, UpTo
  <2> QED
    BY <1>1, <2>1
<1>5. PICK f : Fold(f, Width)
  BY <1>4
<1>6. Fold(Pow2, Width)
  BY <1>5 DEF Pow2
<1> QED
  BY <1>6

\* They are positive, and each is twice the one before.
LEMMA PowFacts ==
  /\ \A k \in 0..Width : Pow2[k] \in Nat \ {0}
  /\ Pow2[0] = 1
  /\ \A k \in 1..Width : Pow2[k] = 2 * Pow2[k - 1]
<1> DEFINE T == {k \in 0..Width : Pow2[k] \in Nat \ {0}}
<1>1. Width \in Nat
  BY FixedAssumption DEF FixedAssumption
<1>2. 0 \in T
  BY <1>1, PowDef
<1>3. ASSUME NEW k \in 0..Width, k \in T, k < Width PROVE k + 1 \in T
  <2>1. k + 1 \in 0..Width /\ k + 1 # 0 /\ (k + 1) - 1 = k
    BY <1>1, <1>3
  <2>2. Pow2[k + 1] = 2 * Pow2[k]
    BY <2>1, PowDef
  <2> QED
    BY <1>3, <2>1, <2>2
<1>4. \A k \in 0..Width : k \in T
  <2> HIDE DEF T
  <2> QED
    BY <1>1, <1>2, <1>3, UpTo
<1>5. \A k \in 1..Width : Pow2[k] = 2 * Pow2[k - 1]
  BY <1>1, PowDef
<1> QED
  BY <1>1, <1>4, <1>5, PowDef

\* A higher power is no smaller.
LEMMA PowGrows ==
  ASSUME NEW n \in 0..Width, NEW k \in 0..n
  PROVE  Pow2[k] <= Pow2[n]
<1> DEFINE T == {j \in 0..(n - k) : Pow2[k] <= Pow2[k + j]}
<1>1. Width \in Nat /\ n \in Nat /\ k \in Nat /\ n - k \in Nat
  BY FixedAssumption DEF FixedAssumption
<1>2. 0 \in T
  BY <1>1, PowFacts
<1>3. ASSUME NEW j \in 0..(n - k), j \in T, j < n - k PROVE j + 1 \in T
  <2>1. k + j + 1 \in 1..Width /\ k + j \in 0..Width /\ k + (j + 1) = k + j + 1
    BY <1>1, <1>3
  <2>2. Pow2[k + j + 1] = 2 * Pow2[k + j] /\ Pow2[k + j] \in Nat /\ Pow2[k] \in Nat
    BY <1>1, <2>1, PowFacts
  <2>3. Pow2[k] <= Pow2[k + (j + 1)]
    BY <1>3, <2>1, <2>2
  <2> QED
    BY <1>1, <1>3, <2>3
<1>4. n - k \in T
  <2> HIDE DEF T
  <2>1. \A j \in 0..(n - k) : j \in T
    BY <1>1, <1>2, <1>3, UpTo
  <2> QED
    BY <1>1, <2>1
<1> QED
  BY <1>1, <1>4

\* The powers by name: a half of the numbers is negative.
LEMMA Sizes ==
  /\ One \in Nat \ {0} /\ Largest \in Nat /\ Pow2[Width - 1] = Largest + 1
  /\ Pow2[Width] = 2 * (Largest + 1) /\ One <= Largest + 1
<1>1. Width \in Nat /\ Shift \in 0..(Width - 1) /\ Width - 1 \in 0..Width /\ Width \in 1..Width
      /\ Shift \in 0..Width
  BY FixedAssumption DEF FixedAssumption
<1>2. Pow2[Width - 1] \in Nat \ {0} /\ Pow2[Shift] \in Nat \ {0} /\ Pow2[Width] = 2 * Pow2[Width - 1]
  BY <1>1, PowFacts
<1>3. Pow2[Shift] <= Pow2[Width - 1]
  BY <1>1, PowGrows
<1> QED
  BY <1>2, <1>3 DEF One, Largest

\* A number of the width is its own conversion.
LEMMA WrapWithin ==
  ASSUME NEW v \in Int
  PROVE  /\ Wrap(v) \in -(Largest + 1)..Largest
         /\ v \in -(Largest + 1)..Largest => Wrap(v) = v
<1> DEFINE H == Largest + 1
<1>1. H \in Nat \ {0} /\ Pow2[Width - 1] = H /\ Pow2[Width] = 2 * H
  BY Sizes
<1>2. Wrap(v) = ((v + H) % (2 * H)) - H
  BY <1>1 DEF Wrap
<1>3. (v + H) % (2 * H) \in 0..(2 * H - 1)
  BY <1>1
<1>4. ASSUME v \in -H..(H - 1) PROVE (v + H) % (2 * H) = v + H
  BY <1>1, <1>4
<1>5. Largest \in Nat
  BY Sizes
<1> HIDE DEF H
<1>6. H = Largest + 1
  BY DEF H
<1> QED
  BY <1>1, <1>2, <1>3, <1>4, <1>5, <1>6

\* After each turn of its loop the root is not too large, and would be with the
\* bits that have not been tried.
LEMMA SqrtRoot ==
  ASSUME NEW a \in 1..Largest
  PROVE  LET r == Sqrt(a)
         IN  r \in 0..Largest /\ r * r <= a * One /\ a * One < (r + 1) * (r + 1)
<1> DEFINE N == Width - 1
           Try(r, k) == LET trial == r + Pow2[Width - 1 - k]
                        IN  IF trial * trial <= a * One THEN trial ELSE r
           Fold(f, n) == f = [k \in 0..n |-> IF k = 0 THEN 0 ELSE Try(f[k - 1], k)]
           T == {n \in 0..N : \E f : Fold(f, n)}
<1>1. Width \in Nat /\ N \in Nat /\ N \in 0..Width
  BY FixedAssumption DEF FixedAssumption
<1>2. 0 \in T
  <2> DEFINE g == [m \in 0..0 |-> 0]
  <2>1. Fold(g, 0)
    OBVIOUS
  <2> HIDE DEF g
  <2>2. \E f : Fold(f, 0)
    BY <2>1
  <2> QED
    BY <1>1, <2>2
<1>3. ASSUME NEW n \in 0..N, n \in T, n < N PROVE n + 1 \in T
  <2>1. PICK f : Fold(f, n)
    BY <1>3
  <2> HIDE DEF Try
  <2> DEFINE g == [m \in 0..(n + 1) |-> IF m <= n THEN f[m] ELSE Try(f[n], n + 1)]
  <2>2. \A m \in 0..(n + 1) : g[m] = IF m = 0 THEN 0 ELSE Try(g[m - 1], m)
    <3> TAKE m \in 0..(n + 1)
    <3>1. CASE m = 0
      BY <2>1, <3>1
    <3>2. CASE m \in 1..n
      <4>1. m - 1 \in 0..n /\ m \in 0..n
        BY <3>2
      <4> QED
        BY <2>1, <3>2, <4>1
    <3>3. CASE m = n + 1
      BY <3>3
    <3> QED
      BY <3>1, <3>2, <3>3
  <2>3. Fold(g, n + 1)
    BY <2>2
  <2> HIDE DEF g
  <2>4. \E h : Fold(h, n + 1)
    BY <2>3
  <2> QED
    BY <1>1, <1>3, <2>4
<1>4. PICK f : Fold(f, N)
  <2> HIDE DEF T
  <2>1. \A k \in 0..N : k \in T
    BY <1>1, <1>2, <1>3, UpTo
  <2>2. N \in T
    BY <1>1, <2>1
  <2> QED
    BY <2>2 DEF T
<1> DEFINE F == CHOOSE x : Fold(x, N)
<1>5. Fold(F, N)
  BY <1>4
<1>6. Sqrt(a) = F[N]
  BY <1>1, Sizes DEF Sqrt
<1> HIDE DEF F
<1>7. F[0] = 0 /\ \A k \in 1..N : F[k] = Try(F[k - 1], k)
  <2> HIDE DEF Try
  <2>1. \A k \in 0..N : F[k] = IF k = 0 THEN 0 ELSE Try(F[k - 1], k)
    BY <1>5
  <2> QED
    BY <1>1, <2>1
<1> DEFINE n == a * One
           P(k) == Pow2[N - k]
           I == {k \in 0..N : /\ F[k] \in Nat
                              /\ F[k] * F[k] <= n
                              /\ n < (F[k] + P(k)) * (F[k] + P(k))
                              /\ F[k] + P(k) <= Largest + 1}
<1>8. n \in Nat /\ Largest \in Nat /\ a \in Nat
  BY Sizes
<1>9. \A k \in 0..N : P(k) \in Nat \ {0}
  BY <1>1, PowFacts
<1>10. 0 \in I
  <2>1. P(0) = Largest + 1
    BY <1>1, Sizes
  <2>2. One \in Nat /\ One <= Largest + 1
    BY Sizes
  <2>3. n < (Largest + 1) * (Largest + 1)
    <3>1. a * One <= a * (Largest + 1)
      BY <1>8, <2>2
    <3>2. a * (Largest + 1) < (Largest + 1) * (Largest + 1)
      BY <1>8
    <3> QED
      BY <1>8, <2>2, <3>1, <3>2
  <2> HIDE DEF n, P
  <2> QED
    BY <1>1, <1>7, <1>8, <2>1, <2>3
<1>11. ASSUME NEW k \in 0..N, k \in I, k < N PROVE k + 1 \in I
  <2>1. k + 1 \in 1..N /\ (k + 1) - 1 = k /\ N - k \in 1..Width /\ N - (k + 1) = (N - k) - 1
        /\ k + 1 \in 0..N
    BY <1>1, <1>11
  <2>2. P(k) = 2 * P(k + 1)
    BY <1>1, <2>1, PowFacts
  <2>3. F[k + 1] = LET trial == F[k] + P(k + 1) IN IF trial * trial <= n THEN trial ELSE F[k]
    BY <1>1, <1>7, <2>1
  <2>4. P(k + 1) \in Nat \ {0}
    BY <1>9, <2>1
  <2>5. /\ F[k] \in Nat /\ F[k] * F[k] <= n
        /\ n < (F[k] + P(k)) * (F[k] + P(k)) /\ F[k] + P(k) <= Largest + 1
    BY <1>11
  <2> HIDE DEF n, P
  <2> DEFINE r == F[k]
             b == P(k + 1)
  <2>6. CASE (r + b) * (r + b) <= n
    <3>1. F[k + 1] = r + b /\ F[k + 1] + b = r + P(k)
      BY <2>2, <2>3, <2>4, <2>5, <2>6
    <3> QED
      BY <2>1, <2>4, <2>5, <2>6, <3>1
  <2>7. CASE ~((r + b) * (r + b) <= n)
    <3>1. F[k + 1] = r
      BY <2>3, <2>7
    <3>2. n < (r + b) * (r + b)
      BY <1>8, <2>4, <2>5, <2>7
    <3>3. r + b <= Largest + 1
      BY <1>8, <2>2, <2>4, <2>5
    <3> QED
      BY <2>1, <2>5, <3>1, <3>2, <3>3
  <2> QED
    BY <2>6, <2>7
<1>12. N \in I
  <2> HIDE DEF I
  <2>1. \A k \in 0..N : k \in I
    BY <1>1, <1>10, <1>11, UpTo
  <2> QED
    BY <1>1, <2>1
<1>13. P(N) = 1
  BY <1>1, PowFacts
<1> HIDE DEF P, n
<1>14. /\ F[N] \in Nat /\ F[N] * F[N] <= n /\ n < (F[N] + 1) * (F[N] + 1)
       /\ F[N] + 1 <= Largest + 1
  BY <1>12, <1>13
<1> QED
  BY <1>6, <1>8, <1>14 DEF n

\* Division rounds down.
LEMMA Quotients ==
  ASSUME NEW a \in Int, NEW b \in Nat \ {0}
  PROVE  a \div b \in Int /\ b * (a \div b) <= a /\ a < b * (a \div b) + b
<1>1. a = b * (a \div b) + (a % b) /\ a % b \in 0..(b - 1) /\ a \div b \in Int
  OBVIOUS
<1> QED
  BY <1>1

\* It keeps the order, and multiples of the divisor.
LEMMA DivMonotone ==
  ASSUME NEW a \in Int, NEW c \in Int, a <= c, NEW b \in Nat \ {0}
  PROVE  a \div b <= c \div b
<1> DEFINE p == a \div b
           q == c \div b
<1>1. p \in Int /\ q \in Int /\ b * p <= a /\ c < b * q + b
  BY Quotients
<1> HIDE DEF p, q
<1>2. SUFFICES ASSUME q + 1 <= p PROVE FALSE
  <2>1. p <= q
    BY <1>1, <1>2
  <2> QED
    BY <2>1 DEF p, q
<1>3. b * (q + 1) <= b * p
  BY <1>1, <1>2
<1>4. b * (q + 1) = b * q + b
  BY <1>1
<1> QED
  BY <1>1, <1>3, <1>4

LEMMA DivMultiple ==
  ASSUME NEW a \in Int, NEW b \in Nat \ {0}
  PROVE  (a * b) \div b = a
<1> DEFINE q == (a * b) \div b
<1>1. q \in Int /\ b * q <= a * b /\ a * b < b * q + b
  BY Quotients
<1> HIDE DEF q
<1>2. q <= a
  <2>1. SUFFICES ASSUME a + 1 <= q PROVE FALSE
    BY <1>1, <2>1
  <2>2. b * (a + 1) <= b * q /\ b * (a + 1) = a * b + b
    BY <1>1, <2>1
  <2> QED
    BY <1>1, <2>2
<1>3. a <= q
  <2>1. SUFFICES ASSUME q + 1 <= a PROVE FALSE
    BY <1>1, <2>1
  <2>2. b * (q + 1) <= b * a /\ b * (q + 1) = b * q + b
    BY <1>1, <2>1
  <2> QED
    BY <1>1, <2>2
<1>4. q = a
  BY <1>1, <1>2, <1>3
<1> QED
  BY <1>4 DEF q

\* Products keep the order.
LEMMA Times ==
  ASSUME NEW a \in Int, NEW b \in Int, a <= b, NEW c \in Nat
  PROVE  a * c <= b * c
OBVIOUS

LEMMA SquareNat ==
  ASSUME NEW d \in Int
  PROVE  d * d \in Nat
<1>1. CASE d >= 0
  BY <1>1
<1>2. CASE d < 0
  <2>1. d * d = (-d) * (-d) /\ -d \in Nat
    BY <1>2
  <2> QED
    BY <2>1
<1> QED
  BY <1>1, <1>2

\* And squares.
LEMMA RootOrder ==
  ASSUME NEW a \in Int, NEW b \in Nat, a * a <= b * b
  PROVE  -b <= a /\ a <= b
<1>1. SUFFICES ASSUME NEW c \in Nat, c = a \/ c = -a, b + 1 <= c PROVE FALSE
  <2>1. CASE a >= 0
    <3>1. a \in Nat
      BY <2>1
    <3> QED
      BY <1>1, <2>1, <3>1
  <2>2. CASE a < 0
    <3>1. -a \in Nat
      BY <2>2
    <3> QED
      BY <1>1, <2>2, <3>1
  <2> QED
    BY <2>1, <2>2
<1>2. c * c = a * a
  BY <1>1
<1>3. (b + 1) * (b + 1) <= c * c
  BY <1>1
<1>4. (b + 1) * (b + 1) = b * b + 2 * b + 1
  OBVIOUS
<1>5. b * b \in Nat /\ c * c \in Nat
  OBVIOUS
<1> QED
  BY <1>2, <1>3, <1>4, <1>5

\* Of a difference as long as r, give or take the rounding, the ratio leaves no
\* more than the step and three, all with One times the precision.
LEMMA RatioBound ==
  ASSUME NEW D \in Nat, NEW r \in Nat \ {0}, NEW s \in Nat, NEW ratio \in Nat,
         NEW one \in Nat \ {0},
         s <= r, one <= 2 * s, r * ratio <= s * one,
         D <= r * r + 2 * r + 2 * one - 2
  PROVE  D * (ratio * ratio) <= ((s + 3) * one) * ((s + 3) * one)
<1> DEFINE t == s + 3
           R == r * r
           S == s * s
           U == ratio * ratio
           W == one * one
<1>1. R \in Nat \ {0} /\ S \in Nat /\ U \in Nat /\ W \in Nat /\ t \in Nat
  OBVIOUS
<1>2. D <= R + 2 * r + 4 * s
  <2>1. R \in Nat
    BY <1>1
  <2> HIDE DEF R
  <2>2. D <= R + 2 * r + 2 * one - 2
    BY DEF R
  <2> QED
    BY <2>1, <2>2
<1>3. D * S <= R * (t * t)
  <2>1. D * S <= (R + 2 * r + 4 * s) * S
    <3> DEFINE E == R + 2 * r + 4 * s
    <3>1. E \in Nat /\ D <= E
      BY <1>1, <1>2
    <3> HIDE DEF E, S, R
    <3>2. D * S <= E * S
      BY <1>1, <3>1, Times
    <3> QED
      BY <3>2 DEF E
  <2>2. (R + 2 * r + 4 * s) * S = R * S + 2 * (r * S) + 4 * (s * S)
    <3> HIDE DEF R, S
    <3> QED
      BY <1>1
  <2>3. R * (t * t) = R * S + 6 * (R * s) + 9 * R
    <3>1. t * t = S + 6 * s + 9
      OBVIOUS
    <3> HIDE DEF R, S, t
    <3> QED
      BY <1>1, <3>1
  <2>4. s * S <= r * S /\ r * S <= R * s
    <3>1. s * S <= r * S
      BY <1>1, Times
    <3>2. r * S = (s * r) * s /\ R * s = (r * r) * s
      OBVIOUS
    <3>3. s * r <= r * r /\ s * r \in Nat /\ r * r \in Nat
      BY Times
    <3>4. (s * r) * s <= (r * r) * s
      BY <3>3, Times
    <3> QED
      BY <3>1, <3>2, <3>4
  <2>5. s * S \in Nat /\ r * S \in Nat /\ R * s \in Nat /\ R * S \in Nat /\ D * S \in Nat
        /\ R * (t * t) \in Nat
    BY <1>1
  <2>6. \A a, b, c, d, e, f, g \in Nat :
          a <= b /\ b = c + 2 * d + 4 * e /\ f = c + 6 * g + 9 * R /\ e <= d /\ d <= g => a <= f
    BY <1>1
  <2>7. (R + 2 * r + 4 * s) * S \in Nat
    BY <1>1
  <2> HIDE DEF R, S, t
  <2> QED
    BY <2>1, <2>2, <2>3, <2>4, <2>5, <2>6, <2>7
<1>4. R * U <= S * W
  <2>1. (r * ratio) * (r * ratio) <= (s * one) * (s * one)
    <3> DEFINE a == r * ratio
               b == s * one
    <3>1. a \in Nat /\ b \in Nat /\ a <= b
      OBVIOUS
    <3> HIDE DEF a, b
    <3>2. a * a <= b * a /\ b * a <= b * b
      BY <3>1
    <3>3. a * a \in Nat /\ b * a \in Nat /\ b * b \in Nat
      BY <3>1
    <3>4. a * a <= b * b
      BY <3>2, <3>3
    <3> QED
      BY <3>4 DEF a, b
  <2>2. (r * ratio) * (r * ratio) = R * U /\ (s * one) * (s * one) = S * W
    OBVIOUS
  <2> QED
    BY <2>1, <2>2
<1>5. R * (D * U) <= R * ((t * t) * W)
  <2> HIDE DEF R, S, U, W, t
  <2>1. D * (R * U) <= D * (S * W)
    <3>1. R * U \in Int /\ S * W \in Int
      BY <1>1
    <3>2. (R * U) * D <= (S * W) * D
      BY <1>4, <3>1, Times
    <3> QED
      BY <1>1, <3>1, <3>2
  <2>2. (D * S) * W <= (R * (t * t)) * W
    <3>1. D * S \in Int /\ R * (t * t) \in Int
      BY <1>1
    <3> QED
      BY <1>1, <1>3, <3>1, Times
  <2>3. /\ R * (D * U) = D * (R * U)
        /\ D * (S * W) = (D * S) * W
        /\ R * ((t * t) * W) = (R * (t * t)) * W
    BY <1>1
  <2>4. R * (D * U) \in Int /\ D * (S * W) \in Int /\ R * ((t * t) * W) \in Int
    BY <1>1
  <2> QED
    BY <2>1, <2>2, <2>3, <2>4
<1>6. D * U <= (t * t) * W
  <2> DEFINE x == D * U
             y == (t * t) * W
  <2>1. x \in Nat /\ y \in Nat /\ R * x <= R * y
    BY <1>1, <1>5
  <2> HIDE DEF x, y, R
  <2>2. SUFFICES ASSUME y + 1 <= x PROVE FALSE
    <3>1. x <= y
      BY <2>1, <2>2
    <3> QED
      BY <3>1 DEF x, y
  <2>3. R * (y + 1) <= R * x /\ R * (y + 1) = R * y + R
    BY <1>1, <2>1, <2>2
  <2>4. R * y \in Nat /\ R * x \in Nat
    BY <1>1, <2>1
  <2> QED
    BY <1>1, <2>1, <2>3, <2>4
<1>7. (t * t) * W = (t * one) * (t * one)
  BY <1>1
<1> QED
  BY <1>6, <1>7

\* Rounding down takes it no farther than two more.
LEMMA FloorBound ==
  ASSUME NEW one \in Nat \ {0}, NEW X \in Int, NEW Y \in Int, NEW mx \in Int, NEW my \in Int,
         one * mx <= X, X < one * mx + one, one * my <= Y, Y < one * my + one,
         NEW t \in Nat, X * X + Y * Y <= (t * one) * (t * one)
  PROVE  mx * mx + my * my <= (t + 2) * (t + 2)
<1> DEFINE A == t * one
           ex == X - one * mx
           ey == Y - one * my
           px == one * mx
           py == one * my
<1>1. A \in Nat /\ px \in Int /\ py \in Int /\ X * X \in Nat /\ Y * Y \in Nat
  BY SquareNat
<1>2. ex \in 0..one /\ ey \in 0..one /\ px = X - ex /\ py = Y - ey
  <2> HIDE DEF px, py
  <2> QED
  BY <1>1 DEF px, py
<1>3. X * X <= A * A /\ Y * Y <= A * A /\ A * A \in Nat
  <2>1. A * A \in Nat /\ X * X + Y * Y <= A * A
    BY <1>1
  <2> QED
    BY <1>1, <2>1
<1>4. -A <= X /\ X <= A /\ -A <= Y /\ Y <= A
  BY <1>1, <1>3, RootOrder
<1> HIDE DEF A, ex, ey, px, py
<1>5. ASSUME NEW Z \in Int, NEW e \in 0..one, -A <= Z, Z <= A
      PROVE  (Z - e) * (Z - e) <= Z * Z + 2 * (A * one) + one * one
  <2>1. (Z - e) * (Z - e) = Z * Z - 2 * (Z * e) + e * e
    OBVIOUS
  <2>2. -(A * one) <= Z * e
    <3>1. (-A) * e <= Z * e
      BY <1>1, <1>5, Times
    <3>2. e * A <= one * A
      BY <1>1, Times
    <3>3. (-A) * e = -(e * A) /\ one * A = A * one
      BY <1>1
    <3>4. e * A \in Int /\ A * one \in Int /\ Z * e \in Int
      BY <1>1
    <3> QED
      BY <3>1, <3>2, <3>3, <3>4
  <2>3. e * e <= one * one
    <3>1. e * e <= one * e /\ e * one <= one * one
      BY Times
    <3>2. e * one = one * e /\ e * e \in Int /\ e * one \in Int /\ one * one \in Int
      OBVIOUS
    <3> QED
      BY <3>1, <3>2
  <2>4. Z * e \in Int /\ A * one \in Int /\ e * e \in Int /\ one * one \in Int /\ Z * Z \in Int
    BY <1>1
  <2> QED
    BY <2>1, <2>2, <2>3, <2>4
<1>6. px * px + py * py <= (A + 2 * one) * (A + 2 * one)
  <2>1. /\ px * px <= X * X + 2 * (A * one) + one * one
        /\ py * py <= Y * Y + 2 * (A * one) + one * one
    <3>1. /\ (X - ex) * (X - ex) <= X * X + 2 * (A * one) + one * one
          /\ (Y - ey) * (Y - ey) <= Y * Y + 2 * (A * one) + one * one
      BY <1>2, <1>4, <1>5
    <3> QED
      BY <1>2, <3>1
  <2>2. (A + 2 * one) * (A + 2 * one) = A * A + 4 * (A * one) + 4 * (one * one)
    BY <1>1
  <2>3. X * X + Y * Y <= A * A
    BY DEF A
  <2>4. A * one \in Nat /\ one * one \in Nat /\ A * A \in Nat /\ px * px \in Int /\ py * py \in Int
    BY <1>1
  <2> QED
    BY <1>1, <2>1, <2>2, <2>3, <2>4
<1>7. (one * one) * (mx * mx + my * my) <= (one * one) * ((t + 2) * (t + 2))
  <2>1. px * px = (one * one) * (mx * mx) /\ py * py = (one * one) * (my * my)
    BY DEF px, py
  <2>2. A + 2 * one = (t + 2) * one
    BY DEF A
  <2>3. ((t + 2) * one) * ((t + 2) * one) = (one * one) * ((t + 2) * (t + 2))
    OBVIOUS
  <2>4. (one * one) * (mx * mx + my * my) = (one * one) * (mx * mx) + (one * one) * (my * my)
    OBVIOUS
  <2> QED
    BY <1>6, <2>1, <2>2, <2>3, <2>4
<1>8. mx * mx + my * my \in Nat /\ (t + 2) * (t + 2) \in Nat /\ one * one \in Nat \ {0}
  <2>1. mx * mx \in Nat /\ my * my \in Nat
    BY SquareNat
  <2> QED
    BY <2>1
<1> DEFINE x == mx * mx + my * my
           y == (t + 2) * (t + 2)
           c == one * one
<1>9. x \in Nat /\ y \in Nat /\ c \in Nat \ {0} /\ c * x <= c * y
  BY <1>7, <1>8
<1> HIDE DEF x, y, c
<1>10. SUFFICES ASSUME y + 1 <= x PROVE FALSE
  <2>1. x <= y
    BY <1>9, <1>10
  <2> QED
    BY <2>1 DEF x, y
<1>11. c * (y + 1) <= c * x /\ c * (y + 1) = c * y + c /\ c * y \in Nat /\ c * x \in Nat
  BY <1>9, <1>10
<1> QED
  BY <1>9, <1>11

\* What the operations on integers return.
LEMMA Closure ==
  ASSUME NEW a \in Int, NEW b \in Int
  PROVE  /\ FromInt(a) \in Int /\ Add(a, b) \in Int /\ Sub(a, b) \in Int
         /\ Mul(a, b) \in -(Largest + 1)..Largest
         /\ b > 0 => Div(a, b) \in Int /\ Quotient(a * One, b) \in Int
<1>1. One \in Nat \ {0} /\ Largest \in Nat
  BY Sizes
<1>2. a * One \in Int /\ a + b \in Int /\ a - b \in Int /\ a * b \in Int
  BY <1>1
<1>3. (a * b) \div One \in Int
  BY <1>1, <1>2, Quotients
<1>4. ASSUME b > 0 PROVE Quotient(a * One, b) \in Int
  <2>1. b \in Nat \ {0} /\ -(a * One) \in Int
    BY <1>2, <1>4
  <2>2. (a * One) \div b \in Int /\ (-(a * One)) \div b \in Int
    BY <1>2, <2>1, Quotients
  <2> QED
    BY <2>1, <2>2 DEF Quotient
<1>5. \A v \in Int : Wrap(v) \in Int /\ Wrap(v) \in -(Largest + 1)..Largest
  BY <1>1, WrapWithin
<1> QED
  BY <1>2, <1>3, <1>4, <1>5 DEF FromInt, Add, Sub, Mul, Div


\* The root of what is farther than dist is at least dist, and not zero.
LEMMA RootOfFar ==
  ASSUME NEW a \in 1..Largest, NEW dist \in Int, (dist * dist) \div One < a
  PROVE  Sqrt(a) \in Nat \ {0} /\ dist <= Sqrt(a)
<1> DEFINE r == Sqrt(a)
           q == (dist * dist) \div One
<1>1. One \in Nat \ {0}
  BY Sizes
<1>2. r \in 0..Largest /\ a * One < (r + 1) * (r + 1)
  BY SqrtRoot
<1>3. q \in Int /\ dist * dist < One * q + One
  BY <1>1, Quotients
<1> HIDE DEF r, q
<1>4. dist * dist < (r + 1) * (r + 1)
  <2>1. q + 1 <= a
    BY <1>3 DEF q
  <2>2. One * (q + 1) <= One * a
    BY <1>1, <1>3, <2>1
  <2>3. One * (q + 1) = One * q + One /\ One * a = a * One
    BY <1>1, <1>3
  <2> QED
    BY <1>1, <1>2, <1>3, <2>2, <2>3
<1>5. r # 0
  <2>1. SUFFICES ASSUME r = 0 PROVE FALSE
    OBVIOUS
  <2>2. (r + 1) * (r + 1) = 1
    BY <2>1
  <2>3. 1 <= a * One /\ a * One \in Int
    BY <1>1
  <2> QED
    BY <1>2, <2>2, <2>3
<1>6. dist <= r
  <2>1. SUFFICES ASSUME r + 1 <= dist PROVE FALSE
    BY <1>2, <2>1 DEF r
  <2>2. (r + 1) * (r + 1) <= dist * dist
    BY <1>2, <2>1
  <2> QED
    BY <1>2, <1>4, <2>2
<1> QED
  BY <1>2, <1>5, <1>6 DEF r

\* A step ends at a place.
LEMMA MoveType ==
  ASSUME NEW from \in Place, NEW to \in Place, NEW dist \in Int, Mul(dist, dist) >= 0
  PROVE  MoveToward(from, to, dist) \in Place
<1> DEFINE diff == VSub(to, from)
           far == LenSq(diff)
           ratio == Div(dist, Sqrt(far))
           by == Scale(diff, ratio)
<1>1. diff \in Place
  BY Closure DEF Place, VSub, V
<1>2. far \in -(Largest + 1)..Largest /\ Largest \in Nat
  <2>1. Mul(diff.x, diff.x) \in Int /\ Mul(diff.y, diff.y) \in Int /\ Largest \in Nat
    BY <1>1, Closure, Sizes DEF Place
  <2>2. Mul(diff.x, diff.x) + Mul(diff.y, diff.y) \in Int
    BY <2>1
  <2> HIDE DEF diff
  <2> QED
    BY <2>1, <2>2, WrapWithin DEF LenSq, Add
<1>3. CASE far <= Mul(dist, dist)
  BY <1>3 DEF MoveToward
<1>4. CASE ~(far <= Mul(dist, dist))
  <2>1. far \in 1..Largest
    <3>1. Mul(dist, dist) \in Int
      BY <1>2, Closure
    <3> HIDE DEF far
    <3> QED
      BY <1>2, <1>4, <3>1
  <2>2. Sqrt(far) \in Nat /\ Sqrt(far) > 0
    <3> DEFINE r == Sqrt(far)
    <3>1. r \in 0..Largest /\ far * One < (r + 1) * (r + 1) /\ One \in Nat \ {0}
      BY <2>1, SqrtRoot, Sizes
    <3> HIDE DEF r, far
    <3>2. 1 <= far * One
      BY <2>1, <3>1
    <3>3. r # 0
      <4>1. SUFFICES ASSUME r = 0 PROVE FALSE
        OBVIOUS
      <4>2. (r + 1) * (r + 1) = 1 /\ far * One \in Int
        BY <2>1, <3>1, <4>1
      <4> QED
        BY <3>1, <3>2, <4>2
    <3> QED
      BY <3>1, <3>3 DEF r
  <2>3. ratio \in Int
    BY <2>2, Closure
  <2> HIDE DEF ratio, diff
  <2>4. by \in Place
    <3>1. diff.x \in Int /\ diff.y \in Int
      BY <1>1 DEF Place
    <3>2. Mul(diff.x, ratio) \in Int /\ Mul(diff.y, ratio) \in Int
      <4>1. \A v \in Int : Mul(v, ratio) \in -(Largest + 1)..Largest
        BY <2>3, Closure
      <4>2. \A v \in Int : Mul(v, ratio) \in Int
        BY <1>2, <4>1
      <4> QED
        BY <3>1, <4>2
    <3> QED
      BY <3>2 DEF Place, Scale, V
  <2>5. MoveToward(from, to, dist) = VAdd(from, by)
    BY <1>4 DEF MoveToward, ratio, diff
  <2> HIDE DEF by
  <2>6. Add(from.x, by.x) \in Int /\ Add(from.y, by.y) \in Int
    BY <2>4, Closure DEF Place
  <2> QED
    BY <2>5, <2>6 DEF Place, VAdd, V
<1> QED
  BY <1>3, <1>4

\* A ratio below one makes a difference smaller, and not of the other sign.
LEMMA Shrunk ==
  ASSUME NEW d \in Int, NEW ratio \in 0..One
  PROVE  LET m == (d * ratio) \div One
         IN  m \in Int /\ IF d >= 0 THEN 0 <= m /\ m <= d ELSE d <= m /\ m <= 0
<1> DEFINE m == (d * ratio) \div One
<1>1. One \in Nat \ {0} /\ ratio \in Nat /\ d * ratio \in Int /\ d * One \in Int
  BY Sizes
<1>2. (0 * One) \div One = 0 /\ (d * One) \div One = d /\ 0 * One = 0
  BY <1>1, DivMultiple
<1>3. m \in Int
  BY <1>1, Quotients
<1>4. CASE d >= 0
  <2>1. 0 <= d * ratio /\ d * ratio <= d * One
    BY <1>1, <1>4
  <2>2. 0 \div One <= m /\ m <= (d * One) \div One
    BY <1>1, <2>1, DivMonotone
  <2> QED
    BY <1>2, <1>3, <1>4, <2>2
<1>5. CASE ~(d >= 0)
  <2>1. d * One <= d * ratio /\ d * ratio <= 0
    BY <1>1, <1>5
  <2>2. (d * One) \div One <= m /\ m <= 0 \div One
    BY <1>1, <2>1, DivMonotone
  <2> QED
    BY <1>2, <1>3, <1>5, <2>2
<1> QED
  BY <1>4, <1>5

\* Where a step ends that begins on a map whose squared distances are numbers of
\* the width: at its end, if that is within reach, or else part of the way there.
LEMMA MoveForm ==
  ASSUME NEW M \in Nat, One <= M, 2 * ((M * M) \div One) <= Largest,
         NEW from \in [x : 0..M, y : 0..M], NEW to \in [x : 0..M, y : 0..M],
         NEW dist \in 0..M
  PROVE  LET dx == to.x - from.x
             dy == to.y - from.y
             far == ((dx * dx) \div One) + ((dy * dy) \div One)
         IN  \/ /\ MoveToward(from, to, dist) = to
                /\ far <= (dist * dist) \div One
             \/ /\ far \in 1..Largest
                /\ PartWay(M, from, dx, dy, far, dist, MoveToward(from, to, dist))
<1> DEFINE S == (M * M) \div One
           dx == to.x - from.x
           dy == to.y - from.y
           far == LenSq(VSub(to, from))
           ratio == Div(dist, Sqrt(far))
           Sq(d) == (d * d) \div One
<1>1. One \in Nat \ {0} /\ Largest \in Nat
  BY Sizes
<1>2. S \in Nat /\ M <= S
  <2>1. S \in Int /\ M * One <= M * M
    BY <1>1, Quotients
  <2>2. (M * One) \div One = M /\ (M * One) \div One <= S
    BY <1>1, <2>1, DivMonotone, DivMultiple
  <2> QED
    BY <2>1, <2>2
<1>3. S + S <= Largest /\ M <= Largest /\ S <= Largest
  BY <1>1, <1>2
<1>4. \A v \in -Largest..Largest : Wrap(v) = v
  BY <1>1, WrapWithin
<1>5. dx \in -M..M /\ dy \in -M..M
  OBVIOUS
<1>6. \A d \in -M..M : d * d \in 0..(M * M) /\ Sq(d) \in 0..S
  <2> SUFFICES ASSUME NEW d \in -M..M PROVE d * d \in 0..(M * M) /\ Sq(d) \in 0..S
    OBVIOUS
  <2>1. 0 <= d * d /\ d * d <= M * M /\ d * d \in Int
    <3>1. CASE d >= 0
      BY <3>1
    <3>2. CASE ~(d >= 0)
      <4>1. -d \in 0..M /\ d * d = (-d) * (-d)
        BY <3>2
      <4>2. (-d) * (-d) <= M * M /\ 0 <= (-d) * (-d)
        BY <4>1
      <4> QED
        BY <4>1, <4>2
    <3> QED
      BY <3>1, <3>2
  <2>2. (0 * One) \div One = 0 /\ 0 * One = 0
    BY <1>1, DivMultiple
  <2>3. 0 \div One <= Sq(d) /\ Sq(d) <= S /\ Sq(d) \in Int
    BY <1>1, <2>1, DivMonotone, Quotients
  <2> QED
    BY <2>1, <2>2, <2>3
<1> HIDE DEF dx, dy, S, Sq
<1>7. \A d \in -M..M : Mul(d, d) = Sq(d)
  BY <1>1, <1>2, <1>3, <1>4, <1>6 DEF Mul, Sq
<1>8. VSub(to, from) = V(dx, dy)
  <2>1. Sub(to.x, from.x) = dx /\ Sub(to.y, from.y) = dy
    BY <1>1, <1>3, <1>4, <1>5 DEF Sub, dx, dy
  <2> QED
    BY <2>1 DEF VSub
<1>9. far = Sq(dx) + Sq(dy) /\ far \in 0..Largest
  <2>1. far = Add(Mul(dx, dx), Mul(dy, dy))
    BY <1>8 DEF LenSq, V
  <2>2. Sq(dx) + Sq(dy) \in 0..(S + S)
    BY <1>2, <1>5, <1>6
  <2>3. far = Wrap(Sq(dx) + Sq(dy))
    BY <1>5, <1>7, <2>1 DEF Add
  <2> HIDE DEF far
  <2> QED
    BY <1>1, <1>2, <1>3, <1>4, <2>2, <2>3
<1>10. Mul(dist, dist) = Sq(dist) /\ Sq(dist) \in 0..S
  BY <1>6, <1>7
<1>11. CASE far <= Mul(dist, dist)
  <2>1. MoveToward(from, to, dist) = to
    BY <1>11 DEF MoveToward
  <2> QED
    BY <1>9, <1>10, <1>11, <2>1 DEF Sq, dx, dy
<1>12. CASE ~(far <= Mul(dist, dist))
  <2> DEFINE r == Sqrt(far)
             Part(d) == (d * ratio) \div One
  <2> HIDE DEF far
  <2>1. far \in 1..Largest /\ Sq(dist) < far
    BY <1>1, <1>2, <1>9, <1>10, <1>12
  <2>2. r \in Nat \ {0} /\ dist <= r /\ r * r <= far * One /\ far * One < (r + 1) * (r + 1)
    <3>1. Sqrt(far) \in Nat \ {0} /\ dist <= Sqrt(far)
      BY <2>1, RootOfFar DEF Sq
    <3>2. Sqrt(far) * Sqrt(far) <= far * One /\ far * One < (Sqrt(far) + 1) * (Sqrt(far) + 1)
      BY <2>1, SqrtRoot
    <3> QED
      BY <3>1, <3>2
  <2>3. ratio \in 0..One /\ r * ratio <= dist * One /\ dist * One < r * ratio + r
    <3> DEFINE q == (dist * One) \div r
    <3>0. ratio = Div(dist, r)
      OBVIOUS
    <3> HIDE DEF r
    <3>2. 0 <= dist * One /\ dist * One <= One * r /\ dist * One \in Int /\ One * r \in Int
      BY <1>1, <2>2
    <3>3. (0 * r) \div r = 0 /\ (One * r) \div r = One /\ 0 * r = 0
      BY <1>1, <2>2, DivMultiple
    <3>4. q \in Int /\ 0 \div r <= q /\ q <= (One * r) \div r
      BY <2>2, <3>2, DivMonotone, Quotients
    <3>a. r * q <= dist * One /\ dist * One < r * q + r
      BY <2>2, <3>2, Quotients
    <3>5. q \in 0..One
      BY <1>1, <3>3, <3>4
    <3>6. Quotient(dist * One, r) = q
      BY <2>2, <3>2 DEF Quotient
    <3>7. One <= Largest
      BY <1>1, <1>3
    <3>8. Wrap(q) = q
      BY <1>1, <1>4, <3>5, <3>7
    <3>9. ratio = q
      BY <3>0, <3>6, <3>8 DEF Div
    <3> QED
      BY <3>5, <3>9, <3>a
  <2> HIDE DEF ratio, r, Part
  <2>4. ASSUME NEW d \in -M..M
        PROVE  /\ Mul(d, ratio) = Part(d) /\ Part(d) \in Int
               /\ IF d >= 0 THEN 0 <= Part(d) /\ Part(d) <= d ELSE d <= Part(d) /\ Part(d) <= 0
    <3>1. Part(d) \in Int /\ IF d >= 0 THEN 0 <= Part(d) /\ Part(d) <= d
                             ELSE d <= Part(d) /\ Part(d) <= 0
      <4>1. d \in Int
        OBVIOUS
      <4> QED
        BY <2>3, <4>1, Shrunk DEF Part
    <3>2. Part(d) \in -Largest..Largest
      BY <1>1, <1>3, <3>1
    <3>3. Mul(d, ratio) = Part(d)
      BY <1>4, <3>2 DEF Mul, Part
    <3> QED
      BY <3>1, <3>3
  <2>5. MoveToward(from, to, dist) =
          V(Wrap(from.x + Part(dx)), Wrap(from.y + Part(dy)))
    <3>1. MoveToward(from, to, dist) = VAdd(from, Scale(VSub(to, from), ratio))
      BY <1>12 DEF MoveToward, far, ratio, r
    <3>2. VAdd(from, Scale(VSub(to, from), ratio))
            = V(Wrap(from.x + Mul(dx, ratio)), Wrap(from.y + Mul(dy, ratio)))
      BY <1>8 DEF VAdd, Scale, Add, V
    <3> QED
      BY <1>5, <2>4, <3>1, <3>2
  <2>6. /\ Part(dx) \in Int /\ Part(dy) \in Int
        /\ from.x + Part(dx) \in 0..M /\ from.y + Part(dy) \in 0..M
    <3> DEFINE mx == Part(dx)
               my == Part(dy)
    <3>1. /\ mx \in Int /\ IF dx >= 0 THEN 0 <= mx /\ mx <= dx ELSE dx <= mx /\ mx <= 0
          /\ my \in Int /\ IF dy >= 0 THEN 0 <= my /\ my <= dy ELSE dy <= my /\ my <= 0
      BY <1>5, <2>4
    <3> HIDE DEF mx, my
    <3>2. mx \in Int /\ my \in Int /\ from.x \in 0..M /\ from.y \in 0..M
          /\ to.x \in 0..M /\ to.y \in 0..M
      BY <3>1
    <3>3. from.x + mx \in 0..M
      BY <3>1, <3>2 DEF dx
    <3>4. from.y + my \in 0..M
      BY <3>1, <3>2 DEF dy
    <3> QED
      BY <3>2, <3>3, <3>4 DEF mx, my
  <2>7. \A v \in 0..M : Wrap(v) = v
    BY <1>1, <1>3, <1>4
  <2>8. MoveToward(from, to, dist) = V(from.x + Part(dx), from.y + Part(dy))
    BY <2>5, <2>6, <2>7
  <2>9. PartWay(M, from, dx, dy, far, dist, MoveToward(from, to, dist))
    BY <2>2, <2>3, <2>6, <2>8 DEF Part, PartWay
  <2> QED
    BY <1>9, <2>1, <2>9 DEF Sq, dx, dy
<1> QED
  BY <1>11, <1>12

\* Who moves towards a place on such a map stays on it.
LEMMA MoveBetween ==
  ASSUME NEW M \in Nat, One <= M, 2 * ((M * M) \div One) <= Largest,
         NEW from \in [x : 0..M, y : 0..M], NEW to \in [x : 0..M, y : 0..M],
         NEW dist \in 0..M
  PROVE  MoveToward(from, to, dist) \in [x : 0..M, y : 0..M]
<1>1. CASE MoveToward(from, to, dist) = to
  BY <1>1
<1>2. ASSUME NEW dx, NEW dy, NEW far,
             PartWay(M, from, dx, dy, far, dist, MoveToward(from, to, dist))
      PROVE  MoveToward(from, to, dist) \in [x : 0..M, y : 0..M]
  BY <1>2 DEF PartWay, V
<1> QED
  BY <1>1, <1>2, MoveForm

\* Rounding takes less than One off a square.
LEMMA SquareOf ==
  ASSUME NEW d \in Int
  PROVE  LET q == (d * d) \div One
         IN  /\ d * d \in Nat /\ q \in Int
             /\ One * q <= d * d /\ d * d <= One * q + One - 1
<1> DEFINE q == (d * d) \div One
           D == d * d
<1>1. One \in Nat \ {0} /\ D \in Nat
  BY Sizes, SquareNat
<1>2. q \in Int /\ One * q <= D /\ D < One * q + One
  BY <1>1, Quotients
<1> HIDE DEF q, D
<1>3. One * q \in Int
  BY <1>1, <1>2
<1>4. D <= One * q + One - 1
  BY <1>1, <1>2, <1>3
<1> QED
  BY <1>1, <1>2, <1>4 DEF q, D

\* It ends no farther away than the step is long, but for the rounding.
LEMMA MoveNear ==
  ASSUME NEW M \in Nat, One <= M, 2 * ((M * M) \div One) <= Largest,
         NEW from \in [x : 0..M, y : 0..M], NEW to \in [x : 0..M, y : 0..M],
         NEW dist \in 0..M, One <= 2 * dist
  PROVE  SquaredDistance(from, MoveToward(from, to, dist)) <= (dist + 5) * (dist + 5)
<1> DEFINE dx == to.x - from.x
           dy == to.y - from.y
           qx == (dx * dx) \div One
           qy == (dy * dy) \div One
           qs == (dist * dist) \div One
           D == dx * dx + dy * dy
           p == MoveToward(from, to, dist)
<1>1. One \in Nat \ {0} /\ dx \in Int /\ dy \in Int /\ dist \in Nat
  BY Sizes
<1>2. /\ D \in Nat /\ qx \in Int /\ qy \in Int /\ qs \in Int /\ dist * dist \in Nat
      /\ D <= One * qx + One * qy + 2 * One - 2 /\ One * qs <= dist * dist
  <2> HIDE DEF dx, dy
  <2>1. /\ dx * dx \in Nat /\ qx \in Int /\ dx * dx <= One * qx + One - 1
        /\ dy * dy \in Nat /\ qy \in Int /\ dy * dy <= One * qy + One - 1
        /\ dist * dist \in Nat /\ qs \in Int /\ One * qs <= dist * dist
    BY <1>1, SquareOf
  <2> DEFINE a == dx * dx
             b == dy * dy
  <2>2. /\ a \in Nat /\ a <= One * qx + One - 1
        /\ b \in Nat /\ b <= One * qy + One - 1 /\ One * qx \in Int /\ One * qy \in Int
    BY <1>1, <2>1
  <2> HIDE DEF a, b, qx, qy
  <2>3. a + b \in Nat /\ a + b <= One * qx + One * qy + 2 * One - 2
    BY <1>1, <2>2
  <2> QED
    BY <2>1, <2>3 DEF a, b
<1>3. One * qx + One * qy = One * (qx + qy) /\ One * (qx + qy) \in Int
  BY <1>1, <1>2
<1>4. CASE p = to /\ qx + qy <= qs
  <2>1. One * (qx + qy) <= One * qs /\ One * qs \in Int
    <3>1. (qx + qy) * One <= qs * One
      BY <1>1, <1>2, <1>4, Times
    <3> QED
      BY <1>1, <1>2, <3>1
  <2>2. SquaredDistance(from, p) = D
    BY <1>1, <1>4 DEF SquaredDistance
  <2> HIDE DEF D, qx, qy, qs, p
  <2>3. (dist + 5) * (dist + 5) = dist * dist + 10 * dist + 25
    BY <1>1
  <2>4. D <= dist * dist + 2 * One
    <3>1. \A a, b, c, d \in Int : a <= b + 2 * One - 2 /\ b <= c /\ c <= d => a <= d + 2 * One
      BY <1>1
    <3>2. D <= One * (qx + qy) + 2 * One - 2 /\ One * qs <= dist * dist
      BY <1>2, <1>3
    <3> QED
      BY <1>2, <1>3, <2>1, <3>1, <3>2
  <2>5. D <= (dist + 5) * (dist + 5)
    <3>1. \A a \in Nat : D <= a + 2 * One => D <= a + 10 * dist + 25
      BY <1>1, <1>2
    <3>2. D <= dist * dist + 10 * dist + 25
      BY <1>2, <2>4, <3>1
    <3> QED
      BY <2>3, <3>2
  <2> QED
    BY <2>2, <2>5 DEF p
<1>5. CASE PartWay(M, from, dx, dy, qx + qy, dist, p)
  <2> DEFINE mx(c) == (dx * c) \div One
             my(c) == (dy * c) \div One
  <2>1. PICK r \in Nat \ {0}, ratio \in 0..One :
          /\ dist <= r /\ r * ratio <= dist * One
          /\ (qx + qy) * One < (r + 1) * (r + 1)
          /\ mx(ratio) \in Int /\ my(ratio) \in Int
          /\ p = V(from.x + mx(ratio), from.y + my(ratio))
    BY <1>5 DEF PartWay
  <2>2. ratio \in Nat
    BY <1>1
  <2>3. D <= r * r + 2 * r + 2 * One - 2
    <3> HIDE DEF D, qx, qy
    <3>1. (r + 1) * (r + 1) = r * r + 2 * r + 1 /\ r * r \in Nat
      OBVIOUS
    <3>2. (qx + qy) * One = One * (qx + qy)
      BY <1>1, <1>2
    <3> QED
      BY <1>1, <1>2, <1>3, <2>1, <3>1, <3>2
  <2>4. D * (ratio * ratio) <= ((dist + 3) * One) * ((dist + 3) * One)
    <3> HIDE DEF D
    <3> QED
      BY <1>1, <1>2, <2>1, <2>2, <2>3, RatioBound
  <2> DEFINE X == dx * ratio
             Y == dy * ratio
             t == dist + 3
  <2>5. X * X + Y * Y = D * (ratio * ratio)
    <3> HIDE DEF dx, dy
    <3> QED
      BY <1>1, <2>2
  <2>6. X \in Int /\ Y \in Int /\ t \in Nat
    <3> HIDE DEF dx, dy
    <3> QED
      BY <1>1, <2>2
  <2> HIDE DEF X, Y, t, D
  <2>7. X * X + Y * Y <= (t * One) * (t * One)
    BY <2>4, <2>5 DEF t
  <2> DEFINE a == X \div One
             b == Y \div One
  <2>8. a \in Int /\ b \in Int /\ One * a <= X /\ X < One * a + One /\ One * b <= Y /\ Y < One * b + One
    BY <1>1, <2>6, Quotients
  <2>9. a = mx(ratio) /\ b = my(ratio)
    BY DEF X, Y
  <2> HIDE DEF a, b, mx, my
  <2>10. a * a + b * b <= (t + 2) * (t + 2)
    BY <1>1, <2>6, <2>7, <2>8, FloorBound
  <2>11. SquaredDistance(from, p) = a * a + b * b
    <3>1. p.x = from.x + a /\ p.y = from.y + b /\ from.x \in Int /\ from.y \in Int
      BY <2>1, <2>9 DEF V
    <3> HIDE DEF p
    <3>2. from.x - p.x = -a /\ from.y - p.y = -b
      BY <2>8, <3>1
    <3>3. (-a) * (-a) = a * a /\ (-b) * (-b) = b * b
      BY <2>8
    <3> QED
      BY <3>2, <3>3 DEF SquaredDistance
  <2>12. t + 2 = dist + 5
    BY <1>1 DEF t
  <2> QED
    BY <2>10, <2>11, <2>12
<1> QED
  <2>1. (p = to /\ qx + qy <= qs) \/ PartWay(M, from, dx, dy, qx + qy, dist, p)
    BY MoveForm
  <2> QED
    BY <1>4, <1>5, <2>1

\* Part of a difference taken off it makes it smaller.
LEMMA LessLeft ==
  ASSUME NEW d \in Int, NEW m \in Int,
         IF d >= 0 THEN 0 <= m /\ m <= d ELSE d <= m /\ m <= 0
  PROVE  /\ (m - d) * (m - d) \in Int /\ d * d \in Int
         /\ (m - d) * (m - d) <= d * d
         /\ m # 0 => (m - d) * (m - d) < d * d
<1> DEFINE c == IF d >= 0 THEN d ELSE -d
           e == IF d >= 0 THEN d - m ELSE m - d
<1>1. c \in Nat /\ e \in Nat /\ e <= c /\ (m # 0 => e + 1 <= c)
  OBVIOUS
<1>2. d * d = c * c /\ (m - d) * (m - d) = e * e
  <2>1. CASE d >= 0
    <3>1. c = d /\ m - d = -e /\ e \in Int
      BY <2>1
    <3> HIDE DEF c, e
    <3>2. (-e) * (-e) = e * e
      BY <3>1
    <3> QED
      BY <3>1, <3>2
  <2>2. CASE ~(d >= 0)
    <3>1. c = -d /\ m - d = e
      BY <2>2
    <3> HIDE DEF c, e
    <3> QED
      BY <3>1
  <2> QED
    BY <2>1, <2>2
<1> HIDE DEF c, e
<1>3. e * e \in Nat /\ c * c \in Nat /\ e * e <= c * c
  <2>1. e * e <= c * e /\ e * c <= c * c
    BY <1>1, Times
  <2>2. c * e = e * c /\ e * e \in Nat /\ c * c \in Nat /\ e * c \in Nat
    BY <1>1
  <2> QED
    BY <2>1, <2>2
<1>4. ASSUME m # 0 PROVE e * e < c * c
  <2>1. (e + 1) * (e + 1) = e * e + 2 * e + 1
    BY <1>1
  <2>2. (e + 1) * (e + 1) <= c * (e + 1) /\ (e + 1) * c <= c * c
    BY <1>1, <1>4, Times
  <2>3. c * (e + 1) = (e + 1) * c /\ (e + 1) * c \in Nat
    BY <1>1
  <2> DEFINE x == (e + 1) * (e + 1)
             y == (e + 1) * c
             z == c * (e + 1)
             w == c * c
  <2>a. x <= z /\ y <= w /\ z = y /\ x \in Int /\ y \in Int /\ w \in Int
    BY <1>1, <2>2, <2>3
  <2> HIDE DEF x, y, z, w
  <2>b. x <= w
    BY <2>a
  <2>4. (e + 1) * (e + 1) <= c * c
    BY <2>b DEF x, w
  <2>5. e * e + 2 * e + 1 <= c * c
    BY <2>1, <2>4
  <2> QED
    BY <1>1, <1>3, <2>5
<1> QED
  BY <1>2, <1>3, <1>4

\* What the ratio leaves of the longer side is not rounded to nothing, unless the
\* step is too short for the map.
LEMMA RatioCounts ==
  ASSUME NEW one \in Nat \ {0}, NEW s \in Nat, NEW r \in Nat \ {0}, NEW ratio \in Nat,
         NEW e \in Nat, NEW M \in Nat, e <= M, 3 * (M + one) <= 2 * (s * one),
         s * one < r * ratio + r, r * r <= 2 * (e * e)
  PROVE  one <= e * ratio
<1> SUFFICES ASSUME e * ratio + 1 <= one PROVE FALSE
  <2>1. e * ratio \in Int
    OBVIOUS
  <2> QED
    BY <2>1
<1>1. 2 * r <= 3 * e
  <2>1. (2 * r) * (2 * r) = 4 * (r * r) /\ (3 * e) * (3 * e) = 9 * (e * e)
    OBVIOUS
  <2>2. r * r \in Nat /\ e * e \in Nat
    OBVIOUS
  <2>3. (2 * r) * (2 * r) <= (3 * e) * (3 * e)
    BY <2>1, <2>2
  <2>4. 2 * r \in Int /\ 3 * e \in Nat
    OBVIOUS
  <2> QED
    BY <2>3, <2>4, RootOrder
<1>2. 2 * (r * ratio) <= 3 * (e * ratio)
  <2>1. (2 * r) * ratio <= (3 * e) * ratio
    BY <1>1, Times
  <2> QED
    BY <2>1
<1>3. r * ratio \in Nat /\ e * ratio \in Nat /\ s * one \in Nat
  OBVIOUS
<1> DEFINE a == r * ratio
           b == e * ratio
           c == s * one
<1>4. /\ a \in Nat /\ b \in Nat /\ c \in Nat /\ 2 * a <= 3 * b /\ b + 1 <= one
      /\ c < a + r /\ 3 * (M + one) <= 2 * c
  BY <1>2, <1>3
<1> HIDE DEF a, b, c
<1> QED
  BY <1>1, <1>4

\* Who is not there yet is nearer.
LEMMA MoveNearer ==
  ASSUME NEW M \in Nat, One <= M, 2 * ((M * M) \div One) <= Largest,
         NEW from \in [x : 0..M, y : 0..M], NEW to \in [x : 0..M, y : 0..M],
         NEW dist \in 0..M, 3 * (M + One) <= 2 * (dist * One),
         MoveToward(from, to, dist) # to
  PROVE  SquaredDistance(MoveToward(from, to, dist), to) < SquaredDistance(from, to)
<1> DEFINE dx == to.x - from.x
           dy == to.y - from.y
           far == ((dx * dx) \div One) + ((dy * dy) \div One)
           p == MoveToward(from, to, dist)
<1>1. One \in Nat \ {0} /\ dx \in -M..M /\ dy \in -M..M /\ dist \in Nat
  BY Sizes
<1>2. far \in 1..Largest /\ PartWay(M, from, dx, dy, far, dist, p)
  BY MoveForm
<1> DEFINE mx(c) == (dx * c) \div One
           my(c) == (dy * c) \div One
<1>3. PICK r \in Nat \ {0}, ratio \in 0..One :
        /\ dist * One < r * ratio + r /\ r * r <= far * One
        /\ p = V(from.x + mx(ratio), from.y + my(ratio))
  BY <1>2 DEF PartWay
<1> DEFINE a == mx(ratio)
           b == my(ratio)
<1>4. /\ a \in Int /\ IF dx >= 0 THEN 0 <= a /\ a <= dx ELSE dx <= a /\ a <= 0
      /\ b \in Int /\ IF dy >= 0 THEN 0 <= b /\ b <= dy ELSE dy <= b /\ b <= 0
  <2> HIDE DEF dx, dy
  <2>1. dx \in Int /\ dy \in Int
    BY <1>1
  <2> QED
    BY <2>1, Shrunk
<1>5. a # 0 \/ b # 0
  <2> SUFFICES ASSUME a = 0, b = 0 PROVE FALSE
    OBVIOUS
  <2> HIDE DEF dx, dy
  <2> DEFINE Abs(d) == IF d >= 0 THEN d ELSE -d
             e == IF Abs(dx) >= Abs(dy) THEN Abs(dx) ELSE Abs(dy)
  <2>1. ratio \in Nat
    BY <1>1
  <2>2. ASSUME NEW d \in -M..M, (d * ratio) \div One = 0
        PROVE  Abs(d) \in 0..M /\ Abs(d) * ratio < One /\ d * d = Abs(d) * Abs(d)
    <3> DEFINE w == d * ratio
    <3>1. w \in Int /\ w \div One = 0
      BY <2>1, <2>2
    <3> HIDE DEF w
    <3>2. 0 <= w /\ w < One
      <4>1. One * (w \div One) <= w /\ w < One * (w \div One) + One
        BY <1>1, <3>1, Quotients
      <4> QED
        BY <1>1, <3>1, <4>1
    <3>3. CASE d >= 0
      <4>1. Abs(d) = d
        BY <3>3
      <4> QED
        BY <3>2, <3>3, <4>1 DEF w
    <3>4. CASE ~(d >= 0)
      <4>1. Abs(d) = -d /\ -d \in 1..M
        BY <3>4
      <4>2. (-d) * ratio = -w /\ (-d) * (-d) = d * d
        BY <2>1, <4>1 DEF w
      <4>3. -w < One
        BY <1>1, <3>1, <3>2
      <4> HIDE DEF Abs
      <4> QED
        BY <4>1, <4>2, <4>3
    <3> QED
      BY <3>3, <3>4
  <2>3. /\ Abs(dx) \in 0..M /\ Abs(dx) * ratio < One /\ dx * dx = Abs(dx) * Abs(dx)
        /\ Abs(dy) \in 0..M /\ Abs(dy) * ratio < One /\ dy * dy = Abs(dy) * Abs(dy)
    <3> HIDE DEF Abs
    <3> QED
      BY <1>1, <2>2
  <2>4. e \in 0..M /\ e * ratio < One /\ Abs(dx) <= e /\ Abs(dy) <= e
    <3> HIDE DEF Abs
    <3> QED
      BY <2>3
  <2> HIDE DEF Abs, e
  <2>5. dx * dx <= e * e /\ dy * dy <= e * e /\ e * e \in Nat
    <3>1. ASSUME NEW c \in 0..M, c <= e PROVE c * c <= e * e
      <4>1. c * c <= e * c /\ c * e <= e * e
        BY <2>4, <3>1, Times
      <4>2. e * c = c * e /\ c * e \in Int /\ c * c \in Int /\ e * e \in Int
        BY <2>4
      <4> QED
        BY <4>1, <4>2
    <3> QED
      BY <2>3, <2>4, <3>1
  <2>6. r * r <= 2 * (e * e)
    <3> DEFINE qx == (dx * dx) \div One
               qy == (dy * dy) \div One
    <3>1. /\ dx * dx \in Nat /\ qx \in Int /\ One * qx <= dx * dx
          /\ dy * dy \in Nat /\ qy \in Int /\ One * qy <= dy * dy
      BY <1>1, SquareOf
    <3>2. far = qx + qy
      OBVIOUS
    <3> HIDE DEF qx, qy, far
    <3>3. far * One = One * qx + One * qy /\ One * qx \in Int /\ One * qy \in Int /\ r * r \in Nat
      BY <1>1, <3>1, <3>2
    <3> QED
      BY <1>3, <2>5, <3>1, <3>3
  <2>7. One <= e * ratio
    BY <1>1, <1>3, <2>1, <2>4, <2>6, RatioCounts
  <2>8. e * ratio \in Int
    BY <2>1, <2>4
  <2> QED
    BY <1>1, <2>4, <2>7, <2>8
<1>6. /\ p.x - to.x = a - dx /\ p.y - to.y = b - dy
      /\ from.x - to.x = 0 - dx /\ from.y - to.y = 0 - dy
  <2>1. p.x = from.x + a /\ p.y = from.y + b /\ from.x \in Int /\ from.y \in Int
        /\ to.x \in Int /\ to.y \in Int
    BY <1>3 DEF V
  <2> HIDE DEF p, a, b
  <2> QED
    BY <1>4, <2>1
<1> HIDE DEF p, a, b, dx, dy
<1>7. (0 - dx) * (0 - dx) = dx * dx /\ (0 - dy) * (0 - dy) = dy * dy
  BY <1>1
<1>8. /\ (a - dx) * (a - dx) \in Int /\ dx * dx \in Int /\ (a - dx) * (a - dx) <= dx * dx
      /\ (b - dy) * (b - dy) \in Int /\ dy * dy \in Int /\ (b - dy) * (b - dy) <= dy * dy
      /\ a # 0 => (a - dx) * (a - dx) < dx * dx
      /\ b # 0 => (b - dy) * (b - dy) < dy * dy
  <2>1. dx \in Int /\ dy \in Int
    BY <1>1
  <2> QED
    BY <1>4, <2>1, LessLeft
<1>9. SquaredDistance(p, to) = (a - dx) * (a - dx) + (b - dy) * (b - dy)
      /\ SquaredDistance(from, to) = dx * dx + dy * dy
  BY <1>6, <1>7 DEF SquaredDistance
<1> QED
  BY <1>5, <1>8, <1>9 DEF p
-----------------------------------------------------------------------------
(* Units *)

\* A unit has the fields of a unit.
LEMMA UnitFields ==
  ASSUME NEW u \in AnyUnit
  PROVE  /\ u.id \in UnitIds /\ u.owner \in PlayerIds /\ u.state \in {"idle", "moving", "dead"}
         /\ u.hp \in 0..UnitHP /\ u.maxHP = UnitHP /\ u.speed = Speed
         /\ u.target \in UnitIds \cup {NoUnit} /\ u.pos \in Place /\ u.moveTo \in Place
         /\ u.state # "dead" => u.hp # 0
BY DEF AnyUnit

LEMMA UnitMade ==
  ASSUME NEW u \in AnyUnit, NEW r, r = [x \in DOMAIN u |-> r[x]],
         r.id = u.id, r.owner = u.owner, r.maxHP = u.maxHP, r.speed = u.speed,
         r.state \in {"idle", "moving", "dead"}, r.hp \in 0..UnitHP,
         r.target \in UnitIds \cup {NoUnit}, r.pos \in Place, r.moveTo \in Place,
         r.state # "dead" => r.hp # 0
  PROVE  r \in AnyUnit
<1>1. u \in [id : UnitIds, owner : PlayerIds, state : {"idle", "moving", "dead"},
          hp : 0..UnitHP, maxHP : {UnitHP}, speed : {Speed}, target : UnitIds \cup {NoUnit},
          pos : Place, moveTo : Place]
  BY DEF AnyUnit
<1>2. DOMAIN u = {"id", "owner", "state", "hp", "maxHP", "speed", "target", "pos", "moveTo"}
  BY <1>1
<1>3. r = [id |-> r.id, owner |-> r.owner, state |-> r.state, hp |-> r.hp, maxHP |-> r.maxHP,
           speed |-> r.speed, target |-> r.target, pos |-> r.pos, moveTo |-> r.moveTo]
  BY <1>2
<1>4. r.id \in UnitIds /\ r.owner \in PlayerIds /\ r.maxHP = UnitHP /\ r.speed = Speed
  BY UnitFields
<1>5. r \in [id : UnitIds, owner : PlayerIds, state : {"idle", "moving", "dead"},
          hp : 0..UnitHP, maxHP : {UnitHP}, speed : {Speed}, target : UnitIds \cup {NoUnit},
          pos : Place, moveTo : Place]
  BY <1>3, <1>4
<1> QED
  BY <1>5 DEF AnyUnit

LEMMA OrderedKept ==
  ASSUME NEW u \in AnyUnit, u.state # "dead", NEW c \in Cmd
  PROVE  /\ Ordered(u, c) \in Living(AnyUnit)
         /\ Ordered(u, c).id = u.id /\ Ordered(u, c).owner = u.owner
         /\ Ordered(u, c).pos = u.pos
         /\ Ordered(u, c).moveTo \in {u.moveTo} \cup Targets
<1> DEFINE r == Ordered(u, c)
<1>1. /\ DOMAIN u = {"id", "owner", "state", "hp", "maxHP", "speed", "target", "pos", "moveTo"}
      /\ u = [x \in DOMAIN u |-> u[x]]
  BY DEF AnyUnit
<1>2. c.op = "move" \/ c.op = "attack" \/ c.op = "stop"
  BY DEF Cmd
<1>3. /\ c.op = "move" => c.pos \in Place /\ c.pos \in Targets
      /\ c.op = "attack" => c.target \in UnitIds
  BY WorldAssumption DEF Cmd, WorldAssumption
<1>4. \/ /\ c.op = "move"
         /\ r = [u EXCEPT !.state = "moving", !.moveTo = c.pos, !.target = NoUnit]
      \/ c.op = "attack" /\ r = [u EXCEPT !.state = "idle", !.target = c.target]
      \/ r = [u EXCEPT !.state = "idle", !.target = NoUnit]
  <2>1. CASE c.op = "move"
    BY <2>1 DEF Ordered
  <2>2. CASE c.op = "attack"
    BY <2>2 DEF Ordered
  <2>3. CASE c.op = "stop"
    BY <2>3 DEF Ordered
  <2> QED
    BY <1>2, <2>1, <2>2, <2>3
<1> HIDE DEF r
<1>5. /\ r = [x \in DOMAIN u |-> r[x]]
      /\ r.id = u.id /\ r.owner = u.owner /\ r.hp = u.hp /\ r.maxHP = u.maxHP
      /\ r.speed = u.speed /\ r.pos = u.pos
  BY <1>1, <1>4
<1>6. /\ r.state \in {"idle", "moving"}
      /\ r.moveTo \in {u.moveTo} \cup Place /\ r.moveTo \in {u.moveTo} \cup Targets
      /\ r.target \in UnitIds \cup {NoUnit}
  BY <1>1, <1>3, <1>4
<1>7. r \in AnyUnit
  BY <1>5, <1>6, UnitFields, UnitMade
<1> QED
  BY <1>5, <1>6, <1>7 DEF Living, r

\* A unit with another place is one.
LEMMA PlacedKept ==
  ASSUME NEW u \in AnyUnit, NEW p \in Place
  PROVE  /\ [u EXCEPT !.pos = p] \in AnyUnit
         /\ [u EXCEPT !.pos = p].pos = p /\ [u EXCEPT !.pos = p].id = u.id
         /\ [u EXCEPT !.pos = p].moveTo = u.moveTo /\ [u EXCEPT !.pos = p].state = u.state
<1> DEFINE r == [u EXCEPT !.pos = p]
<1>1. /\ DOMAIN u = {"id", "owner", "state", "hp", "maxHP", "speed", "target", "pos", "moveTo"}
      /\ u = [x \in DOMAIN u |-> u[x]]
  BY DEF AnyUnit
<1>2. r = [u EXCEPT !.pos = p]
  OBVIOUS
<1> HIDE DEF r
<1>3. /\ r = [x \in DOMAIN u |-> r[x]] /\ r.pos = p
      /\ r.id = u.id /\ r.owner = u.owner /\ r.hp = u.hp /\ r.maxHP = u.maxHP
      /\ r.speed = u.speed /\ r.state = u.state /\ r.target = u.target /\ r.moveTo = u.moveTo
  BY <1>1, <1>2
<1>4. r \in AnyUnit
  BY <1>3, UnitFields, UnitMade
<1> QED
  BY <1>3, <1>4 DEF r

LEMMA UntargetedKept ==
  ASSUME NEW u \in AnyUnit
  PROVE  /\ [u EXCEPT !.target = NoUnit] \in AnyUnit
         /\ [u EXCEPT !.target = NoUnit].pos = u.pos /\ [u EXCEPT !.target = NoUnit].id = u.id
         /\ [u EXCEPT !.target = NoUnit].moveTo = u.moveTo
         /\ [u EXCEPT !.target = NoUnit].state = u.state
<1> DEFINE r == [u EXCEPT !.target = NoUnit]
<1>1. /\ DOMAIN u = {"id", "owner", "state", "hp", "maxHP", "speed", "target", "pos", "moveTo"}
      /\ u = [x \in DOMAIN u |-> u[x]]
  BY DEF AnyUnit
<1>2. r = [u EXCEPT !.target = NoUnit]
  OBVIOUS
<1> HIDE DEF r
<1>3. /\ r = [x \in DOMAIN u |-> r[x]] /\ r.pos = u.pos
      /\ r.id = u.id /\ r.owner = u.owner /\ r.hp = u.hp /\ r.maxHP = u.maxHP
      /\ r.speed = u.speed /\ r.state = u.state /\ r.target = NoUnit /\ r.moveTo = u.moveTo
  BY <1>1, <1>2
<1>4. r \in AnyUnit
  BY <1>3, UnitFields, UnitMade
<1> QED
  BY <1>3, <1>4 DEF r

LEMMA HitKept ==
  ASSUME NEW u \in AnyUnit, u.state # "dead"
  PROVE  /\ Hit(u) \in AnyUnit /\ Hit(u).pos = u.pos /\ Hit(u).id = u.id
         /\ Hit(u).moveTo = u.moveTo /\ Hit(u).state \in {u.state, "dead"}
<1> DEFINE r == Hit(u)
<1>1. /\ DOMAIN u = {"id", "owner", "state", "hp", "maxHP", "speed", "target", "pos", "moveTo"}
      /\ u = [x \in DOMAIN u |-> u[x]]
  BY DEF AnyUnit
<1>2. \/ u.hp > AttackDamage /\ r = [u EXCEPT !.hp = u.hp - AttackDamage]
      \/ r = [u EXCEPT !.hp = 0, !.state = "dead"]
  BY DEF Hit
<1> HIDE DEF r
<1>3. /\ r = [x \in DOMAIN u |-> r[x]] /\ r.pos = u.pos
      /\ r.id = u.id /\ r.owner = u.owner /\ r.maxHP = u.maxHP
      /\ r.speed = u.speed /\ r.target = u.target /\ r.moveTo = u.moveTo
  BY <1>1, <1>2
<1>4. \/ r.state = u.state /\ u.hp > AttackDamage /\ r.hp = u.hp - AttackDamage
      \/ r.state = "dead" /\ r.hp = 0
  BY <1>1, <1>2
<1>5. r.state \in {"idle", "moving", "dead"} /\ r.hp \in 0..UnitHP /\ (r.state # "dead" => r.hp # 0)
  <2>1. u.hp \in 0..UnitHP /\ UnitHP \in Nat /\ AttackDamage \in Nat /\ u.state \in {"idle", "moving", "dead"}
    BY UnitFields, WorldAssumption DEF WorldAssumption
  <2> QED
    BY <1>4, <2>1
<1>6. r \in AnyUnit
  BY <1>3, <1>5, UnitFields, UnitMade
<1> QED
  BY <1>3, <1>4, <1>6 DEF r

\* A step of a unit to a place takes it to a place.
LEMMA MoveKept ==
  ASSUME NEW u \in AnyUnit, NEW to \in Place
  PROVE  MoveToward(u.pos, to, u.speed) \in Place
<1>1. u.pos \in Place /\ u.speed = Speed
  BY UnitFields
<1> QED
  BY <1>1, MoveType, WorldAssumption DEF WorldAssumption

LEMMA MovedKept ==
  ASSUME NEW u \in AnyUnit, u.state # "dead"
  PROVE  /\ Moved(u) \in AnyUnit /\ Moved(u).id = u.id /\ Moved(u).moveTo = u.moveTo
         /\ 0 <= FromInt(MapSize) => Moved(u).pos \in OnMapPlace
         /\ LET to == MoveToward(u.pos, u.moveTo, u.speed)
            IN  Moved(u).pos = V(Clamp(to.x, 0, FromInt(MapSize)), Clamp(to.y, 0, FromInt(MapSize)))
<1> DEFINE r == Moved(u)
           to == MoveToward(u.pos, u.moveTo, u.speed)
           M == FromInt(MapSize)
           p == V(Clamp(to.x, 0, M), Clamp(to.y, 0, M))
<1>1. /\ DOMAIN u = {"id", "owner", "state", "hp", "maxHP", "speed", "target", "pos", "moveTo"}
      /\ u = [x \in DOMAIN u |-> u[x]]
  BY DEF AnyUnit
<1>2. \/ r = [u EXCEPT !.pos = p, !.state = "idle"]
      \/ r = [u EXCEPT !.pos = p, !.state = "moving"]
  BY DEF Moved
<1>3. to.x \in Int /\ to.y \in Int /\ M \in Int
  <2>1. to \in Place
    BY UnitFields, MoveKept
  <2>2. MapSize \in Int
    BY WorldAssumption DEF WorldAssumption
  <2> HIDE DEF to
  <2> QED
    BY <2>1, <2>2, Closure DEF Place
<1> HIDE DEF to, M
<1>4. p \in Place /\ (0 <= M => p \in [x : 0..M, y : 0..M])
  <2>1. \A a \in Int : Clamp(a, 0, M) \in Int /\ (0 <= M => Clamp(a, 0, M) \in 0..M)
    BY <1>3 DEF Clamp
  <2> QED
    BY <1>3, <2>1 DEF V, Place
<1> HIDE DEF r, p
<1>5. /\ r = [x \in DOMAIN u |-> r[x]] /\ r.pos = p
      /\ r.id = u.id /\ r.owner = u.owner /\ r.hp = u.hp /\ r.maxHP = u.maxHP
      /\ r.speed = u.speed /\ r.state \in {"idle", "moving"} /\ r.target = u.target
      /\ r.moveTo = u.moveTo
  BY <1>1, <1>2
<1>6. r \in AnyUnit
  BY <1>4, <1>5, UnitFields, UnitMade
<1> QED
  BY <1>4, <1>5, <1>6 DEF r, p, to, OnMapPlace, M

LEMMA KeepsAny == Keeps(AnyUnit)
<1> SUFFICES ASSUME NEW u \in Living(AnyUnit)
             PROVE  /\ \A c \in Cmd : Ordered(u, c) \in Living(AnyUnit)
                    /\ u.state = "moving" => Moved(u) \in AnyUnit
                    /\ Hit(u) \in AnyUnit
                    /\ [u EXCEPT !.target = NoUnit] \in AnyUnit
                    /\ \A v \in Living(AnyUnit) :
                         [u EXCEPT !.pos = MoveToward(u.pos, v.pos, u.speed)] \in AnyUnit
  BY DEF Keeps
<1>1. u \in AnyUnit /\ u.state # "dead"
  BY DEF Living
<1>2. ASSUME NEW v \in Living(AnyUnit)
      PROVE  [u EXCEPT !.pos = MoveToward(u.pos, v.pos, u.speed)] \in AnyUnit
  <2>1. v.pos \in Place
    BY UnitFields DEF Living
  <2>2. MoveToward(u.pos, v.pos, u.speed) \in Place
    BY <1>1, <2>1, MoveKept
  <2> QED
    BY <1>1, <2>2, PlacedKept
<1> QED
  BY <1>1, <1>2, OrderedKept, MovedKept, HitKept, UntargetedKept

\* The map as MoveBetween wants it.
LEMMA MapFits ==
  ASSUME OnMap
  PROVE  LET M == FromInt(MapSize)
         IN  /\ M = MapSize * One /\ M \in Nat /\ One <= M
             /\ 2 * ((M * M) \div One) <= Largest /\ Speed \in 0..M
<1> DEFINE M == MapSize * One
<1>1. One \in Nat \ {0} /\ Largest \in Nat /\ MapSize \in Nat \ {0}
  BY Sizes DEF OnMap
<1>2. M \in Nat /\ One <= M
  BY <1>1
<1>3. M * M = (MapSize * M) * One /\ MapSize * M \in Int
  BY <1>1
<1>4. (M * M) \div One = MapSize * M
  BY <1>1, <1>3, DivMultiple
<1>5. 2 * MapSize * MapSize * One = 2 * (MapSize * M)
  BY <1>1
<1>6. 2 * (MapSize * M) <= Largest
  BY <1>5 DEF OnMap
<1>7. M <= MapSize * M
  BY <1>1, <1>2
<1>8. Speed \in 0..M
  BY DEF OnMap
<1> HIDE DEF M
<1>9. M \in -(Largest + 1)..Largest
  <2>1. MapSize * M \in Int
    BY <1>1, <1>2
  <2> DEFINE s == MapSize * M
  <2> HIDE DEF s
  <2>2. s \in Int /\ 2 * s <= Largest /\ M <= s
    BY <1>6, <1>7, <2>1 DEF s
  <2> QED
    BY <1>1, <1>2, <2>2
<1>10. FromInt(MapSize) = M
  BY <1>2, <1>9, WrapWithin DEF FromInt, M
<1> QED
  BY <1>2, <1>4, <1>6, <1>8, <1>10 DEF M

LEMMA KeepsMap == OnMap => Keeps(OnMapUnit)
<1> SUFFICES ASSUME OnMap, NEW u \in Living(OnMapUnit)
             PROVE  /\ \A c \in Cmd : Ordered(u, c) \in Living(OnMapUnit)
                    /\ u.state = "moving" => Moved(u) \in OnMapUnit
                    /\ Hit(u) \in OnMapUnit
                    /\ [u EXCEPT !.target = NoUnit] \in OnMapUnit
                    /\ \A v \in Living(OnMapUnit) :
                         [u EXCEPT !.pos = MoveToward(u.pos, v.pos, u.speed)] \in OnMapUnit
  BY DEF Keeps, OnMapUnit
<1>1. u \in AnyUnit /\ u.state # "dead" /\ u.pos \in OnMapPlace
  BY DEF Living, OnMapUnit
<1>2. ASSUME NEW c \in Cmd PROVE Ordered(u, c) \in Living(OnMapUnit)
  BY <1>1, OrderedKept DEF Living, OnMapUnit
<1>3. Moved(u) \in OnMapUnit
  <2>1. 0 <= FromInt(MapSize)
    BY MapFits
  <2> QED
    BY <1>1, <2>1, MovedKept DEF OnMapUnit
<1>4. Hit(u) \in OnMapUnit /\ [u EXCEPT !.target = NoUnit] \in OnMapUnit
  BY <1>1, HitKept, UntargetedKept DEF OnMapUnit
<1>5. ASSUME NEW v \in Living(OnMapUnit)
      PROVE  [u EXCEPT !.pos = MoveToward(u.pos, v.pos, u.speed)] \in OnMapUnit
  <2> DEFINE p == MoveToward(u.pos, v.pos, u.speed)
  <2>1. v.pos \in OnMapPlace /\ v.pos \in Place
    BY UnitFields DEF Living, OnMapUnit
  <2>2. p \in Place
    BY <1>1, <2>1, MoveKept
  <2>3. u.speed = Speed
    BY <1>1, UnitFields
  <2>4. p \in OnMapPlace
    <3> DEFINE M == FromInt(MapSize)
    <3>1. M \in Nat /\ One <= M /\ 2 * ((M * M) \div One) <= Largest /\ Speed \in 0..M
      BY MapFits
    <3>2. u.pos \in [x : 0..M, y : 0..M] /\ v.pos \in [x : 0..M, y : 0..M]
      BY <1>1, <2>1 DEF OnMapPlace
    <3> HIDE DEF M
    <3>3. MoveToward(u.pos, v.pos, Speed) \in [x : 0..M, y : 0..M]
      BY <3>1, <3>2, MoveBetween
    <3> QED
      BY <2>3, <3>3 DEF OnMapPlace, M
  <2> HIDE DEF p
  <2>5. [u EXCEPT !.pos = p] \in AnyUnit /\ [u EXCEPT !.pos = p].pos = p
    BY <1>1, <2>2, PlacedKept
  <2> QED
    BY <2>4, <2>5 DEF OnMapUnit, p
<1> QED
  BY <1>2, <1>3, <1>4, <1>5

LEMMA KeepsSent ==
  ASSUME OnMap, NEW M, Fits(M)
  PROVE  Keeps(SentUnit(M))
<1> DEFINE X == SentUnit(M)
           Box == [x : 0..M, y : 0..M]
<1> SUFFICES ASSUME NEW u \in Living(X)
             PROVE  /\ \A c \in Cmd : Ordered(u, c) \in Living(X)
                    /\ u.state = "moving" => Moved(u) \in X
                    /\ Hit(u) \in X
                    /\ [u EXCEPT !.target = NoUnit] \in X
                    /\ \A v \in Living(X) :
                         [u EXCEPT !.pos = MoveToward(u.pos, v.pos, u.speed)] \in X
  BY DEF Keeps, SentUnit, OnMapUnit
<1>1. /\ u \in Living(OnMapUnit) /\ u \in AnyUnit /\ u.state # "dead" /\ u.moveTo \in Box
      /\ \A v \in Living(X) : v \in Living(OnMapUnit)
  BY DEF Living, SentUnit, OnMapUnit
<1>2. /\ \A c \in Cmd : Ordered(u, c) \in Living(OnMapUnit)
      /\ u.state = "moving" => Moved(u) \in OnMapUnit
      /\ Hit(u) \in OnMapUnit
      /\ [u EXCEPT !.target = NoUnit] \in OnMapUnit
      /\ \A v \in Living(OnMapUnit) :
           [u EXCEPT !.pos = MoveToward(u.pos, v.pos, u.speed)] \in OnMapUnit
  BY <1>1, KeepsMap DEF Keeps
<1>3. ASSUME NEW c \in Cmd PROVE Ordered(u, c).moveTo \in Box
  <2>1. Ordered(u, c).moveTo \in {u.moveTo} \cup Targets
    BY <1>1, OrderedKept
  <2> QED
    BY <1>1, <2>1 DEF Fits
<1>4. /\ Moved(u).moveTo \in Box /\ Hit(u).moveTo \in Box
      /\ [u EXCEPT !.target = NoUnit].moveTo \in Box
  BY <1>1, MovedKept, HitKept, UntargetedKept
<1>5. ASSUME NEW v \in Living(X)
      PROVE  [u EXCEPT !.pos = MoveToward(u.pos, v.pos, u.speed)].moveTo \in Box
  <2>1. v.pos \in Place
    BY <1>1, UnitFields DEF Living, OnMapUnit
  <2>2. MoveToward(u.pos, v.pos, u.speed) \in Place
    BY <1>1, <2>1, MoveKept
  <2> DEFINE q == MoveToward(u.pos, v.pos, u.speed)
  <2> HIDE DEF q
  <2>3. [u EXCEPT !.pos = q].moveTo = u.moveTo
    BY <1>1, <2>2, PlacedKept DEF q
  <2> QED
    BY <1>1, <2>3 DEF q
<1> QED
  BY <1>1, <1>2, <1>3, <1>4, <1>5 DEF SentUnit, Living

\* A unit whose way ends within M comes no farther than its speed, even clamped.
LEMMA MovedClose ==
  ASSUME OnMap, NEW M, Fits(M), NEW u \in SentUnit(M)
  PROVE  /\ u.state # "dead" => Close(u.pos, Moved(u).pos)
         /\ \A p \in OnMapPlace : Close(u.pos, MoveToward(u.pos, p, u.speed))
         /\ Close(u.pos, u.pos)
<1> DEFINE Box == [x : 0..M, y : 0..M]
           m == FromInt(MapSize)
<1>1. m \in Nat /\ M \in Nat /\ m <= M /\ Speed \in Nat
  BY MapFits DEF Fits
<1>2. u \in AnyUnit /\ u.pos \in OnMapPlace /\ u.moveTo \in Box /\ u.speed = Speed
  BY UnitFields DEF SentUnit, OnMapUnit
<1>3. u.pos \in Box /\ \A p \in OnMapPlace : p \in Box
  <2>1. \A a \in 0..m : a \in 0..M
    BY <1>1
  <2> QED
    BY <1>2, <2>1 DEF OnMapPlace
<1>4. ASSUME NEW p \in Box PROVE Close(u.pos, MoveToward(u.pos, p, u.speed))
  BY <1>2, <1>3, MoveNear DEF Fits, Close
<1>5. Close(u.pos, u.pos)
  <2>1. u.pos.x - u.pos.x = 0 /\ u.pos.y - u.pos.y = 0
    BY <1>2, <1>1 DEF OnMapPlace
  <2>2. 0 <= (Speed + 5) * (Speed + 5)
    BY <1>1
  <2> QED
    BY <2>1, <2>2 DEF Close, SquaredDistance
<1>6. ASSUME u.state # "dead" PROVE Close(u.pos, Moved(u).pos)
  <2> DEFINE to == MoveToward(u.pos, u.moveTo, u.speed)
  <2>1. Close(u.pos, to)
    BY <1>2, <1>4
  <2>2. to \in Place
    BY <1>2, UnitFields, MoveKept
  <2>3. Moved(u).pos = V(Clamp(to.x, 0, m), Clamp(to.y, 0, m))
    BY <1>2, <1>6, MovedKept
  <2> HIDE DEF to, m
  <2>4. ASSUME NEW a \in 0..m, NEW b \in Int
        PROVE  (a - Clamp(b, 0, m)) * (a - Clamp(b, 0, m)) <= (a - b) * (a - b)
    <3> DEFINE c == Clamp(b, 0, m)
    <3>1. c \in Int /\ \/ a - c \in Nat /\ a - c <= a - b
                       \/ c - a \in Nat /\ c - a <= b - a
      BY <1>1 DEF Clamp
    <3> HIDE DEF c
    <3>2. ASSUME NEW d \in Nat, NEW e \in Int, d <= e PROVE d * d <= e * e
      <4>1. d * d <= e * d /\ e * d <= e * e
        BY <3>2, Times
      <4>2. d * d \in Int /\ e * d \in Int /\ e * e \in Int
        OBVIOUS
      <4> QED
        BY <4>1, <4>2
    <3>3. a - b \in Int /\ b - a \in Int /\ (a - b) * (a - b) = (b - a) * (b - a)
          /\ (a - c) * (a - c) = (c - a) * (c - a)
      BY <3>1
    <3>4. (a - c) * (a - c) <= (a - b) * (a - b)
      <4>1. CASE a - c \in Nat /\ a - c <= a - b
        BY <3>2, <3>3, <4>1
      <4>2. CASE c - a \in Nat /\ c - a <= b - a
        <5>1. (c - a) * (c - a) <= (b - a) * (b - a)
          BY <3>2, <3>3, <4>2
        <5> QED
          BY <3>3, <5>1
      <4> QED
        BY <3>1, <4>1, <4>2
    <3> QED
      BY <3>4 DEF c
  <2>5. u.pos.x \in 0..m /\ u.pos.y \in 0..m /\ to.x \in Int /\ to.y \in Int
    BY <1>2, <2>2 DEF OnMapPlace, Place, m
  <2> DEFINE q == V(Clamp(to.x, 0, m), Clamp(to.y, 0, m))
  <2>6. SquaredDistance(u.pos, q) <= SquaredDistance(u.pos, to)
    <3>1. q.x = Clamp(to.x, 0, m) /\ q.y = Clamp(to.y, 0, m) /\ q.x \in Int /\ q.y \in Int
      BY <1>1, <2>5 DEF V, Clamp
    <3> HIDE DEF q
    <3>2. /\ (u.pos.x - q.x) * (u.pos.x - q.x) <= (u.pos.x - to.x) * (u.pos.x - to.x)
          /\ (u.pos.y - q.y) * (u.pos.y - q.y) <= (u.pos.y - to.y) * (u.pos.y - to.y)
      BY <2>4, <2>5, <3>1
    <3>3. \A a, b \in Int : (a - b) * (a - b) \in Int
      OBVIOUS
    <3> QED
      BY <2>5, <3>1, <3>2, <3>3 DEF SquaredDistance
  <2>7. SquaredDistance(u.pos, q) \in Int /\ SquaredDistance(u.pos, to) \in Int
        /\ (Speed + 5) * (Speed + 5) \in Int
    <3>1. q.x \in Int /\ q.y \in Int
      BY <1>1, <2>5 DEF V, Clamp
    <3> HIDE DEF q
    <3> QED
      BY <1>1, <2>5, <3>1 DEF SquaredDistance
  <2> HIDE DEF q
  <2>8. Close(u.pos, q)
    BY <2>1, <2>6, <2>7 DEF Close
  <2> QED
    BY <2>3, <2>8 DEF q
<1> QED
  BY <1>3, <1>4, <1>5, <1>6

LEMMA SelfDistance ==
  ASSUME NEW p \in Place
  PROVE  DistSq(p, p) = 0
<1>1. One \in Nat \ {0} /\ Largest \in Nat
  BY Sizes
<1>2. Wrap(0) = 0
  BY <1>1, WrapWithin
<1>3. p.x - p.x = 0 /\ p.y - p.y = 0 /\ (0 * 0) \div One = 0 /\ 0 + 0 = 0
  <2>1. (0 * One) \div One = 0
    BY <1>1, DivMultiple
  <2>2. 0 * One = 0 * 0
    BY <1>1
  <2> QED
    BY <2>1, <2>2 DEF Place
<1> QED
  BY <1>2, <1>3 DEF DistSq, VSub, LenSq, Sub, Mul, Add, V

\* Whatever a unit does in its turn, it stays close.
LEMMA CloseTurns ==
  ASSUME OnMap, NEW M, Fits(M)
  PROVE  Turns(StaysClose, SentUnit(M))
<1> DEFINE X == SentUnit(M)
<1>1. ASSUME NEW u \in X PROVE u \in AnyUnit /\ u.pos \in Place /\ u.pos \in OnMapPlace
  BY UnitFields DEF SentUnit, OnMapUnit
<1>2. ASSUME NEW u \in X, NEW v \in X, v.pos = u.pos PROVE <<u.pos, v>> \in StaysClose
  <2>1. Close(u.pos, v.pos)
    BY <1>2, MovedClose
  <2> QED
    BY <1>1, <2>1 DEF StaysClose
<1>3. ASSUME NEW u \in X, NEW v \in X, NEW p \in Place, <<p, u>> \in StaysClose, v.pos = u.pos
      PROVE  <<p, v>> \in StaysClose
  BY <1>1, <1>3 DEF StaysClose
<1>4. ASSUME NEW u \in X, NEW v \in X, NEW q \in X, v.pos = MoveToward(u.pos, q.pos, u.speed)
      PROVE  <<u.pos, v>> \in StaysClose
  <2>1. Close(u.pos, v.pos)
    BY <1>1, <1>4, MovedClose
  <2> QED
    BY <1>1, <2>1 DEF StaysClose
<1>5. ASSUME NEW u \in X, u.state = "moving" PROVE <<u.pos, Moved(u)>> \in StaysClose
  <2>1. Close(u.pos, Moved(u).pos)
    BY <1>5, MovedClose
  <2>2. Moved(u) \in AnyUnit
    BY <1>1, <1>5, MovedKept
  <2> QED
    BY <1>1, <2>1, <2>2 DEF StaysClose
<1> HIDE DEF X
<1>6. /\ \A u, v \in X : v.pos = u.pos => <<u.pos, v>> \in StaysClose
      /\ \A u, v \in X : \A p \in Place :
           <<p, u>> \in StaysClose /\ v.pos = u.pos => <<p, v>> \in StaysClose
  BY <1>2, <1>3
<1>7. \A u, v, q \in X : v.pos = MoveToward(u.pos, q.pos, u.speed) => <<u.pos, v>> \in StaysClose
  BY <1>4
<1>8. Turns(StaysClose, X)
  BY <1>5, <1>6, <1>7 DEF Turns
<1> QED
  BY <1>8 DEF X

\* On the map nothing is clamped; and who is there does not go on.
LEMMA MovedNearer ==
  ASSUME OnMap, QuickEnough, NEW u \in OnMapUnit, u.state = "moving"
  PROVE  <<u.pos, Moved(u)>> \in ComesNearer
<1> DEFINE M == FromInt(MapSize)
           v == Moved(u)
           to == MoveToward(u.pos, u.moveTo, u.speed)
<1>1. u \in AnyUnit /\ u.pos \in OnMapPlace /\ u.pos \in Place /\ u.speed = Speed
  BY UnitFields DEF OnMapUnit
<1>2. /\ v \in AnyUnit /\ v.moveTo = u.moveTo
      /\ v.pos = V(Clamp(to.x, 0, M), Clamp(to.y, 0, M))
  BY <1>1, MovedKept
<1>3. v.state = IF DistSq(v.pos, u.moveTo) <= Eps THEN "idle" ELSE "moving"
  <2> DEFINE p == V(Clamp(to.x, 0, M), Clamp(to.y, 0, M))
  <2>1. v = [u EXCEPT !.pos = p, !.state = IF DistSq(p, u.moveTo) <= Eps THEN "idle" ELSE "moving"]
    BY DEF Moved
  <2>2. DOMAIN u = {"id", "owner", "state", "hp", "maxHP", "speed", "target", "pos", "moveTo"}
    BY <1>1 DEF AnyUnit
  <2>3. v.pos = p
    BY <1>2
  <2> HIDE DEF v, p
  <2> QED
    BY <2>1, <2>2, <2>3
<1>4. SUFFICES ASSUME v.state = "moving", v.moveTo \in OnMapPlace
               PROVE  SquaredDistance(v.pos, v.moveTo) < SquaredDistance(u.pos, v.moveTo)
  BY <1>1, <1>2 DEF ComesNearer
<1>5. M = MapSize * One /\ M \in Nat /\ One <= M /\ 2 * ((M * M) \div One) <= Largest /\ Speed \in 0..M
  BY MapFits
<1>6. 3 * (M + One) <= 2 * (Speed * One)
  <2>1. One \in Nat \ {0} /\ MapSize \in Nat /\ Speed \in Nat
    BY <1>5, Sizes DEF OnMap
  <2>2. (3 * (MapSize + 1)) * One <= (2 * Speed) * One
    BY <2>1, Times DEF QuickEnough
  <2>3. (3 * (MapSize + 1)) * One = 3 * (MapSize * One + One) /\ (2 * Speed) * One = 2 * (Speed * One)
    BY <2>1
  <2> QED
    BY <1>5, <2>2, <2>3
<1> HIDE DEF M
<1>7. u.pos \in [x : 0..M, y : 0..M] /\ u.moveTo \in [x : 0..M, y : 0..M]
  BY <1>1, <1>2, <1>4 DEF OnMapPlace, M
<1>8. to \in [x : 0..M, y : 0..M]
  BY <1>1, <1>5, <1>7, MoveBetween
<1>9. v.pos = to
  <2> HIDE DEF to
  <2>1. Clamp(to.x, 0, M) = to.x /\ Clamp(to.y, 0, M) = to.y
    BY <1>5, <1>8 DEF Clamp
  <2> QED
    BY <1>2, <1>8, <2>1 DEF V
<1>10. to # u.moveTo
  <2> SUFFICES ASSUME to = u.moveTo PROVE FALSE
    OBVIOUS
  <2>1. DistSq(v.pos, u.moveTo) = 0
    <3>1. u.moveTo \in Place
      BY <1>1, UnitFields
    <3>2. DistSq(u.moveTo, u.moveTo) = 0
      BY <3>1, SelfDistance
    <3> QED
      BY <1>9, <3>2
  <2> QED
    BY <1>3, <1>4, <2>1 DEF Eps
<1> QED
  BY <1>1, <1>2, <1>5, <1>6, <1>7, <1>9, <1>10, MoveNearer

LEMMA NearerTurns ==
  ASSUME OnMap, QuickEnough
  PROVE  Turns(ComesNearer, OnMapUnit)
<1> DEFINE X == OnMapUnit
<1>1. ASSUME NEW u \in X PROVE u \in AnyUnit /\ u.pos \in Place /\ u.state \in {"idle", "moving", "dead"}
  BY UnitFields DEF OnMapUnit
<1>2. ASSUME NEW u \in X, NEW v \in X, v.state # "moving" PROVE <<u.pos, v>> \in ComesNearer
  BY <1>1, <1>2 DEF ComesNearer
<1>3. ASSUME NEW u \in X, NEW v \in X, NEW p \in Place, <<p, u>> \in ComesNearer,
             v.pos = u.pos, v.moveTo = u.moveTo, v.state \in {u.state, "dead"}
      PROVE  <<p, v>> \in ComesNearer
  BY <1>1, <1>3 DEF ComesNearer
<1>4. \A u \in X : u.state = "moving" => <<u.pos, Moved(u)>> \in ComesNearer
  BY MovedNearer
<1> HIDE DEF X
<1>5. \A u, v \in X : v.state # "moving" => <<u.pos, v>> \in ComesNearer
  BY <1>2
<1>6. \A u, v \in X : \A p \in Place :
        <<p, u>> \in ComesNearer /\ v.pos = u.pos /\ v.moveTo = u.moveTo /\ v.state \in {u.state, "dead"}
        => <<p, v>> \in ComesNearer
  BY <1>3
<1>7. Turns(ComesNearer, X)
  BY <1>4, <1>5, <1>6 DEF Turns
<1> QED
  BY <1>7 DEF X
-----------------------------------------------------------------------------
(* The loops of a step *)

LEMMA ApplyLined ==
  ASSUME NEW X, Keeps(X), NEW units, NEW n \in Nat, Lined(units, n, Living(X)), NEW c \in Cmd
  PROVE  /\ Lined(Apply(units, c), n, Living(X))
         /\ \A i \in 1..n : /\ Apply(units, c)[i].id = units[i].id
                            /\ Apply(units, c)[i].pos = units[i].pos
<1> DEFINE r == Apply(units, c)
<1>1. DOMAIN units = 1..n
  BY DEF Lined
<1>2. r = [i \in 1..n |->
             IF units[i].id = c.unit /\ units[i].owner = c.player THEN Ordered(units[i], c)
             ELSE units[i]]
  BY <1>1 DEF Apply
<1>3. \A i \in 1..n : /\ r[i] \in Living(X) /\ r[i].id = units[i].id
                      /\ r[i].pos = units[i].pos
  <2> TAKE i \in 1..n
  <2>1. units[i] \in Living(X) /\ units[i] \in AnyUnit /\ units[i].state # "dead"
    BY DEF Lined, Keeps, Living
  <2>2. /\ Ordered(units[i], c) \in Living(X) /\ Ordered(units[i], c).id = units[i].id
        /\ Ordered(units[i], c).pos = units[i].pos
    BY <2>1, OrderedKept DEF Keeps
  <2>3. r[i] = Ordered(units[i], c) \/ r[i] = units[i]
    BY <1>2
  <2> HIDE DEF r
  <2> QED
    BY <2>1, <2>2, <2>3
<1>4. r = [i \in 1..n |-> r[i]]
  BY <1>2
<1> HIDE DEF r
<1>5. \A i, j \in 1..n : i < j => units[i].id < units[j].id
  BY DEF Lined
<1>6. \A i, j \in 1..n : i < j => r[i].id < r[j].id
  BY <1>3, <1>5
<1>7. Lined(r, n, Living(X))
  BY <1>3, <1>4, <1>6 DEF Lined
<1> QED
  BY <1>3, <1>7 DEF r

\* applyCommands executes the commands one after the other.
LEMMA AppliedFold ==
  ASSUME NEW units, NEW cmds \in Seq(Cmd)
  PROVE  \E F : AppliedBy(F, units, cmds)
<1> DEFINE N == Len(cmds)
           Fold(f, k) == f = [m \in 0..k |-> IF m = 0 THEN units
                                             ELSE Apply(f[m - 1], cmds[m])]
           T == {k \in 0..N : \E f : Fold(f, k)}
<1>1. N \in Nat /\ \A m \in 1..N : cmds[m] \in Cmd
  BY LenProperties, ElementOfSeq
<1>2. 0 \in T
  <2> DEFINE g == [m \in 0..0 |-> units]
  <2>1. Fold(g, 0)
    OBVIOUS
  <2> HIDE DEF g
  <2>2. \E f : Fold(f, 0)
    BY <2>1
  <2> QED
    BY <1>1, <2>2
<1>3. ASSUME NEW k \in 0..N, k \in T, k < N PROVE k + 1 \in T
  <2>1. PICK f : Fold(f, k)
    BY <1>3
  <2> DEFINE g == [m \in 0..(k + 1) |-> IF m <= k THEN f[m] ELSE Apply(f[k], cmds[k + 1])]
  <2>2. \A m \in 0..(k + 1) : g[m] = IF m = 0 THEN units ELSE Apply(g[m - 1], cmds[m])
    <3> TAKE m \in 0..(k + 1)
    <3>1. CASE m = 0
      BY <2>1, <3>1
    <3>2. CASE m \in 1..k
      <4>1. m - 1 \in 0..k /\ m \in 0..k
        BY <3>2
      <4> QED
        BY <2>1, <3>2, <4>1
    <3>3. CASE m = k + 1
      BY <3>3
    <3> QED
      BY <3>1, <3>2, <3>3
  <2>3. Fold(g, k + 1)
    BY <2>2
  <2> HIDE DEF g
  <2>4. \E h : Fold(h, k + 1)
    BY <2>3
  <2>5. k + 1 \in 0..N
    BY <1>1, <1>3
  <2> QED
    BY <2>4, <2>5
<1>4. PICK f : Fold(f, N)
  <2>1. N \in 0..N
    BY <1>1
  <2>2. N \in T
    <3> HIDE DEF T
    <3>1. \A k \in 0..N : k \in T
      BY <1>1, <1>2, <1>3, UpTo
    <3> QED
      BY <2>1, <3>1
  <2> QED
    BY <2>2
<1> DEFINE F == CHOOSE x : Fold(x, N)
<1>5. Fold(F, N)
  BY <1>4
<1>6. Applied(units, cmds) = F[N]
  BY DEF Applied
<1> HIDE DEF F
<1>7. F[0] = units /\ \A k \in 1..N : F[k] = Apply(F[k - 1], cmds[k])
  BY <1>1, <1>5
<1> QED
  BY <1>6, <1>7 DEF AppliedBy

LEMMA AppliedLined ==
  ASSUME NEW X, Keeps(X), NEW units, NEW n \in Nat, Lined(units, n, Living(X)), NEW cmds \in Seq(Cmd)
  PROVE  /\ Lined(Applied(units, cmds), n, Living(X))
         /\ \A i \in 1..n : /\ Applied(units, cmds)[i].id = units[i].id
                            /\ Applied(units, cmds)[i].pos = units[i].pos
<1> DEFINE N == Len(cmds)
           Same(us) == \A i \in 1..n : us[i].id = units[i].id /\ us[i].pos = units[i].pos
<1>1. N \in Nat /\ \A m \in 1..N : cmds[m] \in Cmd
  BY LenProperties, ElementOfSeq
<1>a. PICK F : AppliedBy(F, units, cmds)
  BY AppliedFold
<1>2. /\ F[0] = units /\ Applied(units, cmds) = F[N]
      /\ \A k \in 1..N : F[k] = Apply(F[k - 1], cmds[k])
  BY <1>a DEF AppliedBy
<1> DEFINE L == {k \in 0..N : Lined(F[k], n, Living(X)) /\ Same(F[k])}
<1>3. 0 \in L
  BY <1>1, <1>2
<1>4. ASSUME NEW k \in 0..N, k \in L, k < N PROVE k + 1 \in L
  <2>1. k + 1 \in 1..N /\ k + 1 \in 0..N /\ (k + 1) - 1 = k
    BY <1>1, <1>4
  <2>2. F[k + 1] = Apply(F[k], cmds[k + 1]) /\ cmds[k + 1] \in Cmd
    BY <1>1, <1>2, <2>1
  <2>3. /\ Lined(F[k + 1], n, Living(X))
        /\ \A i \in 1..n : F[k + 1][i].id = F[k][i].id /\ F[k + 1][i].pos = F[k][i].pos
    BY <1>4, <2>2, ApplyLined
  <2> QED
    BY <1>4, <2>1, <2>3
<1>5. N \in L
  <2> HIDE DEF L
  <2>1. \A k \in 0..N : k \in L
    BY <1>1, <1>3, <1>4, UpTo
  <2> QED
    BY <1>1, <2>1
<1> QED
  BY <1>2, <1>5

\* The commands of two players change what they change in either order.
LEMMA ApplyCommutes ==
  ASSUME NEW units, NEW n \in Nat, Lined(units, n, Living(AnyUnit)), NEW i \in 1..n,
         NEW c \in Cmd, NEW d \in Cmd, c.player # d.player
  PROVE  Apply(Apply(units, c), d)[i] = Apply(Apply(units, d), c)[i]
<1> DEFINE By(u, b) == IF u.id = b.unit /\ u.owner = b.player THEN Ordered(u, b) ELSE u
<1>1. ASSUME NEW us, Lined(us, n, Living(AnyUnit)), NEW b \in Cmd PROVE Apply(us, b)[i] = By(us[i], b)
  <2>1. DOMAIN us = 1..n
    BY <1>1 DEF Lined
  <2> QED
    BY <2>1 DEF Apply
<1>2. /\ Apply(Apply(units, c), d)[i] = By(By(units[i], c), d)
      /\ Apply(Apply(units, d), c)[i] = By(By(units[i], d), c)
  <2>1. Lined(Apply(units, c), n, Living(AnyUnit)) /\ Lined(Apply(units, d), n, Living(AnyUnit))
    BY ApplyLined, KeepsAny
  <2> HIDE DEF By
  <2> QED
    BY <1>1, <2>1
<1>3. units[i] \in AnyUnit /\ units[i].state # "dead"
  BY DEF Lined, Living
<1>4. ASSUME NEW b \in Cmd PROVE /\ Ordered(units[i], b).id = units[i].id
                                /\ Ordered(units[i], b).owner = units[i].owner
  BY <1>3, OrderedKept
<1>5. By(By(units[i], c), d) = By(By(units[i], d), c)
  <2>1. CASE units[i].owner = c.player
    BY <1>4, <2>1
  <2>2. CASE units[i].owner # c.player
    BY <1>4, <2>2
  <2> QED
    BY <2>1, <2>2
<1> QED
  BY <1>2, <1>5

\* In their order already: the sort keeps that they are.
LEMMA SortedLined ==
  ASSUME NEW X, NEW units, NEW n \in Nat, Lined(units, n, X)
  PROVE  Lined(Sorted(units), n, X) /\ Among(Sorted(units), n, units, n)
<1> DEFINE D == DOMAIN units
           Places(f) == f \in [D -> D] /\ \A i, j \in D : i < j => units[f[i]].id < units[f[j]].id
           place == CHOOSE f \in [D -> D] :
                      \A i, j \in D : i < j => units[f[i]].id < units[f[j]].id
<1>1. D = 1..n
  BY DEF Lined
<1>2. Places([i \in D |-> i])
  BY <1>1 DEF Lined
<1>3. Places(place)
  BY <1>2
<1>4. Sorted(units) = [i \in D |-> units[place[i]]]
  BY DEF Sorted
<1> HIDE DEF place, D
<1> DEFINE r == Sorted(units)
<1>5. \A i \in 1..n : r[i] \in X
  BY <1>1, <1>3, <1>4 DEF Lined
<1>6. r = [i \in 1..n |-> r[i]]
  BY <1>1, <1>4
<1>7. \A i, j \in 1..n : i < j => r[i].id < r[j].id
  BY <1>1, <1>3, <1>4
<1>8. Among(r, n, units, n)
  BY <1>1, <1>3, <1>4 DEF Among
<1> HIDE DEF r
<1>9. Lined(r, n, X)
  BY <1>5, <1>6, <1>7 DEF Lined
<1> QED
  BY <1>8, <1>9 DEF r

\* Another unit with the same number in its place.
LEMMA PlaceTaken ==
  ASSUME NEW X, NEW units, NEW n \in Nat, Lined(units, n, X), NEW i \in 1..n,
         NEW v \in X, v.id = units[i].id
  PROVE  Lined([units EXCEPT ![i] = v], n, X)
<1> DEFINE r == [units EXCEPT ![i] = v]
<1>1. DOMAIN units = 1..n
  BY DEF Lined
<1>2. r = [k \in 1..n |-> IF k = i THEN v ELSE units[k]]
  BY <1>1
<1> HIDE DEF r
<1>3. \A k \in 1..n : r[k] \in X /\ r[k].id = units[k].id
  BY <1>2 DEF Lined
<1>4. r = [k \in 1..n |-> r[k]]
  BY <1>2
<1>5. \A k, j \in 1..n : k < j => units[k].id < units[j].id
  BY DEF Lined
<1>6. Lined(r, n, X)
  BY <1>3, <1>4, <1>5 DEF Lined
<1> QED
  BY <1>6 DEF r

LEMMA AttackedLined ==
  ASSUME NEW X, Keeps(X), NEW units, NEW n \in Nat, Lined(units, n, X),
         NEW i \in 1..n, units[i].state # "dead"
  PROVE  Lined(Attacked(units, i), n, X)
<1> DEFINE u == units[i]
           found == {j \in DOMAIN units : units[j].id = u.target /\ units[j].state # "dead"}
           j == CHOOSE k \in found : TRUE
           p == MoveToward(u.pos, units[j].pos, u.speed)
<1>1. DOMAIN units = 1..n /\ \A k \in 1..n : units[k] \in X /\ units[k] \in AnyUnit
  BY DEF Lined, Keeps
<1>2. u \in Living(X) /\ u \in AnyUnit
  BY <1>1 DEF Living
<1>3. CASE u.target = NoUnit
  BY <1>3 DEF Attacked
<1>4. CASE u.target # NoUnit /\ found = {}
  <2> DEFINE r == [u EXCEPT !.target = NoUnit]
  <2>1. Attacked(units, i) = [units EXCEPT ![i] = r]
    BY <1>4 DEF Attacked
  <2>2. r \in X /\ r.id = units[i].id
    BY <1>2, UntargetedKept DEF Keeps
  <2> HIDE DEF r, u
  <2>3. Lined([units EXCEPT ![i] = r], n, X)
    BY <2>2, PlaceTaken
  <2> QED
    BY <2>1, <2>3
<1>5. CASE u.target # NoUnit /\ found # {}
  <2>1. j \in 1..n /\ units[j].state # "dead"
    BY <1>1, <1>5
  <2>2. units[j] \in Living(X) /\ units[j] \in AnyUnit
    BY <1>1, <2>1 DEF Living
  <2>3. \/ Attacked(units, i) = [units EXCEPT ![j] = Hit(units[j])]
        \/ Attacked(units, i) = [units EXCEPT ![i].pos = p]
    BY <1>5 DEF Attacked
  <2> HIDE DEF j
  <2>4. CASE Attacked(units, i) = [units EXCEPT ![j] = Hit(units[j])]
    <3> DEFINE v == Hit(units[j])
    <3>1. v \in X /\ v.id = units[j].id
      BY <2>1, <2>2, HitKept DEF Keeps
    <3> HIDE DEF v
    <3>2. Lined([units EXCEPT ![j] = v], n, X)
      BY <2>1, <3>1, PlaceTaken
    <3> QED
      BY <2>4, <3>2 DEF v
  <2>5. CASE Attacked(units, i) = [units EXCEPT ![i].pos = p]
    <3> DEFINE r == [u EXCEPT !.pos = p]
    <3>1. Attacked(units, i) = [units EXCEPT ![i] = r]
      BY <2>5
    <3>2. r \in X
      BY <1>2, <2>2 DEF Keeps
    <3>3. p \in Place
      BY <1>2, <2>2, UnitFields, MoveKept
    <3> HIDE DEF p
    <3>4. r.id = units[i].id
      BY <1>2, <3>3, PlacedKept
    <3> HIDE DEF r, u
    <3>5. Lined([units EXCEPT ![i] = r], n, X)
      BY <3>2, <3>4, PlaceTaken
    <3> QED
      BY <3>1, <3>5
  <2> QED
    BY <2>3, <2>4, <2>5
<1> QED
  BY <1>3, <1>4, <1>5

LEMMA StepUnitLined ==
  ASSUME NEW X, Keeps(X), NEW units, NEW n \in Nat, Lined(units, n, X), NEW i \in 1..n
  PROVE  Lined(StepUnit(units, i), n, X)
<1>1. units[i] \in X /\ units[i] \in AnyUnit
  BY DEF Lined, Keeps
<1>2. units[i].state \in {"idle", "moving", "dead"}
  BY <1>1, UnitFields
<1>3. CASE units[i].state = "dead"
  BY <1>3 DEF StepUnit
<1>4. CASE units[i].state = "moving"
  <2>1. StepUnit(units, i) = [units EXCEPT ![i] = Moved(units[i])]
    BY <1>4 DEF StepUnit
  <2> DEFINE v == Moved(units[i])
  <2>2. v \in X /\ v.id = units[i].id
    BY <1>1, <1>4, MovedKept DEF Keeps, Living
  <2> HIDE DEF v
  <2>3. Lined([units EXCEPT ![i] = v], n, X)
    BY <2>2, PlaceTaken
  <2> QED
    BY <2>1, <2>3 DEF v
<1>5. CASE units[i].state = "idle"
  <2>1. StepUnit(units, i) = Attacked(units, i)
    BY <1>5 DEF StepUnit
  <2> QED
    BY <1>5, <2>1, AttackedLined
<1> QED
  BY <1>2, <1>3, <1>4, <1>5

\* Step has the units act one after the other.
LEMMA SteppedFold ==
  ASSUME NEW X, NEW units, NEW n \in Nat, Lined(units, n, X)
  PROVE  \E F : /\ F[0] = units /\ Stepped(units) = F[n]
                /\ \A k \in 1..n : F[k] = StepUnit(F[k - 1], k)
<1> DEFINE N == Len(units)
           Fold(f, k) == f = [m \in 0..k |-> IF m = 0 THEN units ELSE StepUnit(f[m - 1], m)]
           T == {k \in 0..N : \E f : Fold(f, k)}
<1>1. N = n
  BY AsSeq DEF Lined
<1>2. 0 \in T
  <2> DEFINE g == [m \in 0..0 |-> units]
  <2>1. Fold(g, 0)
    OBVIOUS
  <2> HIDE DEF g
  <2>2. \E f : Fold(f, 0)
    BY <2>1
  <2> QED
    BY <1>1, <2>2
<1>3. ASSUME NEW k \in 0..N, k \in T, k < N PROVE k + 1 \in T
  <2>1. PICK f : Fold(f, k)
    BY <1>3
  <2> DEFINE g == [m \in 0..(k + 1) |-> IF m <= k THEN f[m] ELSE StepUnit(f[k], k + 1)]
  <2>2. \A m \in 0..(k + 1) :
          g[m] = IF m = 0 THEN units ELSE StepUnit(g[m - 1], m)
    <3> TAKE m \in 0..(k + 1)
    <3>1. CASE m = 0
      BY <2>1, <3>1
    <3>2. CASE m \in 1..k
      <4>1. m - 1 \in 0..k /\ m \in 0..k
        BY <3>2
      <4> QED
        BY <2>1, <3>2, <4>1
    <3>3. CASE m = k + 1
      BY <3>3
    <3> QED
      BY <3>1, <3>2, <3>3
  <2>3. Fold(g, k + 1)
    BY <2>2
  <2> HIDE DEF g
  <2>4. \E h : Fold(h, k + 1)
    BY <2>3
  <2>5. k + 1 \in 0..N
    BY <1>1, <1>3
  <2> QED
    BY <2>4, <2>5
<1>4. PICK f : Fold(f, N)
  <2>1. N \in 0..N
    BY <1>1
  <2>2. N \in T
    <3> HIDE DEF T
    <3>1. \A k \in 0..N : k \in T
      BY <1>1, <1>2, <1>3, UpTo
    <3> QED
      BY <2>1, <3>1
  <2> QED
    BY <2>2
<1> DEFINE F == CHOOSE x : Fold(x, N)
<1>5. Fold(F, N)
  BY <1>4
<1>6. Stepped(units) = F[N]
  BY DEF Stepped
<1> HIDE DEF F
<1>7. F[0] = units /\ \A k \in 1..N : F[k] = StepUnit(F[k - 1], k)
  BY <1>1, <1>5
<1> QED
  BY <1>1, <1>6, <1>7

LEMMA SteppedLined ==
  ASSUME NEW X, Keeps(X), NEW units, NEW n \in Nat, Lined(units, n, X)
  PROVE  Lined(Stepped(units), n, X)
<1>1. PICK F : /\ F[0] = units /\ Stepped(units) = F[n]
               /\ \A k \in 1..n : F[k] = StepUnit(F[k - 1], k)
  BY SteppedFold
<1> DEFINE L == {k \in 0..n : Lined(F[k], n, X)}
<1>2. 0 \in L
  BY <1>1
<1>3. ASSUME NEW k \in 0..n, k \in L, k < n PROVE k + 1 \in L
  <2>1. k + 1 \in 1..n /\ k + 1 \in 0..n /\ (k + 1) - 1 = k
    BY <1>3
  <2>2. F[k + 1] = StepUnit(F[k], k + 1)
    BY <1>1, <2>1
  <2>3. Lined(F[k + 1], n, X)
    BY <1>3, <2>1, <2>2, StepUnitLined
  <2> QED
    BY <2>1, <2>3
<1>4. n \in L
  <2> HIDE DEF L
  <2>1. \A k \in 0..n : k \in L
    BY <1>2, <1>3, UpTo
  <2> QED
    BY <2>1
<1> QED
  BY <1>1, <1>4

\* In its turn a unit does one of these things, and to others next to nothing.
LEMMA StepUnitTurn ==
  ASSUME NEW X, Keeps(X), NEW R, Turns(R, X),
         NEW units, NEW n \in Nat, Lined(units, n, X), NEW i \in 1..n
  PROVE  LET r == StepUnit(units, i)
         IN  /\ \A k \in 1..n : /\ r[k].id = units[k].id
                                /\ k # i => /\ r[k].pos = units[k].pos /\ r[k].moveTo = units[k].moveTo
                                           /\ r[k].state \in {units[k].state, "dead"}
             /\ <<units[i].pos, r[i]>> \in R
<1> DEFINE u == units[i]
           Touched(v, k) == /\ v.pos = units[k].pos /\ v.moveTo = units[k].moveTo
                            /\ v.state \in {units[k].state, "dead"}
           Turn(r) == /\ \A k \in 1..n : r[k].id = units[k].id /\ (k # i => Touched(r[k], k))
                      /\ <<u.pos, r[i]>> \in R
<1>1. /\ DOMAIN units = 1..n
      /\ \A k \in 1..n : units[k] \in X /\ units[k] \in AnyUnit
  BY DEF Lined, Keeps
<1>2. u.state \in {"idle", "moving", "dead"}
  BY <1>1, UnitFields
<1>3. u.state # "moving" => <<u.pos, u>> \in R
  BY <1>1 DEF Turns
<1>4. ASSUME NEW j \in 1..n, NEW v, v.id = units[j].id,
             IF j = i THEN <<u.pos, v>> \in R ELSE u.state # "moving" /\ Touched(v, j)
      PROVE  Turn([units EXCEPT ![j] = v])
  <2>1. [units EXCEPT ![j] = v] = [k \in 1..n |-> IF k = j THEN v ELSE units[k]]
    BY <1>1
  <2> DEFINE r == [units EXCEPT ![j] = v]
  <2>2. \A k \in 1..n : r[k] = IF k = j THEN v ELSE units[k]
    BY <2>1
  <2> HIDE DEF r
  <2>3. Turn(r)
    BY <1>3, <1>4, <2>2
  <2> QED
    BY <2>3 DEF r
<1>5. CASE u.state = "dead"
  <2>1. StepUnit(units, i) = units
    BY <1>5 DEF StepUnit
  <2> QED
    BY <1>3, <1>5, <2>1
<1>6. CASE u.state = "moving"
  <2> DEFINE v == Moved(u)
  <2>1. StepUnit(units, i) = [units EXCEPT ![i] = v]
    BY <1>6 DEF StepUnit
  <2>2. v.id = units[i].id /\ <<u.pos, v>> \in R
    BY <1>1, <1>6, MovedKept DEF Turns
  <2> HIDE DEF v, u
  <2>3. Turn([units EXCEPT ![i] = v])
    BY <1>4, <2>2
  <2> QED
    BY <2>1, <2>3 DEF u
<1>7. CASE u.state = "idle"
  <2> DEFINE found == {j \in DOMAIN units : units[j].id = u.target /\ units[j].state # "dead"}
             j == CHOOSE k \in found : TRUE
             p == MoveToward(u.pos, units[j].pos, u.speed)
  <2>1. StepUnit(units, i) = Attacked(units, i)
    BY <1>7 DEF StepUnit
  <2>a. u \in Living(X)
    BY <1>1, <1>7 DEF Living
  <2>2. CASE u.target = NoUnit
    <3>1. Attacked(units, i) = units
      BY <2>2 DEF Attacked
    <3> QED
      BY <1>3, <1>7, <2>1, <3>1
  <2>3. CASE u.target # NoUnit /\ found = {}
    <3> DEFINE v == [u EXCEPT !.target = NoUnit]
    <3>1. Attacked(units, i) = [units EXCEPT ![i] = v]
      BY <2>3 DEF Attacked
    <3>2. v.id = units[i].id /\ v.pos = u.pos /\ v.state = u.state /\ v \in X
      BY <1>1, <2>a, UntargetedKept DEF Keeps
    <3> HIDE DEF v
    <3>3. <<u.pos, v>> \in R
      BY <1>1, <1>7, <3>2 DEF Turns
    <3> HIDE DEF u
    <3>4. Turn([units EXCEPT ![i] = v])
      BY <1>4, <3>2, <3>3
    <3> QED
      BY <2>1, <3>1, <3>4 DEF u
  <2>4. CASE u.target # NoUnit /\ found # {}
    <3>1. j \in 1..n /\ units[j].state # "dead"
      BY <1>1, <2>4
    <3>2. \/ Attacked(units, i) = [units EXCEPT ![j] = Hit(units[j])]
          \/ Attacked(units, i) = [units EXCEPT ![i].pos = p]
      BY <2>4 DEF Attacked
    <3> HIDE DEF j
    <3>a. units[j] \in Living(X) /\ units[j] \in AnyUnit
      BY <1>1, <3>1 DEF Living
    <3>3. CASE Attacked(units, i) = [units EXCEPT ![j] = Hit(units[j])]
      <4> DEFINE v == Hit(units[j])
      <4>1. v.id = units[j].id /\ Touched(v, j) /\ v \in X
        BY <3>1, <3>a, HitKept DEF Keeps
      <4> HIDE DEF v
      <4>2. j = i => <<u.pos, v>> \in R
        BY <1>1, <1>7, <4>1 DEF Turns
      <4> HIDE DEF u
      <4>3. u.state # "moving"
        BY <1>7
      <4>4. Turn([units EXCEPT ![j] = v])
        BY <1>4, <3>1, <4>1, <4>2, <4>3
      <4> QED
        BY <2>1, <3>3, <4>4 DEF u, v
    <3>4. CASE Attacked(units, i) = [units EXCEPT ![i].pos = p]
      <4> DEFINE v == [u EXCEPT !.pos = p]
      <4>1. Attacked(units, i) = [units EXCEPT ![i] = v]
        BY <3>4
      <4>2. p \in Place /\ v \in X
        BY <1>1, <2>a, <3>a, UnitFields, MoveKept DEF Keeps
      <4>3. p = MoveToward(u.pos, units[j].pos, u.speed)
        OBVIOUS
      <4> HIDE DEF p
      <4>4. v.id = units[i].id /\ v.pos = p /\ v.state = u.state
        BY <1>1, <4>2, PlacedKept
      <4> HIDE DEF v
      <4>5. <<u.pos, v>> \in R
        BY <1>1, <1>7, <3>1, <4>2, <4>3, <4>4 DEF Turns
      <4> HIDE DEF u
      <4>6. Turn([units EXCEPT ![i] = v])
        BY <1>4, <4>4, <4>5
      <4> QED
        BY <2>1, <4>1, <4>6 DEF u
    <3> QED
      BY <3>2, <3>3, <3>4
  <2> QED
    BY <2>2, <2>3, <2>4
<1> QED
  BY <1>2, <1>5, <1>6, <1>7

\* Each unit has one turn.
LEMMA SteppedTurns ==
  ASSUME NEW X, Keeps(X), NEW R, Turns(R, X), NEW units, NEW n \in Nat, Lined(units, n, X)
  PROVE  \A k \in 1..n : /\ Stepped(units)[k].id = units[k].id
                         /\ <<units[k].pos, Stepped(units)[k]>> \in R
<1>1. PICK F : /\ F[0] = units /\ Stepped(units) = F[n]
               /\ \A k \in 1..n : F[k] = StepUnit(F[k - 1], k)
  BY SteppedFold
<1> DEFINE So(m) == /\ Lined(F[m], n, X)
                    /\ \A k \in 1..n : /\ F[m][k].id = units[k].id
                                       /\ k > m => F[m][k].pos = units[k].pos
                                       /\ k <= m => <<units[k].pos, F[m][k]>> \in R
           L == {m \in 0..n : So(m)}
<1>2. 0 \in L
  BY <1>1
<1>3. ASSUME NEW m \in 0..n, m \in L, m < n PROVE m + 1 \in L
  <2> DEFINE i == m + 1
  <2>1. i \in 1..n /\ i \in 0..n /\ i - 1 = m
    BY <1>3
  <2>2. F[i] = StepUnit(F[m], i)
    BY <1>1, <2>1
  <2>3. Lined(F[m], n, X)
    BY <1>3
  <2> HIDE DEF i
  <2>4. Lined(F[i], n, X)
    BY <2>1, <2>2, <2>3, StepUnitLined
  <2>5. /\ \A k \in 1..n : /\ F[i][k].id = F[m][k].id
                           /\ k # i => /\ F[i][k].pos = F[m][k].pos /\ F[i][k].moveTo = F[m][k].moveTo
                                      /\ F[i][k].state \in {F[m][k].state, "dead"}
        /\ <<F[m][i].pos, F[i][i]>> \in R
    BY <2>1, <2>2, <2>3, StepUnitTurn
  <2>6. ASSUME NEW k \in 1..n
        PROVE  /\ F[i][k].id = units[k].id
               /\ k > i => F[i][k].pos = units[k].pos
               /\ k <= i => <<units[k].pos, F[i][k]>> \in R
    <3>1. i = m + 1
      BY DEF i
    <3>2. k < i \/ k = i \/ k > i
      BY <2>1
    <3>3. CASE k < i
      <4>1. k <= m /\ k # i /\ ~(k > i)
        BY <2>1, <3>1, <3>3
      <4>2. <<units[k].pos, F[m][k]>> \in R /\ F[m][k].id = units[k].id
        BY <1>3, <4>1
      <4>3. F[m][k] \in X /\ F[i][k] \in X /\ units[k].pos \in Place
        <5>1. units[k] \in AnyUnit
          BY DEF Lined, Keeps
        <5> QED
          BY <2>3, <2>4, <5>1, UnitFields DEF Lined
      <4> QED
        BY <2>5, <4>1, <4>2, <4>3 DEF Turns
    <3>4. CASE k = i
      <4>1. k > m /\ ~(k > i)
        BY <2>1, <3>1, <3>4
      <4>2. F[m][k].id = units[k].id /\ F[m][k].pos = units[k].pos
        BY <1>3, <4>1
      <4> QED
        BY <2>5, <3>4, <4>1, <4>2
    <3>5. CASE k > i
      <4>1. k > m /\ k # i /\ ~(k <= i)
        BY <2>1, <3>1, <3>5
      <4>2. F[m][k].id = units[k].id /\ F[m][k].pos = units[k].pos
        BY <1>3, <4>1
      <4> QED
        BY <2>5, <4>1, <4>2
    <3> QED
      BY <3>2, <3>3, <3>4, <3>5
  <2>7. So(i)
    BY <2>4, <2>6
  <2> HIDE DEF So
  <2> QED
    BY <2>1, <2>7 DEF i
<1>4. n \in L
  <2> HIDE DEF L
  <2>1. \A k \in 0..n : k \in L
    BY <1>2, <1>3, UpTo
  <2> QED
    BY <2>1
<1> QED
  BY <1>1, <1>4

\* One more unit at the end, its number the greatest.
LEMMA WithLined ==
  ASSUME NEW X, NEW units, NEW n \in Nat, Lined(units, n, X), NEW u \in X,
         \A i \in 1..n : units[i].id < u.id
  PROVE  /\ Lined(With(units, u), n + 1, X)
         /\ \A i \in 1..n : With(units, u)[i] = units[i]
         /\ With(units, u)[n + 1] = u
<1> DEFINE r == With(units, u)
<1>1. /\ r = [i \in 1..(n + 1) |-> r[i]]
      /\ \A i \in 1..n : r[i] = units[i]
      /\ r[n + 1] = u
  BY Longer DEF Lined
<1> HIDE DEF r
<1>2. \A i \in 1..(n + 1) : r[i] \in X
  <2>1. \A i \in 1..n : r[i] \in X
    BY <1>1 DEF Lined
  <2>2. \A i \in 1..(n + 1) : i \in 1..n \/ i = n + 1
    OBVIOUS
  <2> QED
    BY <1>1, <2>1, <2>2
<1>3. \A i, j \in 1..(n + 1) : i < j => r[i].id < r[j].id
  <2> SUFFICES ASSUME NEW i \in 1..(n + 1), NEW j \in 1..(n + 1), i < j
               PROVE  r[i].id < r[j].id
    OBVIOUS
  <2>1. i \in 1..n /\ (j \in 1..n \/ j = n + 1)
    OBVIOUS
  <2> QED
    BY <1>1, <2>1 DEF Lined
<1>4. Lined(r, n + 1, X)
  BY <1>1, <1>2, <1>3 DEF Lined
<1> QED
  BY <1>1, <1>4 DEF r

\* Those that are left stay in their order.
LEMMA RemoveDeadLined ==
  ASSUME NEW X, NEW units, NEW n \in Nat, Lined(units, n, X)
  PROVE  \E m \in Nat : Lined(RemoveDead(units), m, Living(X)) /\ Among(RemoveDead(units), m, units, n)
<1> DEFINE N == Len(units)
           Fold(f, k) == f = [m \in 0..k |-> IF m = 0 THEN <<>>
                                             ELSE IF units[m].state = "dead" THEN f[m - 1]
                                             ELSE Append(f[m - 1], units[m])]
           T == {k \in 0..N : \E f : Fold(f, k)}
<1>1. N = n
  BY AsSeq DEF Lined
<1>2. 0 \in T
  <2> DEFINE g == [m \in 0..0 |-> <<>>]
  <2>1. Fold(g, 0)
    OBVIOUS
  <2> HIDE DEF g
  <2>2. \E f : Fold(f, 0)
    BY <2>1
  <2> QED
    BY <1>1, <2>2
<1>3. ASSUME NEW k \in 0..N, k \in T, k < N PROVE k + 1 \in T
  <2>1. PICK f : Fold(f, k)
    BY <1>3
  <2> DEFINE g == [m \in 0..(k + 1) |-> IF m <= k THEN f[m] ELSE 
                                   IF units[k + 1].state = "dead" THEN f[k]
                                   ELSE Append(f[k], units[k + 1])]
  <2>2. \A m \in 0..(k + 1) :
          g[m] = IF m = 0 THEN <<>> ELSE IF units[m].state = "dead" THEN g[m - 1]
                 ELSE Append(g[m - 1], units[m])
    <3> TAKE m \in 0..(k + 1)
    <3>1. CASE m = 0
      BY <2>1, <3>1
    <3>2. CASE m \in 1..k
      <4>1. m - 1 \in 0..k /\ m \in 0..k
        BY <3>2
      <4>2. g[m] = f[m] /\ g[m - 1] = f[m - 1]
        BY <3>2, <4>1
      <4>3. f[m] = IF m = 0 THEN <<>> ELSE IF units[m].state = "dead" THEN f[m - 1]
                   ELSE Append(f[m - 1], units[m])
        BY <2>1, <4>1
      <4> QED
        BY <4>2, <4>3
    <3>3. CASE m = k + 1
      BY <3>3
    <3> QED
      BY <3>1, <3>2, <3>3
  <2>3. Fold(g, k + 1)
    BY <2>2
  <2> HIDE DEF g
  <2>4. \E h : Fold(h, k + 1)
    BY <2>3
  <2>5. k + 1 \in 0..N
    BY <1>1, <1>3
  <2> QED
    BY <2>4, <2>5
<1>4. PICK f : Fold(f, N)
  <2>1. N \in 0..N
    BY <1>1
  <2>2. N \in T
    <3> HIDE DEF T
    <3>1. \A k \in 0..N : k \in T
      BY <1>1, <1>2, <1>3, UpTo
    <3> QED
      BY <2>1, <3>1
  <2> QED
    BY <2>2
<1> DEFINE F == CHOOSE x : Fold(x, N)
<1>5. Fold(F, N)
  BY <1>4
<1>6. RemoveDead(units) = F[N]
  BY DEF RemoveDead
<1> HIDE DEF F
<1> DEFINE From(a, m, k) == Lined(a, m, Living(X)) /\ Among(a, m, units, k)
           L == {k \in 0..N : \E m \in Nat : From(F[k], m, k)}
<1>7. 0 \in L
  <2>1. F[0] = <<>> /\ 0 \in 0..N
    BY <1>1, <1>5
  <2>2. <<>> = [i \in 1..0 |-> <<>>[i]]
    OBVIOUS
  <2>3. From(<<>>, 0, 0)
    BY <2>2 DEF Lined, Among
  <2> QED
    BY <2>1, <2>3
<1>8. ASSUME NEW k \in 0..N, k \in L, k < N PROVE k + 1 \in L
  <2>1. k + 1 \in 1..n /\ k + 1 \in 0..N /\ (k + 1) - 1 = k /\ k + 1 # 0 /\ k \in Nat
    BY <1>1, <1>8
  <2>2. F[k + 1] = IF units[k + 1].state = "dead" THEN F[k] ELSE Append(F[k], units[k + 1])
    BY <1>5, <2>1
  <2>3. PICK m \in Nat : From(F[k], m, k)
    BY <1>8
  <2>4. CASE units[k + 1].state = "dead"
    <3>1. From(F[k + 1], m, k + 1)
      BY <2>1, <2>2, <2>3, <2>4 DEF Among
    <3> QED
      BY <2>1, <3>1
  <2>5. CASE units[k + 1].state # "dead"
    <3> DEFINE u == units[k + 1]
               a == F[k]
    <3>1. u \in Living(X)
      BY <2>1, <2>5 DEF Lined, Living
    <3>2. ASSUME NEW i \in 1..m PROVE a[i].id < u.id
      <4>1. PICK j \in 1..k : F[k][i] = units[j]
        BY <2>3 DEF Among
      <4>2. j \in 1..n /\ j < k + 1
        BY <1>1, <2>1
      <4>3. units[j].id < units[k + 1].id
        BY <2>1, <4>2 DEF Lined
      <4> QED
        BY <4>1, <4>3
    <3> DEFINE b == With(a, u)
    <3>3. Lined(a, m, Living(X))
      BY <2>3
    <3>4. F[k + 1] = b
      BY <2>2, <2>5 DEF With
    <3> HIDE DEF a, u
    <3>5. /\ Lined(b, m + 1, Living(X))
          /\ \A i \in 1..m : b[i] = a[i]
          /\ b[m + 1] = u
      <4>1. m \in Nat
        OBVIOUS
      <4> QED
        BY <3>1, <3>2, <3>3, <4>1, WithLined
    <3> HIDE DEF b
    <3>6. From(b, m + 1, k + 1)
      <4>1. ASSUME NEW i \in 1..(m + 1)
            PROVE  \E j \in 1..(k + 1) : b[i] = units[j]
        <5>1. CASE i = m + 1
          <6>1. b[i] = units[k + 1] /\ k + 1 \in 1..(k + 1)
            BY <2>1, <3>5, <5>1 DEF u
          <6> QED
            BY <6>1
        <5>2. CASE i \in 1..m
          <6>1. PICK j \in 1..k : F[k][i] = units[j]
            BY <2>3, <5>2 DEF Among
          <6>2. b[i] = units[j] /\ j \in 1..(k + 1)
            BY <2>1, <3>5, <5>2, <6>1 DEF a
          <6> QED
            BY <6>2
        <5>3. i = m + 1 \/ i \in 1..m
          OBVIOUS
        <5> QED
          BY <5>1, <5>2, <5>3
      <4> QED
        BY <3>5, <4>1 DEF Among
    <3>7. m + 1 \in Nat
      OBVIOUS
    <3> HIDE DEF From
    <3>8. \E q \in Nat : From(F[k + 1], q, k + 1)
      BY <3>4, <3>6, <3>7
    <3> QED
      BY <2>1, <3>8
  <2> QED
    BY <2>4, <2>5
<1>9. N \in L
  <2> HIDE DEF L
  <2>1. \A k \in 0..N : k \in L
    BY <1>1, <1>7, <1>8, UpTo
  <2> QED
    BY <1>1, <2>1
<1> QED
  BY <1>1, <1>6, <1>9

\* A step of a world is a world.
LEMMA StepWorld ==
  ASSUME NEW X, Keeps(X), NEW w, WorldOf(w, X), NEW cmds \in Seq(Cmd)
  PROVE  WorldOf(Step(w, cmds), X)
<1>1. PICK n \in Nat : Lined(w.units, n, Living(X))
  BY DEF WorldOf
<1> DEFINE commanded == Sorted(Applied(w.units, cmds))
<1>2. Lined(commanded, n, Living(X))
  BY <1>1, AppliedLined, SortedLined
<1> HIDE DEF commanded
<1>3. Lined(commanded, n, X)
  BY <1>2 DEF Lined, Living
<1>4. Lined(Stepped(commanded), n, X)
  BY <1>3, SteppedLined
<1> DEFINE units == RemoveDead(Stepped(commanded))
           tick == (w.tick + 1) % TickWrap
<1>5. \E m \in Nat : Lined(units, m, Living(X))
  BY <1>4, RemoveDeadLined
<1>6. tick \in 0..(TickWrap - 1)
  BY WorldAssumption DEF WorldOf, WorldAssumption
<1>7. Step(w, cmds) = [tick |-> tick, units |-> units]
  BY DEF Step, commanded
<1> HIDE DEF units, tick
<1> QED
  BY <1>5, <1>6, <1>7 DEF WorldOf

\* A unit that a step leaves was one before, and has had its turn.
LEMMA StepTurns ==
  ASSUME NEW X, Keeps(X), NEW R, Turns(R, X), NEW w, NEW n \in Nat, Lined(w.units, n, Living(X)),
         NEW cmds \in Seq(Cmd)
  PROVE  \A j \in DOMAIN Step(w, cmds).units : \E i \in 1..n :
           /\ Step(w, cmds).units[j].id = w.units[i].id
           /\ <<w.units[i].pos, Step(w, cmds).units[j]>> \in R
<1> DEFINE applied == Applied(w.units, cmds)
           sorted == Sorted(applied)
           stepped == Stepped(sorted)
           left == RemoveDead(stepped)
<1>1. /\ Lined(applied, n, Living(X))
      /\ \A i \in 1..n : applied[i].id = w.units[i].id /\ applied[i].pos = w.units[i].pos
  BY AppliedLined
<1> HIDE DEF applied
<1>2. Lined(sorted, n, Living(X)) /\ Among(sorted, n, applied, n)
  BY <1>1, SortedLined
<1> HIDE DEF sorted
<1>3. Lined(sorted, n, X)
  BY <1>2 DEF Lined, Living
<1>4. /\ Lined(stepped, n, X)
      /\ \A k \in 1..n : stepped[k].id = sorted[k].id /\ <<sorted[k].pos, stepped[k]>> \in R
  BY <1>3, SteppedLined, SteppedTurns
<1> HIDE DEF stepped
<1>5. PICK m \in Nat : Lined(left, m, Living(X)) /\ Among(left, m, stepped, n)
  BY <1>4, RemoveDeadLined
<1>6. Step(w, cmds).units = left
  BY DEF Step, left, stepped, sorted, applied
<1> HIDE DEF left
<1>7. ASSUME NEW j \in DOMAIN left
      PROVE  \E i \in 1..n : left[j].id = w.units[i].id /\ <<w.units[i].pos, left[j]>> \in R
  <2>1. j \in 1..m
    BY <1>5 DEF Lined
  <2>2. PICK k \in 1..n : left[j] = stepped[k]
    BY <1>5, <2>1 DEF Among
  <2>3. PICK i \in 1..n : sorted[k] = applied[i]
    BY <1>2 DEF Among
  <2> QED
    BY <1>1, <1>4, <2>2, <2>3
<1> QED
  BY <1>6, <1>7

\* In a world, units with one number are one.
LEMMA OneOfEach ==
  ASSUME NEW X, X \subseteq AnyUnit, NEW w, NEW n \in Nat, Lined(w.units, n, Living(X)),
         NEW i \in DOMAIN w.units, NEW j \in DOMAIN w.units, w.units[i].id = w.units[j].id
  PROVE  i = j
<1>1. DOMAIN w.units = 1..n
  BY DEF Lined
<1>2. /\ j < i => w.units[j].id < w.units[i].id
      /\ i < j => w.units[i].id < w.units[j].id
  BY <1>1 DEF Lined
<1>3. w.units[i].id \in Int
  <2>1. w.units[i] \in AnyUnit
    BY <1>1 DEF Lined, Living
  <2> QED
    BY <2>1, UnitFields, WorldAssumption DEF UnitIds, WorldAssumption
<1> QED
  BY <1>1, <1>2, <1>3

\* So R holds of what a tick does to the unit of one number.
LEMMA StepOfUnit ==
  ASSUME NEW X, Keeps(X), NEW R, Turns(R, X), NEW w, WorldOf(w, X), NEW cmds \in Seq(Cmd),
         NEW i \in DOMAIN w.units, NEW j \in DOMAIN Step(w, cmds).units,
         Step(w, cmds).units[j].id = w.units[i].id
  PROVE  <<w.units[i].pos, Step(w, cmds).units[j]>> \in R
<1>1. PICK n \in Nat : Lined(w.units, n, Living(X))
  BY DEF WorldOf
<1> DEFINE v == Step(w, cmds).units[j]
<1>2. PICK k \in 1..n : v.id = w.units[k].id /\ <<w.units[k].pos, v>> \in R
  BY <1>1, StepTurns
<1>3. k \in DOMAIN w.units
  BY <1>1 DEF Lined
<1>4. k = i
  BY <1>1, <1>2, <1>3, OneOfEach DEF Keeps
<1> QED
  BY <1>2, <1>4
-----------------------------------------------------------------------------
(* The snapshot *)

CellOf(w, i, k) == Marshal(w)[HeaderCells + (i - 1) * UnitCells + k]

\* The k-th cell of the i-th unit is where Unmarshal looks for it.
LEMMA CellAt ==
  ASSUME NEW X, NEW w, NEW n \in Nat, Lined(w.units, n, X), NEW i \in 1..n, NEW k \in 1..UnitCells
  PROVE  CellOf(w, i, k) = Cells(w.units[i])[k]
<1> DEFINE at == HeaderCells + (i - 1) * UnitCells + k
           c == at - HeaderCells - 1
<1>1. Len(w.units) = n
  BY AsSeq DEF Lined
<1>2. at \in 1..(HeaderCells + n * UnitCells) /\ at # 1 /\ at # 2
  BY DEF HeaderCells, UnitCells
<1>3. c \div UnitCells = i - 1 /\ c % UnitCells = k - 1
  BY DEF HeaderCells, UnitCells
<1>4. Marshal(w)[at] = Cells(w.units[(c \div UnitCells) + 1])[(c % UnitCells) + 1]
  BY <1>1, <1>2 DEF Marshal
<1>5. (i - 1) + 1 = i /\ (k - 1) + 1 = k
  BY DEF UnitCells
<1> QED
  BY <1>3, <1>4, <1>5 DEF CellOf

\* The snapshot of a world holds all there is to it.
LEMMA SnapshotWhole ==
  ASSUME NEW w, WorldOf(w, AnyUnit)
  PROVE  Unmarshal(Marshal(w)) = w
<1>1. PICK n \in Nat : Lined(w.units, n, Living(AnyUnit))
  BY DEF WorldOf
<1>2. Len(w.units) = n
  BY <1>1, AsSeq DEF Lined
<1>3. Marshal(w)[1] = w.tick /\ Marshal(w)[2] = n
  BY <1>2 DEF Marshal, HeaderCells, UnitCells
<1> DEFINE f(i, k) == CellOf(w, i, k)
           unit(i) == [id |-> f(i, 1), owner |-> f(i, 2), state |-> f(i, 3), hp |-> f(i, 4),
                       maxHP |-> f(i, 5), speed |-> f(i, 6), pos |-> V(f(i, 7), f(i, 8)),
                       target |-> f(i, 9), moveTo |-> V(f(i, 10), f(i, 11))]
<1>4. Unmarshal(Marshal(w)) = [tick |-> w.tick, units |-> [i \in 1..n |-> unit(i)]]
  BY <1>3 DEF Unmarshal, CellOf
<1>5. ASSUME NEW i \in 1..n PROVE unit(i) = w.units[i]
  <2> DEFINE u == w.units[i]
  <2>1. \A k \in 1..UnitCells : f(i, k) = Cells(u)[k]
    <3> DEFINE X == Living(AnyUnit)
    <3>1. Lined(w.units, n, X)
      BY <1>1
    <3> HIDE DEF X
    <3> TAKE k \in 1..UnitCells
    <3> QED
      BY <3>1, CellAt
  <2>2. {1, 2, 3, 4, 5, 6, 7, 8, 9, 10, 11} \subseteq 1..UnitCells
    BY DEF UnitCells
  <2> HIDE DEF f
  <2>3. /\ f(i, 1) = Cells(u)[1] /\ f(i, 2) = Cells(u)[2] /\ f(i, 3) = Cells(u)[3]
        /\ f(i, 4) = Cells(u)[4] /\ f(i, 5) = Cells(u)[5] /\ f(i, 6) = Cells(u)[6]
        /\ f(i, 7) = Cells(u)[7] /\ f(i, 8) = Cells(u)[8] /\ f(i, 9) = Cells(u)[9]
        /\ f(i, 10) = Cells(u)[10] /\ f(i, 11) = Cells(u)[11]
    BY <2>1, <2>2
  <2> HIDE DEF u
  <2>4. /\ Cells(u)[1] = u.id /\ Cells(u)[2] = u.owner /\ Cells(u)[3] = u.state
        /\ Cells(u)[4] = u.hp /\ Cells(u)[5] = u.maxHP /\ Cells(u)[6] = u.speed
        /\ Cells(u)[7] = u.pos.x /\ Cells(u)[8] = u.pos.y /\ Cells(u)[9] = u.target
        /\ Cells(u)[10] = u.moveTo.x /\ Cells(u)[11] = u.moveTo.y
    BY DEF Cells
  <2>5. unit(i) = [id |-> u.id, owner |-> u.owner, state |-> u.state, hp |-> u.hp,
                   maxHP |-> u.maxHP, speed |-> u.speed, pos |-> V(u.pos.x, u.pos.y),
                   target |-> u.target, moveTo |-> V(u.moveTo.x, u.moveTo.y)]
    BY <2>3, <2>4
  <2>6. u \in AnyUnit
    BY <1>1 DEF Lined, Living, u
  <2>7. /\ u = [id |-> u.id, owner |-> u.owner, state |-> u.state, hp |-> u.hp,
                maxHP |-> u.maxHP, speed |-> u.speed, pos |-> u.pos,
                target |-> u.target, moveTo |-> u.moveTo]
        /\ u.pos \in Place /\ u.moveTo \in Place
    BY <2>6 DEF AnyUnit
  <2>8. u.pos = V(u.pos.x, u.pos.y) /\ u.moveTo = V(u.moveTo.x, u.moveTo.y)
    BY <2>7 DEF Place, V
  <2> QED
    BY <2>5, <2>7, <2>8 DEF u
<1>6. w.units = [i \in 1..n |-> w.units[i]] /\ w = [tick |-> w.tick, units |-> w.units]
  BY <1>1 DEF Lined, WorldOf
<1> HIDE DEF unit
<1>7. [i \in 1..n |-> unit(i)] = w.units
  BY <1>5, <1>6
<1> QED
  BY <1>4, <1>6, <1>7
-----------------------------------------------------------------------------
(* The copy *)

LEMMA FramesAreSequences ==
  ASSUME NEW cmds \in Frames
  PROVE  cmds \in Seq(Cmd)
<1>1. PICK n \in 0..MaxCmds : cmds \in [1..n -> Cmd]
  BY DEF Frames
<1>2. n \in Nat
  BY <1>1
<1> QED
  BY <1>1, <1>2, IsASeq

\* The units one begins with.
LEMMA SpawnedUnit ==
  ASSUME NEW i \in UnitIds
  PROVE  /\ Spawned(i) \in Living(AnyUnit) /\ Spawned(i).id = i
         /\ Spawned(i).moveTo = V(0, 0)
         /\ OnMap => Spawned(i).pos \in OnMapPlace
<1> DEFINE u == Spawned(i)
           p == (i - 1) \div UnitsPerPlayer
           k == (i - 1) % UnitsPerPlayer
           x == SpawnX + p * SpawnStep
           y == SpawnX + k * RowStep
           pos == V(FromInt(x), FromInt(y))
<1>1. /\ PlayerCount \in Nat /\ UnitsPerPlayer \in Nat /\ SpawnX \in Int /\ SpawnStep \in Int
      /\ RowStep \in Int /\ UnitHP \in Nat \ {0}
  BY WorldAssumption DEF WorldAssumption
<1>2. i \in 1..(PlayerCount * UnitsPerPlayer) /\ UnitsPerPlayer # 0 /\ i - 1 \in Nat
  BY <1>1 DEF UnitIds
<1>3. p \in PlayerIds
  <2>1. p \in Int /\ UnitsPerPlayer * p <= i - 1 /\ i - 1 < UnitsPerPlayer * p + UnitsPerPlayer
    BY <1>1, <1>2, Quotients
  <2> HIDE DEF p
  <2>2. 0 <= p
    <3>1. SUFFICES ASSUME p + 1 <= 0 PROVE FALSE
      BY <2>1, <3>1
    <3>2. UnitsPerPlayer * (p + 1) <= UnitsPerPlayer * 0 /\ UnitsPerPlayer * 0 = 0
      BY <1>1, <2>1, <3>1
    <3>3. UnitsPerPlayer * (p + 1) = UnitsPerPlayer * p + UnitsPerPlayer
      BY <1>1, <2>1
    <3> QED
      BY <1>1, <1>2, <2>1, <3>2, <3>3
  <2>3. p < PlayerCount
    <3>1. SUFFICES ASSUME PlayerCount <= p PROVE FALSE
      BY <1>1, <2>1, <3>1
    <3>2. UnitsPerPlayer * PlayerCount <= UnitsPerPlayer * p
      BY <1>1, <2>1, <3>1
    <3>3. UnitsPerPlayer * PlayerCount = PlayerCount * UnitsPerPlayer
      BY <1>1
    <3> QED
      BY <1>1, <1>2, <2>1, <3>2, <3>3
  <2> QED
    BY <1>1, <2>1, <2>2, <2>3 DEF PlayerIds
<1>4. p \in Int /\ k \in Int
  BY <1>1, <1>2
<1>5. x \in Int /\ y \in Int
  BY <1>1, <1>4
<1>6. pos \in Place /\ V(0, 0) \in Place
  <2> HIDE DEF x, y
  <2> QED
    BY <1>5, Closure DEF Place, V
<1>7. OnMap => pos \in OnMapPlace
  <2> SUFFICES ASSUME OnMap PROVE pos \in OnMapPlace
    OBVIOUS
  <2>1. x \in 0..MapSize /\ y \in 0..MapSize
    BY DEF OnMap
  <2> DEFINE M == FromInt(MapSize)
  <2>2. M = MapSize * One /\ M \in Nat /\ MapSize \in Nat /\ One \in Nat \ {0} /\ Largest \in Nat
        /\ M <= Largest
    <3>1. M = MapSize * One /\ M \in Nat /\ 2 * ((M * M) \div One) <= Largest /\ One <= M
      BY MapFits
    <3>2. MapSize \in Nat /\ One \in Nat \ {0} /\ Largest \in Nat
      BY Sizes DEF OnMap
    <3> HIDE DEF M
    <3>3. M * One <= M * M /\ M * One \in Int /\ M * M \in Int
      BY <3>1, <3>2
    <3>4. (M * One) \div One = M /\ (M * One) \div One <= (M * M) \div One /\ (M * M) \div One \in Int
      BY <3>1, <3>2, <3>3, DivMonotone, DivMultiple, Quotients
    <3> QED
      BY <3>1, <3>2, <3>4
  <2> HIDE DEF M, x, y
  <2>3. \A a \in 0..MapSize : FromInt(a) \in 0..M
    <3> SUFFICES ASSUME NEW a \in 0..MapSize PROVE FromInt(a) \in 0..M
      OBVIOUS
    <3>1. a * One \in Int /\ 0 <= a * One /\ a * One <= MapSize * One
      BY <2>2
    <3>2. a * One \in -(Largest + 1)..Largest
      BY <2>2, <3>1
    <3> QED
      BY <2>2, <3>1, <3>2, WrapWithin DEF FromInt
  <2> QED
    BY <2>1, <2>3 DEF OnMapPlace, V, M
<1>8. u = [id |-> i, owner |-> p, state |-> "idle", hp |-> UnitHP, maxHP |-> UnitHP,
           speed |-> Speed, target |-> NoUnit, moveTo |-> V(0, 0), pos |-> pos]
  BY DEF Spawned
<1> HIDE DEF u, p, pos
<1>9. /\ u \in [id : UnitIds, owner : PlayerIds, state : {"idle", "moving", "dead"},
                hp : 0..UnitHP, maxHP : {UnitHP}, speed : {Speed}, target : UnitIds \cup {NoUnit},
                pos : Place, moveTo : Place]
      /\ u.state = "idle" /\ u.hp = UnitHP /\ u.id = i /\ u.pos = pos /\ u.moveTo = V(0, 0)
  BY <1>1, <1>3, <1>6, <1>8
<1>10. u \in Living(AnyUnit)
  BY <1>1, <1>9 DEF Living, AnyUnit
<1> QED
  BY <1>7, <1>9, <1>10 DEF u

LEMMA FirstWorld ==
  ASSUME NEW X, \A i \in UnitIds : Spawned(i) \in Living(X)
  PROVE  WorldOf(NewWorld, X)
<1> DEFINE N == PlayerCount * UnitsPerPlayer
           units == [i \in UnitIds |-> Spawned(i)]
<1>1. N \in Nat /\ UnitIds = 1..N /\ 0 \in 0..(TickWrap - 1)
  BY WorldAssumption DEF WorldAssumption, UnitIds
<1>2. NewWorld = [tick |-> 0, units |-> units]
  BY DEF NewWorld
<1> HIDE DEF N
<1>3. \A i \in 1..N : units[i] = Spawned(i)
  BY <1>1
<1>4. units = [i \in 1..N |-> units[i]]
  BY <1>1
<1>5. \A i \in 1..N : units[i] \in Living(X) /\ units[i].id = i
  BY <1>1, <1>3, SpawnedUnit
<1> HIDE DEF units
<1>6. Lined(units, N, Living(X))
  BY <1>4, <1>5 DEF Lined
<1> QED
  BY <1>1, <1>2, <1>6 DEF WorldOf

LEMMA InitCopy == SimInit => CopyInv
<1> SUFFICES ASSUME SimInit PROVE CopyInv
  OBVIOUS
<1>1. WorldOf(world, AnyUnit)
  BY FirstWorld, SpawnedUnit DEF SimInit
<1>2. 0 \in Nat /\ tail = [i \in 1..0 |-> tail[i]]
  BY DEF SimInit
<1>3. MaxLag \in Nat /\ MaxOrders \in Nat
  BY WorldAssumption DEF WorldAssumption
<1> QED
  BY <1>1, <1>2, <1>3 DEF SimInit, CopyInv

\* The room executes a tick and records it.
LEMMA TickCopy ==
  ASSUME CopyInv, NEW cmds \in Frames, Tick(cmds)
  PROVE  CopyInv'
<1>0. cmds \in Seq(Cmd)
  BY FramesAreSequences
<1>1. WorldOf(world', AnyUnit)
  BY <1>0, KeepsAny, StepWorld DEF CopyInv, Tick
<1>o. orders' \in 0..MaxOrders
  <2>1. Len(cmds) \in Nat
    BY <1>0
  <2> QED
    BY <2>1, WorldAssumption DEF Tick, CopyInv, WorldAssumption
<1>2. desync' = FALSE /\ replica' = replica
  BY DEF CopyInv, Tick
<1>3. PICK n \in Nat : /\ tail = [i \in 1..n |-> tail[i]] /\ n <= MaxLag
                       /\ \A i \in 1..n : tail[i].cmds \in Seq(Cmd)
                       /\ replica # NoWorld => \E ws : Leads(ws, n)
  BY DEF CopyInv
<1>4. CASE replica = NoWorld
  <2>1. tail' = tail /\ tail = <<>>
    BY <1>4 DEF Tick, CopyInv
  <2> QED
    BY <1>o, <1>1, <1>2, <1>3, <1>4, <2>1 DEF CopyInv
<1>5. CASE replica # NoWorld
  <2> DEFINE e == [cmds |-> cmds, hash |-> Digest(world')]
  <2>1. tail' = With(tail, e) /\ world' = Step(world, cmds)
    BY <1>5 DEF Tick, With
  <2>2. e.cmds = cmds /\ e.hash = Digest(world')
    OBVIOUS
  <2> HIDE DEF e
  <2>3. /\ tail' = [i \in 1..(n + 1) |-> tail'[i]]
        /\ \A i \in 1..n : tail'[i] = tail[i]
        /\ tail'[n + 1] = e
    <3>1. \A x : /\ With(tail, x) = [i \in 1..(n + 1) |-> With(tail, x)[i]]
                 /\ \A i \in 1..n : With(tail, x)[i] = tail[i]
                 /\ With(tail, x)[n + 1] = x
      BY <1>3, Longer
    <3> QED
      BY <2>1, <3>1
  <2>4. PICK ws : Leads(ws, n)
    BY <1>3, <1>5
  <2>a. PICK next : next = [i \in 0..(n + 1) |-> IF i <= n THEN ws[i] ELSE world']
    OBVIOUS
  <2>5. next[0] = replica /\ next[n] = world /\ next[n + 1] = world'
    BY <2>4, <2>a DEF Leads
  <2>6. ASSUME NEW i \in 1..(n + 1)
        PROVE  next[i] = Step(next[i - 1], tail'[i].cmds) /\ Digest(next[i]) = tail'[i].hash
    <3>1. CASE i \in 1..n
      <4>1. next[i] = ws[i] /\ next[i - 1] = ws[i - 1] /\ tail'[i] = tail[i]
        BY <2>3, <2>a, <3>1
      <4> QED
        BY <2>4, <3>1, <4>1 DEF Leads
    <3>2. CASE i = n + 1
      <4>1. next[i] = world' /\ next[i - 1] = world /\ tail'[i] = e
        BY <2>3, <2>5, <3>2
      <4> QED
        BY <2>1, <2>2, <4>1
    <3> QED
      BY <3>1, <3>2
  <2>7. Leads(next, n + 1)'
    BY <1>2, <2>5, <2>6 DEF Leads
  <2>8. n + 1 \in Nat /\ n + 1 <= MaxLag
    <3>1. Len(tail) = n /\ Len(tail) < MaxLag /\ MaxLag \in Nat
      BY <1>3, AsSeq, WorldAssumption DEF Tick, WorldAssumption
    <3> QED
      BY <3>1
  <2>r. \A i \in 1..(n + 1) : tail'[i].cmds \in Seq(Cmd)
    <3> TAKE i \in 1..(n + 1)
    <3>1. i \in 1..n \/ i = n + 1
      OBVIOUS
    <3> QED
      BY <1>0, <1>3, <2>2, <2>3, <3>1
  <2>w. WorldOf(replica', AnyUnit)
    BY <1>2, <1>5 DEF CopyInv
  <2>9. (\E w : Leads(w, n + 1)')
    BY <2>7
  <2> QED
    BY <1>o, <1>1, <1>2, <1>5, <2>3, <2>8, <2>9, <2>r, <2>w DEF CopyInv
<1> QED
  BY <1>4, <1>5

\* The copy is restored from a snapshot.
LEMMA RestoreCopy ==
  ASSUME CopyInv, Restore
  PROVE  CopyInv'
<1>1. WorldOf(world, AnyUnit) /\ tail = <<>> /\ desync = FALSE
  BY DEF CopyInv, Restore
<1>2. /\ replica' = world /\ world' = world /\ tail' = tail /\ desync' = desync
  BY <1>1, SnapshotWhole DEF Restore
<1>a. PICK ws : ws = [i \in 0..0 |-> world]
  OBVIOUS
<1>3. ws[0] = world
  BY <1>a
<1>4. Leads(ws, 0)'
  BY <1>2, <1>3 DEF Leads
<1>5. WorldOf(world, AnyUnit)' /\ WorldOf(replica, AnyUnit)'
  BY <1>1, <1>2 DEF WorldOf
<1>o. orders' \in 0..MaxOrders /\ 0 <= MaxLag
  BY WorldAssumption DEF Restore, CopyInv, WorldAssumption
<1>6. 0 \in Nat /\ tail' = [i \in 1..0 |-> tail'[i]]
  BY <1>1, <1>2
<1>7. \E w : Leads(w, 0)'
  BY <1>4
<1> QED
  BY <1>o, <1>1, <1>2, <1>5, <1>6, <1>7 DEF CopyInv

\* The copy executes the first of the recorded ticks.
LEMMA PlayTickCopy ==
  ASSUME CopyInv, PlayTick
  PROVE  CopyInv'
<1>1. replica # NoWorld /\ tail # <<>> /\ desync = FALSE /\ WorldOf(world, AnyUnit)
      /\ WorldOf(replica, AnyUnit)
  BY DEF CopyInv, PlayTick
<1>2. PICK n \in Nat : /\ tail = [i \in 1..n |-> tail[i]] /\ n <= MaxLag
                       /\ \A i \in 1..n : tail[i].cmds \in Seq(Cmd)
                       /\ \E ws : Leads(ws, n)
  BY <1>1 DEF CopyInv
<1>3. PICK ws : Leads(ws, n)
  BY <1>2
<1>4. /\ n # 0 /\ Head(tail) = tail[1]
      /\ Tail(tail) = [i \in 1..(n - 1) |-> Tail(tail)[i]]
      /\ \A i \in 1..(n - 1) : Tail(tail)[i] = tail[i + 1]
  BY <1>1, <1>2, Shorter
<1>5. n - 1 \in Nat /\ 1 \in 1..n /\ 1 - 1 = 0
  BY <1>4
<1>6. /\ ws[1] = Step(replica, tail[1].cmds) /\ Digest(ws[1]) = tail[1].hash
  BY <1>3, <1>5 DEF Leads
<1>7. /\ replica' = ws[1] /\ tail' = Tail(tail) /\ desync' = FALSE /\ world' = world
  BY <1>1, <1>4, <1>6 DEF PlayTick
<1>8. replica' # NoWorld
  <2>1. DOMAIN replica' = {"tick", "units"}
    BY <1>6, <1>7 DEF Step
  <2>2. DOMAIN NoWorld = {"tick"}
    BY DEF NoWorld
  <2> QED
    BY <2>1, <2>2
<1> DEFINE next == [i \in 0..(n - 1) |-> ws[i + 1]]
<1>9. next[0] = ws[1] /\ next[n - 1] = ws[n]
  BY <1>5
<1>10. ASSUME NEW i \in 1..(n - 1)
       PROVE  next[i] = Step(next[i - 1], tail'[i].cmds) /\ Digest(next[i]) = tail'[i].hash
  <2>1. i + 1 \in 1..n /\ (i + 1) - 1 = i /\ (i - 1) + 1 = i
    BY <1>5
  <2>2. next[i] = ws[i + 1] /\ next[i - 1] = ws[i]
    BY <1>5, <2>1
  <2>3. tail'[i] = tail[i + 1]
    BY <1>4, <1>7
  <2>4. ws[i + 1] = Step(ws[(i + 1) - 1], tail[i + 1].cmds) /\ Digest(ws[i + 1]) = tail[i + 1].hash
    BY <1>3, <2>1 DEF Leads
  <2> QED
    BY <2>1, <2>2, <2>3, <2>4
<1> HIDE DEF next
<1>11. Leads(next, n - 1)'
  BY <1>3, <1>7, <1>9, <1>10 DEF Leads
<1>12. \E w : Leads(w, n - 1)'
  BY <1>11
<1>13. tail' = [i \in 1..(n - 1) |-> tail'[i]]
  BY <1>4, <1>7
<1>14. WorldOf(world, AnyUnit)' /\ WorldOf(replica, AnyUnit)'
  <2>1. WorldOf(ws[1], AnyUnit)
    BY <1>1, <1>2, <1>5, <1>6, KeepsAny, StepWorld
  <2> QED
    BY <1>1, <1>7, <2>1
<1>15. n - 1 <= MaxLag /\ \A i \in 1..(n - 1) : tail'[i].cmds \in Seq(Cmd)
  <2>1. MaxLag \in Nat
    BY WorldAssumption DEF WorldAssumption
  <2>2. \A i \in 1..(n - 1) : tail'[i] = tail[i + 1] /\ i + 1 \in 1..n
    BY <1>4, <1>5, <1>7
  <2>3. n - 1 <= MaxLag
    BY <1>2, <2>1
  <2>4. ASSUME NEW i \in 1..(n - 1) PROVE tail'[i].cmds \in Seq(Cmd)
    <3>1. tail'[i] = tail[i + 1] /\ i + 1 \in 1..n
      BY <2>2
    <3>2. tail[i + 1].cmds \in Seq(Cmd)
      BY <1>2, <3>1
    <3> QED
      BY <3>1, <3>2
  <2> QED
    BY <2>3, <2>4
<1>16. orders' \in 0..MaxOrders
  BY DEF PlayTick, CopyInv
<1> QED
  BY <1>5, <1>7, <1>8, <1>12, <1>13, <1>14, <1>15, <1>16 DEF CopyInv

LEMMA CopyInvariant == SimSpec => []CopyInv
<1>1. CopyInv /\ [SimNext]_simVars => CopyInv'
  <2> SUFFICES ASSUME CopyInv, [SimNext]_simVars PROVE CopyInv'
    OBVIOUS
  <2>1. ASSUME NEW cmds \in Frames, Tick(cmds) PROVE CopyInv'
    BY <2>1, TickCopy
  <2>2. CASE Restore
    BY <2>2, RestoreCopy
  <2>3. CASE PlayTick
    BY <2>3, PlayTickCopy
  <2>4. CASE UNCHANGED simVars
    BY <2>4 DEF simVars, CopyInv, Leads, WorldOf
  <2> QED
    BY <2>1, <2>2, <2>3, <2>4 DEF SimNext
<1> QED
  BY InitCopy, <1>1, PTL DEF SimSpec

\* A copy restored from a snapshot is the world again once it has executed the
\* recorded ticks, and every hash on the way is the recorded one, whatever the
\* commands were (snapshot.go:9-130, replay-play main.go:57-75).
THEOREM ReplicaFollowsCorrect == SimSpec => []ReplicaFollows
<1>1. CopyInv => ReplicaFollows
  <2> SUFFICES ASSUME CopyInv, replica # NoWorld, tail = <<>> PROVE replica = world
    BY DEF CopyInv, ReplicaFollows
  <2>1. PICK n \in Nat : tail = [i \in 1..n |-> tail[i]] /\ \E ws : Leads(ws, n)
    BY DEF CopyInv
  <2>2. n = 0
    BY <2>1, AsSeq, EmptySeq
  <2> QED
    BY <2>1, <2>2 DEF Leads
<1> QED
  BY CopyInvariant, <1>1, PTL

\* The room need not order the commands of a tick by their players: those of two
\* players have the same effect either way (step.go:45-68).
THEOREM PlayersCommuteCorrect == SimSpec => []PlayersCommute
<1>1. CopyInv => PlayersCommute
  <2> SUFFICES ASSUME CopyInv, NEW i \in DOMAIN world.units, NEW c \in Cmd, NEW d \in Cmd,
                      c.player < d.player
               PROVE  Apply(Apply(world.units, c), d)[i] = Apply(Apply(world.units, d), c)[i]
    BY DEF PlayersCommute
  <2>1. PICK n \in Nat : Lined(world.units, n, Living(AnyUnit))
    BY DEF CopyInv, WorldOf
  <2>2. i \in 1..n
    BY <2>1 DEF Lined
  <2>3. c.player # d.player
    <3>1. c.player \in Int /\ d.player \in Int
      BY WorldAssumption DEF Cmd, PlayerIds, WorldAssumption
    <3> QED
      BY <3>1
  <2> QED
    BY <2>1, <2>2, <2>3, ApplyCommutes
<1> QED
  BY CopyInvariant, <1>1, PTL

\* A line of living units is what the type says of a world's units.
LEMMA UnitsTyped ==
  ASSUME NEW w, WorldOf(w, AnyUnit)
  PROVE  w.tick \in 0..(TickWrap - 1) /\ UnitsOK(w.units)
<1>1. PICK n \in Nat : Lined(w.units, n, Living(AnyUnit))
  BY DEF WorldOf
<1>2. ASSUME NEW u \in Living(AnyUnit) PROVE u \in Unit
  <2>1. /\ u \in [id : UnitIds, owner : PlayerIds, state : {"idle", "moving", "dead"},
                  hp : 0..UnitHP, maxHP : {UnitHP}, speed : {Speed},
                  target : UnitIds \cup {NoUnit}, pos : Place, moveTo : Place]
        /\ u.state # "dead" /\ u.hp # 0
    BY DEF Living, AnyUnit
  <2>2. u.state \in {"idle", "moving"} /\ u.hp \in 1..UnitHP
    BY <2>1, WorldAssumption DEF WorldAssumption
  <2> QED
    BY <2>1, <2>2 DEF Unit
<1>3. w.units \in [1..n -> Unit] /\ DOMAIN w.units = 1..n
  BY <1>1, <1>2 DEF Lined
<1>4. w.units \in Seq(Unit)
  BY <1>3, IsASeq
<1> QED
  BY <1>1, <1>3, <1>4 DEF UnitsOK, Lined, WorldOf

\* Every unit has the fields of one: its number and owner are among those the
\* room spawned, it lives, its target is a unit or none, and the units stay in
\* the order of their numbers; in the room and in the copy (world.go:40-119).
THEOREM SimTypeCorrect == SimSpec => []SimTypeOK
<1>1. CopyInv => SimTypeOK
  <2> SUFFICES ASSUME CopyInv PROVE SimTypeOK
    OBVIOUS
  <2>1. /\ world.tick \in 0..(TickWrap - 1) /\ UnitsOK(world.units)
        /\ replica # NoWorld => replica.tick \in 0..(TickWrap - 1) /\ UnitsOK(replica.units)
    BY UnitsTyped DEF CopyInv
  <2>2. PICK n \in Nat : /\ tail = [i \in 1..n |-> tail[i]] /\ n <= MaxLag
                         /\ \A i \in 1..n : tail[i].cmds \in Seq(Cmd)
    BY DEF CopyInv
  <2>3. Len(tail) = n /\ DOMAIN tail = 1..n
    BY <2>2, AsSeq
  <2> QED
    BY <2>1, <2>2, <2>3 DEF CopyInv, SimTypeOK
<1> QED
  BY CopyInvariant, <1>1, PTL

\* No unit leaves a map whose squared distances are numbers of the width, though
\* a unit that goes after its target is not clamped: with that no square wraps
\* around, the root is not too small, so the ratio is no more than one
\* (step.go:70-106, vec2.go:70-78).
THEOREM InsideMapCorrect ==
  ASSUME OnMap
  PROVE  SimSpec => []InsideMap
<1>1. SimInit => MapInv
  <2>1. \A i \in UnitIds : Spawned(i) \in Living(OnMapUnit)
    BY SpawnedUnit DEF Living, OnMapUnit
  <2> QED
    BY <2>1, FirstWorld DEF SimInit, MapInv
<1>2. MapInv /\ [SimNext]_simVars => MapInv'
  <2> SUFFICES ASSUME MapInv, [SimNext]_simVars PROVE MapInv'
    OBVIOUS
  <2>1. ASSUME NEW cmds \in Frames, Tick(cmds) PROVE MapInv'
    <3>1. cmds \in Seq(Cmd)
      BY FramesAreSequences
    <3> QED
      BY <2>1, <3>1, KeepsMap, StepWorld DEF MapInv, Tick
  <2>2. CASE Restore \/ PlayTick \/ UNCHANGED simVars
    BY <2>2 DEF Restore, PlayTick, simVars, MapInv, WorldOf
  <2> QED
    BY <2>1, <2>2 DEF SimNext
<1>3. MapInv => InsideMap
  <2> SUFFICES ASSUME MapInv, NEW i \in DOMAIN world.units
               PROVE  {world.units[i].pos.x, world.units[i].pos.y} \subseteq 0..FromInt(MapSize)
    BY DEF InsideMap
  <2>1. PICK n \in Nat : Lined(world.units, n, Living(OnMapUnit))
    BY DEF MapInv, WorldOf
  <2>2. i \in 1..n
    BY <2>1 DEF Lined
  <2>3. world.units[i].pos \in OnMapPlace
    BY <2>1, <2>2 DEF Lined, Living, OnMapUnit
  <2> QED
    BY <2>3 DEF OnMapPlace
<1> QED
  BY <1>1, <1>2, <1>3, PTL DEF SimSpec

\* The places in play do not span more than a square can express.
LEMMA OrdersWithin ==
  ASSUME OnMap, OrdersFit
  PROVE  \E M : Fits(M)
<1>1. /\ One \in Nat \ {0} /\ Largest \in Nat /\ MapSize \in Nat \ {0}
      /\ FromInt(MapSize) = MapSize * One /\ Speed \in 0..(MapSize * One) /\ One <= 2 * Speed
  BY Sizes, MapFits DEF OnMap, OrdersFit
<1>2. PICK reach \in 0..Largest : /\ MapSize <= reach /\ 2 * reach * reach * One <= Largest
                                  /\ Targets \subseteq [x : 0..(reach * One), y : 0..(reach * One)]
  BY DEF OrdersFit
<1> DEFINE M == reach * One
<1>3. M \in Nat /\ MapSize * One <= M /\ One <= M
  <2>1. MapSize * One <= reach * One /\ 1 * One <= MapSize * One
    BY <1>1, <1>2, Times
  <2> QED
    BY <1>1, <2>1
<1>4. M * M = (reach * M) * One /\ reach * M \in Int /\ 2 * reach * reach * One = 2 * (reach * M)
  BY <1>1
<1>5. (M * M) \div One = reach * M
  BY <1>1, <1>4, DivMultiple
<1>6. 2 * ((M * M) \div One) <= Largest
  BY <1>2, <1>4, <1>5
<1>7. Speed \in 0..M
  <2> DEFINE m == MapSize * One
  <2>1. m \in Nat /\ m <= M /\ Speed \in 0..m
    BY <1>1, <1>3
  <2> HIDE DEF m, M
  <2> QED
    BY <1>3, <2>1
<1>8. Targets \subseteq [x : 0..M, y : 0..M] /\ FromInt(MapSize) <= M
  BY <1>1, <1>2, <1>3
<1> HIDE DEF M
<1>9. Fits(M)
  BY <1>1, <1>3, <1>6, <1>7, <1>8 DEF Fits
<1> QED
  BY <1>9

\* The units and the places they go to, all within M.
SentInv(M) == WorldOf(world, SentUnit(M))

LEMMA SentKept ==
  ASSUME OnMap, NEW M, Fits(M)
  PROVE  /\ SimInit => SentInv(M)
         /\ SentInv(M) /\ [SimNext]_simVars => SentInv(M)'
<1>1. Keeps(SentUnit(M))
  BY KeepsSent
<1>2. SimInit => SentInv(M)
  <2>1. ASSUME NEW i \in UnitIds PROVE Spawned(i) \in Living(SentUnit(M))
    <3>1. V(0, 0) \in [x : 0..M, y : 0..M]
      BY DEF Fits, V
    <3> QED
      BY <3>1, SpawnedUnit DEF Living, SentUnit, OnMapUnit
  <2> QED
    BY <2>1, FirstWorld DEF SimInit, SentInv
<1>3. SentInv(M) /\ [SimNext]_simVars => SentInv(M)'
  <2> SUFFICES ASSUME SentInv(M), [SimNext]_simVars PROVE SentInv(M)'
    OBVIOUS
  <2>1. ASSUME NEW cmds \in Frames, Tick(cmds) PROVE SentInv(M)'
    <3>1. cmds \in Seq(Cmd)
      BY FramesAreSequences
    <3> QED
      BY <1>1, <2>1, <3>1, StepWorld DEF Tick, SentInv
  <2>2. CASE Restore \/ PlayTick \/ UNCHANGED simVars
    BY <2>2 DEF Restore, PlayTick, simVars, SentInv
  <2> QED
    BY <2>1, <2>2 DEF SimNext
<1> QED
  BY <1>2, <1>3

LEMMA SpeedKept ==
  ASSUME OnMap, NEW M, Fits(M), SentInv(M), SimNext
  PROVE  WithinSpeed
<1> DEFINE X == SentUnit(M)
<1> SUFFICES ASSUME NEW i \in DOMAIN world.units, NEW j \in DOMAIN world'.units,
                    world'.units[j].id = world.units[i].id
             PROVE  Close(world.units[i].pos, world'.units[j].pos)
  BY DEF WithinSpeed, Close, Eps
<1>1. Keeps(X) /\ Turns(StaysClose, X) /\ WorldOf(world, X)
  BY KeepsSent, CloseTurns DEF SentInv
<1> HIDE DEF X
<1>2. ASSUME NEW cmds \in Frames, Tick(cmds)
      PROVE  Close(world.units[i].pos, world'.units[j].pos)
  <2>1. cmds \in Seq(Cmd) /\ world' = Step(world, cmds)
    BY <1>2, FramesAreSequences DEF Tick
  <2>2. <<world.units[i].pos, world'.units[j]>> \in StaysClose
    BY <1>1, <2>1, StepOfUnit
  <2> QED
    BY <2>2 DEF StaysClose
<1>3. CASE Restore \/ PlayTick
  <2>1. world' = world
    BY <1>3 DEF Restore, PlayTick
  <2>2. PICK n \in Nat : Lined(world.units, n, Living(X))
    BY <1>1 DEF WorldOf
  <2>3. j = i
    BY <1>1, <2>1, <2>2, OneOfEach DEF Keeps
  <2>4. world.units[i] \in SentUnit(M)
    BY <2>2 DEF Lined, Living, X
  <2> QED
    BY <2>1, <2>3, <2>4, MovedClose
<1> QED
  BY <1>2, <1>3 DEF SimNext

\* On a map that may be no larger than the squares of the width allow, with orders
\* to places within such a range, no unit moves farther than its speed in a tick:
\* neither by its order, nor after its target, clamped or not.  The run
\* sim_teleport has a third player, who begins farther away (step.go:70-106,
\* vec2.go:70-78).
THEOREM NobodyTeleportsCorrect ==
  ASSUME OnMap, OrdersFit
  PROVE  SimSpec => NobodyTeleports
<1>1. PICK M : Fits(M)
  BY OrdersWithin
<1>2. /\ SimInit => SentInv(M)
      /\ SentInv(M) /\ [SimNext]_simVars => SentInv(M)'
  BY <1>1, SentKept
<1>3. SentInv(M) /\ [SimNext]_simVars => [WithinSpeed]_simVars
  BY <1>1, SpeedKept
<1> QED
  BY <1>2, <1>3, PTL DEF SimSpec, NobodyTeleports

LEMMA NearerKept ==
  ASSUME OnMap, QuickEnough, MapInv, SimNext
  PROVE  Nearer
<1> DEFINE Comes(u, v) == /\ u.id = v.id /\ v.state = "moving"
                          /\ {v.moveTo.x, v.moveTo.y} \subseteq 0..FromInt(MapSize)
<1> SUFFICES ASSUME NEW i \in DOMAIN world.units, NEW j \in DOMAIN world'.units,
                    world'.tick # world.tick, Comes(world.units[i], world'.units[j])
             PROVE  SquaredDistance(world'.units[j].pos, world'.units[j].moveTo)
                      < SquaredDistance(world.units[i].pos, world'.units[j].moveTo)
  BY DEF Nearer
<1>1. Keeps(OnMapUnit) /\ Turns(ComesNearer, OnMapUnit) /\ WorldOf(world, OnMapUnit)
  BY KeepsMap, NearerTurns DEF MapInv
<1>2. PICK cmds \in Frames : Tick(cmds)
  BY DEF SimNext, Restore, PlayTick
<1>3. cmds \in Seq(Cmd) /\ world' = Step(world, cmds)
  BY <1>2, FramesAreSequences DEF Tick
<1> DEFINE p == world.units[i].pos
           v == world'.units[j]
<1>4. <<p, v>> \in ComesNearer
  BY <1>1, <1>3, StepOfUnit
<1>5. v \in AnyUnit
  BY <1>4 DEF ComesNearer
<1>6. v.moveTo \in OnMapPlace
  <2>1. v.moveTo \in Place
    BY <1>5, UnitFields
  <2>2. {v.moveTo.x, v.moveTo.y} \subseteq 0..FromInt(MapSize)
    OBVIOUS
  <2> HIDE DEF v
  <2> QED
    BY <2>1, <2>2 DEF Place, OnMapPlace
<1> QED
  BY <1>4, <1>6 DEF ComesNearer

\* And a unit on its way to a place on the map is nearer after every tick: at the
\* code's speed rounding never stops it short, which would leave it moving for
\* ever.  Who arrives is no longer on its way (step.go:70-80, vec2.go:70-78).
THEOREM MovesAsOrderedCorrect ==
  ASSUME OnMap, OrdersFit, QuickEnough
  PROVE  SimSpec => MovesAsOrdered
<1>1. PICK M : Fits(M)
  BY OrdersWithin
<1>2. /\ SimInit => SentInv(M)
      /\ SentInv(M) /\ [SimNext]_simVars => SentInv(M)'
  BY <1>1, SentKept
<1>3. SentInv(M) => MapInv
  BY DEF SentInv, MapInv, SentUnit, WorldOf, Lined, Living
<1>4. SentInv(M) /\ [SimNext]_simVars => [WithinSpeed /\ Nearer]_simVars
  BY <1>1, <1>3, SpeedKept, NearerKept
<1> QED
  BY <1>2, <1>4, PTL DEF SimSpec, MovesAsOrdered

\* Of every number the width has, Sqrt is the largest root (fixed.go:117-138).
THEOREM SqrtExactCorrect == RawSpec => []SqrtExact
<1> DEFINE RawInv == raw \in 0..Largest
<1>1. One \in Nat \ {0} /\ Largest \in Nat
  BY Sizes
<1>2. RawInit => RawInv
  BY <1>1 DEF RawInit
<1>3. RawInv /\ [NextRaw]_raw => RawInv'
  BY <1>1 DEF NextRaw
<1>4. RawInv => SqrtExact
  <2> SUFFICES ASSUME RawInv PROVE SqrtExact
    OBVIOUS
  <2>1. CASE raw = 0
    <3>1. Sqrt(raw) = 0
      BY <2>1 DEF Sqrt
    <3> QED
      BY <1>1, <2>1, <3>1 DEF SqrtExact
  <2>2. CASE raw # 0
    <3>1. raw \in 1..Largest
      BY <1>1, <2>2
    <3> QED
      BY <3>1, SqrtRoot DEF SqrtExact
  <2> QED
    BY <2>1, <2>2
<1> QED
  BY <1>2, <1>3, <1>4, PTL DEF RawSpec
=============================================================================
