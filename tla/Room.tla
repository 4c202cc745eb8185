-------------------------------- MODULE Room --------------------------------
(***************************************************************************)
(* lockstep.Room: the actor that seals the players' commands into one      *)
(* frame per tick, broadcasts the frames, judges the state hashes the      *)
(* players report, adapts the input delay, and hands a reconnecting player *)
(* what it has missed (room.go, inputbuf.go, reconnect.go; hashagg.go and  *)
(* adaptive.go through the modules HashAgg and AdaptiveN).                 *)
(*                                                                         *)
(* One goroutine runs the actor, so each message and each tick is one      *)
(* action.  AddPlayer, HandleDisconnect and HandleResume are calls of      *)
(* connection goroutines; here they fall between two steps of the actor.   *)
(* A command is named by its place in the order of arrival and a frame by  *)
(* its tick.  The simulated world is a function of the frames executed, so *)
(* the number of the last one, tick, stands for it.                        *)
(***************************************************************************)
EXTENDS Integers, Sequences

CONSTANTS
  PlayerCount,
  MaxHistory,      \* frames kept for reconnecting players; 200 in the code
  MaxIncremental,  \* most frames sent to a resuming player; 100 in the code
  CleanupPeriod,   \* ticks between clean-ups; 20 in the code
  Wrap,            \* 2^32: r.tick - lastExec is a uint32
  MaxTick, MaxCmds, MaxLimbo,   \* bounds of the model
  Hashes, NoHash, WindowSize, MaxAge,               \* of HashAgg
  RTTs, TickInterval, InitialN, MinN, MaxN          \* of AdaptiveN

Players == 0..(PlayerCount - 1)
Ticks == 0..MaxTick

ASSUME RoomAssumption ==
  /\ PlayerCount \in Nat \ {0}
  /\ MaxHistory \in Nat \ {0} /\ MaxIncremental \in Nat
  /\ CleanupPeriod \in Nat \ {0}
  /\ MaxTick \in Nat /\ MaxCmds \in Nat /\ MaxLimbo \in Nat
  /\ Wrap \in Nat /\ MaxTick + MaxIncremental < Wrap
  /\ InitialN \in Nat /\ MinN \in Nat /\ MaxN \in Nat /\ MinN <= MaxN
  /\ NoHash \notin Hashes /\ WindowSize \in Nat /\ MaxAge \in Nat
  /\ RTTs \subseteq Nat /\ TickInterval \in Nat \ {0}

VARIABLES
  tick,        \* the last sealed tick; the world is the state after it
  arrived,     \* the commands handled so far: [for, at] (history)
  buckets,     \* InputBuf: target tick -> commands
  log,         \* the frames sealed so far: [cmds, n] (history)
  history,     \* frameHistory, as the ticks of its frames
  slot,        \* players: "free", "joined" or "gone"
  limbo,       \* limboSlots in order of disconnection
  view,        \* the tick up to which each player was given every frame (history)
  window,      \* HashAgg
  n, samples, reports    \* AdaptiveN

inputVars  == <<arrived, buckets>>
rosterVars == <<slot, limbo, view>>
delayVars  == <<n, samples, reports>>
vars == <<tick, inputVars, log, history, rosterVars, window, delayVars>>

Agg   == INSTANCE HashAgg
Delay == INSTANCE AdaptiveN

Init ==
  /\ tick = 0
  /\ arrived = <<>> /\ buckets = [t \in Ticks |-> <<>>]
  /\ log = <<>> /\ history = <<>>
  /\ slot = [p \in Players |-> "free"] /\ limbo = <<>>
  /\ view = [p \in Players |-> 0]
  /\ window = [u \in {} |-> Agg!NewSlot]
  /\ Delay!Init
-----------------------------------------------------------------------------
(* Messages *)

\* handleMsg, MsgCmd: any target tick is accepted, a past one included.
HandleCmd(t) ==
  /\ Len(arrived) < MaxCmds
  /\ arrived' = Append(arrived, [for |-> t, at |-> tick])
  /\ buckets' = [buckets EXCEPT ![t] = Append(@, Len(arrived'))]
  /\ UNCHANGED <<tick, log, history, rosterVars, window, delayVars>>

HandleHashAck(p, t, h) ==
  /\ window' = Agg!Reported(window, t, p, h)
  /\ UNCHANGED <<tick, inputVars, log, history, rosterVars, delayVars>>

HandleRTTReport(p, s) ==
  /\ Delay!ReportRTT(p, s)
  /\ UNCHANGED <<tick, inputVars, log, history, rosterVars, window>>
-----------------------------------------------------------------------------
(* The tick *)

\* Mutant: the commands of the tick before are sealed.
SealedLate(t) == buckets[t - 1]

\* InputBuf.Seal, the value it returns.
Sealed(t) == buckets[t]

\* InputBuf.Seal, the bucket it deletes.
BucketsAfterSeal(t) == [buckets EXCEPT ![t] = <<>>]

\* Mutant: the shift drops the newest frame, not the oldest.
HistoryWithNoShift(t) ==
  Append(IF Len(history) >= MaxHistory THEN SubSeq(history, 1, MaxHistory - 1)
                                       ELSE history, t)

HistoryWith(t) ==
  Append(IF Len(history) >= MaxHistory THEN Tail(history) ELSE history, t)

\* CreateSlot, then CheckTimeouts; and a mutant without the second.
WindowNoTimeouts(t) == Agg!Created(window, t)
WindowAfterSeal(t) == Agg!TimedOut(Agg!Created(window, t), t)

\* CleanupLimbo removes the slots older than LimboTimeout: the first ones.
CleanupLimbo == \E k \in 0..Len(limbo) : limbo' = SubSeq(limbo, k + 1, Len(limbo))

\* Every CleanupPeriod ticks: CleanupLimbo and Recalculate (an NPub message
\* announces a new N; it changes no state).
Periodic == CleanupLimbo /\ Delay!Recalculate

SealTick ==
  /\ tick < MaxTick
  /\ tick' = tick + 1
  /\ buckets' = BucketsAfterSeal(tick')
  /\ log' = Append(log, [cmds |-> Sealed(tick'), n |-> n])
  /\ history' = HistoryWith(tick')
  /\ window' = WindowAfterSeal(tick')
  /\ view' = [p \in Players |->
                IF slot[p] = "joined" /\ view[p] = tick THEN tick' ELSE view[p]]
  /\ \/ tick' % CleanupPeriod = 0 /\ Periodic
     \/ tick' % CleanupPeriod # 0 /\ UNCHANGED <<limbo, delayVars>>
  /\ UNCHANGED <<arrived, slot>>
-----------------------------------------------------------------------------
(* Players come and go *)

\* The first free slot; the player starts from the current tick.
AddPlayer(p) ==
  /\ slot[p] = "free"
  /\ \A q \in Players : q < p => slot[q] # "free"
  /\ slot' = [slot EXCEPT ![p] = "joined"]
  /\ view' = [view EXCEPT ![p] = tick]
  /\ UNCHANGED <<tick, inputVars, log, history, limbo, window, delayVars>>

\* Nothing keeps a second call from adding a second limbo slot.
HandleDisconnect(p) ==
  /\ slot[p] # "free"
  /\ Len(limbo) < MaxLimbo
  /\ slot' = [slot EXCEPT ![p] = "gone"]
  /\ limbo' = Append(limbo, p)
  /\ UNCHANGED <<tick, inputVars, log, history, view, window, delayVars>>

\* Mutant: the comparison includes the last executed tick.
FramesFrom(last) == {i \in DOMAIN history : history[i] >= last}

\* FrameHistory(fromTick), as positions of frameHistory.
FramesAfter(last) == {i \in DOMAIN history : history[i] > last}

\* The player executed everything up to last; it is up to date when it gets a
\* snapshot of the world, or exactly the frames it lacks.
ViewAfterResume(last) ==
  LET behind == IF last <= tick THEN tick - last ELSE tick - last + Wrap IN
  IF behind > MaxIncremental \/ {history[i] : i \in FramesAfter(last)} = (last + 1)..tick
  THEN tick ELSE last

\* The first limbo slot of the player goes; the rest keep their order.  The
\* player named by the request is the low byte of its ConnID.
HandleResume(p, last) ==
  /\ \E i \in DOMAIN limbo :
       /\ limbo[i] = p /\ \A j \in 1..(i - 1) : limbo[j] # p
       /\ limbo' = SubSeq(limbo, 1, i - 1) \o SubSeq(limbo, i + 1, Len(limbo))
  /\ slot' = [slot EXCEPT ![p] = "joined"]
  /\ view' = [view EXCEPT ![p] = ViewAfterResume(last)]
  /\ UNCHANGED <<tick, inputVars, log, history, window, delayVars>>
-----------------------------------------------------------------------------
\* A client has executed no frame it was not given; a client of an earlier
\* room of that name may be ahead of this one.
Executable(p) == {t \in Ticks : t <= view[p] \/ t > tick}

Next ==
  \/ \E t \in Ticks : HandleCmd(t)
  \/ \E p \in Players, t \in Ticks, h \in Hashes : HandleHashAck(p, t, h)
  \/ \E p \in Players, s \in Delay!Triple : HandleRTTReport(p, s)
  \/ SealTick
  \/ \E p \in Players : AddPlayer(p)
  \/ \E p \in Players : HandleDisconnect(p)
  \/ \E p \in Players : \E last \in Executable(p) : HandleResume(p, last)

Spec == Init /\ [][Next]_vars
-----------------------------------------------------------------------------
TypeOK ==
  /\ tick \in Ticks
  /\ arrived \in Seq([for : Ticks, at : Ticks]) /\ Len(arrived) <= MaxCmds
  /\ buckets \in [Ticks -> Seq(1..MaxCmds)]
  /\ log \in Seq([cmds : Seq(1..MaxCmds), n : Nat]) /\ Len(log) = tick
  /\ history \in Seq(1..MaxTick) /\ Len(history) <= MaxHistory
  /\ slot \in [Players -> {"free", "joined", "gone"}]
  /\ limbo \in Seq(Players) /\ Len(limbo) <= MaxLimbo
  /\ view \in [Players -> Ticks]
  /\ n \in Nat

\* A command that arrives before its tick is sealed is in the frame of that
\* tick and in no other; one that arrives later is in no frame.  Every frame
\* lists its commands in the order of arrival, none twice.
CommandsExact ==
  \A t \in DOMAIN log :
    LET cmds == log[t].cmds IN
    /\ \A i \in DOMAIN arrived :
         (\E k \in DOMAIN cmds : cmds[k] = i) <=> arrived[i].for = t /\ arrived[i].at < t
    /\ \A j, k \in DOMAIN cmds : j < k => cmds[j] < cmds[k]

\* The history is the last MaxHistory ticks, without a gap, in order.
HistorySuffix ==
  /\ Len(history) = IF tick < MaxHistory THEN tick ELSE MaxHistory
  /\ \A i \in DOMAIN history : history[i] = tick - Len(history) + i

\* Every connected player has been given every frame since it joined, over
\* any sequence of disconnects, resumes and ticks: no frame is skipped when
\* the frames of a resume meet the broadcasts that follow it.
CaughtUp == \A p \in Players : slot[p] = "joined" => view[p] = tick

\* A slot is free again once the limbo slot that preserved it has expired.
SlotReleased ==
  \A p \in Players : slot[p] = "gone" => \E i \in DOMAIN limbo : limbo[i] = p

\* The room drives the aggregator as its own specification allows, in every
\* interleaving with everything else it does.
AggSpec == Agg!Spec

\* What the input delay promises holds inside the room: N stays within its
\* limits, a sample is the median of a report, and N covers the slowest player.
DelayTypeOK == Delay!TypeOK
SampleIsMedian == Delay!SampleIsMedian
DelayFits == Delay!DelayFits
-----------------------------------------------------------------------------
(* The inductive invariant behind CommandsExact. *)

\* A bucket holds, in order of arrival, the commands for its tick that came
\* before it was sealed and, afterwards, those that came too late: what the
\* buffer keeps for ever is exactly the late commands (inputbuf.go:17).
BucketInv ==
  \A t \in Ticks :
    LET b == buckets[t] IN
    /\ \A i \in DOMAIN arrived :
         (\E k \in DOMAIN b : b[k] = i)
           <=> arrived[i].for = t /\ (t > tick \/ arrived[i].at >= t)
    /\ \A j, k \in DOMAIN b : j < k => b[j] < b[k]
    /\ \A k \in DOMAIN b : b[k] \in DOMAIN arrived

ArrivedInv ==
  /\ \A i \in DOMAIN arrived : arrived[i].at <= tick
  /\ \A t \in DOMAIN log : \A k \in DOMAIN log[t].cmds :
       log[t].cmds[k] \in DOMAIN arrived

IInv == TypeOK /\ ArrivedInv /\ BucketInv /\ CommandsExact /\ HistorySuffix
=============================================================================
