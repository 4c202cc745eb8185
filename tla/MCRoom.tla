------------------------------- MODULE MCRoom -------------------------------
(***************************************************************************)
(* Room on small instances.  A behaviour is about one topic: the frames,   *)
(* with commands, joins, disconnects and resumes, the state hashes that    *)
(* the players report, or their round-trip times and the input delay.      *)
(***************************************************************************)
EXTENDS Room

CONSTANTS Topics, ReportTicks

VARIABLE topic

Frames ==
  \/ \E t \in Ticks : HandleCmd(t)
  \/ SealTick
  \/ \E p \in Players : AddPlayer(p)
  \/ \E p \in Players : HandleDisconnect(p)
  \/ \E p \in Players : \E last \in Executable(p) : HandleResume(p, last)

EarlyTick == tick < ReportTicks /\ SealTick

HashAcks ==
  \/ \E p \in Players, t \in Ticks, h \in Hashes : HandleHashAck(p, t, h)
  \/ EarlyTick

RTTReports ==
  \/ \E p \in Players, s \in Delay!Triple : HandleRTTReport(p, s)
  \/ EarlyTick

MCInit == Init /\ topic \in Topics

MCNext ==
  /\ \/ topic = "frames" /\ Frames
     \/ topic = "hashes" /\ HashAcks
     \/ topic = "delays" /\ RTTReports
  /\ UNCHANGED topic

MCSpec == MCInit /\ [][MCNext]_<<vars, topic>>
=============================================================================
