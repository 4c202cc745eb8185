--------------------------- MODULE OrderedStream ---------------------------
(***************************************************************************)
(* What one direction of a transport connection promises to the layer      *)
(* above it (packet.go: "sequence numbers, ... in-order delivery"): the    *)
(* reliable payloads reach the receiving channel in the order in which     *)
(* they were sent, none of them twice and none that was never sent.  The   *)
(* promise is about order only.  A payload may be missing, because the     *)
(* sender gave up on it or the channel was full.                           *)
(***************************************************************************)
EXTENDS Naturals, Sequences

VARIABLES
  sent,    \* the kind of each packet sent so far; a payload is named by its index
  got      \* the reliable payloads accepted by the receiving channel, oldest first

vars == <<sent, got>>

Kind == {"reliable", "unreliable"}

LastGot == IF got = <<>> THEN 0 ELSE got[Len(got)]

Init == sent = <<>> /\ got = <<>>

Send(k) ==
  /\ sent' = Append(sent, k)
  /\ UNCHANGED got

Deliver(s) ==
  /\ s > LastGot
  /\ sent[s] = "reliable"
  /\ got' = Append(got, s)
  /\ UNCHANGED sent

Next == \/ \E k \in Kind : Send(k)
        \/ \E s \in DOMAIN sent : Deliver(s)

Spec == Init /\ [][Next]_vars
=============================================================================
