------------------------------- MODULE Seats --------------------------------
(***************************************************************************)
(* What joining promises: a free seat of a room is taken once and kept,    *)
(* and a client is told of a seat only when it is its own.                 *)
(***************************************************************************)
CONSTANTS Clients, RoomIds, PlayerIds, Nobody, NoSeat

VARIABLES
  seats,   \* seats[r][i]: the client in seat i of room r, or Nobody
  told     \* the seat each client was told of, <<room, seat>>, or NoSeat

Init ==
  /\ seats = [r \in RoomIds |-> [i \in PlayerIds |-> Nobody]]
  /\ told = [c \in Clients |-> NoSeat]

Take(c, r, i) ==
  /\ seats[r][i] = Nobody
  /\ \A s \in RoomIds, j \in PlayerIds : seats[s][j] # c
  /\ seats' = [seats EXCEPT ![r][i] = c]
  /\ UNCHANGED told

Tell(c, r, i) ==
  /\ seats[r][i] = c /\ told[c] = NoSeat
  /\ told' = [told EXCEPT ![c] = <<r, i>>]
  /\ UNCHANGED seats

Next ==
  \E c \in Clients, r \in RoomIds, i \in PlayerIds : Take(c, r, i) \/ Tell(c, r, i)

Spec == Init /\ [][Next]_<<seats, told>>
=============================================================================
