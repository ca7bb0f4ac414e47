--------------------------- MODULE MCOutwardReply ---------------------------
(* A small instance of OutwardReply: three batches of one room, as many as *)
(* it takes to break the rate limit after the first made the room known.   *)
EXTENDS OutwardReply, TLC

CONSTANT home

MCRoomOf == [b \in Batches |-> home]

(* home is a direct room with a name.  The number of its members comes     *)
(* with the first two batches, but not with the third, which passes for a  *)
(* group's and is only handled because it names the owner.                 *)
MCMessage == [b \in Batches |->
    [members |-> IF b = 3 THEN 0 ELSE 2, named |-> TRUE,
     marks   |-> IF b = 1 THEN {"bare"} ELSE {"part", "puppet"}]]

MCThreshold == [r \in Rooms |-> 75]

(* 500 is the 5 of a model that counts to 10.                              *)
MCConfidences == {-100, 0, 50, 90, 100, 500}
=============================================================================
