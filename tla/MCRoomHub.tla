----------------------------- MODULE MCRoomHub -----------------------------
(* Three sockets of two users: one comes back, one only stays.             *)
EXTENDS RoomHub

CONSTANTS c1, c2, c3, u1, u2

Owner == [c \in {c1, c2, c3} |-> IF c = c3 THEN u2 ELSE u1]
=============================================================================
