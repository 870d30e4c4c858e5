----------------------------- MODULE MCRoomChat -----------------------------
(* Two members, two messages and their answers, a list of two.             *)
EXTENDS RoomChat

CONSTANTS u1, u2
=============================================================================
