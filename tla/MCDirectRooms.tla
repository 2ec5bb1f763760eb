--------------------------- MODULE MCDirectRooms ---------------------------
(* Three first messages to one user and one to another.                     *)
EXTENDS DirectRooms

MCCalls == {"a", "b", "c", "d"}
MCUsers == {"uma", "vik"}
MCFor   == [c \in MCCalls |-> IF c = "d" THEN "vik" ELSE "uma"]
=============================================================================
