------------------------------- MODULE MCHpack -------------------------------
(* Instances of Hpack for TLC: two static entries, a table of two or three. *)
EXTENDS Hpack

CONSTANTS status, ok, other

MCStatic == <<<<status, ok>>, <<status, None>>>>

\* An entry with the value `other` takes twice the room.
MCSize == [p \in Names \X (Values \cup {None}) |-> IF p[2] = other THEN 2 ELSE 1]
=============================================================================
