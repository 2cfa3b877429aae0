-------------------------- MODULE MCRoomInventory --------------------------
(* RoomInventory on small instances: values for the constants a .cfg cannot write. *)
EXTENDS RoomInventory, TLC

CONSTANTS r1, r2, w1, w2, nobody

Symmetric == Permutations(Res) \cup Permutations(Workers)

NoHolds == {}
NoBlocks == {}

\* one room is held for a group on night 0, and one calendar block on night 1
OneHold == {[id |-> 1, n |-> 1, arr |-> 0, dep |-> 1]}
OneBlock == {[room |-> 1, arr |-> 1, dep |-> 2]}

\* every stay within two nights, and a single one
AllStays2 == {s \in (0..2) \X (0..2) : s[1] < s[2]}
OneNight == {<<0, 1>>}
=============================================================================
