----------------------------- MODULE MCRoomOps -----------------------------
(* RoomOps on small instances: values for the constants a .cfg cannot write. *)
EXTENDS RoomOps, TLC

CONSTANTS t1, t2, d1, i1, i2

\* everything in the first room
OneRoom == [x \in Tasks \cup DeskTickets |-> 1]

\* engineers work on what the first task reports
FirstReport == {<<t1, i1>>}
=============================================================================
