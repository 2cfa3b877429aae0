---------------------------- MODULE RoomCalendar ----------------------------
(***************************************************************************)
(* What the reservation system promises about its rooms, with no requests, *)
(* locks or snapshots in it: a calendar of room-nights.  Every reservation *)
(* is made once, may be rearranged while it is held, and is given up once. *)
(* Each of these happens in one step, and never gives a reservation a      *)
(* night, from today on, that another reservation holds.                   *)
(*                                                                         *)
(* RoomInventory, the model of the code, is checked to implement it.       *)
(***************************************************************************)
EXTENDS Integers

CONSTANTS Rooms,    \* the rooms of one property
          Res,      \* the reservations that may ever be made
          MaxDay    \* bound on the calendar: days are 0..MaxDay

Days == 0..MaxDay

RoomNights == Rooms \X Days

VARIABLES day,      \* the business date
          nights    \* nights[r]: the room-nights r holds; phase says if it holds any

VARIABLE phase      \* "new" before it is made, "held", then "over"

vars == <<day, nights, phase>>

Init ==
    /\ day \in Days
    /\ nights = [r \in Res |-> {}]
    /\ phase = [r \in Res |-> "new"]

\* The room-nights of S that are not in the past are nobody else's.
FreeFor(r, S) ==
    \A rn \in S, other \in Res \ {r} :
        rn[2] >= day => rn \notin nights[other]

Make(r) ==
    /\ phase[r] = "new"
    /\ \E S \in (SUBSET RoomNights) \ {{}} :
          FreeFor(r, S) /\ nights' = [nights EXCEPT ![r] = S]
    /\ phase' = [phase EXCEPT ![r] = "held"]
    /\ UNCHANGED day

Rearrange(r) ==
    /\ phase[r] = "held"
    /\ \E S \in (SUBSET RoomNights) \ {{}} :
          FreeFor(r, S) /\ nights' = [nights EXCEPT ![r] = S]
    /\ UNCHANGED <<day, phase>>

GiveUp(r) ==
    /\ phase[r] = "held"
    /\ nights' = [nights EXCEPT ![r] = {}]
    /\ phase' = [phase EXCEPT ![r] = "over"]
    /\ UNCHANGED day

NextDay ==
    /\ day' \in {d \in Days : d > day}
    /\ UNCHANGED <<nights, phase>>

Next == NextDay \/ \E r \in Res : Make(r) \/ Rearrange(r) \/ GiveUp(r)

Spec == Init /\ [][Next]_vars
=============================================================================
