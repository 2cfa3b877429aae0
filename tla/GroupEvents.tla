----------------------------- MODULE GroupEvents -----------------------------
(***************************************************************************)
(* Group and event bookings (hotel_group_booking.py, group_booking.py, the *)
(* daily jobs of tasks.py): room blocks and participants, function spaces, *)
(* banquet event orders, the schedule of package services and its charges  *)
(* on the group folio.                                                     *)
(*                                                                         *)
(* A group has one room block and one function; all groups want the same   *)
(* nights and the same hall.  A save of the form is one step.  Posting and *)
(* regenerating the schedule take two: what they read, what they commit.   *)
(***************************************************************************)
EXTENDS Integers, Sequences, FiniteSets, FiniteSetsExt

CONSTANTS
  Groups, Rooms, NoRoom,   \* group bookings, rooms of the type they ask for
  Guests, Payers,          \* participants (numbered); those with a Guest Customer
  Individual,              \* the holder of all other reservations
  Once, PerDay, PerNight,  \* components of the package by frequency
  LastDate, LastHour,      \* bounds: dates of a package, hours of the hall
  Setup, Breakdown,        \* hours the hall needs before and after a function
  Workers,                 \* requests and night audits that post
  MaxName, MaxStamp, MaxBeo  \* bounds: rows per service, folio saves, revisions

ASSUME GroupAssumption ==
  /\ Guests \subseteq Nat /\ Payers \subseteq Guests
  /\ IsFiniteSet(Rooms) /\ NoRoom \notin Rooms /\ Individual \notin Groups
  /\ LastDate \in Nat /\ LastHour \in Nat /\ MaxName \in Nat /\ MaxStamp \in Nat /\ MaxBeo \in Nat

VARIABLES
  group,     \* tabHotel Group Booking with its rows
  stay,      \* reservations of a holder: the status of the one of each room
  paper,     \* ERPNext documents made for a group
  beo,       \* banquet event orders, in order of revision, and current_beo
  posting,   \* tabHotel Package Posting: the row of each service, and its number
  gfolio,    \* tabHotel Group Folio: percent charged per service and route
  poster,    \* a posting run between its reads and its commit
  regen      \* a regeneration between its reads and its commit

groupVars == <<group, stay, paper, beo, posting, gfolio, poster, regen>>

Components == Once \cup PerDay \cup PerNight
Services == Components \X (0 .. LastDate)
Routings == {<<100>>, <<60, 40>>, <<60>>}
Slots == {s \in [from : 0 .. LastHour, to : 0 .. LastHour] : s.from < s.to}
NoSlot == [from |-> 0, to |-> 0]
Unposted == {"Scheduled", "Prepared", "Served"}
Idle == [on |-> FALSE]

\* Every variable has its type.
GroupTypeOK ==
  /\ group \in [Groups -> [doc : {"none", "Draft", "Submitted", "Cancelled"},
       status : {"Inquiry", "Tentative", "Confirmed", "Event Active", "Closed", "Cancelled"},
       hold : BOOLEAN, cutoff : BOOLEAN,
       block : {"Active", "Consumed", "Released"},
       size : 0 .. Cardinality(Rooms), assigned : 0 .. Cardinality(Rooms),
       room : [Guests -> Rooms \cup {NoRoom}], linked : SUBSET Guests,
       slot : Slots \cup {NoSlot}, routes : Routings,
       first : 0 .. LastDate, last : 0 .. LastDate]]
  /\ stay \in [Groups \cup {Individual} -> [Rooms -> {"none", "Confirmed", "Checked In", "Cancelled"}]]
  /\ paper \in [Groups -> SUBSET {"Quotation", "Sales Order"}]
  /\ \A g \in Groups :
       /\ beo[g].current \in 0 .. Len(beo[g].revision) /\ Len(beo[g].revision) <= MaxBeo
       /\ \A n \in DOMAIN beo[g].revision :
            beo[g].revision[n] \in {"Draft", "Issued", "Superseded", "Cancelled"}
       /\ regen[g].on => /\ regen[g].names \subseteq Services \X (1 .. MaxName)
                         /\ regen[g].services \subseteq Services
  /\ posting \in [Groups -> [Services -> [name : 0 .. MaxName,
       status : Unposted \cup {"none", "Posted", "Cancelled"}]]]
  /\ gfolio \in [Groups -> [exists : BOOLEAN, stamp : 0 .. MaxStamp,
       charged : [Services -> [{1, 2} -> {0, 40, 60, 100}]],
       invoiced : SUBSET (Services \X {1, 2})]]
  /\ \A w \in Workers : poster[w].on =>
       /\ poster[w].group \in Groups /\ poster[w].stamp \in 0 .. MaxStamp
       /\ poster[w].due \subseteq Services \X (1 .. MaxName) /\ poster[w].routes \in Routings

GroupInit ==
  /\ group = [g \in Groups |-> [doc |-> "none", status |-> "Inquiry", hold |-> TRUE,
       cutoff |-> FALSE, block |-> "Active", size |-> 0, assigned |-> 0,
       room |-> [p \in Guests |-> NoRoom], linked |-> {}, slot |-> NoSlot,
       routes |-> <<100>>, first |-> 0, last |-> 0]]
  /\ stay = [h \in Groups \cup {Individual} |-> [r \in Rooms |-> "none"]]
  /\ paper = [g \in Groups |-> {}]
  /\ beo = [g \in Groups |-> [revision |-> <<>>, current |-> 0]]
  /\ posting = [g \in Groups |-> [s \in Services |-> [name |-> 0, status |-> "none"]]]
  /\ gfolio = [g \in Groups |-> [exists |-> FALSE, stamp |-> 0,
       charged |-> [s \in Services |-> [k \in {1, 2} |-> 0]], invoiced |-> {}]]
  /\ poster = [w \in Workers |-> Idle]
  /\ regen = [g \in Groups |-> Idle]

-----------------------------------------------------------------------------
(* What a save of the form checks.  b is the group as it would be saved.   *)

\* BLOCKING_GROUP_STATUSES.
Blocking(b) == /\ b.doc \in {"Draft", "Submitted"}
               /\ b.status \in {"Tentative", "Confirmed", "Event Active"}

InHouse(h, r) == stay[h][r] \in {"Confirmed", "Checked In"}

\* Rooms that the block of another group still holds.
Held(h) == IF Blocking(group[h]) /\ group[h].block = "Active" /\ group[h].size > group[h].assigned
           THEN group[h].size - group[h].assigned ELSE 0

\* get_available_room_type_capacity, the group itself excluded.
Capacity(g) ==
  LET free == Cardinality({r \in Rooms : \A h \in DOMAIN stay \ {g} : ~ InHouse(h, r)})
              - MapThenSumSet(Held, Groups \ {g}) IN
  IF free > 0 THEN free ELSE 0

\* _update_room_assignments: rooms that participants have, reserved or not.
Assigned(b) ==
  LET n == Cardinality({b.room[p] : p \in Guests} \ {NoRoom}) IN
  IF b.size = 0 THEN b
  ELSE [b EXCEPT !.assigned = n,
                 !.block = CASE @ = "Released" -> "Released"
                             [] @ # "Released" /\ b.size <= n -> "Consumed"
                             [] OTHER -> "Active"]

\* The other group's function is in the hall while g sets up, meets or breaks down.
Clash(slot, h) ==
  /\ slot # NoSlot /\ group[h].slot # NoSlot /\ Blocking(group[h])
  /\ group[h].slot.from < slot.to + Breakdown /\ group[h].slot.to > slot.from - Setup

BlockFits(g, b) == b.block # "Released" => b.size <= Capacity(g)

\* A participant's room has no reservation but the group's own.
GuestsFit(g, b) == \A p \in Guests : b.room[p] # NoRoom =>
  \A h \in DOMAIN stay \ {g} : ~ InHouse(h, b.room[p])

HallFits(g, b) == \A h \in Groups \ {g} : ~ Clash(b.slot, h)

\* _validate_billing_instructions: the percentages of a category are 100 together.
InstructionsFit(b) ==
  /\ \A k \in DOMAIN b.routes : b.routes[k] \in 1 .. 100
  /\ SumFunctionOnSet(b.routes, DOMAIN b.routes) = 100

\* The hold of a tentative booking lies ahead; the dates of the package are in order.
HoldFits(b) == b.status = "Tentative" => b.hold
PackagesFit(b) == b.first <= b.last

\* validate of a group booking.
MaySaveGroup(g, b) ==
  /\ HoldFits(b) /\ PackagesFit(b)
  /\ BlockFits(g, Assigned(b)) /\ GuestsFit(g, b) /\ HallFits(g, b) /\ InstructionsFit(b)

-----------------------------------------------------------------------------
(* The booking and its form.                                               *)

StatusOf(b) == {"Confirmed", "Event Active", "Closed"} \cup
               (IF b.doc = "Draft" THEN {"Tentative", "Inquiry"} ELSE {})

\* One field of the form changed; every table may change after submit.
Edits(g) ==
  LET b == group[g] IN
    {[b EXCEPT !.size = n] : n \in 1 .. Cardinality(Rooms)}
    \cup {[b EXCEPT !.room[p] = r] : p \in Guests, r \in Rooms \cup {NoRoom}}
    \cup {[b EXCEPT !.slot = s] : s \in Slots \cup {NoSlot}}
    \cup {[b EXCEPT !.routes = r] : r \in Routings}
    \cup {[b EXCEPT !.last = d] : d \in 0 .. LastDate}
    \cup {[b EXCEPT !.status = s] : s \in StatusOf(b)}

CreateGroup(g, s) ==
  LET b == [group[g] EXCEPT !.doc = "Draft", !.status = s] IN
  /\ group[g].doc = "none" /\ MaySaveGroup(g, b)
  /\ group' = [group EXCEPT ![g] = b]
  /\ UNCHANGED <<stay, paper, beo, posting, gfolio, poster, regen>>

EditGroup(g, b) ==
  /\ group[g].doc \in {"Draft", "Submitted"}
  /\ MaySaveGroup(g, b)
  /\ group' = [group EXCEPT ![g] = Assigned(b)] /\ group' # group
  /\ UNCHANGED <<stay, paper, beo, posting, gfolio, poster, regen>>

\* Submit: validate, before_submit, then the project and the folio.
SubmitGroup(g) ==
  LET b == group[g] IN
  /\ b.doc = "Draft" /\ MaySaveGroup(g, b)
  /\ group' = [group EXCEPT ![g] = [Assigned(b) EXCEPT !.doc = "Submitted",
       !.status = IF @ \in {"Inquiry", "Tentative"} THEN "Confirmed" ELSE @]]
  /\ gfolio' = [gfolio EXCEPT ![g].exists = TRUE]
  /\ UNCHANGED <<stay, paper, beo, posting, poster, regen>>

\* Cancel: a submitted reservation of the group, whatever its status, stops it.
CancelGroup(g) ==
  /\ group[g].doc = "Submitted" /\ \A r \in Rooms : stay[g][r] = "none"
  /\ group' = [group EXCEPT ![g].doc = "Cancelled", ![g].status = "Cancelled"]
  /\ UNCHANGED <<stay, paper, beo, posting, gfolio, poster, regen>>

\* hold_until passes; the release date of the block passes.
HoldLapses(g) ==
  /\ group[g].hold /\ group' = [group EXCEPT ![g].hold = FALSE]
  /\ UNCHANGED <<stay, paper, beo, posting, gfolio, poster, regen>>

CutoffPasses(g) ==
  /\ ~ group[g].cutoff /\ group' = [group EXCEPT ![g].cutoff = TRUE]
  /\ UNCHANGED <<stay, paper, beo, posting, gfolio, poster, regen>>

Lapsed == {g \in Groups : group[g].doc = "Draft" /\ group[g].status = "Tentative" /\ ~ group[g].hold}

\* expire_tentative_group_holds: one save that throws undoes the whole job.
ExpireHolds ==
  /\ Lapsed # {}
  /\ \A g \in Lapsed : GuestsFit(g, group[g]) /\ InstructionsFit(group[g])
  /\ \E turn \in [Lapsed -> 1 .. Cardinality(Lapsed)] :
       \A g \in Lapsed, h \in Groups : Clash(group[g].slot, h) =>
         h = g \/ (h \in Lapsed /\ turn[h] < turn[g])
  /\ group' = [g \in Groups |-> IF g \in Lapsed
                 THEN [group[g] EXCEPT !.status = "Cancelled", !.block = "Released"] ELSE group[g]]
  /\ UNCHANGED <<stay, paper, beo, posting, gfolio, poster, regen>>

\* release_group_room_blocks_at_cutoff.
ReleaseBlocks ==
  LET late == {g \in Groups : /\ group[g].doc = "Submitted" /\ group[g].cutoff
                              /\ group[g].status \in {"Confirmed", "Event Active"}
                              /\ group[g].block = "Active" /\ group[g].size > 0} IN
  /\ late # {}
  /\ group' = [g \in Groups |-> IF g \in late THEN [group[g] EXCEPT !.block = "Released"] ELSE group[g]]
  /\ UNCHANGED <<stay, paper, beo, posting, gfolio, poster, regen>>

-----------------------------------------------------------------------------
(* Reservations of the participants and of everybody else.                 *)

\* The participants who share a room and have no reservation yet.
Waiting(g, r) == {p \in Guests \ group[g].linked : group[g].room[p] = r}

\* Rooms whose first waiting participant has a customer.
Reservable(g) == {r \in Rooms : Waiting(g, r) # {} /\ Min(Waiting(g, r)) \in Payers}

\* create_participant_reservations: under its key a reservation is taken as it is.
CreateReservations(g) ==
  LET rooms == Reservable(g)
      new == {r \in rooms : stay[g][r] = "none"} IN
  /\ group[g].doc = "Submitted" /\ rooms # {}
  /\ \A r \in new, h \in DOMAIN stay : ~ InHouse(h, r)
  /\ new # {} => Capacity(g) >= 1
  /\ stay' = [stay EXCEPT ![g] = [r \in Rooms |-> IF r \in new THEN "Confirmed" ELSE @[r]]]
  /\ group' = [group EXCEPT ![g].linked = @ \cup UNION {Waiting(g, r) : r \in rooms}]
  /\ UNCHANGED <<paper, beo, posting, gfolio, poster, regen>>

\* An individual guest books a room that no reservation has and no block holds.
BookIndividual(r) ==
  /\ stay[Individual][r] \in {"none", "Cancelled"}
  /\ \A h \in DOMAIN stay : ~ InHouse(h, r)
  /\ Capacity(Individual) >= 1
  /\ stay' = [stay EXCEPT ![Individual][r] = "Confirmed"]
  /\ UNCHANGED <<group, paper, beo, posting, gfolio, poster, regen>>

CheckInStay(h, r) ==
  /\ stay[h][r] = "Confirmed" /\ stay' = [stay EXCEPT ![h][r] = "Checked In"]
  /\ UNCHANGED <<group, paper, beo, posting, gfolio, poster, regen>>

CancelStay(h, r) ==
  /\ stay[h][r] = "Confirmed" /\ stay' = [stay EXCEPT ![h][r] = "Cancelled"]
  /\ UNCHANGED <<group, paper, beo, posting, gfolio, poster, regen>>

-----------------------------------------------------------------------------
(* Documents of the group.                                                 *)

CreateQuotation(g) ==
  /\ group[g].doc # "none" /\ "Quotation" \notin paper[g]
  /\ paper' = [paper EXCEPT ![g] = @ \cup {"Quotation"}]
  /\ UNCHANGED <<group, stay, beo, posting, gfolio, poster, regen>>

CreateSalesOrder(g) ==
  /\ group[g].doc = "Submitted" /\ "Sales Order" \notin paper[g]
  /\ paper' = [paper EXCEPT ![g] = @ \cup {"Sales Order"}]
  /\ UNCHANGED <<group, stay, beo, posting, gfolio, poster, regen>>

CreateBeo(g) ==
  LET n == Len(beo[g].revision) + 1 IN
  /\ group[g].doc # "none" /\ group[g].slot # NoSlot /\ n <= MaxBeo
  /\ beo' = [beo EXCEPT ![g] = [revision |-> Append(@.revision, "Draft"), current |-> n]]
  /\ UNCHANGED <<group, stay, paper, posting, gfolio, poster, regen>>

\* Submit of a BEO: every other submitted one is superseded, a later one too.
IssueBeo(g, n) ==
  /\ n \in DOMAIN beo[g].revision /\ beo[g].revision[n] = "Draft"
  /\ beo' = [beo EXCEPT ![g] = [current |-> n, revision |-> [m \in DOMAIN @.revision |->
       IF m = n THEN "Issued"
       ELSE IF @.revision[m] = "Issued" THEN "Superseded" ELSE @.revision[m]]]]
  /\ UNCHANGED <<group, stay, paper, posting, gfolio, poster, regen>>

CancelBeo(g, n) ==
  /\ n \in DOMAIN beo[g].revision /\ beo[g].revision[n] \in {"Issued", "Superseded"}
  /\ beo' = [beo EXCEPT ![g].revision[n] = "Cancelled"]
  /\ UNCHANGED <<group, stay, paper, posting, gfolio, poster, regen>>

-----------------------------------------------------------------------------
(* The schedule of services and its charges.                               *)

\* _component_service_datetimes: the dates of a component within the package.
ServiceDates(c, first, last) ==
  CASE c \in Once -> {first}
    [] c \in PerDay \ Once -> first .. last
    [] OTHER -> first .. last - 1

PackageServices(b) == UNION {{c} \X ServiceDates(c, b.first, b.last) : c \in Components}

Names(g, T) == {<<s, posting[g][s].name>> : s \in {t \in T : posting[g][t].status \in Unposted}}

\* generate_package_schedule reads the booking and the rows to replace.
LoadSchedule(g) ==
  /\ group[g].doc = "Submitted" /\ ~ regen[g].on
  /\ regen' = [regen EXCEPT ![g] = [on |-> TRUE, names |-> Names(g, Services),
                                    services |-> PackageServices(group[g])]]
  /\ UNCHANGED <<group, stay, paper, beo, posting, gfolio, poster>>

\* The rows it read are deleted, whatever they have become, and missing keys created.
CommitSchedule(g) ==
  LET row(s) == posting[g][s]
      gone(s) == row(s).status = "none" \/ <<s, row(s).name>> \in regen[g].names
      new == {s \in regen[g].services : gone(s)} IN
  /\ regen[g].on /\ \A s \in new : row(s).name < MaxName
  /\ posting' = [posting EXCEPT ![g] = [s \in Services |->
       CASE s \in new -> [name |-> row(s).name + 1, status |-> "Scheduled"]
         [] s \notin new /\ gone(s) -> [row(s) EXCEPT !.status = "none"]
         [] OTHER -> row(s)]]
  /\ regen' = [regen EXCEPT ![g] = Idle]
  /\ UNCHANGED <<group, stay, paper, beo, gfolio, poster>>

\* Frappe refuses to delete a row that a charge it can see names.
ScheduleFails(g) ==
  /\ regen[g].on
  /\ \E n \in regen[g].names : posting[g][n[1]] = [name |-> n[2], status |-> "Posted"]
  /\ regen' = [regen EXCEPT ![g] = Idle]
  /\ UNCHANGED <<group, stay, paper, beo, posting, gfolio, poster>>

\* The form of a service.
MarkService(g, s, st) ==
  /\ posting[g][s].status \notin {"none", "Posted", st}
  /\ posting' = [posting EXCEPT ![g][s].status = st]
  /\ UNCHANGED <<group, stay, paper, beo, gfolio, poster, regen>>

\* _post_package_schedule reads the booking, the folio and the rows due.
LoadDue(w, g, date) ==
  /\ ~ poster[w].on /\ group[g].doc # "none"
  /\ poster' = [poster EXCEPT ![w] = [on |-> TRUE, group |-> g, stamp |-> gfolio[g].stamp,
       charged |-> gfolio[g].charged, routes |-> group[g].routes,
       due |-> Names(g, {s \in Services : s[2] <= date})]]
  /\ gfolio' = [gfolio EXCEPT ![g].exists = TRUE]
  /\ UNCHANGED <<group, stay, paper, beo, posting, regen>>

\* Charges that the run adds: one per service and route that the folio it read lacks.
Added(p) == {<<n[1], k>> : n \in p.due, k \in DOMAIN p.routes} \cap
            {part \in Services \X {1, 2} : p.charged[part[1]][part[2]] = 0}

Unchanged(p) == gfolio[p.group].stamp = p.stamp

\* The charges and the rows as the run leaves them.
Post(w) ==
  LET p == poster[w]
      g == p.group IN
  /\ gfolio' = IF Added(p) = {} THEN gfolio
               ELSE [gfolio EXCEPT ![g].stamp = @ + 1, ![g].charged = [s \in Services |->
                 [k \in {1, 2} |-> IF <<s, k>> \in Added(p) THEN p.routes[k] ELSE p.charged[s][k]]]]
  /\ posting' = [posting EXCEPT ![g] = [s \in Services |->
       IF <<s, @[s].name>> \in p.due /\ @[s].status # "none"
       THEN [@[s] EXCEPT !.status = "Posted"] ELSE @[s]]]
  /\ poster' = [poster EXCEPT ![w] = Idle]
  /\ UNCHANGED <<group, stay, paper, beo, regen>>

\* Mutant: the folio is saved over what others have added to it since.
MutCommitPostBlind(w) ==
  poster[w].on /\ gfolio[poster[w].group].stamp < MaxStamp /\ Post(w)

\* The run commits: the folio it saves is the folio it read.
CommitPostSchedule(w) ==
  /\ poster[w].on /\ gfolio[poster[w].group].stamp < MaxStamp
  /\ Added(poster[w]) # {} => Unchanged(poster[w])
  /\ Post(w)

\* The folio has moved on, or a row is gone: the run is undone.
PostScheduleFails(w) ==
  /\ poster[w].on
  /\ ~ Unchanged(poster[w]) \/ \E n \in poster[w].due : posting[poster[w].group][n[1]].name # n[2]
  /\ poster' = [poster EXCEPT ![w] = Idle]
  /\ UNCHANGED <<group, stay, paper, beo, posting, gfolio, regen>>

\* create_group_sales_invoices: one invoice for what has none.
InvoiceGroup(g) ==
  LET open == {part \in Services \X {1, 2} : gfolio[g].charged[part[1]][part[2]] > 0}
              \ gfolio[g].invoiced IN
  /\ open # {} /\ gfolio[g].stamp < MaxStamp
  /\ gfolio' = [gfolio EXCEPT ![g].invoiced = @ \cup open, ![g].stamp = @ + 1]
  /\ UNCHANGED <<group, stay, paper, beo, posting, poster, regen>>

-----------------------------------------------------------------------------
FormNext == \E g \in Groups :
  \/ \E s \in {"Inquiry", "Tentative"} : CreateGroup(g, s)
  \/ \E b \in Edits(g) : EditGroup(g, b)
  \/ SubmitGroup(g) \/ CancelGroup(g)

HoldNext == ExpireHolds \/ ReleaseBlocks \/ \E g \in Groups : HoldLapses(g) \/ CutoffPasses(g)

StayNext ==
  \/ \E g \in Groups : CreateReservations(g)
  \/ \E r \in Rooms : \/ BookIndividual(r)
                      \/ \E h \in Groups \cup {Individual} : CheckInStay(h, r) \/ CancelStay(h, r)

PaperNext == \E g \in Groups :
  CreateQuotation(g) \/ CreateSalesOrder(g) \/ CreateBeo(g) \/ \E n \in 1 .. MaxBeo : IssueBeo(g, n) \/ CancelBeo(g, n)

ScheduleNext ==
  \/ \E g \in Groups :
       \/ LoadSchedule(g) \/ CommitSchedule(g) \/ ScheduleFails(g) \/ InvoiceGroup(g)
       \/ \E s \in Services, st \in {"Prepared", "Served", "Cancelled"} : MarkService(g, s, st)
  \/ \E w \in Workers :
       \/ \E g \in Groups, date \in 0 .. LastDate : LoadDue(w, g, date)
       \/ CommitPostSchedule(w) \/ PostScheduleFails(w)

GroupNext == FormNext \/ HoldNext \/ StayNext \/ PaperNext \/ ScheduleNext

GroupSpec == GroupInit /\ [][GroupNext]_groupVars

-----------------------------------------------------------------------------
\* A service that is marked Posted is on the folio with all its parts: the schedule
\* may be regenerated, cancelled or posted by two runs at once, and the instructions
\* changed in between, and no part of the price is left to nobody.
NothingUnbilled == \A g \in Groups, s \in Services :
  posting[g][s].status = "Posted" => gfolio[g].charged[s][1] + gfolio[g].charged[s][2] >= 100
=============================================================================
