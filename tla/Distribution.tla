---------------------------- MODULE Distribution ----------------------------
(***************************************************************************)
(* Sales channels (distribution.py).  Two kinds of partner sell the rooms  *)
(* of the hotel:                                                           *)
(*                                                                         *)
(*   - a webhook partner reports bookings, modifications and cancellations *)
(*     (distribution_webhook).  It repeats a message until it is answered, *)
(*     in any order, in batches, and an answer may be lost.  A request is  *)
(*     one transaction: what it wrote for the batch is seen by nobody      *)
(*     before the commit, and an exception takes all of it back;           *)
(*   - calendar partners publish an iCal feed of the one room they are     *)
(*     mapped to.  The hotel imports it as calendar blocks and publishes a *)
(*     feed of its own, which holds the blocks of the other partners too.  *)
(***************************************************************************)
EXTENDS Integers, Sequences, SequencesExt

CONSTANTS
  Refs,       \* booking references of the webhook partner
  NRooms,     \* rooms of the one room type that is sold
  Mapped,     \* the room the calendar partners are mapped to
  LastDay,    \* the last departure day; the days are 0 .. LastDay
  Feeds,      \* the calendar partners (Generic iCal connections)
  Buffer,     \* buffer_before and buffer_after of the hotel's own feed
  Requests,   \* webhook requests that run at the same time
  MaxBatch    \* messages in one request

ASSUME DistributionAssumption ==
  /\ NRooms \in Nat \ {0} /\ Mapped \in 1 .. NRooms
  /\ LastDay \in Nat \ {0} /\ Buffer \in Nat /\ MaxBatch \in Nat \ {0}

Rooms == 1 .. NRooms
Stays == {s \in [from : 0 .. LastDay, to : 0 .. LastDay] : s.from < s.to}

\* A departure on the day of the next arrival is a turnover, not a conflict.
Overlap(s, t) == s.from < t.to /\ t.from < s.to

Messages == Refs \X {"book", "modify", "cancel"}

NoBooking == [status |-> "none"]
Booking == [status : {"Confirmed", "Checked In", "Cancelled"},
            room : Rooms, stay : Stays]
Holds(b) == b.status \in {"Confirmed", "Checked In"}

Idle == [batch |-> {}, todo |-> <<>>, events |-> <<>>, bookings |-> <<>>]

VARIABLES
  webhook,    \* is the webhook connection enabled, and inbound with it?
  partner,    \* what became of a reference at the webhook partner
  order,      \* the stay it asks for, and whether room, price and currency fit
  mail,       \* its messages: not sent, waiting for an answer, answered ok or not ok
  event,      \* tabHotel Distribution Event, by reference and type
  resv,       \* tabHotel Reservation, by external reference
  walkIn,     \* stays sold by the hotel itself
  tx,         \* the requests that run: batch, what is left of it, own writes
  echoing,    \* the calendar partners that publish again what they read here
  sold,       \* stays sold by each calendar partner
  seen,       \* what a calendar partner last read in the hotel's feed
  imported    \* active calendar blocks of a partner

webVars == <<webhook, partner, order, mail, event, resv, walkIn, tx>>
feedVars == <<echoing, sold, seen, imported>>
channelVars == <<webhook, partner, order, mail, event, resv, walkIn, tx,
                 echoing, sold, seen, imported>>

MailStatus == {"none", "waiting", "answered", "inactive"}
Statuses == {"none", "Processed", "Needs Review", "Ignored Duplicate", "Cancelled"}

\* Every variable has its type; "Failed" is no status of a committed event,
\* because the exception that follows the mark takes it back (line 565).
ChannelTypeOK ==
  /\ webhook \in BOOLEAN
  /\ partner \in [Refs -> {"none", "booked", "cancelled"}]
  /\ order \in [Refs -> [stay : Stays, fits : BOOLEAN]]
  /\ mail \in [Messages -> MailStatus]
  /\ event \in [Messages -> Statuses]
  /\ resv \in [Refs -> Booking \cup {NoBooking}]
  /\ walkIn \subseteq (Rooms \X Stays)
  /\ \A w \in Requests :
       /\ tx[w].batch \subseteq Messages
       /\ DOMAIN tx[w].events \subseteq tx[w].batch
       /\ \A r \in DOMAIN tx[w].bookings : tx[w].bookings[r] \in Booking
  /\ echoing \subseteq Feeds
  /\ sold \in [Feeds -> SUBSET Stays]
  /\ seen \in [Feeds -> SUBSET Stays]
  /\ imported \in [Feeds -> SUBSET Stays]

ChannelInit ==
  /\ webhook \in BOOLEAN
  /\ partner = [r \in Refs |-> "none"]
  /\ order \in [Refs -> {[stay |-> s, fits |-> TRUE] : s \in Stays}]
  /\ mail = [m \in Messages |-> "none"]
  /\ event = [m \in Messages |-> "none"]
  /\ resv = [r \in Refs |-> NoBooking]
  /\ walkIn = {}
  /\ tx = [w \in Requests |-> Idle]
  /\ echoing \in SUBSET Feeds
  /\ sold = [c \in Feeds |-> {}]
  /\ seen = [c \in Feeds |-> {}]
  /\ imported = [c \in Feeds |-> {}]

-----------------------------------------------------------------------------
(* Availability: the rooms that are free of reservations, of the hotel's   *)
(* own sales and of calendar blocks.  bookings are those the asking        *)
(* transaction sees.                                                       *)

Blocks == UNION {imported[c] : c \in Feeds}

FreeRooms(bookings, stay) ==
  {room \in Rooms :
     /\ \A r \in Refs : Holds(bookings[r]) /\ bookings[r].room = room
                        => ~ Overlap(bookings[r].stay, stay)
     /\ \A t \in walkIn : t[1] = room => ~ Overlap(t[2], stay)
     /\ room = Mapped => \A b \in Blocks : ~ Overlap(b, stay)}

First(rooms) == CHOOSE room \in rooms : \A other \in rooms : room <= other

\* A room row is locked by the request that has put a booking into it, a
\* reservation row by the one that has changed it.
RoomLocked(w, room) ==
  \E v \in Requests \ {w} : \E r \in DOMAIN tx[v].bookings : tx[v].bookings[r].room = room
RowLocked(w, r) == \E v \in Requests \ {w} : r \in DOMAIN tx[v].bookings
KeyLocked(w, m) == \E v \in Requests \ {w} : m \in DOMAIN tx[v].events

-----------------------------------------------------------------------------
(* The webhook partner.                                                    *)

Send(r, kind) == mail' = [mail EXCEPT ![<<r, kind>>] = "waiting"]

PartnerBooks(r) ==
  /\ partner[r] = "none"
  /\ partner' = [partner EXCEPT ![r] = "booked"]
  /\ \E fits \in BOOLEAN : order' = [order EXCEPT ![r].fits = fits]
  /\ Send(r, "book")
  /\ UNCHANGED <<webhook, event, resv, walkIn, tx, feedVars>>

PartnerModifies(r) ==
  /\ partner[r] = "booked" /\ mail[<<r, "modify">>] = "none"
  /\ Send(r, "modify")
  /\ UNCHANGED <<webhook, partner, order, event, resv, walkIn, tx, feedVars>>

PartnerCancels(r) ==
  /\ partner[r] = "booked"
  /\ partner' = [partner EXCEPT ![r] = "cancelled"]
  /\ Send(r, "cancel")
  /\ UNCHANGED <<webhook, order, event, resv, walkIn, tx, feedVars>>

-----------------------------------------------------------------------------
(* One webhook request.                                                    *)

\* The connection is switched off or on in its form.
SwitchConnection ==
  /\ webhook' = ~ webhook
  /\ UNCHANGED <<partner, order, mail, event, resv, walkIn, tx, feedVars>>

\* distribution_webhook of a connection that is off: the answer is a success that
\* says "ok": false, and a partner that does not read it takes the message as
\* delivered.  One that does goes on waiting.
AnswerInactive(m) ==
  /\ ~ webhook /\ mail[m] = "waiting"
  /\ mail' = [mail EXCEPT ![m] = "inactive"]
  /\ UNCHANGED <<webhook, partner, order, event, resv, walkIn, tx, feedVars>>

\* distribution_webhook: the connection is active, the signature is right and
\* every message of the batch can be normalized, or the request changes nothing.
Receive(w, batch) ==
  /\ webhook /\ tx[w] = Idle
  /\ \A i \in DOMAIN batch : mail[batch[i]] = "waiting"
  /\ tx' = [tx EXCEPT ![w] = [batch |-> ToSet(batch), todo |-> batch,
                              events |-> <<>>, bookings |-> <<>>]]
  /\ UNCHANGED <<webhook, partner, order, mail, event, resv, walkIn, feedVars>>

\* A row under its key, and what is written over what was there before.
Row(key, row) == [k \in {key} |-> row]
Over(new, old) ==
  [k \in DOMAIN new \cup DOMAIN old |-> IF k \in DOMAIN new THEN new[k] ELSE old[k]]

EventSeen(w, m) == IF m \in DOMAIN tx[w].events THEN tx[w].events[m] ELSE event[m]
BookingsSeen(w) == Over(tx[w].bookings, resv)

\* The next message is done: its event gets a status, or none if it is left
\* alone, and at most the booking of its reference is written.
Done(w, m, status, bookings) ==
  /\ tx' = [tx EXCEPT ![w].todo = Tail(@),
                      ![w].events = IF status = "left alone" THEN @ ELSE Over(Row(m, status), @),
                      ![w].bookings = Over(bookings, @)]
  /\ UNCHANGED <<webhook, partner, order, mail, event, resv, walkIn, feedVars>>

\* _record_event finds the key and the event is finished.
IgnoreDuplicate(w, m) ==
  /\ EventSeen(w, m) \in {"Processed", "Ignored Duplicate", "Cancelled"}
  /\ Done(w, m, "left alone", <<>>)

Unfinished(w, m) == EventSeen(w, m) \in {"none", "Needs Review"} /\ ~ KeyLocked(w, m)

\* Mutant: an unmatched cancellation is dropped like a repetition.
MutCancelUnmatchedDropped(w, m) ==
  /\ m[2] = "cancel" /\ Unfinished(w, m)
  /\ BookingsSeen(w)[m[1]] = NoBooking
  /\ Done(w, m, "Ignored Duplicate", <<>>)

CancelUnmatched(w, m) ==
  /\ m[2] = "cancel" /\ Unfinished(w, m)
  /\ BookingsSeen(w)[m[1]] = NoBooking
  /\ Done(w, m, "Needs Review", <<>>)

\* process_cancellation_internal: a confirmed reservation is cancelled, a
\* cancelled one answers with what was done, any other raises.
CancelMatched(w, m) ==
  LET b == BookingsSeen(w)[m[1]] IN
  /\ m[2] = "cancel" /\ Unfinished(w, m) /\ ~ RowLocked(w, m[1])
  /\ b.status \in {"Confirmed", "Cancelled"}
  /\ Done(w, m, "Cancelled", Row(m[1], [b EXCEPT !.status = "Cancelled"]))

ModifyForReview(w, m) ==
  /\ m[2] = "modify" /\ Unfinished(w, m)
  /\ Done(w, m, "Needs Review", <<>>)

\* A reservation with this reference exists, whatever its status.
BookKnown(w, m) ==
  /\ m[2] = "book" /\ Unfinished(w, m)
  /\ BookingsSeen(w)[m[1]] # NoBooking
  /\ Done(w, m, "Ignored Duplicate", <<>>)

\* Unmapped room, price basis, no room, currency.
BookForReview(w, m) ==
  /\ m[2] = "book" /\ Unfinished(w, m)
  /\ BookingsSeen(w)[m[1]] = NoBooking
  /\ \/ ~ order[m[1]].fits
     \/ FreeRooms(BookingsSeen(w), order[m[1]].stay) = {}
  /\ Done(w, m, "Needs Review", <<>>)

\* The reservation is inserted and submitted: its room is locked and asked again.
BookRoom(w, m) ==
  LET free == FreeRooms(BookingsSeen(w), order[m[1]].stay) IN
  /\ m[2] = "book" /\ Unfinished(w, m)
  /\ BookingsSeen(w)[m[1]] = NoBooking
  /\ order[m[1]].fits /\ free # {} /\ ~ RoomLocked(w, First(free))
  /\ Done(w, m, "Processed", Row(m[1], [status |-> "Confirmed", room |-> First(free),
                                        stay |-> order[m[1]].stay]))

\* _apply_booking_event for the next message of the batch.  The cancellation of
\* a guest who is in only raises, as does a message of an unknown type, which is
\* therefore left out.
Apply(w) ==
  /\ tx[w].todo # <<>>
  /\ LET m == Head(tx[w].todo) IN
       \/ IgnoreDuplicate(w, m)
       \/ CancelUnmatched(w, m)
       \/ CancelMatched(w, m)
       \/ ModifyForReview(w, m)
       \/ BookKnown(w, m)
       \/ BookForReview(w, m)
       \/ BookRoom(w, m)

\* The batch is done: the request commits and answers; the answer may be lost.
Commit(w) ==
  /\ tx[w] # Idle /\ tx[w].todo = <<>>
  /\ event' = Over(tx[w].events, event)
  /\ resv' = Over(tx[w].bookings, resv)
  /\ \/ mail' = [m \in Messages |-> IF m \in tx[w].batch THEN "answered" ELSE mail[m]]
     \/ UNCHANGED mail
  /\ tx' = [tx EXCEPT ![w] = Idle]
  /\ UNCHANGED <<webhook, partner, order, walkIn, feedVars>>

\* An exception (also of a duplicate key), a timeout or a lost worker.
Rollback(w) ==
  /\ tx[w] # Idle
  /\ tx' = [tx EXCEPT ![w] = Idle]
  /\ UNCHANGED <<webhook, partner, order, mail, event, resv, walkIn, feedVars>>

-----------------------------------------------------------------------------
(* The front desk.                                                         *)

Unlocked(r) == \A w \in Requests : r \notin DOMAIN tx[w].bookings

DeskSells(room, stay) ==
  /\ room \in FreeRooms(resv, stay)
  /\ \A w \in Requests : \A r \in DOMAIN tx[w].bookings : tx[w].bookings[r].room # room
  /\ walkIn' = walkIn \cup {<<room, stay>>}
  /\ UNCHANGED <<webhook, partner, order, mail, event, resv, tx, feedVars>>

DeskCancels(r) ==
  /\ resv[r].status = "Confirmed" /\ Unlocked(r)
  /\ resv' = [resv EXCEPT ![r].status = "Cancelled"]
  /\ UNCHANGED <<webhook, partner, order, mail, event, walkIn, tx, feedVars>>

\* confirm_checkin: the guest may be given another room that is free for the
\* whole stay.
ConfirmCheckIn(r, room) ==
  /\ resv[r].status = "Confirmed" /\ Unlocked(r)
  /\ \/ room = resv[r].room
     \/ room \in FreeRooms([resv EXCEPT ![r] = NoBooking], resv[r].stay)
  /\ resv' = [resv EXCEPT ![r].status = "Checked In", ![r].room = room]
  /\ UNCHANGED <<webhook, partner, order, mail, event, walkIn, tx, feedVars>>

-----------------------------------------------------------------------------
(* Calendars.                                                              *)

PartnerSells(c, stay) ==
  /\ stay \notin sold[c]
  /\ sold' = [sold EXCEPT ![c] = @ \cup {stay}]
  /\ UNCHANGED <<webVars, echoing, seen, imported>>

PartnerFrees(c, stay) ==
  /\ stay \in sold[c]
  /\ sold' = [sold EXCEPT ![c] = @ \ {stay}]
  /\ UNCHANGED <<webVars, echoing, seen, imported>>

Larger(a, b) == IF a > b THEN a ELSE b
Smaller(a, b) == IF a < b THEN a ELSE b

Buffered(s) == [from |-> Larger(s.from - Buffer, 0), to |-> Smaller(s.to + Buffer, LastDay)]

\* Mutant: the feed holds the blocks of all partners, the reader's too.
MutFeedEventsAll(c) ==
  {Buffered(s) : s \in {t[2] : t \in {t \in walkIn : t[1] = Mapped}} \cup Blocks}

\* _feed_events: the reservations of the mapped room and the blocks of the
\* other partners, each widened by the buffers.
FeedEvents(c) ==
  {Buffered(s) : s \in {resv[r].stay : r \in {r \in Refs : Holds(resv[r]) /\ resv[r].room = Mapped}}
                   \cup {t[2] : t \in {t \in walkIn : t[1] = Mapped}}
                   \cup UNION {imported[d] : d \in Feeds \ {c}}}

PartnerReadsFeed(c) ==
  /\ seen' = [seen EXCEPT ![c] = FeedEvents(c)]
  /\ UNCHANGED <<webVars, echoing, sold, imported>>

Published(c) == sold[c] \cup (IF c \in echoing THEN seen[c] ELSE {})

\* _sync_ical_connection: every event of the feed is made or renewed, every
\* active block that is not in the feed is cancelled.  A feed that cannot be
\* read changes nothing.
SyncIcal(c) ==
  /\ imported' = [imported EXCEPT ![c] = Published(c)]
  /\ UNCHANGED <<webVars, echoing, sold, seen>>

-----------------------------------------------------------------------------
Batches == UNION {[1 .. n -> Messages] : n \in 1 .. MaxBatch}

WebhookNext ==
  \/ \E r \in Refs : \/ PartnerBooks(r)
                     \/ PartnerModifies(r)
                     \/ PartnerCancels(r)
                     \/ DeskCancels(r)
                     \/ \E room \in Rooms : ConfirmCheckIn(r, room)
  \/ \E w \in Requests : \/ \E batch \in Batches : Receive(w, batch)
                         \/ Apply(w)
                         \/ Commit(w)
                         \/ Rollback(w)
  \/ SwitchConnection
  \/ \E m \in Messages : AnswerInactive(m)
  \/ \E room \in Rooms, stay \in Stays : DeskSells(room, stay)

CalendarNext ==
  \E c \in Feeds : \/ \E stay \in Stays : PartnerSells(c, stay) \/ PartnerFrees(c, stay)
                   \/ PartnerReadsFeed(c)
                   \/ SyncIcal(c)

ChannelNext == WebhookNext \/ CalendarNext

\* sync_all_ical_connections runs every quarter of an hour, and a partner keeps
\* reading the feed it is subscribed to.
ChannelFairness ==
  \A c \in Feeds : WF_channelVars(SyncIcal(c)) /\ WF_channelVars(PartnerReadsFeed(c))

ChannelSpec == ChannelInit /\ [][ChannelNext]_channelVars /\ ChannelFairness

-----------------------------------------------------------------------------
(* Properties.                                                             *)

Answered(r) == \A m \in Messages : m[1] = r => mail[m] \in {"none", "answered"}

\* When the partner has got an ok to everything it has said about a reference,
\* partner and hotel agree about it or a person is asked: a cancelled stay holds
\* no room, a booked one has a reservation, a modification is on the review list.
NothingIsLost ==
  \A r \in Refs : Answered(r) =>
    /\ partner[r] = "cancelled" =>
         resv[r].status # "Confirmed" \/ event[<<r, "cancel">>] = "Needs Review"
    /\ partner[r] = "booked" =>
         resv[r] # NoBooking \/ event[<<r, "book">>] = "Needs Review"
    /\ mail[<<r, "modify">>] = "answered" => event[<<r, "modify">>] = "Needs Review"

Covers(s, day) == s.from <= day /\ day < s.to

SoldNear(day) ==
  \/ \E c \in Feeds : \E s \in sold[c] : Covers(Buffered(s), day)
  \/ \E t \in walkIn : t[1] = Mapped
  \/ \E r \in Refs : Holds(resv[r]) /\ resv[r].room = Mapped

\* A partner publishes again what it has read in our feed of a night, or of one
\* within the buffer of it.
Republishes(c, day) == c \in echoing /\ \E s \in seen[c] : Covers(Buffered(s), day)

\* A night that nobody sells any more, nor a night within the buffer of it, gets
\* free of calendar blocks for good, if at most one partner goes on publishing it: one
\* that echoes does not keep a block alive alone, whatever it does.
BlocksEnd ==
  \A day \in 0 .. LastDay - 1, c \in Feeds :
    <>[](~ SoldNear(day) /\ \A d \in Feeds \ {c} : ~ Republishes(d, day)) =>
      <>[](\A b \in Blocks : ~ Covers(b, day))
=============================================================================
