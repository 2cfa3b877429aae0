-------------------------- MODULE IntegrationsProofs --------------------------
(***************************************************************************)
(* Proofs about what crosses the border of the hotel: the bookings of the  *)
(* webhook partner, for any references, messages, batches and concurrent   *)
(* requests, and the queues of what is sent and printed; then the types of *)
(* both modules and of the instance that TLC checks.                       *)
(***************************************************************************)
EXTENDS MCIntegrations, SumLemmas

(***************************************************************************)
(* Types.                                                                  *)
(***************************************************************************)

Final == Statuses \ {"none"}
EventMaps == UNION {[M -> Final] : M \in SUBSET Messages}
BookingMaps == UNION {[R -> Booking] : R \in SUBSET Refs}
TxRow == [batch : SUBSET Messages, todo : Seq(Messages), events : EventMaps, bookings : BookingMaps]

ChannelRows ==
  /\ partner \in [Refs -> {"none", "booked", "cancelled"}]
  /\ order \in [Refs -> [stay : Stays, fits : BOOLEAN]]
  /\ mail \in [Messages -> MailStatus]
  /\ event \in [Messages -> Statuses]
  /\ resv \in [Refs -> Booking \cup {NoBooking}]
  /\ tx \in [Requests -> TxRow]

LEMMA BookingsAre == NoBooking.status = "none" /\ \A b \in Booking : b # NoBooking /\ b.status # "none"
<1>1. NoBooking.status = "none"
  BY DEF NoBooking
<1>2. \A b \in Booking : b.status # "none"
  BY DEF Booking
<1> QED
  BY <1>1, <1>2

LEMMA EmptyMaps == /\ DOMAIN <<>> = {} /\ <<>> \in EventMaps /\ <<>> \in BookingMaps
                   /\ <<>> \in Seq(Messages)
<1>1. \A S : <<>> \in [{} -> S]
  OBVIOUS
<1>2. {} \in SUBSET Messages /\ {} \in SUBSET Refs
  OBVIOUS
<1>3. [{} -> Final] \in {[M -> Final] : M \in SUBSET Messages}
  BY <1>2
<1>4. [{} -> Booking] \in {[R -> Booking] : R \in SUBSET Refs}
  BY <1>2
<1>5. <<>> \in EventMaps
  BY <1>1, <1>3 DEF EventMaps
<1>6. <<>> \in BookingMaps
  BY <1>1, <1>4 DEF BookingMaps
<1>7. DOMAIN <<>> = {} /\ <<>> \in Seq(Messages)
  OBVIOUS
<1> QED
  BY <1>5, <1>6, <1>7

LEMMA IdleTyped == Idle \in TxRow
BY EmptyMaps DEF Idle, TxRow

LEMMA TxParts ==
    ASSUME NEW x \in TxRow
    PROVE  /\ DOMAIN x.events \subseteq Messages /\ \A m \in DOMAIN x.events : x.events[m] \in Final
           /\ DOMAIN x.bookings \subseteq Refs /\ \A r \in DOMAIN x.bookings : x.bookings[r] \in Booking
           /\ x.batch \subseteq Messages /\ x.todo \in Seq(Messages)
<1>1. x.events \in EventMaps /\ x.bookings \in BookingMaps /\ x.batch \subseteq Messages /\ x.todo \in Seq(Messages)
  BY DEF TxRow
<1>2. DOMAIN x.events \subseteq Messages /\ \A m \in DOMAIN x.events : x.events[m] \in Final
  BY <1>1 DEF EventMaps
<1>3. DOMAIN x.bookings \subseteq Refs /\ \A r \in DOMAIN x.bookings : x.bookings[r] \in Booking
  BY <1>1 DEF BookingMaps
<1> QED
  BY <1>1, <1>2, <1>3

(* One more row in what a request has written. *)
EventAdded(g, f, m, s) ==
  /\ g \in EventMaps /\ DOMAIN g = {m} \cup DOMAIN f
  /\ g[m] = s /\ \A i \in DOMAIN f : i # m => g[i] = f[i]

LEMMA EventWritten ==
    ASSUME NEW f \in EventMaps, NEW m \in Messages, NEW s \in Final
    PROVE  EventAdded(Over(Row(m, s), f), f, m, s)
<1> DEFINE g == Over(Row(m, s), f)
           D == {m} \cup DOMAIN f
<1>1. DOMAIN f \subseteq Messages /\ \A i \in DOMAIN f : f[i] \in Final
  BY DEF EventMaps
<1>2. g = [i \in D |-> IF i = m THEN s ELSE f[i]]
  BY DEF Over, Row
<1>3. D \in SUBSET Messages /\ g \in [D -> Final]
  BY <1>1, <1>2
<1>4. g \in EventMaps
  <2> HIDE DEF g, D
  <2> QED
    BY <1>3 DEF EventMaps
<1> HIDE DEF g
<1>5. EventAdded(g, f, m, s)
  BY <1>2, <1>4 DEF EventAdded
<1> QED
  BY <1>5 DEF g

BookingAdded(g, f, r, b) ==
  /\ g \in BookingMaps /\ DOMAIN g = {r} \cup DOMAIN f
  /\ g[r] = b /\ \A i \in DOMAIN f : i # r => g[i] = f[i]

LEMMA BookingWritten ==
    ASSUME NEW f \in BookingMaps, NEW r \in Refs, NEW b \in Booking
    PROVE  BookingAdded(Over(Row(r, b), f), f, r, b)
<1> DEFINE g == Over(Row(r, b), f)
           D == {r} \cup DOMAIN f
<1>1. DOMAIN f \subseteq Refs /\ \A i \in DOMAIN f : f[i] \in Booking
  BY DEF BookingMaps
<1>2. g = [i \in D |-> IF i = r THEN b ELSE f[i]]
  BY DEF Over, Row
<1>3. D \in SUBSET Refs /\ g \in [D -> Booking]
  BY <1>1, <1>2
<1>4. g \in BookingMaps
  <2> HIDE DEF g, D
  <2> QED
    BY <1>3 DEF BookingMaps
<1> HIDE DEF g
<1>5. BookingAdded(g, f, r, b)
  BY <1>2, <1>4 DEF BookingAdded
<1> QED
  BY <1>5 DEF g

LEMMA NothingWritten ==
    ASSUME NEW f \in BookingMaps
    PROVE  Over(<<>>, f) = f
<1>1. PICK R \in SUBSET Refs : f \in [R -> Booking]
  BY DEF BookingMaps
<1>2. DOMAIN f = R /\ f = [k \in R |-> f[k]]
  BY <1>1
<1>3. Over(<<>>, f) = [k \in R |-> f[k]]
  BY <1>2, EmptyMaps DEF Over
<1> QED
  BY <1>2, <1>3

(***************************************************************************)
(* A request sees what it has written over what is committed.              *)
(***************************************************************************)

SeenBy(x, r) == IF r \in DOMAIN x.bookings THEN x.bookings[r] ELSE resv[r]

LEMMA BookingsSeenAre ==
    ASSUME ChannelRows, NEW w \in Requests, NEW r \in Refs
    PROVE  /\ BookingsSeen(w)[r] = SeenBy(tx[w], r)
           /\ SeenBy(tx[w], r) \in Booking \cup {NoBooking}
           /\ SeenBy(tx[w], r) = NoBooking => r \notin DOMAIN tx[w].bookings /\ resv[r] = NoBooking
<1>1. tx[w] \in TxRow /\ DOMAIN resv = Refs /\ resv[r] \in Booking \cup {NoBooking}
  BY DEF ChannelRows
<1>2. r \in DOMAIN tx[w].bookings => tx[w].bookings[r] \in Booking
  BY <1>1, TxParts
<1>3. BookingsSeen(w)[r] = SeenBy(tx[w], r)
  BY <1>1 DEF BookingsSeen, Over, SeenBy
<1> QED
  BY <1>1, <1>2, <1>3, BookingsAre DEF SeenBy

(***************************************************************************)
(* The status s of message m is right when the booking of its reference is *)
(* b, and stays right when the booking moves on.                           *)
(***************************************************************************)

Good(m, s, b) ==
  \/ s \in {"none", "Needs Review"}
  \/ m[2] = "cancel" /\ s = "Cancelled" /\ b.status = "Cancelled"
  \/ m[2] = "book" /\ s \in {"Processed", "Ignored Duplicate"} /\ b # NoBooking

Later(b, c) == /\ b # NoBooking => c # NoBooking
               /\ b.status = "Cancelled" => c.status = "Cancelled"

LEMMA GoodLater ==
    ASSUME NEW m, NEW s, NEW b, NEW c, Good(m, s, b), Later(b, c)
    PROVE  Good(m, s, c)
BY DEF Good, Later

\* What a request has written is right, every message of its batch is either still to be
\* done or has a status, and a booking it has put into the table is either new, under the
\* key of its booking event, or a cancelled one.
TxGood(x, ev, rs) ==
  /\ \A m \in DOMAIN x.events :
       Good(m, x.events[m], IF m[1] \in DOMAIN x.bookings THEN x.bookings[m[1]] ELSE rs[m[1]])
  /\ \A m \in x.batch : m \in ToSet(x.todo) \/ m \in DOMAIN x.events \/ ev[m] # "none"
  /\ \A r \in DOMAIN x.bookings :
       IF rs[r] = NoBooking THEN <<r, "book">> \in DOMAIN x.events
       ELSE x.bookings[r].status = "Cancelled"

\* Two requests write different events and different bookings.
Apart(x, y) == /\ DOMAIN x.events \cap DOMAIN y.events = {}
               /\ DOMAIN x.bookings \cap DOMAIN y.bookings = {}

\* The partner has sent what its own state asks for.
Reported == \A r \in Refs : /\ partner[r] = "booked" => mail[<<r, "book">>] # "none"
                            /\ partner[r] = "cancelled" => mail[<<r, "cancel">>] # "none"

ChannelInv ==
  /\ ChannelRows
  /\ \A m \in Messages : Good(m, event[m], resv[m[1]]) /\ (mail[m] = "answered" => event[m] # "none")
  /\ Reported
  /\ \A w \in Requests : TxGood(tx[w], event, resv)
  /\ \A w, v \in Requests : w # v => Apart(tx[w], tx[v])

LEMMA MessageRefs == /\ \A m \in Messages : m[1] \in Refs /\ m = <<m[1], m[2]>>
                     /\ \A r \in Refs, k \in {"book", "modify", "cancel"} : <<r, k>> \in Messages
BY DEF Messages

LEMMA InvGivesNothingIsLost == ChannelInv => NothingIsLost
<1> SUFFICES ASSUME ChannelInv, NEW r \in Refs, Answered(r)
             PROVE  /\ partner[r] = "cancelled" =>
                         resv[r].status # "Confirmed" \/ event[<<r, "cancel">>] = "Needs Review"
                    /\ partner[r] = "booked" =>
                         resv[r] # NoBooking \/ event[<<r, "book">>] = "Needs Review"
                    /\ mail[<<r, "modify">>] = "answered" => event[<<r, "modify">>] = "Needs Review"
  BY DEF NothingIsLost
<1>1. \A k \in {"book", "modify", "cancel"} :
        /\ <<r, k>> \in Messages /\ mail[<<r, k>>] \in {"none", "answered"}
        /\ Good(<<r, k>>, event[<<r, k>>], resv[r])
        /\ mail[<<r, k>>] = "answered" => event[<<r, k>>] # "none"
  <2> TAKE k \in {"book", "modify", "cancel"}
  <2>1. <<r, k>> \in Messages /\ <<r, k>>[1] = r
    BY MessageRefs
  <2> QED
    BY <2>1 DEF Answered, ChannelInv, ChannelRows
<1>2. /\ partner[r] = "booked" => mail[<<r, "book">>] # "none"
      /\ partner[r] = "cancelled" => mail[<<r, "cancel">>] # "none"
  BY Zenon DEF ChannelInv, Reported
<1>3. partner[r] = "cancelled" => resv[r].status # "Confirmed" \/ event[<<r, "cancel">>] = "Needs Review"
  BY <1>2, <1>1 DEF Good
<1>4. partner[r] = "booked" => resv[r] # NoBooking \/ event[<<r, "book">>] = "Needs Review"
  BY <1>2, <1>1 DEF Good
<1>5. mail[<<r, "modify">>] = "answered" => event[<<r, "modify">>] = "Needs Review"
  BY <1>1 DEF Good
<1> QED
  BY <1>3, <1>4, <1>5

LEMMA ChannelInvInit == ChannelInit => ChannelInv
<1> SUFFICES ASSUME ChannelInit PROVE ChannelInv
  OBVIOUS
<1>1. ChannelRows
  <2>1. order \in [Refs -> [stay : Stays, fits : BOOLEAN]]
    <3>1. ASSUME NEW s \in Stays PROVE [stay |-> s, fits |-> TRUE] \in [stay : Stays, fits : BOOLEAN]
      OBVIOUS
    <3>2. order \in [Refs -> {[stay |-> s, fits |-> TRUE] : s \in Stays}]
      BY DEF ChannelInit
    <3>3. \A X, Y, Z : X \in [Y -> Z] => \A W : Z \subseteq W => X \in [Y -> W]
      OBVIOUS
    <3>4. {[stay |-> s, fits |-> TRUE] : s \in Stays} \subseteq [stay : Stays, fits : BOOLEAN]
      BY <3>1, Zenon
    <3> QED
      BY <3>2, <3>3, <3>4, Zenon
  <2>2. "none" \in Statuses
    BY DEF Statuses
  <2>3. /\ partner \in [Refs -> {"none", "booked", "cancelled"}]
        /\ mail \in [Messages -> MailStatus]
        /\ event \in [Messages -> Statuses]
        /\ resv \in [Refs -> Booking \cup {NoBooking}]
    BY <2>2 DEF ChannelInit, MailStatus
  <2>4. tx \in [Requests -> TxRow]
    BY IdleTyped DEF ChannelInit
  <2> QED
    BY <2>1, <2>3, <2>4 DEF ChannelRows
<1>2. \A m \in Messages : event[m] = "none" /\ mail[m] = "none"
  BY DEF ChannelInit
<1>3. \A w \in Requests : tx[w] = Idle
  BY DEF ChannelInit
<1>4. TxGood(Idle, event, resv) /\ Apart(Idle, Idle)
  BY EmptyMaps DEF TxGood, Apart, Idle
<1>5. \A r \in Refs : partner[r] = "none"
  BY DEF ChannelInit
<1> QED
  <2>1. \A m \in Messages : Good(m, event[m], resv[m[1]]) /\ (mail[m] = "answered" => event[m] # "none")
    BY <1>2 DEF Good
  <2>2. \A w \in Requests : TxGood(tx[w], event, resv)
    BY <1>3, <1>4
  <2>3. \A w, v \in Requests : w # v => Apart(tx[w], tx[v])
    BY <1>3, <1>4
  <2>4. Reported
    BY <1>5 DEF Reported
  <2> QED
    BY <1>1, <2>1, <2>2, <2>3, <2>4 DEF ChannelInv

(* One request goes on, and nothing is committed. *)
LEMMA OneTx ==
    ASSUME ChannelInv, NEW w \in Requests, NEW x \in TxRow, tx' = [tx EXCEPT ![w] = x],
           UNCHANGED <<partner, order, mail, event, resv>>,
           TxGood(x, event, resv), \A v \in Requests \ {w} : Apart(x, tx[v]) /\ Apart(tx[v], x)
    PROVE  ChannelInv'
<1>1. \A v \in Requests : tx'[v] = IF v = w THEN x ELSE tx[v]
  BY DEF ChannelInv, ChannelRows
<1>2. ChannelRows'
  BY DEF ChannelInv, ChannelRows
<1>3. \A v \in Requests : TxGood(tx'[v], event', resv')
  BY <1>1 DEF ChannelInv
<1>4. \A v, u \in Requests : v # u => Apart(tx'[v], tx'[u])
  BY <1>1 DEF ChannelInv
<1>5. \A m \in Messages : Good(m, event'[m], resv'[m[1]]) /\ (mail'[m] = "answered" => event'[m] # "none")
  BY DEF ChannelInv
<1>6. Reported'
  BY DEF ChannelInv, Reported
<1> QED
  BY <1>2, <1>3, <1>4, <1>5, <1>6 DEF ChannelInv

LEMMA ApartIdle == \A y : Apart(Idle, y) /\ Apart(y, Idle)
BY EmptyMaps DEF Apart, Idle

LEMMA RollbackKeeps ==
  ASSUME ChannelInv, NEW w \in Requests, Rollback(w) PROVE ChannelInv'
<1>1. TxGood(Idle, event, resv)
  BY EmptyMaps DEF TxGood, Idle
<1>2. tx' = [tx EXCEPT ![w] = Idle] /\ UNCHANGED <<partner, order, mail, event, resv>>
  BY DEF Rollback
<1> QED
  BY <1>1, <1>2, IdleTyped, ApartIdle, OneTx

LEMMA ReceiveKeeps ==
    ASSUME ChannelInv, NEW w \in Requests, NEW batch \in Batches, Receive(w, batch)
    PROVE  ChannelInv'
<1> DEFINE x == [batch |-> ToSet(batch), todo |-> batch, events |-> <<>>, bookings |-> <<>>]
<1>1. batch \in Seq(Messages) /\ ToSet(batch) \subseteq Messages
  <2>1. PICK n \in 1 .. MaxBatch : batch \in [1 .. n -> Messages]
    BY DEF Batches
  <2>2. n \in Nat
    BY DistributionAssumption
  <2>3. batch \in Seq(Messages)
    BY <2>1, <2>2
  <2> QED
    BY <2>1, <2>3 DEF ToSet
<1>2. x \in TxRow
  BY <1>1, EmptyMaps DEF TxRow
<1>3. TxGood(x, event, resv)
  BY EmptyMaps DEF TxGood
<1>4. \A y : Apart(x, y) /\ Apart(y, x)
  BY EmptyMaps DEF Apart
<1>5. tx' = [tx EXCEPT ![w] = x] /\ UNCHANGED <<partner, order, mail, event, resv>>
  BY DEF Receive
<1> HIDE DEF x
<1> QED
  BY <1>2, <1>3, <1>4, <1>5, OneTx

(* The hotel or a request changes what is committed: bookings only move on, and none that
   a request in progress has written. *)
LEMMA OthersKept ==
    ASSUME ChannelInv, NEW v \in Requests, NEW ev, NEW rs,
           \A m \in Messages : event[m] # "none" => ev[m] # "none",
           \A r \in Refs : Later(resv[r], rs[r]),
           \A r \in DOMAIN tx[v].bookings : rs[r] = resv[r]
    PROVE  TxGood(tx[v], ev, rs)
<1> DEFINE x == tx[v]
<1>1. x \in TxRow /\ TxGood(x, event, resv)
  BY DEF ChannelInv, ChannelRows
<1> HIDE DEF x
<1>2. ASSUME NEW m \in DOMAIN x.events
      PROVE  Good(m, x.events[m], IF m[1] \in DOMAIN x.bookings THEN x.bookings[m[1]] ELSE rs[m[1]])
  <2>1. m \in Messages /\ m[1] \in Refs
    BY <1>1, TxParts, MessageRefs
  <2>2. Good(m, x.events[m], IF m[1] \in DOMAIN x.bookings THEN x.bookings[m[1]] ELSE resv[m[1]])
    BY <1>1 DEF TxGood
  <2> QED
    BY <2>1, <2>2, GoodLater
<1>3. \A m \in x.batch : m \in ToSet(x.todo) \/ m \in DOMAIN x.events \/ ev[m] # "none"
  BY <1>1, TxParts DEF TxGood
<1>4. \A r \in DOMAIN x.bookings :
        IF rs[r] = NoBooking THEN <<r, "book">> \in DOMAIN x.events ELSE x.bookings[r].status = "Cancelled"
  BY <1>1 DEF TxGood, x
<1> QED
  BY <1>2, <1>3, <1>4 DEF TxGood, x

(* The front desk changes one confirmed reservation. *)
LEMMA DeskKeeps ==
    ASSUME ChannelInv, NEW r \in Refs, resv[r].status = "Confirmed", Unlocked(r),
           NEW b \in Booking, resv' = [resv EXCEPT ![r] = b],
           UNCHANGED <<partner, order, mail, event, tx>>
    PROVE  ChannelInv'
<1>1. resv \in [Refs -> Booking \cup {NoBooking}]
  BY DEF ChannelInv, ChannelRows
<1>2. \A q \in Refs : Later(resv[q], resv'[q])
  BY <1>1, BookingsAre DEF Later
<1>3. \A v \in Requests : \A q \in DOMAIN tx[v].bookings : resv'[q] = resv[q]
  <2> TAKE v \in Requests
  <2> TAKE q \in DOMAIN tx[v].bookings
  <2>1. q # r
    BY DEF Unlocked
  <2> QED
    BY <1>1, <2>1
<1>4. \A v \in Requests : TxGood(tx'[v], event', resv')
  <2>1. \A v \in Requests : TxGood(tx[v], event, resv')
    BY <1>2, <1>3, OthersKept
  <2> QED
    BY <2>1
<1>5. \A m \in Messages : Good(m, event'[m], resv'[m[1]]) /\ (mail'[m] = "answered" => event'[m] # "none")
  <2>1. \A m \in Messages : Good(m, event[m], resv'[m[1]])
    BY <1>2, MessageRefs, GoodLater DEF ChannelInv
  <2> QED
    BY <2>1 DEF ChannelInv
<1>6. ChannelRows'
  BY <1>1 DEF ChannelInv, ChannelRows
<1>7. Reported'
  BY DEF ChannelInv, Reported
<1>8. \A w, v \in Requests : w # v => Apart(tx'[w], tx'[v])
  BY DEF ChannelInv
<1> QED
  BY <1>4, <1>5, <1>6, <1>7, <1>8 DEF ChannelInv

LEMMA CommitKeeps ==
  ASSUME ChannelInv, NEW w \in Requests, Commit(w) PROVE ChannelInv'
<1> DEFINE x == tx[w]
<1>1. /\ x \in TxRow /\ TxGood(x, event, resv) /\ x.todo = <<>>
      /\ event \in [Messages -> Statuses] /\ resv \in [Refs -> Booking \cup {NoBooking}]
      /\ \A m \in Messages : Good(m, event[m], resv[m[1]])
  BY DEF ChannelInv, ChannelRows, Commit
<1>2. /\ DOMAIN x.events \subseteq Messages /\ \A m \in DOMAIN x.events : x.events[m] \in Final
      /\ DOMAIN x.bookings \subseteq Refs /\ \A r \in DOMAIN x.bookings : x.bookings[r] \in Booking
      /\ x.batch \subseteq Messages
  BY <1>1, TxParts
<1>3. /\ event' = [m \in Messages |-> IF m \in DOMAIN x.events THEN x.events[m] ELSE event[m]]
      /\ resv' = [r \in Refs |-> IF r \in DOMAIN x.bookings THEN x.bookings[r] ELSE resv[r]]
  <2>1. event' = Over(x.events, event) /\ resv' = Over(x.bookings, resv)
    BY DEF Commit
  <2>2. DOMAIN x.events \cup DOMAIN event = Messages /\ DOMAIN x.bookings \cup DOMAIN resv = Refs
    BY <1>1, <1>2
  <2> HIDE DEF x
  <2> QED
    BY <2>1, <2>2 DEF Over
<1>4. /\ tx' = [tx EXCEPT ![w] = Idle]
      /\ \A v \in Requests : tx'[v] = IF v = w THEN Idle ELSE tx[v]
  BY DEF Commit, ChannelInv, ChannelRows
<1>5. /\ mail' \in [Messages -> MailStatus]
      /\ \A m \in Messages : \/ mail'[m] = mail[m]
                             \/ m \in x.batch /\ mail'[m] = "answered"
  <2>1. mail \in [Messages -> MailStatus] /\ "answered" \in MailStatus
    BY DEF ChannelInv, ChannelRows, MailStatus
  <2>2. CASE mail' = [m \in Messages |-> IF m \in x.batch THEN "answered" ELSE mail[m]]
    <3> HIDE DEF x
    <3> QED
      BY <2>1, <2>2
  <2>3. CASE mail' = mail
    BY <2>1, <2>3
  <2> QED
    BY <2>2, <2>3 DEF Commit
<1>6. UNCHANGED <<partner, order>>
  BY DEF Commit
<1> HIDE DEF x
<1>7. event' \in [Messages -> Statuses] /\ resv' \in [Refs -> Booking \cup {NoBooking}]
  BY <1>1, <1>2, <1>3 DEF Final
<1>8. \A m \in Messages : event[m] # "none" => event'[m] # "none"
  BY <1>2, <1>3 DEF Final
<1>9. \A r \in Refs : Later(resv[r], resv'[r])
  <2> TAKE r \in Refs
  <2>1. CASE r \in DOMAIN x.bookings
    <3>1. resv'[r] = x.bookings[r] /\ x.bookings[r] \in Booking
      BY <1>2, <1>3, <2>1
    <3>2. resv[r].status = "Cancelled" => resv[r] # NoBooking
      BY BookingsAre
    <3>3. resv[r] # NoBooking => x.bookings[r].status = "Cancelled"
      BY <1>1, <2>1 DEF TxGood
    <3> QED
      BY <3>1, <3>2, <3>3, BookingsAre DEF Later
  <2>2. CASE r \notin DOMAIN x.bookings
    BY <1>3, <2>2 DEF Later
  <2> QED
    BY <2>1, <2>2
<1>10. \A m \in Messages : Good(m, event'[m], resv'[m[1]])
  <2> TAKE m \in Messages
  <2>1. m[1] \in Refs
    BY MessageRefs
  <2>2. CASE m \in DOMAIN x.events
    <3>1. Good(m, x.events[m], IF m[1] \in DOMAIN x.bookings THEN x.bookings[m[1]] ELSE resv[m[1]])
      BY <1>1, <2>2 DEF TxGood
    <3> QED
      BY <1>3, <2>1, <2>2, <3>1
  <2>3. CASE m \notin DOMAIN x.events
    BY <1>1, <1>3, <1>9, <2>1, <2>3, GoodLater
  <2> QED
    BY <2>2, <2>3
<1>11. \A m \in Messages : mail'[m] = "answered" => event'[m] # "none"
  <2> TAKE m \in Messages
  <2>1. CASE m \in x.batch
    <3>1. m \notin ToSet(<<>>)
      BY EmptyMaps DEF ToSet
    <3>2. m \in DOMAIN x.events \/ event[m] # "none"
      BY <1>1, <2>1, <3>1 DEF TxGood
    <3> QED
      BY <1>2, <1>3, <1>8, <3>2 DEF Final
  <2>2. CASE m \notin x.batch
    BY <1>5, <1>8, <2>2 DEF ChannelInv
  <2> QED
    BY <2>1, <2>2
<1>12. \A v \in Requests : TxGood(tx'[v], event', resv')
  <2> TAKE v \in Requests
  <2>1. CASE v = w
    <3>1. TxGood(Idle, event', resv')
      BY EmptyMaps DEF TxGood, Idle
    <3> QED
      BY <1>4, <2>1, <3>1
  <2>2. CASE v # w
    <3>1. \A r \in DOMAIN tx[v].bookings : r \notin DOMAIN x.bookings /\ r \in Refs
      <4>1. Apart(tx[v], tx[w]) /\ tx[v] \in TxRow
        BY <2>2 DEF ChannelInv, ChannelRows
      <4> QED
        BY <4>1, TxParts DEF Apart, x
    <3>2. \A r \in DOMAIN tx[v].bookings : resv'[r] = resv[r]
      BY <1>3, <3>1
    <3>3. TxGood(tx[v], event', resv')
      BY <1>8, <1>9, <3>2, OthersKept
    <3> QED
      BY <1>4, <2>2, <3>3
  <2> QED
    BY <2>1, <2>2
<1>13. \A v, u \in Requests : v # u => Apart(tx'[v], tx'[u])
  BY <1>4, ApartIdle DEF ChannelInv
<1>14. Reported'
  BY <1>5, <1>6, MessageRefs DEF ChannelInv, Reported
<1>15. ChannelRows'
  <2>1. mail' \in [Messages -> MailStatus]
    BY <1>5
  <2>2. tx' \in [Requests -> TxRow]
    BY <1>4, IdleTyped DEF ChannelInv, ChannelRows
  <2> QED
    BY <1>6, <1>7, <2>1, <2>2 DEF ChannelInv, ChannelRows
<1> QED
  BY <1>10, <1>11, <1>12, <1>13, <1>14, <1>15 DEF ChannelInv

(***************************************************************************)
(* The messages of a batch.                                                *)
(***************************************************************************)

\* What a request looks like when its next message m has got status s, and what it has
\* written of bookings is B.
Next1(x, E, B) == [x EXCEPT !.todo = Tail(x.todo), !.events = E, !.bookings = B]

LEMMA NextTyped ==
    ASSUME NEW x \in TxRow, x.todo # <<>>, NEW E \in EventMaps, NEW B \in BookingMaps
    PROVE  /\ Next1(x, E, B) \in TxRow
           /\ Next1(x, E, B).events = E /\ Next1(x, E, B).bookings = B
           /\ Next1(x, E, B).batch = x.batch /\ Next1(x, E, B).todo = Tail(x.todo)
<1>1. Tail(x.todo) \in Seq(Messages)
  BY DEF TxRow
<1> QED
  BY <1>1 DEF TxRow, Next1

LEMMA TodoSplits ==
    ASSUME NEW s \in Seq(Messages), s # <<>>
    PROVE  /\ Head(s) \in Messages
           /\ \A m \in ToSet(s) : m = Head(s) \/ m \in ToSet(Tail(s))
<1>1. Head(s) \in Messages /\ Head(s) = s[1] /\ Len(s) \in Nat /\ Len(s) > 0
  OBVIOUS
<1>2. ASSUME NEW i \in 1 .. Len(s), i # 1 PROVE s[i] \in ToSet(Tail(s))
  <2>1. i - 1 \in 1 .. Len(Tail(s)) /\ Tail(s)[i - 1] = s[i]
    BY <1>1, <1>2
  <2>2. Tail(s) \in Seq(Messages) /\ DOMAIN Tail(s) = 1 .. Len(Tail(s))
    BY <1>1
  <2>3. ToSet(Tail(s)) = {Tail(s)[k] : k \in DOMAIN Tail(s)}
    BY DEF ToSet
  <2> QED
    BY <2>1, <2>2, <2>3
<1>3. DOMAIN s = 1 .. Len(s) /\ ToSet(s) = {s[k] : k \in DOMAIN s}
  BY DEF ToSet
<1>4. ASSUME NEW m \in ToSet(s) PROVE m = Head(s) \/ m \in ToSet(Tail(s))
  <2>1. PICK i \in 1 .. Len(s) : m = s[i]
    BY <1>3
  <2> QED
    BY <1>1, <1>2, <2>1
<1> QED
  BY <1>1, <1>4

LEMMA TxFacts ==
    ASSUME ChannelInv, NEW w \in Requests, NEW x, x = tx[w]
    PROVE  /\ x \in TxRow /\ TxGood(x, event, resv) /\ x.events \in EventMaps
           /\ x.bookings \in BookingMaps /\ x.todo \in Seq(Messages)
           /\ \A v \in Requests \ {w} : Apart(x, tx[v]) /\ Apart(tx[v], x)
BY DEF ChannelInv, ChannelRows, TxRow

\* The first message of x has been done, so the batch is still covered.
LEMMA BatchCovered ==
    ASSUME NEW x \in TxRow, TxGood(x, event, resv), x.todo # <<>>, NEW D, DOMAIN x.events \subseteq D,
           Head(x.todo) \in D \/ event[Head(x.todo)] # "none"
    PROVE  \A k \in x.batch : k \in ToSet(Tail(x.todo)) \/ k \in D \/ event[k] # "none"
<1>1. x.todo \in Seq(Messages)
  BY DEF TxRow
<1>2. \A k \in ToSet(x.todo) : k = Head(x.todo) \/ k \in ToSet(Tail(x.todo))
  BY <1>1, TodoSplits
<1> QED
  BY <1>2 DEF TxGood

\* The message is left alone, for its event is finished.
LEMMA LeftAloneKeeps ==
    ASSUME ChannelInv, NEW w \in Requests, NEW x, x = tx[w], x.todo # <<>>,
           EventSeen(w, Head(x.todo)) # "none", tx' = [tx EXCEPT ![w] = Next1(x, x.events, x.bookings)],
           UNCHANGED <<partner, order, mail, event, resv>>
    PROVE  ChannelInv'
<1> DEFINE y == Next1(x, x.events, x.bookings)
<1>1. /\ x \in TxRow /\ TxGood(x, event, resv) /\ x.events \in EventMaps /\ x.bookings \in BookingMaps
      /\ \A v \in Requests \ {w} : Apart(x, tx[v]) /\ Apart(tx[v], x)
  BY TxFacts
<1>2. tx' = [tx EXCEPT ![w] = y] /\ UNCHANGED <<partner, order, mail, event, resv>>
  OBVIOUS
<1>3. /\ y \in TxRow /\ y.events = x.events /\ y.bookings = x.bookings /\ y.batch = x.batch
      /\ y.todo = Tail(x.todo)
  BY <1>1, NextTyped
<1>4. Head(x.todo) \in DOMAIN x.events \/ event[Head(x.todo)] # "none"
  BY DEF EventSeen
<1> HIDE DEF y
<1>5. \A m \in x.batch : m \in ToSet(Tail(x.todo)) \/ m \in DOMAIN x.events \/ event[m] # "none"
  BY <1>1, <1>4, BatchCovered
<1>6. TxGood(y, event, resv)
  BY <1>1, <1>3, <1>5 DEF TxGood
<1>7. \A v \in Requests \ {w} : Apart(y, tx[v]) /\ Apart(tx[v], y)
  BY <1>1, <1>3 DEF Apart
<1> QED
  BY <1>2, <1>3, <1>6, <1>7, OneTx

\* The event of the message gets a status under its key, and the bookings are as before.
LEMMA StatusKeeps ==
    ASSUME ChannelInv, NEW w \in Requests, NEW x, x = tx[w], x.todo # <<>>, NEW m, m = Head(x.todo),
           ~ KeyLocked(w, m), NEW s \in Final, Good(m, s, SeenBy(x, m[1])),
           NEW E, E = Over(Row(m, s), x.events), tx' = [tx EXCEPT ![w] = Next1(x, E, x.bookings)],
           UNCHANGED <<partner, order, mail, event, resv>>
    PROVE  ChannelInv'
<1> DEFINE y == Next1(x, E, x.bookings)
<1>1. /\ x \in TxRow /\ TxGood(x, event, resv) /\ x.events \in EventMaps /\ x.bookings \in BookingMaps
      /\ x.todo \in Seq(Messages) /\ \A v \in Requests \ {w} : Apart(x, tx[v]) /\ Apart(tx[v], x)
  BY TxFacts
<1>2. tx' = [tx EXCEPT ![w] = y] /\ UNCHANGED <<partner, order, mail, event, resv>>
  OBVIOUS
<1>3. m \in Messages
  BY <1>1, TodoSplits
<1>4. EventAdded(E, x.events, m, s)
  <2>1. x.events \in EventMaps
    BY <1>1
  <2> QED
    BY <2>1, <1>3, EventWritten
<1>5. /\ E \in EventMaps /\ DOMAIN E = {m} \cup DOMAIN x.events
      /\ E[m] = s /\ \A k \in DOMAIN x.events : k # m => E[k] = x.events[k]
  BY <1>4 DEF EventAdded
<1>6. Good(m, s, IF m[1] \in DOMAIN x.bookings THEN x.bookings[m[1]] ELSE resv[m[1]])
  BY DEF SeenBy
<1>7. \A v \in Requests \ {w} : m \notin DOMAIN tx[v].events
  BY DEF KeyLocked
<1>8. /\ y \in TxRow /\ y.events = E /\ y.bookings = x.bookings /\ y.batch = x.batch
      /\ y.todo = Tail(x.todo)
  BY <1>1, <1>5, NextTyped
<1> HIDE DEF y
<1>9. \A k \in x.batch : k \in ToSet(Tail(x.todo)) \/ k \in DOMAIN E \/ event[k] # "none"
  BY <1>1, <1>5, BatchCovered
<1>10. \A k \in DOMAIN E :
         Good(k, E[k], IF k[1] \in DOMAIN x.bookings THEN x.bookings[k[1]] ELSE resv[k[1]])
  BY <1>1, <1>5, <1>6 DEF TxGood
<1>11. \A r \in DOMAIN x.bookings :
         IF resv[r] = NoBooking THEN <<r, "book">> \in DOMAIN E ELSE x.bookings[r].status = "Cancelled"
  BY <1>1, <1>5 DEF TxGood
<1>12. TxGood(y, event, resv)
  BY <1>8, <1>9, <1>10, <1>11 DEF TxGood
<1>13. \A v \in Requests \ {w} : Apart(y, tx[v]) /\ Apart(tx[v], y)
  BY <1>1, <1>5, <1>7, <1>8 DEF Apart
<1> QED
  BY <1>2, <1>8, <1>12, <1>13, OneTx

\* The event of the message gets a status and its reference a booking.
LEMMA BookingKeeps ==
    ASSUME ChannelInv, NEW w \in Requests, NEW x, x = tx[w], x.todo # <<>>, NEW m, m = Head(x.todo),
           ~ KeyLocked(w, m), NEW s \in Final, NEW b \in Booking, Good(m, s, b),
           NEW r, r = m[1], Later(SeenBy(x, r), b), ~ RowLocked(w, r),
           IF resv[r] = NoBooking
           THEN m[2] = "book" \/ r \in DOMAIN x.bookings
           ELSE b.status = "Cancelled",
           NEW E, E = Over(Row(m, s), x.events), NEW B, B = Over(Row(r, b), x.bookings),
           tx' = [tx EXCEPT ![w] = Next1(x, E, B)], UNCHANGED <<partner, order, mail, event, resv>>
    PROVE  ChannelInv'
<1> DEFINE y == Next1(x, E, B)
<1>1. /\ x \in TxRow /\ TxGood(x, event, resv) /\ x.events \in EventMaps /\ x.bookings \in BookingMaps
      /\ x.todo \in Seq(Messages) /\ \A v \in Requests \ {w} : Apart(x, tx[v]) /\ Apart(tx[v], x)
  BY TxFacts
<1>2. tx' = [tx EXCEPT ![w] = y] /\ UNCHANGED <<partner, order, mail, event, resv>>
  OBVIOUS
<1>3. m \in Messages
  BY <1>1, TodoSplits
<1>4. r \in Refs /\ m = <<r, m[2]>>
  BY <1>3, MessageRefs
<1>5. EventAdded(E, x.events, m, s)
  <2>1. x.events \in EventMaps
    BY <1>1
  <2> QED
    BY <2>1, <1>3, EventWritten
<1>6. /\ E \in EventMaps /\ DOMAIN E = {m} \cup DOMAIN x.events
      /\ E[m] = s /\ \A k \in DOMAIN x.events : k # m => E[k] = x.events[k]
  BY <1>5 DEF EventAdded
<1>7. /\ B \in BookingMaps /\ DOMAIN B = {r} \cup DOMAIN x.bookings
      /\ B[r] = b /\ \A k \in DOMAIN x.bookings : k # r => B[k] = x.bookings[k]
  <2>1. x.bookings \in BookingMaps
    BY <1>1
  <2>2. BookingAdded(B, x.bookings, r, b)
    BY <2>1, <1>4, BookingWritten
  <2> QED
    BY <2>2 DEF BookingAdded
<1>8. \A v \in Requests \ {w} : m \notin DOMAIN tx[v].events /\ r \notin DOMAIN tx[v].bookings
  BY DEF KeyLocked, RowLocked
<1>9. Later(IF r \in DOMAIN x.bookings THEN x.bookings[r] ELSE resv[r], b)
  BY DEF SeenBy
<1>10. /\ y \in TxRow /\ y.events = E /\ y.bookings = B /\ y.batch = x.batch
       /\ y.todo = Tail(x.todo)
  BY <1>1, <1>6, <1>7, NextTyped
<1> HIDE DEF y
<1>11. \A k \in x.batch : k \in ToSet(Tail(x.todo)) \/ k \in DOMAIN E \/ event[k] # "none"
  BY <1>1, <1>6, BatchCovered
<1>12. ASSUME NEW k \in DOMAIN E
       PROVE  Good(k, E[k], IF k[1] \in DOMAIN B THEN B[k[1]] ELSE resv[k[1]])
  <2>1. CASE k = m
    BY <1>6, <1>7, <2>1
  <2>2. CASE k # m
    <3>1. k \in DOMAIN x.events /\ E[k] = x.events[k]
      BY <1>6, <1>12, <2>2
    <3>2. Good(k, x.events[k], IF k[1] \in DOMAIN x.bookings THEN x.bookings[k[1]] ELSE resv[k[1]])
      BY <1>1, <3>1 DEF TxGood
    <3>3. CASE k[1] = r
      <4>1. Good(k, x.events[k], b)
        BY <1>9, <3>2, <3>3, GoodLater
      <4> QED
        BY <1>7, <3>1, <3>3, <4>1
    <3>4. CASE k[1] # r
      BY <1>7, <3>1, <3>2, <3>4
    <3> QED
      BY <3>3, <3>4
  <2> QED
    BY <2>1, <2>2
<1>13. ASSUME NEW q \in DOMAIN B
       PROVE  IF resv[q] = NoBooking THEN <<q, "book">> \in DOMAIN E ELSE B[q].status = "Cancelled"
  <2>1. CASE q = r /\ resv[r] # NoBooking
    BY <1>7, <2>1
  <2>2. CASE q = r /\ resv[r] = NoBooking /\ r \notin DOMAIN x.bookings
    BY <1>4, <1>6, <2>2
  <2>3. CASE q \in DOMAIN x.bookings /\ (q # r \/ resv[r] = NoBooking)
    <3>1. IF resv[q] = NoBooking THEN <<q, "book">> \in DOMAIN x.events
          ELSE x.bookings[q].status = "Cancelled"
      BY <1>1, <2>3 DEF TxGood
    <3> QED
      BY <1>6, <1>7, <2>3, <3>1
  <2> QED
    BY <1>13, <1>7, <2>1, <2>2, <2>3
<1>14. \A k \in y.batch : k \in ToSet(y.todo) \/ k \in DOMAIN y.events \/ event[k] # "none"
  BY <1>10, <1>11
<1>15. TxGood(y, event, resv)
  BY <1>10, <1>12, <1>13, <1>14 DEF TxGood
<1>16. \A v \in Requests \ {w} : Apart(y, tx[v]) /\ Apart(tx[v], y)
  BY <1>1, <1>6, <1>7, <1>8, <1>10 DEF Apart
<1> QED
  BY <1>2, <1>10, <1>15, <1>16, OneTx

(***************************************************************************)
(* The kinds of messages.                                                  *)
(***************************************************************************)

LEMMA IgnoreDuplicateKeeps ==
    ASSUME ChannelInv, NEW w \in Requests, NEW x, x = tx[w], x.todo # <<>>,
           IgnoreDuplicate(w, Head(x.todo))
    PROVE  ChannelInv'
<1>1. x \in TxRow /\ x.bookings \in BookingMaps
  BY TxFacts
<1>2. Over(<<>>, x.bookings) = x.bookings
  BY <1>1, NothingWritten
<1>3. EventSeen(w, Head(x.todo)) # "none"
  BY DEF IgnoreDuplicate
<1>4. tx' = [tx EXCEPT ![w] = Next1(x, x.events, x.bookings)]
  BY <1>1, <1>2 DEF IgnoreDuplicate, Done, Next1, TxRow, ChannelInv, ChannelRows
<1>5. UNCHANGED <<partner, order, mail, event, resv>>
  BY DEF IgnoreDuplicate, Done
<1> QED
  BY <1>3, <1>4, <1>5, LeftAloneKeeps

LEMMA CancelUnmatchedKeeps ==
    ASSUME ChannelInv, NEW w \in Requests, NEW x, x = tx[w], x.todo # <<>>, NEW m, m = Head(x.todo),
           CancelUnmatched(w, m)
    PROVE  ChannelInv'
<1>1. x \in TxRow /\ x.bookings \in BookingMaps /\ x.todo \in Seq(Messages)
  BY TxFacts
<1>2. Over(<<>>, x.bookings) = x.bookings
  BY <1>1, NothingWritten
<1>3. ~ KeyLocked(w, m) /\ "Needs Review" \in Final
  BY DEF CancelUnmatched, Unfinished, Final, Statuses
<1>4. Good(m, "Needs Review", SeenBy(x, m[1]))
  BY DEF Good
<1>5. PICK E : E = Over(Row(m, "Needs Review"), x.events)
  OBVIOUS
<1>6. tx' = [tx EXCEPT ![w] = Next1(x, E, x.bookings)]
  BY <1>1, <1>2, <1>5 DEF CancelUnmatched, Done, Next1, TxRow, ChannelInv, ChannelRows
<1>7. UNCHANGED <<partner, order, mail, event, resv>>
  BY DEF CancelUnmatched, Done
<1> QED
  BY <1>3, <1>4, <1>5, <1>6, <1>7, StatusKeeps

LEMMA ModifyForReviewKeeps ==
    ASSUME ChannelInv, NEW w \in Requests, NEW x, x = tx[w], x.todo # <<>>, NEW m, m = Head(x.todo),
           ModifyForReview(w, m)
    PROVE  ChannelInv'
<1>1. x \in TxRow /\ x.bookings \in BookingMaps /\ x.todo \in Seq(Messages)
  BY TxFacts
<1>2. Over(<<>>, x.bookings) = x.bookings
  BY <1>1, NothingWritten
<1>3. ~ KeyLocked(w, m) /\ "Needs Review" \in Final
  BY DEF ModifyForReview, Unfinished, Final, Statuses
<1>4. Good(m, "Needs Review", SeenBy(x, m[1]))
  BY DEF Good
<1>5. PICK E : E = Over(Row(m, "Needs Review"), x.events)
  OBVIOUS
<1>6. tx' = [tx EXCEPT ![w] = Next1(x, E, x.bookings)]
  BY <1>1, <1>2, <1>5 DEF ModifyForReview, Done, Next1, TxRow, ChannelInv, ChannelRows
<1>7. UNCHANGED <<partner, order, mail, event, resv>>
  BY DEF ModifyForReview, Done
<1> QED
  BY <1>3, <1>4, <1>5, <1>6, <1>7, StatusKeeps

LEMMA BookForReviewKeeps ==
    ASSUME ChannelInv, NEW w \in Requests, NEW x, x = tx[w], x.todo # <<>>, NEW m, m = Head(x.todo),
           BookForReview(w, m)
    PROVE  ChannelInv'
<1>1. x \in TxRow /\ x.bookings \in BookingMaps /\ x.todo \in Seq(Messages)
  BY TxFacts
<1>2. Over(<<>>, x.bookings) = x.bookings
  BY <1>1, NothingWritten
<1>3. ~ KeyLocked(w, m) /\ "Needs Review" \in Final
  BY DEF BookForReview, Unfinished, Final, Statuses
<1>4. Good(m, "Needs Review", SeenBy(x, m[1]))
  BY DEF Good
<1>5. PICK E : E = Over(Row(m, "Needs Review"), x.events)
  OBVIOUS
<1>6. tx' = [tx EXCEPT ![w] = Next1(x, E, x.bookings)]
  BY <1>1, <1>2, <1>5 DEF BookForReview, Done, Next1, TxRow, ChannelInv, ChannelRows
<1>7. UNCHANGED <<partner, order, mail, event, resv>>
  BY DEF BookForReview, Done
<1> QED
  BY <1>3, <1>4, <1>5, <1>6, <1>7, StatusKeeps

LEMMA BookKnownKeeps ==
    ASSUME ChannelInv, NEW w \in Requests, NEW x, x = tx[w], x.todo # <<>>, NEW m, m = Head(x.todo),
           BookKnown(w, m)
    PROVE  ChannelInv'
<1>1. x \in TxRow /\ x.bookings \in BookingMaps /\ x.todo \in Seq(Messages)
  BY TxFacts
<1>2. Over(<<>>, x.bookings) = x.bookings
  BY <1>1, NothingWritten
<1>3. ~ KeyLocked(w, m) /\ "Ignored Duplicate" \in Final
  BY DEF BookKnown, Unfinished, Final, Statuses
<1>4. Good(m, "Ignored Duplicate", SeenBy(x, m[1]))
  <2>1. m \in Messages /\ m[1] \in Refs
    BY <1>1, TodoSplits, MessageRefs
  <2>2. BookingsSeen(w)[m[1]] = SeenBy(x, m[1])
    BY <2>1, BookingsSeenAre DEF ChannelInv
  <2>3. m[2] = "book" /\ BookingsSeen(w)[m[1]] # NoBooking
    BY DEF BookKnown
  <2> QED
    BY <2>2, <2>3 DEF Good
<1>5. PICK E : E = Over(Row(m, "Ignored Duplicate"), x.events)
  OBVIOUS
<1>6. tx' = [tx EXCEPT ![w] = Next1(x, E, x.bookings)]
  BY <1>1, <1>2, <1>5 DEF BookKnown, Done, Next1, TxRow, ChannelInv, ChannelRows
<1>7. UNCHANGED <<partner, order, mail, event, resv>>
  BY DEF BookKnown, Done
<1> QED
  BY <1>3, <1>4, <1>5, <1>6, <1>7, StatusKeeps

LEMMA CancelMatchedKeeps ==
    ASSUME ChannelInv, NEW w \in Requests, NEW x, x = tx[w], x.todo # <<>>, NEW m, m = Head(x.todo),
           CancelMatched(w, m)
    PROVE  ChannelInv'
<1>1. x \in TxRow /\ x.bookings \in BookingMaps /\ x.todo \in Seq(Messages)
  BY TxFacts
<1>2. PICK r \in Refs : r = m[1]
  BY <1>1, TodoSplits, MessageRefs
<1>3. PICK a : a = SeenBy(x, r)
  OBVIOUS
<1>4. a = BookingsSeen(w)[r] /\ a \in Booking \cup {NoBooking}
      /\ (a = NoBooking => r \notin DOMAIN x.bookings /\ resv[r] = NoBooking)
  BY <1>3, BookingsSeenAre DEF ChannelInv
<1>5. a \in Booking
  <2>1. a.status \in {"Confirmed", "Cancelled"}
    BY <1>2, <1>4 DEF CancelMatched
  <2> QED
    BY <1>4, <2>1, BookingsAre
<1>6. PICK b : b = [a EXCEPT !.status = "Cancelled"]
  OBVIOUS
<1>7. b \in Booking /\ b.status = "Cancelled"
  BY <1>5, <1>6 DEF Booking
<1>8. m[2] = "cancel" /\ ~ KeyLocked(w, m) /\ ~ RowLocked(w, r) /\ "Cancelled" \in Final
  BY <1>2 DEF CancelMatched, Unfinished, Final, Statuses
<1>9. Good(m, "Cancelled", b)
  BY <1>7, <1>8 DEF Good
<1>10. Later(SeenBy(x, r), b)
  BY <1>7, BookingsAre DEF Later
<1>11. IF resv[r] = NoBooking THEN m[2] = "book" \/ r \in DOMAIN x.bookings ELSE b.status = "Cancelled"
  BY <1>3, <1>5, <1>7, BookingsAre DEF SeenBy
<1>12. PICK E, B : E = Over(Row(m, "Cancelled"), x.events) /\ B = Over(Row(r, b), x.bookings)
  OBVIOUS
<1>13. tx' = [tx EXCEPT ![w] = Next1(x, E, B)]
  BY <1>1, <1>2, <1>4, <1>6, <1>12 DEF CancelMatched, Done, Next1, TxRow, ChannelInv, ChannelRows
<1>14. UNCHANGED <<partner, order, mail, event, resv>>
  BY DEF CancelMatched, Done
<1> QED
  BY <1>2, <1>7, <1>8, <1>9, <1>10, <1>11, <1>12, <1>13, <1>14, BookingKeeps

LEMMA FirstRoom ==
  ASSUME NEW rooms \in SUBSET Rooms, rooms # {} PROVE First(rooms) \in Rooms
<1>1. rooms \in SUBSET Nat
  BY DistributionAssumption DEF Rooms
<1>2. \E n \in rooms : \A m \in rooms : n <= m
  BY <1>1, LeastNumber
<1> QED
  BY <1>2 DEF First

LEMMA BookRoomKeeps ==
    ASSUME ChannelInv, NEW w \in Requests, NEW x, x = tx[w], x.todo # <<>>, NEW m, m = Head(x.todo),
           BookRoom(w, m)
    PROVE  ChannelInv'
<1>1. x \in TxRow /\ x.bookings \in BookingMaps /\ x.todo \in Seq(Messages)
  BY TxFacts
<1>2. m \in Messages /\ m[1] \in Refs /\ m = <<m[1], m[2]>>
  BY <1>1, TodoSplits, MessageRefs
<1>3. PICK r \in Refs : r = m[1]
  BY <1>2
<1>4. PICK free : free = FreeRooms(BookingsSeen(w), order[r].stay)
  OBVIOUS
<1>5. free \in SUBSET Rooms /\ free # {}
  BY <1>3, <1>4 DEF FreeRooms, BookRoom
<1>6. PICK b : b = [status |-> "Confirmed", room |-> First(free), stay |-> order[r].stay]
  OBVIOUS
<1>7. b \in Booking
  <2>1. First(free) \in Rooms /\ order[r].stay \in Stays
    BY <1>5, FirstRoom DEF ChannelInv, ChannelRows
  <2> QED
    BY <1>6, <2>1 DEF Booking
<1>8. SeenBy(x, r) = NoBooking /\ r \notin DOMAIN x.bookings /\ resv[r] = NoBooking
  <2>1. BookingsSeen(w)[r] = NoBooking
    BY <1>3 DEF BookRoom
  <2> QED
    BY <2>1, BookingsSeenAre DEF ChannelInv
<1>9. m[2] = "book" /\ ~ KeyLocked(w, m) /\ "Processed" \in Final
  BY DEF BookRoom, Unfinished, Final, Statuses
<1>10. ~ RowLocked(w, r)
  <2> SUFFICES ASSUME NEW v \in Requests \ {w}, r \in DOMAIN tx[v].bookings PROVE FALSE
    BY DEF RowLocked
  <2>1. TxGood(tx[v], event, resv)
    BY DEF ChannelInv
  <2>2. <<r, "book">> \in DOMAIN tx[v].events
    BY <1>8, <2>1 DEF TxGood
  <2>3. m = <<r, "book">>
    BY <1>2, <1>3, <1>9
  <2> QED
    BY <1>9, <2>2, <2>3 DEF KeyLocked
<1>11. Good(m, "Processed", b)
  BY <1>7, <1>9, BookingsAre DEF Good
<1>12. Later(SeenBy(x, r), b)
  BY <1>8, BookingsAre DEF Later
<1>13. PICK E, B : E = Over(Row(m, "Processed"), x.events) /\ B = Over(Row(r, b), x.bookings)
  OBVIOUS
<1>14. tx' = [tx EXCEPT ![w] = Next1(x, E, B)]
  BY <1>1, <1>3, <1>4, <1>6, <1>13 DEF BookRoom, Done, Next1, TxRow, ChannelInv, ChannelRows
<1>15. UNCHANGED <<partner, order, mail, event, resv>>
  BY DEF BookRoom, Done
<1>16. IF resv[r] = NoBooking THEN m[2] = "book" \/ r \in DOMAIN x.bookings ELSE b.status = "Cancelled"
  BY <1>8, <1>9
<1> QED
  BY <1>3, <1>7, <1>9, <1>10, <1>11, <1>12, <1>13, <1>14, <1>15, <1>16, BookingKeeps

LEMMA ApplyKeeps ==
  ASSUME ChannelInv, NEW w \in Requests, Apply(w) PROVE ChannelInv'
<1>1. PICK x, m : x = tx[w] /\ m = Head(x.todo)
  OBVIOUS
<1>2. x.todo # <<>>
  BY <1>1 DEF Apply
<1>3. \/ IgnoreDuplicate(w, m) \/ CancelUnmatched(w, m) \/ CancelMatched(w, m)
      \/ ModifyForReview(w, m) \/ BookKnown(w, m) \/ BookForReview(w, m) \/ BookRoom(w, m)
  BY <1>1, Zenon DEF Apply
<1>4. CASE IgnoreDuplicate(w, m)
  BY <1>1, <1>2, <1>4, IgnoreDuplicateKeeps
<1>5. CASE CancelUnmatched(w, m)
  BY <1>1, <1>2, <1>5, CancelUnmatchedKeeps
<1>6. CASE CancelMatched(w, m)
  BY <1>1, <1>2, <1>6, CancelMatchedKeeps
<1>7. CASE ModifyForReview(w, m)
  BY <1>1, <1>2, <1>7, ModifyForReviewKeeps
<1>8. CASE BookKnown(w, m)
  BY <1>1, <1>2, <1>8, BookKnownKeeps
<1>9. CASE BookForReview(w, m)
  BY <1>1, <1>2, <1>9, BookForReviewKeeps
<1>10. CASE BookRoom(w, m)
  BY <1>1, <1>2, <1>10, BookRoomKeeps
<1> QED
  BY <1>3, <1>4, <1>5, <1>6, <1>7, <1>8, <1>9, <1>10

(***************************************************************************)
(* The partner and the front desk.                                         *)
(***************************************************************************)

\* The partner sends a message, after which it has sent what its own state asks for.
LEMMA PartnerKeeps ==
    ASSUME ChannelInv, Reported', mail' \in [Messages -> MailStatus],
           \A m \in Messages : mail'[m] = "answered" => mail[m] = "answered",
           partner' \in [Refs -> {"none", "booked", "cancelled"}],
           order' \in [Refs -> [stay : Stays, fits : BOOLEAN]],
           event' = event, resv' = resv, tx' = tx
    PROVE  ChannelInv'
<1>1. ChannelRows'
  BY DEF ChannelInv, ChannelRows
<1>2. \A m \in Messages : Good(m, event'[m], resv'[m[1]]) /\ (mail'[m] = "answered" => event'[m] # "none")
  BY DEF ChannelInv
<1>3. /\ \A w \in Requests : TxGood(tx'[w], event', resv')
      /\ \A w, v \in Requests : w # v => Apart(tx'[w], tx'[v])
  BY DEF ChannelInv
<1> QED
  BY <1>1, <1>2, <1>3 DEF ChannelInv

LEMMA PartnerBooksKeeps ==
  ASSUME ChannelInv, NEW r \in Refs, PartnerBooks(r) PROVE ChannelInv'
<1>1. partner \in [Refs -> {"none", "booked", "cancelled"}]
      /\ order \in [Refs -> [stay : Stays, fits : BOOLEAN]]
  BY DEF ChannelInv, ChannelRows
<1>2. PICK k \in Messages : k = <<r, "book">>
  BY MessageRefs
<1>3. /\ mail' \in [Messages -> MailStatus]
      /\ \A m \in Messages : mail'[m] = IF m = k THEN "waiting" ELSE mail[m]
  BY <1>2 DEF PartnerBooks, Send, ChannelInv, ChannelRows, MailStatus
<1>4. partner' \in [Refs -> {"none", "booked", "cancelled"}]
      /\ \A q \in Refs : partner'[q] = IF q = r THEN "booked" ELSE partner[q]
  BY <1>1 DEF PartnerBooks
<1>5. order' \in [Refs -> [stay : Stays, fits : BOOLEAN]]
  BY <1>1 DEF PartnerBooks
<1>6. event' = event /\ resv' = resv /\ tx' = tx
  BY DEF PartnerBooks
<1>7. Reported'
  <2> SUFFICES ASSUME NEW q \in Refs
               PROVE  /\ partner'[q] = "booked" => mail'[<<q, "book">>] # "none"
                      /\ partner'[q] = "cancelled" => mail'[<<q, "cancel">>] # "none"
    BY DEF Reported
  <2>1. PICK b, c \in Messages : b = <<q, "book">> /\ c = <<q, "cancel">>
    BY MessageRefs
  <2>2. (partner[q] = "booked" => mail[b] # "none") /\ (partner[q] = "cancelled" => mail[c] # "none")
    BY <2>1, Zenon DEF ChannelInv, Reported
  <2>3. q = r => b = k
    BY <1>2, <2>1
  <2>4. (partner'[q] = "booked" => mail'[b] # "none") /\ (partner'[q] = "cancelled" => mail'[c] # "none")
    BY <1>3, <1>4, <2>2, <2>3
  <2> QED
    BY <2>1, <2>4, Zenon
<1> QED
  BY <1>3, <1>4, <1>5, <1>6, <1>7, PartnerKeeps

LEMMA PartnerModifiesKeeps ==
  ASSUME ChannelInv, NEW r \in Refs, PartnerModifies(r) PROVE ChannelInv'
<1>1. PICK k \in Messages : k = <<r, "modify">>
  BY MessageRefs
<1>2. /\ mail' \in [Messages -> MailStatus]
      /\ \A m \in Messages : mail'[m] = IF m = k THEN "waiting" ELSE mail[m]
  BY <1>1 DEF PartnerModifies, Send, ChannelInv, ChannelRows, MailStatus
<1>3. event' = event /\ resv' = resv /\ tx' = tx /\ partner' = partner /\ order' = order
  BY DEF PartnerModifies
<1>4. partner' \in [Refs -> {"none", "booked", "cancelled"}]
      /\ order' \in [Refs -> [stay : Stays, fits : BOOLEAN]]
  BY <1>3 DEF ChannelInv, ChannelRows
<1>5. Reported'
  <2> SUFFICES ASSUME NEW q \in Refs
               PROVE  /\ partner'[q] = "booked" => mail'[<<q, "book">>] # "none"
                      /\ partner'[q] = "cancelled" => mail'[<<q, "cancel">>] # "none"
    BY DEF Reported
  <2>1. PICK b, c \in Messages : b = <<q, "book">> /\ c = <<q, "cancel">>
    BY MessageRefs
  <2>2. (partner[q] = "booked" => mail[b] # "none") /\ (partner[q] = "cancelled" => mail[c] # "none")
    BY <2>1, Zenon DEF ChannelInv, Reported
  <2>3. partner'[q] = partner[q]
    BY <1>3
  <2>4. (partner'[q] = "booked" => mail'[b] # "none") /\ (partner'[q] = "cancelled" => mail'[c] # "none")
    BY <1>2, <2>2, <2>3
  <2> QED
    BY <2>1, <2>4, Zenon
<1> QED
  BY <1>2, <1>3, <1>4, <1>5, PartnerKeeps

LEMMA PartnerCancelsKeeps ==
  ASSUME ChannelInv, NEW r \in Refs, PartnerCancels(r) PROVE ChannelInv'
<1>1. partner \in [Refs -> {"none", "booked", "cancelled"}]
      /\ order \in [Refs -> [stay : Stays, fits : BOOLEAN]]
  BY DEF ChannelInv, ChannelRows
<1>2. PICK k \in Messages : k = <<r, "cancel">>
  BY MessageRefs
<1>3. /\ mail' \in [Messages -> MailStatus]
      /\ \A m \in Messages : mail'[m] = IF m = k THEN "waiting" ELSE mail[m]
  BY <1>2 DEF PartnerCancels, Send, ChannelInv, ChannelRows, MailStatus
<1>4. partner' \in [Refs -> {"none", "booked", "cancelled"}]
      /\ \A q \in Refs : partner'[q] = IF q = r THEN "cancelled" ELSE partner[q]
  BY <1>1 DEF PartnerCancels
<1>5. event' = event /\ resv' = resv /\ tx' = tx /\ order' = order
  BY DEF PartnerCancels
<1>6. order' \in [Refs -> [stay : Stays, fits : BOOLEAN]]
  BY <1>1, <1>5
<1>7. Reported'
  <2> SUFFICES ASSUME NEW q \in Refs
               PROVE  /\ partner'[q] = "booked" => mail'[<<q, "book">>] # "none"
                      /\ partner'[q] = "cancelled" => mail'[<<q, "cancel">>] # "none"
    BY DEF Reported
  <2>1. PICK b, c \in Messages : b = <<q, "book">> /\ c = <<q, "cancel">>
    BY MessageRefs
  <2>2. (partner[q] = "booked" => mail[b] # "none") /\ (partner[q] = "cancelled" => mail[c] # "none")
    BY <2>1, Zenon DEF ChannelInv, Reported
  <2>3. q = r => c = k
    BY <1>2, <2>1
  <2>4. (partner'[q] = "booked" => mail'[b] # "none") /\ (partner'[q] = "cancelled" => mail'[c] # "none")
    BY <1>3, <1>4, <2>2, <2>3
  <2> QED
    BY <2>1, <2>4, Zenon
<1> QED
  BY <1>3, <1>4, <1>5, <1>6, <1>7, PartnerKeeps

\* A connection that is off answers, and what the partner takes for delivered is not
\* answered with an ok.
LEMMA AnswerInactiveKeeps ==
  ASSUME ChannelInv, NEW k \in Messages, AnswerInactive(k) PROVE ChannelInv'
<1>1. mail \in [Messages -> MailStatus] /\ "inactive" \in MailStatus
  BY DEF ChannelInv, ChannelRows, MailStatus
<1>2. /\ mail' \in [Messages -> MailStatus]
      /\ \A m \in Messages : mail'[m] = IF m = k THEN "inactive" ELSE mail[m]
  BY <1>1 DEF AnswerInactive
<1>3. event' = event /\ resv' = resv /\ tx' = tx /\ partner' = partner /\ order' = order
  BY DEF AnswerInactive
<1>4. partner' \in [Refs -> {"none", "booked", "cancelled"}]
      /\ order' \in [Refs -> [stay : Stays, fits : BOOLEAN]]
  BY <1>3 DEF ChannelInv, ChannelRows
<1>5. Reported'
  BY <1>2, <1>3, MessageRefs DEF ChannelInv, Reported
<1> QED
  BY <1>2, <1>3, <1>4, <1>5, PartnerKeeps

LEMMA DeskCancelsKeeps ==
  ASSUME ChannelInv, NEW r \in Refs, DeskCancels(r) PROVE ChannelInv'
<1>1. resv \in [Refs -> Booking \cup {NoBooking}]
  BY DEF ChannelInv, ChannelRows
<1>2. resv[r].status = "Confirmed" /\ Unlocked(r)
  BY DEF DeskCancels
<1>3. resv[r] \in Booking
  BY <1>1, <1>2, BookingsAre
<1>4. PICK b : b = [resv[r] EXCEPT !.status = "Cancelled"]
  OBVIOUS
<1>5. b \in Booking
  BY <1>3, <1>4 DEF Booking
<1>6. resv' = [resv EXCEPT ![r] = b]
  BY <1>1, <1>3, <1>4 DEF DeskCancels
<1>7. UNCHANGED <<partner, order, mail, event, tx>>
  BY DEF DeskCancels
<1> QED
  BY <1>2, <1>5, <1>6, <1>7, DeskKeeps

LEMMA ConfirmCheckInKeeps ==
    ASSUME ChannelInv, NEW r \in Refs, NEW room \in Rooms, ConfirmCheckIn(r, room)
    PROVE  ChannelInv'
<1>1. resv \in [Refs -> Booking \cup {NoBooking}]
  BY DEF ChannelInv, ChannelRows
<1>2. resv[r].status = "Confirmed" /\ Unlocked(r)
  BY DEF ConfirmCheckIn
<1>3. resv[r] \in Booking
  BY <1>1, <1>2, BookingsAre
<1>4. PICK b : b = [resv[r] EXCEPT !.status = "Checked In", !.room = room]
  OBVIOUS
<1>5. b \in Booking
  BY <1>3, <1>4 DEF Booking
<1>6. resv' = [resv EXCEPT ![r] = b]
  BY <1>4 DEF ConfirmCheckIn
<1>7. UNCHANGED <<partner, order, mail, event, tx>>
  BY DEF ConfirmCheckIn
<1> QED
  BY <1>2, <1>5, <1>6, <1>7, DeskKeeps

\* Nothing of the bookings is touched.
LEMMA BookingsUntouched ==
    ASSUME ChannelInv, UNCHANGED <<partner, order, mail, event, resv, tx>> PROVE ChannelInv'
<1>1. ChannelRows'
  BY DEF ChannelInv, ChannelRows
<1>2. \A m \in Messages : Good(m, event'[m], resv'[m[1]]) /\ (mail'[m] = "answered" => event'[m] # "none")
  BY DEF ChannelInv
<1>3. Reported'
  BY DEF ChannelInv, Reported
<1>4. /\ \A w \in Requests : TxGood(tx'[w], event', resv')
      /\ \A w, v \in Requests : w # v => Apart(tx'[w], tx'[v])
  BY DEF ChannelInv
<1> QED
  BY <1>1, <1>2, <1>3, <1>4 DEF ChannelInv

LEMMA ChannelInvStep == ChannelInv /\ [ChannelNext]_channelVars => ChannelInv'
<1> SUFFICES ASSUME ChannelInv, [ChannelNext]_channelVars PROVE ChannelInv'
  OBVIOUS
<1>1. ASSUME NEW r \in Refs, PartnerBooks(r) PROVE ChannelInv'
  BY <1>1, PartnerBooksKeeps
<1>2. ASSUME NEW r \in Refs, PartnerModifies(r) PROVE ChannelInv'
  BY <1>2, PartnerModifiesKeeps
<1>3. ASSUME NEW r \in Refs, PartnerCancels(r) PROVE ChannelInv'
  BY <1>3, PartnerCancelsKeeps
<1>4. ASSUME NEW r \in Refs, DeskCancels(r) PROVE ChannelInv'
  BY <1>4, DeskCancelsKeeps
<1>5. ASSUME NEW r \in Refs, NEW room \in Rooms, ConfirmCheckIn(r, room) PROVE ChannelInv'
  BY <1>5, ConfirmCheckInKeeps
<1>6. ASSUME NEW w \in Requests, NEW batch \in Batches, Receive(w, batch) PROVE ChannelInv'
  BY <1>6, ReceiveKeeps
<1>7. ASSUME NEW w \in Requests, Apply(w) PROVE ChannelInv'
  BY <1>7, ApplyKeeps
<1>8. ASSUME NEW w \in Requests, Commit(w) PROVE ChannelInv'
  BY <1>8, CommitKeeps
<1>9. ASSUME NEW w \in Requests, Rollback(w) PROVE ChannelInv'
  BY <1>9, RollbackKeeps
<1>10. ASSUME NEW room \in Rooms, NEW stay \in Stays, DeskSells(room, stay) PROVE ChannelInv'
  <2>1. UNCHANGED <<partner, order, mail, event, resv, tx>>
    BY <1>10 DEF DeskSells
  <2> QED
    BY <2>1, BookingsUntouched
<1>11. ASSUME CalendarNext PROVE ChannelInv'
  <2>1. webVars' = webVars
    BY <1>11 DEF CalendarNext, PartnerSells, PartnerFrees, PartnerReadsFeed, SyncIcal
  <2> QED
    BY <2>1, BookingsUntouched DEF webVars
<1>12. ASSUME UNCHANGED channelVars PROVE ChannelInv'
  BY <1>12, BookingsUntouched DEF channelVars
<1>13. ASSUME SwitchConnection PROVE ChannelInv'
  <2>1. UNCHANGED <<partner, order, mail, event, resv, tx>>
    BY <1>13 DEF SwitchConnection
  <2> QED
    BY <2>1, BookingsUntouched
<1>14. ASSUME NEW m \in Messages, AnswerInactive(m) PROVE ChannelInv'
  BY <1>14, AnswerInactiveKeeps
<1> QED
  BY <1>1, <1>2, <1>3, <1>4, <1>5, <1>6, <1>7, <1>8, <1>9, <1>10, <1>11, <1>12, <1>13, <1>14
     DEF ChannelNext, WebhookNext, channelVars

\* Whatever the partner sends, in whatever order and batches, whichever requests run at
\* the same time, are rolled back or lose their answer: when everything the partner has
\* said about a reference is answered, both sides agree or a person is asked.
THEOREM NothingGetsLost == ChannelSpec => []NothingIsLost
<1>1. ChannelInit => ChannelInv
  BY ChannelInvInit
<1>2. ChannelInv /\ [ChannelNext]_channelVars => ChannelInv'
  BY ChannelInvStep
<1>3. ChannelInv => NothingIsLost
  BY InvGivesNothingIsLost
<1> QED
  BY <1>1, <1>2, <1>3, PTL DEF ChannelSpec

(***************************************************************************)
(* What is sent or printed.  A worker that prints holds the row of its job *)
(* from before the job was asked for its status until the sheet is out, so *)
(* the status is still open, and no other worker has the job.              *)
(***************************************************************************)

PrintStatuses == {"none", "Queued", "Printed", "Failed", "Dead Letter"}

PrintRows ==
  /\ received \in [Deliveries -> Nat] /\ sheets \in [Prints -> Nat]
  /\ print \in [Prints -> [status : PrintStatuses, attempts : Nat]]
  /\ printing \in [Printers -> Prints \cup {NoPrint}]

PrintOpen == \A p \in Printers : printing[p] # NoPrint =>
               print[printing[p]].status \notin {"Printed", "Dead Letter"}

PrintAlone == \A p, q \in Printers : p # q /\ printing[p] = printing[q] => printing[p] = NoPrint

PrintInv == PrintRows /\ PrintOpen /\ PrintAlone

LEMMA PrintInvInit == QueueInit => PrintInv
<1> SUFFICES ASSUME QueueInit PROVE PrintInv
  OBVIOUS
<1>1. PrintRows
  <2>1. [status |-> "none", attempts |-> 0] \in [status : PrintStatuses, attempts : Nat]
    BY DEF PrintStatuses
  <2>2. print \in [Prints -> [status : PrintStatuses, attempts : Nat]]
    BY <2>1 DEF QueueInit
  <2> QED
    BY <2>2 DEF QueueInit, PrintRows
<1>2. \A p \in Printers : printing[p] = NoPrint
  BY DEF QueueInit
<1> QED
  BY <1>1, <1>2 DEF PrintInv, PrintOpen, PrintAlone

\* Nothing is printed, whatever is sent.
LEMMA PrintsKept ==
    ASSUME PrintInv, received' \in [Deliveries -> Nat], UNCHANGED <<print, printing, sheets>>
    PROVE  PrintInv'
BY DEF PrintInv, PrintRows, PrintOpen, PrintAlone

\* A worker has ended its job j, whose row is now r.
LEMMA PrintEnds ==
    ASSUME PrintInv, NEW p \in Printers, printing[p] # NoPrint,
           NEW r \in [status : PrintStatuses, attempts : Nat],
           print' = [print EXCEPT ![printing[p]] = r],
           printing' = [printing EXCEPT ![p] = NoPrint], sheets' \in [Prints -> Nat],
           UNCHANGED received
    PROVE  PrintInv'
<1>1. PICK j \in Prints : j = printing[p]
  BY DEF PrintInv, PrintRows
<1>2. \A q \in Printers : printing'[q] = IF q = p THEN NoPrint ELSE printing[q]
  BY DEF PrintInv, PrintRows
<1>3. \A i \in Prints : i # j => print'[i] = print[i]
  BY <1>1 DEF PrintInv, PrintRows
<1>4. PrintRows'
  BY <1>1 DEF PrintInv, PrintRows
<1>5. PrintAlone'
  BY <1>2 DEF PrintInv, PrintAlone
<1>6. PrintOpen'
  <2> SUFFICES ASSUME NEW q \in Printers, printing'[q] # NoPrint
               PROVE  print'[printing'[q]].status \notin {"Printed", "Dead Letter"}
    BY DEF PrintOpen
  <2>1. PICK i \in Prints : i = printing[q] /\ i = printing'[q] /\ q # p
    BY <1>2 DEF PrintInv, PrintRows
  <2>2. i # j
    BY <1>1, <2>1 DEF PrintInv, PrintAlone
  <2>3. print[i].status \notin {"Printed", "Dead Letter"}
    BY <1>2, <2>1 DEF PrintInv, PrintOpen
  <2> QED
    BY <1>3, <2>1, <2>2, <2>3
<1> QED
  BY <1>4, <1>5, <1>6 DEF PrintInv

LEMMA PrintOkKeeps ==
  ASSUME PrintInv, NEW p \in Printers, PrintOk(p) PROVE PrintInv'
<1>1. PICK j \in Prints : j = printing[p] /\ printing[p] # NoPrint
  BY DEF PrintOk, PrintInv, PrintRows
<1>2. print[j] \in [status : PrintStatuses, attempts : Nat]
  BY DEF PrintInv, PrintRows
<1>3. PICK a \in Nat : a = print[j].attempts + 1
  BY <1>2
<1>4. PICK r : r = [status |-> "Printed", attempts |-> a]
  OBVIOUS
<1>5. r \in [status : PrintStatuses, attempts : Nat]
  BY <1>4 DEF PrintStatuses
<1>6. print' = [print EXCEPT ![printing[p]] = r]
  BY <1>1, <1>4, <1>3 DEF PrintOk, PrintInv, PrintRows
<1>7. sheets' \in [Prints -> Nat]
  <2>1. sheets \in [Prints -> Nat] /\ sheets' = [sheets EXCEPT ![j] = @ + 1]
    BY <1>1 DEF PrintOk, PrintInv, PrintRows
  <2> QED
    BY <2>1
<1>8. printing' = [printing EXCEPT ![p] = NoPrint] /\ UNCHANGED received
  BY DEF PrintOk, hookVars
<1> QED
  BY <1>1, <1>5, <1>6, <1>7, <1>8, PrintEnds

LEMMA PrintFailsKeeps ==
  ASSUME PrintInv, NEW p \in Printers, PrintFails(p) PROVE PrintInv'
<1>1. PICK j \in Prints : j = printing[p] /\ printing[p] # NoPrint
  BY DEF PrintFails, PrintInv, PrintRows
<1>2. print[j] \in [status : PrintStatuses, attempts : Nat]
  BY DEF PrintInv, PrintRows
<1>3. PICK a \in Nat : a = print[j].attempts + 1
  BY <1>2
<1>4. PICK r : r = [status |-> IF a >= PrintLimit THEN "Dead Letter" ELSE "Failed", attempts |-> a]
  OBVIOUS
<1>5. r \in [status : PrintStatuses, attempts : Nat]
  BY <1>4 DEF PrintStatuses
<1>6. print' = [print EXCEPT ![printing[p]] = r]
  BY <1>1, <1>4, <1>3 DEF PrintFails
<1>7. sheets' \in [Prints -> Nat]
  BY DEF PrintFails, PrintInv, PrintRows
<1>8. printing' = [printing EXCEPT ![p] = NoPrint] /\ UNCHANGED received
  BY DEF PrintFails, hookVars
<1> QED
  BY <1>1, <1>5, <1>6, <1>7, <1>8, PrintEnds

LEMMA CrashPrintKeeps ==
  ASSUME PrintInv, NEW p \in Printers, CrashPrint(p) PROVE PrintInv'
<1>1. PICK j \in Prints : j = printing[p] /\ printing[p] # NoPrint
  BY DEF CrashPrint, PrintInv, PrintRows
<1>2. print[j] \in [status : PrintStatuses, attempts : Nat]
  BY DEF PrintInv, PrintRows
<1>3. print' = [print EXCEPT ![printing[p]] = print[j]]
  BY <1>1 DEF CrashPrint, PrintInv, PrintRows
<1>4. sheets' \in [Prints -> Nat]
  <2>1. PICK out \in {0, 1} : sheets' = [sheets EXCEPT ![j] = @ + out]
    BY <1>1 DEF CrashPrint
  <2>2. sheets \in [Prints -> Nat] /\ out \in Nat
    BY DEF PrintInv, PrintRows
  <2> QED
    BY <2>1, <2>2
<1>5. printing' = [printing EXCEPT ![p] = NoPrint] /\ UNCHANGED received
  BY DEF CrashPrint, hookVars
<1> QED
  BY <1>1, <1>2, <1>3, <1>4, <1>5, PrintEnds

LEMMA TakePrintKeeps ==
    ASSUME PrintInv, NEW j \in Prints, NEW p \in Printers, TakePrint(p, j) PROVE PrintInv'
<1>1. UNCHANGED <<print, sheets, received>>
  BY DEF TakePrint, hookVars
<1>2. CASE print[j].status \in {"Printed", "Dead Letter"}
  <2>1. UNCHANGED printing
    BY <1>2 DEF TakePrint
  <2> QED
    BY <1>1, <2>1 DEF PrintInv, PrintRows, PrintOpen, PrintAlone
<1>3. CASE print[j].status \notin {"Printed", "Dead Letter"}
  <2>1. printing' = [printing EXCEPT ![p] = j] /\ PrintFree(j)
    BY <1>3 DEF TakePrint
  <2>2. \A q \in Printers : printing'[q] = IF q = p THEN j ELSE printing[q]
    BY <2>1 DEF PrintInv, PrintRows
  <2>3. PrintRows'
    BY <1>1, <2>1 DEF PrintInv, PrintRows
  <2>4. PrintOpen'
    BY <1>1, <1>3, <2>2 DEF PrintInv, PrintOpen
  <2>5. PrintAlone'
    BY <2>1, <2>2 DEF PrintInv, PrintAlone, PrintFree
  <2> QED
    BY <2>3, <2>4, <2>5 DEF PrintInv
<1> QED
  BY <1>2, <1>3

LEMMA QueuePrintKeeps ==
  ASSUME PrintInv, NEW j \in Prints, QueuePrint(j) PROVE PrintInv'
<1>1. /\ print' = [print EXCEPT ![j].status = "Queued"] /\ print[j].status = "none"
      /\ UNCHANGED <<printing, sheets, received>>
  BY DEF QueuePrint, hookVars
<1>2. print' \in [Prints -> [status : PrintStatuses, attempts : Nat]]
      /\ \A i \in Prints : print'[i].status = IF i = j THEN "Queued" ELSE print[i].status
  BY <1>1 DEF PrintInv, PrintRows, PrintStatuses
<1>3. PrintRows' /\ PrintAlone'
  BY <1>1, <1>2 DEF PrintInv, PrintRows, PrintAlone
<1>4. PrintOpen'
  <2> SUFFICES ASSUME NEW p \in Printers, printing'[p] # NoPrint
               PROVE  print'[printing'[p]].status \notin {"Printed", "Dead Letter"}
    BY DEF PrintOpen
  <2>1. PICK i \in Prints : i = printing[p] /\ i = printing'[p]
    BY <1>1 DEF PrintInv, PrintRows
  <2>2. print[i].status \notin {"Printed", "Dead Letter"}
    BY <1>1, <2>1 DEF PrintInv, PrintOpen
  <2> QED
    BY <1>2, <2>1, <2>2
<1> QED
  BY <1>3, <1>4 DEF PrintInv

\* A step of the webhook queue prints nothing, and only an attempt reaches the receiver.
LEMMA HookParts ==
    ASSUME HookNext
    PROVE  /\ UNCHANGED <<print, printing, sheets>>
           /\ \/ received' = received
              \/ \E w \in Runs, d \in Deliveries : SendOk(w, d) \/ SendFails(w, d)
<1> DEFINE Kept == UNCHANGED <<print, printing, sheets>>
           Sent == \E w \in Runs, d \in Deliveries : SendOk(w, d) \/ SendFails(w, d)
<1>1. ASSUME NEW d \in Deliveries, Emit(d) PROVE Kept /\ received' = received
  BY <1>1 DEF Emit, printVars
<1>2. ASSUME NEW d \in Deliveries, BackoffEnds(d) PROVE Kept /\ received' = received
  BY <1>2 DEF BackoffEnds, printVars
<1>3. ASSUME NEW d \in Deliveries, Replay(d) PROVE Kept /\ received' = received
  BY <1>3 DEF Replay, printVars
<1>4. ASSUME NEW w \in Runs, StartRun(w) PROVE Kept /\ received' = received
  BY <1>4 DEF StartRun, printVars
<1>5. ASSUME NEW w \in Runs, EndRun(w) PROVE Kept /\ received' = received
  BY <1>5 DEF EndRun, printVars
<1>6. ASSUME NEW w \in Runs, CrashRun(w) PROVE Kept /\ received' = received
  BY <1>6 DEF CrashRun, printVars
<1>7. ASSUME NEW w \in Runs, NEW d \in Deliveries, SkipRow(w, d) PROVE Kept /\ received' = received
  BY <1>7 DEF SkipRow, printVars
<1>8. ASSUME NEW w \in Runs, NEW d \in Deliveries, SendOk(w, d) PROVE Kept /\ Sent
  <2>1. Kept
    BY <1>8 DEF SendOk, printVars
  <2>2. Sent
    BY <1>8
  <2> QED
    BY <2>1, <2>2
<1>9. ASSUME NEW w \in Runs, NEW d \in Deliveries, SendFails(w, d) PROVE Kept /\ Sent
  <2>1. Kept
    BY <1>9 DEF SendFails, printVars
  <2>2. Sent
    BY <1>9
  <2> QED
    BY <2>1, <2>2
<1>10. ASSUME NEW w \in Runs, NEW d \in Deliveries, SendRaises(w, d) PROVE Kept /\ received' = received
  BY <1>10 DEF SendRaises, printVars
<1>11. ASSUME NEW w \in Runs, NEW d \in Deliveries, WaitFails(w, d) PROVE Kept /\ received' = received
  BY <1>11 DEF WaitFails, printVars
<1> HIDE DEF Kept, Sent
<1>12. Kept /\ (received' = received \/ Sent)
  BY <1>1, <1>2, <1>3, <1>4, <1>5, <1>6, <1>7, <1>8, <1>9, <1>10, <1>11 DEF HookNext, Attempt
<1> QED
  BY <1>12 DEF Kept, Sent

LEMMA HooksKept ==
  ASSUME PrintInv, HookNext PROVE PrintInv'
<1>1. received \in [Deliveries -> Nat]
  BY DEF PrintInv, PrintRows
<1>2. ASSUME NEW w \in Runs, NEW d \in Deliveries, SendOk(w, d) PROVE received' \in [Deliveries -> Nat]
  BY <1>1, <1>2 DEF SendOk
<1>3. ASSUME NEW w \in Runs, NEW d \in Deliveries, SendFails(w, d) PROVE received' \in [Deliveries -> Nat]
  <2>1. PICK got \in {0, 1} : received' = [received EXCEPT ![d] = @ + got]
    BY <1>3 DEF SendFails
  <2>2. got \in Nat
    OBVIOUS
  <2> QED
    BY <1>1, <2>1, <2>2
<1>4. received' \in [Deliveries -> Nat]
  BY <1>1, <1>2, <1>3, HookParts
<1> QED
  BY <1>4, HookParts, PrintsKept

LEMMA PrintInvStep == PrintInv /\ [QueueNext]_queueVars => PrintInv'
<1> SUFFICES ASSUME PrintInv, [QueueNext]_queueVars PROVE PrintInv'
  OBVIOUS
<1>1. CASE HookNext
  BY <1>1, HooksKept
<1>2. CASE PrintNext
  <2>1. ASSUME NEW j \in Prints, QueuePrint(j) PROVE PrintInv'
    BY <2>1, QueuePrintKeeps
  <2>2. ASSUME NEW j \in Prints, NEW p \in Printers, TakePrint(p, j) PROVE PrintInv'
    BY <2>2, TakePrintKeeps
  <2>3. ASSUME NEW p \in Printers, PrintOk(p) PROVE PrintInv'
    BY <2>3, PrintOkKeeps
  <2>4. ASSUME NEW p \in Printers, PrintFails(p) PROVE PrintInv'
    BY <2>4, PrintFailsKeeps
  <2>5. ASSUME NEW p \in Printers, CrashPrint(p) PROVE PrintInv'
    BY <2>5, CrashPrintKeeps
  <2>6. ASSUME RetryFailedPrints PROVE PrintInv'
    <3>1. UNCHANGED <<print, printing, sheets, received>>
      BY <2>6 DEF RetryFailedPrints, hookVars
    <3> QED
      BY <3>1, PrintsKept DEF PrintInv, PrintRows
  <2> QED
    BY <1>2, <2>1, <2>2, <2>3, <2>4, <2>5, <2>6 DEF PrintNext
<1>3. CASE MessageNext
  <2>1. UNCHANGED <<print, printing, sheets, received>>
    BY <1>3 DEF MessageNext, QueueMessage, SendMessage, RetryMessages, GuestWrites,
                TicketFromMessage, hookVars, printVars
  <2> QED
    BY <2>1, PrintsKept DEF PrintInv, PrintRows
<1>4. CASE UNCHANGED queueVars
  <2>1. UNCHANGED <<print, printing, sheets, received>>
    BY <1>4 DEF queueVars
  <2> QED
    BY <2>1, PrintsKept DEF PrintInv, PrintRows
<1> QED
  BY <1>1, <1>2, <1>3, <1>4 DEF QueueNext

NotAgain ==
  /\ \A d \in Deliveries : hook[d].status = "Sent" => received'[d] = received[d]
  /\ \A j \in Prints : print[j].status = "Printed" => sheets'[j] = sheets[j]

LEMMA SentStaysOnce == PrintInv /\ [QueueNext]_queueVars => NotAgain
<1> SUFFICES ASSUME PrintInv, [QueueNext]_queueVars PROVE NotAgain
  OBVIOUS
<1>1. \/ received' = received
      \/ \E w \in Runs, d \in Deliveries : SendOk(w, d) \/ SendFails(w, d)
  <2>1. CASE PrintNext
    BY <2>1 DEF PrintNext, QueuePrint, TakePrint, PrintOk, PrintFails, CrashPrint,
                RetryFailedPrints, hookVars
  <2>2. CASE MessageNext
    BY <2>2 DEF MessageNext, QueueMessage, SendMessage, RetryMessages, GuestWrites,
                TicketFromMessage, hookVars
  <2>3. CASE UNCHANGED queueVars
    BY <2>3 DEF queueVars
  <2> QED
    BY <2>1, <2>2, <2>3, HookParts DEF QueueNext
<1>2. \A d \in Deliveries : hook[d].status = "Sent" => received'[d] = received[d]
  <2> SUFFICES ASSUME NEW d \in Deliveries, hook[d].status = "Sent" PROVE received'[d] = received[d]
    OBVIOUS
  <2>1. ASSUME NEW w \in Runs, NEW e \in Deliveries, SendOk(w, e) PROVE received'[d] = received[d]
    <3>1. received' = [received EXCEPT ![e] = @ + 1] /\ Waiting(hook[e])
      BY <2>1 DEF SendOk
    <3>2. d # e
      BY <3>1 DEF Waiting
    <3> QED
      BY <3>1, <3>2 DEF PrintInv, PrintRows
  <2>2. ASSUME NEW w \in Runs, NEW e \in Deliveries, SendFails(w, e) PROVE received'[d] = received[d]
    <3>1. PICK got \in {0, 1} : received' = [received EXCEPT ![e] = @ + got]
      BY <2>2 DEF SendFails
    <3>2. Waiting(hook[e])
      BY <2>2 DEF SendFails
    <3>3. d # e
      BY <3>2 DEF Waiting
    <3> QED
      BY <3>1, <3>3 DEF PrintInv, PrintRows
  <2> QED
    BY <1>1, <2>1, <2>2
<1>3. sheets' = sheets \/ \E p \in Printers : PrintOk(p) \/ CrashPrint(p)
  <2>1. CASE PrintNext
    BY <2>1 DEF PrintNext, QueuePrint, TakePrint, PrintFails, RetryFailedPrints
  <2>2. CASE MessageNext
    BY <2>2 DEF MessageNext, QueueMessage, SendMessage, RetryMessages, GuestWrites,
                TicketFromMessage, printVars
  <2>3. CASE UNCHANGED queueVars
    BY <2>3 DEF queueVars
  <2> QED
    BY <2>1, <2>2, <2>3, HookParts DEF QueueNext
<1>4. \A j \in Prints : print[j].status = "Printed" => sheets'[j] = sheets[j]
  <2> SUFFICES ASSUME NEW j \in Prints, print[j].status = "Printed" PROVE sheets'[j] = sheets[j]
    OBVIOUS
  <2>1. ASSUME NEW p \in Printers, PrintOk(p) PROVE sheets'[j] = sheets[j]
    <3>1. sheets' = [sheets EXCEPT ![printing[p]] = @ + 1] /\ printing[p] # NoPrint
      BY <2>1 DEF PrintOk
    <3>2. printing[p] # j
      BY <3>1 DEF PrintInv, PrintOpen
    <3> QED
      BY <3>1, <3>2 DEF PrintInv, PrintRows
  <2>2. ASSUME NEW p \in Printers, CrashPrint(p) PROVE sheets'[j] = sheets[j]
    <3>1. PICK out \in {0, 1} : sheets' = [sheets EXCEPT ![printing[p]] = @ + out]
      BY <2>2 DEF CrashPrint
    <3>2. printing[p] # NoPrint
      BY <2>2 DEF CrashPrint
    <3>3. printing[p] # j
      BY <3>2 DEF PrintInv, PrintOpen
    <3> QED
      BY <3>1, <3>3 DEF PrintInv, PrintRows
  <2> QED
    BY <1>3, <2>1, <2>2
<1> QED
  BY <1>2, <1>4 DEF NotAgain

\* What is recorded as sent or printed is not sent or printed again, for any number of
\* runs, printers and jobs, and any loss of them.
THEOREM NothingIsSentTwice == QueueSpec => SentOnce
<1>1. QueueInit => PrintInv
  BY PrintInvInit
<1>2. PrintInv /\ [QueueNext]_queueVars => PrintInv'
  BY PrintInvStep
<1>3. PrintInv /\ [QueueNext]_queueVars => [NotAgain]_queueVars
  BY SentStaysOnce
<1>4. QueueSpec => [][NotAgain]_queueVars
  BY <1>1, <1>2, <1>3, PTL DEF QueueSpec
<1> QED
  BY <1>4 DEF SentOnce, NotAgain

-----------------------------------------------------------------------------
(***************************************************************************)
(* Types of both modules.  What a request writes are events of its batch   *)
(* (Batched).  A delivery that waits has attempts left, replays counted    *)
(* (Counted): what a run has written and not committed obeys the limit     *)
(* already, so that a lost or late commit counts nothing past it.          *)
(***************************************************************************)

Batched == \A w \in Requests : DOMAIN tx[w].events \subseteq tx[w].batch /\ ToSet(tx[w].todo) \subseteq tx[w].batch

CalendarsTyped ==
  /\ webhook \in BOOLEAN /\ walkIn \subseteq Rooms \X Stays
  /\ echoing \subseteq Feeds
  /\ sold \in [Feeds -> SUBSET Stays] /\ seen \in [Feeds -> SUBSET Stays] /\ imported \in [Feeds -> SUBSET Stays]

LEMMA ChannelTypes == ChannelInv /\ Batched /\ CalendarsTyped => ChannelTypeOK
<1> SUFFICES ASSUME ChannelInv, Batched, CalendarsTyped PROVE ChannelTypeOK
  OBVIOUS
<1>1. ASSUME NEW w \in Requests
      PROVE  /\ tx[w].batch \subseteq Messages
             /\ DOMAIN tx[w].events \subseteq tx[w].batch
             /\ \A r \in DOMAIN tx[w].bookings : tx[w].bookings[r] \in Booking
  <2>1. tx[w] \in TxRow
    BY DEF ChannelInv, ChannelRows
  <2> QED
    BY <2>1, TxParts DEF Batched
<1> QED
  BY <1>1 DEF ChannelTypeOK, ChannelInv, ChannelRows, CalendarsTyped

\* The next message of a batch is done.
LEMMA DoneBatched ==
  ASSUME ChannelInv, Batched, NEW w \in Requests, tx[w].todo # <<>>, NEW m, m = Head(tx[w].todo),
         NEW status, NEW B, Done(w, m, status, B)
  PROVE  Batched'
<1>1. PICK x : x = tx[w]
  OBVIOUS
<1>2. /\ x \in TxRow /\ x.todo \in Seq(Messages) /\ x.todo # <<>> /\ tx \in [Requests -> TxRow]
      /\ DOMAIN x.events \subseteq x.batch /\ ToSet(x.todo) \subseteq x.batch
  BY <1>1 DEF ChannelInv, ChannelRows, TxRow, Batched
<1>3. m \in x.batch /\ ToSet(Tail(x.todo)) \subseteq x.batch
  <2>1. \A i \in 1 .. Len(x.todo) : x.todo[i] \in x.batch
    BY <1>2 DEF ToSet
  <2>2. m = x.todo[1] /\ 1 \in 1 .. Len(x.todo)
    <3>1. \A s \in Seq(Messages) : s # <<>> => Head(s) = s[1] /\ 1 \in 1 .. Len(s)
      OBVIOUS
    <3>2. m = Head(x.todo)
      BY <1>1
    <3>3. Head(x.todo) = x.todo[1] /\ 1 \in 1 .. Len(x.todo)
      BY <1>2, <3>1
    <3> QED
      BY <3>2, <3>3
  <2>3. PICK t \in Seq(Messages) : t = Tail(x.todo)
    <3>1. \A s \in Seq(Messages) : s # <<>> => Tail(s) \in Seq(Messages)
      OBVIOUS
    <3> QED
      BY <1>2, <3>1
  <2>4. \A i \in 1 .. Len(t) : t[i] = x.todo[i + 1] /\ i + 1 \in 1 .. Len(x.todo)
    BY <1>2, <2>3
  <2>5. \A i \in DOMAIN t : t[i] \in x.batch
    BY <2>1, <2>3, <2>4
  <2> QED
    BY <2>1, <2>2, <2>3, <2>5 DEF ToSet
<1>4. PICK E : E = IF status = "left alone" THEN x.events ELSE Over(Row(m, status), x.events)
  OBVIOUS
<1>5. DOMAIN E \subseteq x.batch
  BY <1>2, <1>3, <1>4 DEF Over, Row
<1>6. /\ tx'[w].events = E /\ tx'[w].todo = Tail(x.todo) /\ tx'[w].batch = x.batch
      /\ \A v \in Requests \ {w} : tx'[v] = tx[v]
  BY <1>1, <1>2, <1>4 DEF Done, TxRow
<1> QED
  BY <1>3, <1>5, <1>6 DEF Batched

LEMMA IdleBatched ==
  ASSUME ChannelInv, Batched, NEW w \in Requests, NEW x, tx' = [tx EXCEPT ![w] = x],
         DOMAIN x.events \subseteq x.batch, ToSet(x.todo) \subseteq x.batch
  PROVE  Batched'
<1>1. \A v \in Requests : tx'[v] = IF v = w THEN x ELSE tx[v]
  BY DEF ChannelInv, ChannelRows
<1> QED
  BY <1>1 DEF Batched

LEMMA BatchedStep ==
  ASSUME ChannelInv, Batched, [ChannelNext]_channelVars PROVE Batched'
<1>1. ASSUME UNCHANGED tx PROVE Batched'
  BY <1>1 DEF Batched
<1>2. DOMAIN Idle.events = {} /\ ToSet(Idle.todo) = {}
  BY EmptyMaps DEF Idle, ToSet
<1>3. ASSUME NEW r \in Refs,
             \/ PartnerBooks(r) \/ PartnerModifies(r) \/ PartnerCancels(r) \/ DeskCancels(r)
             \/ \E room \in Rooms : ConfirmCheckIn(r, room)
      PROVE  Batched'
  BY <1>1, <1>3 DEF PartnerBooks, PartnerModifies, PartnerCancels, DeskCancels, ConfirmCheckIn
<1>4. ASSUME NEW w \in Requests, NEW batch \in Batches, Receive(w, batch) PROVE Batched'
  <2>1. PICK x : x = [batch |-> ToSet(batch), todo |-> batch, events |-> <<>>, bookings |-> <<>>]
    OBVIOUS
  <2>2. DOMAIN x.events \subseteq x.batch /\ ToSet(x.todo) \subseteq x.batch
    BY <2>1, EmptyMaps
  <2> QED
    BY <1>4, <2>1, <2>2, IdleBatched DEF Receive
<1>5. ASSUME NEW w \in Requests, Apply(w) PROVE Batched'
  <2>1. tx[w].todo # <<>>
    BY <1>5 DEF Apply
  <2>2. PICK m : m = Head(tx[w].todo)
    OBVIOUS
  <2>3. \E status, B : Done(w, m, status, B)
    BY <1>5, <2>2, Zenon DEF Apply, IgnoreDuplicate, CancelUnmatched, CancelMatched, ModifyForReview, BookKnown,
                      BookForReview, BookRoom
  <2> QED
    BY <2>1, <2>2, <2>3, DoneBatched
<1>6. ASSUME NEW w \in Requests, Commit(w) \/ Rollback(w) PROVE Batched'
  BY <1>2, <1>6, IdleBatched DEF Commit, Rollback
<1>7. ASSUME NEW room \in Rooms, NEW stay \in Stays, DeskSells(room, stay) PROVE Batched'
  BY <1>1, <1>7 DEF DeskSells
<1>8. CASE CalendarNext
  BY <1>1, <1>8 DEF CalendarNext, PartnerSells, PartnerFrees, PartnerReadsFeed, SyncIcal, webVars
<1>9. CASE UNCHANGED channelVars
  BY <1>1, <1>9 DEF channelVars
<1>10. ASSUME SwitchConnection \/ \E m \in Messages : AnswerInactive(m) PROVE Batched'
  BY <1>1, <1>10 DEF SwitchConnection, AnswerInactive
<1> QED
  BY <1>3, <1>4, <1>5, <1>6, <1>7, <1>8, <1>9, <1>10 DEF ChannelNext, WebhookNext

\* A stay widened by the buffers is a stay within the calendar.
LEMMA BufferedStay ==
  ASSUME NEW s \in Stays PROVE Buffered(s) \in Stays
<1>1. PICK from, to : from = s.from /\ to = s.to
  OBVIOUS
<1>2. from \in 0 .. LastDay /\ to \in 0 .. LastDay /\ from < to
  BY <1>1 DEF Stays
<1>3. PICK f, t : f = Larger(from - Buffer, 0) /\ t = Smaller(to + Buffer, LastDay)
  OBVIOUS
<1>4. f \in 0 .. LastDay /\ t \in 0 .. LastDay /\ f < t
  BY <1>2, <1>3, DistributionAssumption DEF Larger, Smaller
<1> QED
  BY <1>1, <1>3, <1>4 DEF Buffered, Stays

LEMMA FeedTyped ==
  ASSUME ChannelInv, CalendarsTyped, NEW c \in Feeds PROVE FeedEvents(c) \in SUBSET Stays
<1>1. \A r \in Refs : Holds(resv[r]) => resv[r].stay \in Stays
  <2>1. \A b \in Booking : b.stay \in Stays
    BY DEF Booking
  <2>2. ~ Holds(NoBooking)
    BY BookingsAre DEF Holds
  <2> QED
    BY <2>1, <2>2 DEF ChannelInv, ChannelRows
<1>2. \A t \in walkIn : t[2] \in Stays
  BY DEF CalendarsTyped
<1>3. UNION {imported[d] : d \in Feeds \ {c}} \subseteq Stays
  BY DEF CalendarsTyped
<1> QED
  BY <1>1, <1>2, <1>3, BufferedStay DEF FeedEvents

LEMMA CalendarsStep ==
  ASSUME ChannelInv, CalendarsTyped, [ChannelNext]_channelVars PROVE CalendarsTyped'
<1>1. ASSUME UNCHANGED <<webhook, walkIn, echoing, sold, seen, imported>> PROVE CalendarsTyped'
  BY <1>1 DEF CalendarsTyped
<1>2. ASSUME NEW r \in Refs,
             \/ PartnerBooks(r) \/ PartnerModifies(r) \/ PartnerCancels(r) \/ DeskCancels(r)
             \/ \E room \in Rooms : ConfirmCheckIn(r, room)
      PROVE  CalendarsTyped'
  BY <1>1, <1>2 DEF PartnerBooks, PartnerModifies, PartnerCancels, DeskCancels, ConfirmCheckIn, feedVars
<1>3. ASSUME NEW w \in Requests, (\E batch \in Batches : Receive(w, batch)) \/ Apply(w) \/ Commit(w) \/ Rollback(w)
      PROVE  CalendarsTyped'
  BY <1>1, <1>3 DEF Receive, Apply, Commit, Rollback, feedVars, IgnoreDuplicate, CancelUnmatched, CancelMatched,
                    ModifyForReview, BookKnown, BookForReview, BookRoom, Done
<1>4. ASSUME NEW room \in Rooms, NEW stay \in Stays, DeskSells(room, stay) PROVE CalendarsTyped'
  BY <1>4 DEF DeskSells, CalendarsTyped, feedVars
<1>5. ASSUME NEW c \in Feeds, NEW stay \in Stays, PartnerSells(c, stay) \/ PartnerFrees(c, stay) PROVE CalendarsTyped'
  BY <1>5 DEF PartnerSells, PartnerFrees, CalendarsTyped, webVars
<1>6. ASSUME NEW c \in Feeds, PartnerReadsFeed(c) PROVE CalendarsTyped'
  BY <1>6, FeedTyped DEF PartnerReadsFeed, CalendarsTyped, webVars
<1>7. ASSUME NEW c \in Feeds, SyncIcal(c) PROVE CalendarsTyped'
  <2>1. Published(c) \in SUBSET Stays
    BY DEF Published, CalendarsTyped
  <2> QED
    BY <1>7, <2>1 DEF SyncIcal, CalendarsTyped, webVars
<1>8. CASE UNCHANGED channelVars
  BY <1>1, <1>8 DEF channelVars
<1>9. ASSUME SwitchConnection \/ \E m \in Messages : AnswerInactive(m) PROVE CalendarsTyped'
  <2>1. webhook' \in BOOLEAN /\ UNCHANGED <<walkIn, echoing, sold, seen, imported>>
    BY <1>9 DEF SwitchConnection, AnswerInactive, feedVars, CalendarsTyped
  <2> QED
    BY <2>1 DEF CalendarsTyped
<1> QED
  BY <1>2, <1>3, <1>4, <1>5, <1>6, <1>7, <1>8, <1>9 DEF ChannelNext, WebhookNext, CalendarNext

LEMMA ChannelStartsTyped == ChannelInit => Batched /\ CalendarsTyped
<1>1. DOMAIN Idle.events = {} /\ ToSet(Idle.todo) = {}
  BY EmptyMaps DEF Idle, ToSet
<1> QED
  BY <1>1 DEF ChannelInit, Batched, CalendarsTyped

-----------------------------------------------------------------------------
(***************************************************************************)
(* A row that waits has an attempt left, replays counted.  What a run has  *)
(* written and not committed obeys this already, so that its commit, late  *)
(* or lost, counts nothing past the limit.                                 *)
(***************************************************************************)

HookRow == [status : {"none", "Pending", "Processing", "Sent", "Retry", "Dead Letter"}, attempts : Nat, due : BOOLEAN]
OwnRows == UNION {[D -> HookRow] : D \in SUBSET Deliveries}
RunRow == [busy : BOOLEAN, todo : SUBSET Deliveries, locked : SUBSET Deliveries, own : OwnRows]

Counted(row, n) == /\ row.attempts <= MaxAttempts + n
                   /\ Waiting(row) => row.attempts < MaxAttempts + n

RunCounted(x, n) == /\ DOMAIN x.own \subseteq x.locked
                    /\ \A d \in DOMAIN x.own : Counted(x.own[d], n)

HookInv ==
  /\ replays \in 0 .. MaxReplays
  /\ hook \in [Deliveries -> HookRow] /\ \A d \in Deliveries : Counted(hook[d], replays)
  /\ run \in [Runs -> RunRow] /\ \A w \in Runs : RunCounted(run[w], replays)

LEMMA RunParts ==
  ASSUME NEW x \in RunRow
  PROVE  /\ x.todo \subseteq Deliveries /\ x.locked \subseteq Deliveries
         /\ DOMAIN x.own \subseteq Deliveries /\ \A d \in DOMAIN x.own : x.own[d] \in HookRow
<1>1. x.own \in OwnRows /\ x.todo \subseteq Deliveries /\ x.locked \subseteq Deliveries
  BY DEF RunRow
<1> QED
  BY <1>1 DEF OwnRows

LEMMA NothingOwned == DOMAIN <<>> = {} /\ <<>> \in OwnRows
<1>1. DOMAIN <<>> = {} /\ <<>> \in [{} -> HookRow]
  OBVIOUS
<1>2. [{} -> HookRow] \in {[D -> HookRow] : D \in SUBSET Deliveries}
  OBVIOUS
<1> QED
  BY <1>1, <1>2 DEF OwnRows

LEMMA FreshRun ==
  ASSUME NEW busy \in BOOLEAN, NEW todo \in SUBSET Deliveries, NEW n
  PROVE  LET x == [busy |-> busy, todo |-> todo, locked |-> {}, own |-> <<>>]
         IN  x \in RunRow /\ RunCounted(x, n)
BY NothingOwned DEF RunRow, RunCounted

\* A limit for n replays is one for more of them.
LEMMA CountedLonger ==
  ASSUME NEW row \in HookRow, NEW n \in Nat, Counted(row, n) PROVE Counted(row, n + 1)
<1>1. PICK a \in Nat : a = row.attempts
  BY DEF HookRow
<1> QED
  BY <1>1, OutboundAssumption DEF Counted

LEMMA ReplaysAre == HookInv => replays \in Nat /\ replays <= MaxReplays
<1>1. HookInv => replays \in 0 .. MaxReplays
  BY DEF HookInv
<1> QED
  BY <1>1, OutboundAssumption

LEMMA AttemptsAre == \A row \in HookRow : row.attempts \in Nat
BY DEF HookRow

LEMMA AttemptAdded ==
  ASSUME NEW i \in Nat, NEW k \in Nat
  PROVE  /\ i + 1 \in Nat
         /\ i < MaxAttempts + k => i + 1 <= MaxAttempts + k
         /\ i + 1 < MaxAttempts => i + 1 < MaxAttempts + k
         /\ i <= MaxAttempts + k => i < MaxAttempts + (k + 1) /\ i <= MaxAttempts + (k + 1)
<1>1. MaxAttempts \in Nat \ {0}
  BY OutboundAssumption
<1>2. i + 1 \in Nat
  OBVIOUS
<1>3. i < MaxAttempts + k => i + 1 <= MaxAttempts + k
  BY <1>1
<1>4. i + 1 < MaxAttempts => i + 1 < MaxAttempts + k
  BY <1>1
<1>5. i <= MaxAttempts + k => i < MaxAttempts + (k + 1) /\ i <= MaxAttempts + (k + 1)
  BY <1>1
<1> QED
  BY <1>2, <1>3, <1>4, <1>5

LEMMA HookTypes ==
  ASSUME HookInv
  PROVE  /\ hook \in [Deliveries -> Delivery]
         /\ \A w \in Runs : /\ run[w].todo \subseteq Deliveries /\ run[w].locked \subseteq Deliveries
                            /\ DOMAIN run[w].own \subseteq run[w].locked
<1>1. ASSUME NEW d \in Deliveries PROVE hook[d] \in Delivery
  <2>1. PICK row \in HookRow : row = hook[d] /\ Counted(row, replays)
    BY DEF HookInv
  <2>2. PICK a \in Nat, n \in Nat : a = row.attempts /\ n = replays /\ n <= MaxReplays
    BY <2>1, ReplaysAre, AttemptsAre
  <2>3. a <= MaxAttempts + n
    BY <2>1, <2>2 DEF Counted
  <2>4. a \in 0 .. MaxAttempts + MaxReplays
    BY <2>2, <2>3, OutboundAssumption
  <2> QED
    BY <2>1, <2>2, <2>4 DEF HookRow, Delivery
<1>2. ASSUME NEW w \in Runs
      PROVE  /\ run[w].todo \subseteq Deliveries /\ run[w].locked \subseteq Deliveries
             /\ DOMAIN run[w].own \subseteq run[w].locked
  <2>1. run[w] \in RunRow /\ RunCounted(run[w], replays)
    BY DEF HookInv
  <2> QED
    BY <2>1, RunParts DEF RunCounted
<1> QED
  BY <1>1, <1>2 DEF HookInv

\* One run goes on to x, and the rows stay as they are.
LEMMA RunGoesOn ==
  ASSUME HookInv, NEW w \in Runs, NEW x \in RunRow, RunCounted(x, replays), run' = [run EXCEPT ![w] = x],
         UNCHANGED <<hook, replays>>
  PROVE  HookInv'
<1>1. \A v \in Runs : run'[v] = IF v = w THEN x ELSE run[v]
  BY DEF HookInv
<1> QED
  BY <1>1 DEF HookInv

LEMMA WrittenCounted ==
  ASSUME HookInv, NEW w \in Runs, NEW d \in Deliveries, NEW row \in HookRow, Counted(row, replays),
         Written(w, d, row), UNCHANGED <<hook, replays>>
  PROVE  HookInv'
<1>1. PICK y \in RunRow : y = run[w] /\ RunCounted(y, replays)
  BY DEF HookInv
<1>2. PICK o : o = Put(d, row, y.own)
  OBVIOUS
<1>3. PICK x : x = [busy |-> TRUE, todo |-> y.todo \ {d}, locked |-> y.locked \cup {d}, own |-> o]
  OBVIOUS
<1>4. run' = [run EXCEPT ![w] = x]
  BY <1>1, <1>2, <1>3 DEF Written
<1>5. DOMAIN o = {d} \cup DOMAIN y.own /\ \A e \in DOMAIN o : o[e] = IF e = d THEN row ELSE y.own[e]
  BY <1>2 DEF Put
<1>6. DOMAIN o \in SUBSET Deliveries /\ o \in [DOMAIN o -> HookRow]
  <2>1. o = [e \in DOMAIN o |-> o[e]]
    BY <1>2 DEF Put
  <2> QED
    BY <1>5, <2>1, RunParts
<1>7. x \in RunRow
  BY <1>3, <1>6 DEF RunRow, OwnRows
<1>8. RunCounted(x, replays)
  BY <1>1, <1>3, <1>5 DEF RunCounted
<1> QED
  BY <1>4, <1>7, <1>8, RunGoesOn

\* What a send leaves in the row.
LEMMA RowSent ==
  ASSUME HookInv, NEW d \in Deliveries, Waiting(hook[d]), NEW due \in BOOLEAN,
         NEW status \in {"Sent", "Retry", "Dead Letter"},
         status = "Retry" => hook[d].attempts + 1 < MaxAttempts
  PROVE  LET row == [status |-> status, attempts |-> hook[d].attempts + 1, due |-> due]
         IN  row \in HookRow /\ Counted(row, replays)
<1>1. PICK h \in HookRow : h = hook[d] /\ Counted(h, replays)
  BY DEF HookInv
<1>2. PICK a \in Nat, n \in Nat : a = h.attempts /\ n = replays
  BY <1>1, ReplaysAre, AttemptsAre
<1>3. a < MaxAttempts + n /\ (status = "Retry" => a + 1 < MaxAttempts)
  BY <1>1, <1>2 DEF Counted
<1>4. a + 1 \in Nat /\ a + 1 <= MaxAttempts + n /\ (status = "Retry" => a + 1 < MaxAttempts + n)
  <2>1. /\ a + 1 \in Nat /\ (a < MaxAttempts + n => a + 1 <= MaxAttempts + n)
        /\ a + 1 < MaxAttempts => a + 1 < MaxAttempts + n
    BY <1>2, AttemptAdded
  <2> QED
    BY <1>3, <2>1, Zenon
<1>5. PICK row : row = [status |-> status, attempts |-> a + 1, due |-> due]
  OBVIOUS
<1>6. row \in HookRow
  BY <1>4, <1>5 DEF HookRow
<1>7. Counted(row, replays)
  BY <1>2, <1>4, <1>5 DEF Counted, Waiting
<1> QED
  BY <1>1, <1>2, <1>5, <1>6, <1>7

LEMMA EmitCounts ==
  ASSUME HookInv, NEW d \in Deliveries, Emit(d) PROVE HookInv'
<1>1. PICK row : row = [status |-> "Pending", attempts |-> 0, due |-> TRUE]
  OBVIOUS
<1>2. PICK n \in Nat : n = replays
  BY ReplaysAre
<1>3. 0 < MaxAttempts + n /\ 0 <= MaxAttempts + n
  BY OutboundAssumption
<1>4. row \in HookRow /\ Counted(row, replays)
  BY <1>1, <1>2, <1>3 DEF HookRow, Counted
<1>5. hook' = [hook EXCEPT ![d] = row] /\ UNCHANGED <<run, replays>>
  BY <1>1 DEF Emit
<1> QED
  BY <1>4, <1>5 DEF HookInv

LEMMA BackoffCounts ==
  ASSUME HookInv, NEW d \in Deliveries, BackoffEnds(d) PROVE HookInv'
<1>1. PICK h \in HookRow : h = hook[d] /\ Counted(h, replays)
  BY DEF HookInv
<1>2. PICK row : row = [h EXCEPT !.due = TRUE]
  OBVIOUS
<1>3. row \in HookRow /\ row.status = h.status /\ row.attempts = h.attempts
  BY <1>1, <1>2 DEF HookRow
<1>4. Counted(row, replays)
  BY <1>1, <1>3 DEF Counted, Waiting
<1>5. hook' = [hook EXCEPT ![d] = row] /\ UNCHANGED <<run, replays>>
  BY <1>1, <1>2 DEF BackoffEnds, HookInv
<1> QED
  BY <1>3, <1>4, <1>5 DEF HookInv

LEMMA ReplayCounts ==
  ASSUME HookInv, NEW d \in Deliveries, Replay(d) PROVE HookInv'
<1>1. PICK h \in HookRow : h = hook[d] /\ Counted(h, replays)
  BY DEF HookInv
<1>2. PICK n \in Nat : n = replays /\ n < MaxReplays /\ replays' = n + 1
  BY ReplaysAre DEF Replay
<1>3. PICK a \in Nat : a = h.attempts
  BY <1>1, AttemptsAre
<1>4. PICK row : row = [status |-> "Retry", attempts |-> a, due |-> TRUE]
  OBVIOUS
<1>5. hook' = [hook EXCEPT ![d] = row] /\ UNCHANGED run
  BY <1>1, <1>3, <1>4 DEF Replay
<1>6. a < MaxAttempts + (n + 1) /\ a <= MaxAttempts + (n + 1)
  <2>1. a <= MaxAttempts + n
    BY <1>1, <1>2, <1>3 DEF Counted
  <2> QED
    BY <1>2, <1>3, <2>1, AttemptAdded
<1>7. row \in HookRow /\ Counted(row, n + 1)
  BY <1>3, <1>4, <1>6 DEF HookRow, Counted
<1>8. \A e \in Deliveries : hook'[e] \in HookRow /\ Counted(hook'[e], n + 1)
  BY <1>2, <1>5, <1>7, CountedLonger DEF HookInv
<1>9. \A w \in Runs : RunCounted(run[w], n + 1)
  <2> SUFFICES ASSUME NEW w \in Runs PROVE RunCounted(run[w], n + 1)
    OBVIOUS
  <2>1. run[w] \in RunRow /\ RunCounted(run[w], n)
    BY <1>2 DEF HookInv
  <2> QED
    BY <2>1, RunParts, CountedLonger DEF RunCounted
<1>10. replays' \in 0 .. MaxReplays
  BY <1>2, OutboundAssumption
<1> QED
  BY <1>2, <1>5, <1>7, <1>8, <1>9, <1>10 DEF HookInv

LEMMA StartRunCounts ==
  ASSUME HookInv, NEW w \in Runs, StartRun(w) PROVE HookInv'
<1>1. PICK due : due = {d \in Deliveries : Waiting(hook[d]) /\ hook[d].due}
  OBVIOUS
<1>2. run' = [run EXCEPT ![w] = [busy |-> TRUE, todo |-> due, locked |-> {}, own |-> <<>>]]
      /\ UNCHANGED <<hook, replays>>
  BY <1>1 DEF StartRun
<1> QED
  BY <1>1, <1>2, FreshRun, RunGoesOn

LEMMA SkipRowCounts ==
  ASSUME HookInv, NEW w \in Runs, NEW d \in Deliveries, SkipRow(w, d) PROVE HookInv'
<1>1. PICK y \in RunRow : y = run[w] /\ RunCounted(y, replays)
  BY DEF HookInv
<1>2. PICK x : x = [busy |-> TRUE, todo |-> y.todo \ {d}, locked |-> y.locked \cup {d}, own |-> y.own]
  OBVIOUS
<1>3. run' = [run EXCEPT ![w] = x] /\ UNCHANGED <<hook, replays>>
  BY <1>1, <1>2 DEF SkipRow
<1>4. x \in RunRow /\ RunCounted(x, replays)
  BY <1>1, <1>2 DEF RunRow, RunCounted
<1> QED
  BY <1>3, <1>4, RunGoesOn

LEMMA SendOkCounts ==
  ASSUME HookInv, NEW w \in Runs, NEW d \in Deliveries, SendOk(w, d) PROVE HookInv'
<1>1. PICK row : row = [status |-> "Sent", attempts |-> hook[d].attempts + 1, due |-> FALSE]
  OBVIOUS
<1>2. Waiting(hook[d]) /\ Written(w, d, row) /\ UNCHANGED <<hook, replays>>
  BY <1>1 DEF SendOk
<1>3. row \in HookRow /\ Counted(row, replays)
  BY <1>1, <1>2, RowSent
<1> QED
  BY <1>2, <1>3, WrittenCounted

LEMMA SendFailsCounts ==
  ASSUME HookInv, NEW w \in Runs, NEW d \in Deliveries, SendFails(w, d) PROVE HookInv'
<1>1. PICK status : status = IF hook[d].attempts + 1 >= MaxAttempts THEN "Dead Letter" ELSE "Retry"
  OBVIOUS
<1>2. PICK row : row = [status |-> status, attempts |-> hook[d].attempts + 1, due |-> FALSE]
  OBVIOUS
<1>3. Waiting(hook[d]) /\ Written(w, d, row) /\ UNCHANGED <<hook, replays>>
  BY <1>1, <1>2 DEF SendFails
<1>4. PICK a \in Nat : a = hook[d].attempts
  BY AttemptsAre DEF HookInv
<1>5. ~ (a + 1 >= MaxAttempts) => a + 1 < MaxAttempts
  BY OutboundAssumption
<1>6. status \in {"Sent", "Retry", "Dead Letter"} /\ (status = "Retry" => hook[d].attempts + 1 < MaxAttempts)
  BY <1>1, <1>4, <1>5
<1>7. row \in HookRow /\ Counted(row, replays)
  BY <1>2, <1>3, <1>6, RowSent
<1> QED
  BY <1>3, <1>7, WrittenCounted

LEMMA SendRaisesCounts ==
  ASSUME HookInv, NEW w \in Runs, NEW d \in Deliveries, SendRaises(w, d) PROVE HookInv'
<1>1. PICK h \in HookRow : h = hook[d] /\ Counted(h, replays)
  BY DEF HookInv
<1>2. PICK row : row = [h EXCEPT !.status = "Processing"]
  OBVIOUS
<1>3. row \in HookRow /\ row.attempts = h.attempts /\ row.status = "Processing"
  BY <1>1, <1>2 DEF HookRow
<1>4. Counted(row, replays)
  BY <1>1, <1>3 DEF Counted, Waiting
<1>5. Written(w, d, row) /\ UNCHANGED <<hook, replays>>
  BY <1>1, <1>2 DEF SendRaises
<1> QED
  BY <1>3, <1>4, <1>5, WrittenCounted

LEMMA WaitFailsCounts ==
  ASSUME HookInv, NEW w \in Runs, NEW d \in Deliveries, WaitFails(w, d) PROVE HookInv'
<1>1. PICK y \in RunRow : y = run[w] /\ RunCounted(y, replays)
  BY DEF HookInv
<1>2. PICK T : T = y.todo \ {d} /\ T \in SUBSET Deliveries
  BY RunParts
<1>3. UNCHANGED <<hook, replays>>
  BY DEF WaitFails
<1>4. CASE run' = [run EXCEPT ![w].todo = @ \ {d}]
  <2>1. PICK x : x = [y EXCEPT !.todo = T]
    OBVIOUS
  <2>2. x \in RunRow /\ x.locked = y.locked /\ x.own = y.own
    BY <1>1, <1>2, <2>1 DEF RunRow
  <2>3. RunCounted(x, replays)
    BY <1>1, <2>2 DEF RunCounted
  <2>4. run' = [run EXCEPT ![w] = x]
    BY <1>1, <1>2, <1>4, <2>1 DEF HookInv
  <2> QED
    BY <1>3, <2>2, <2>3, <2>4, RunGoesOn
<1>5. CASE run' = [run EXCEPT ![w] = [busy |-> TRUE, todo |-> run[w].todo \ {d}, locked |-> {}, own |-> <<>>]]
  BY <1>1, <1>2, <1>3, <1>5, FreshRun, RunGoesOn
<1> QED
  BY <1>4, <1>5 DEF WaitFails

LEMMA EndRunCounts ==
  ASSUME HookInv, NEW w \in Runs, EndRun(w) PROVE HookInv'
<1>1. PICK y \in RunRow : y = run[w] /\ RunCounted(y, replays)
  BY DEF HookInv
<1>2. /\ hook' = [d \in Deliveries |-> IF d \in DOMAIN y.own THEN y.own[d] ELSE hook[d]]
      /\ run' = [run EXCEPT ![w] = NoRun] /\ UNCHANGED replays
  BY <1>1 DEF EndRun
<1>3. \A d \in Deliveries : hook'[d] \in HookRow /\ Counted(hook'[d], replays)
  BY <1>1, <1>2, RunParts DEF HookInv, RunCounted
<1>4. NoRun \in RunRow /\ RunCounted(NoRun, replays)
  BY FreshRun DEF NoRun
<1>5. \A v \in Runs : run'[v] = IF v = w THEN NoRun ELSE run[v]
  BY <1>2 DEF HookInv
<1> QED
  BY <1>2, <1>3, <1>4, <1>5 DEF HookInv

LEMMA CrashRunCounts ==
  ASSUME HookInv, NEW w \in Runs, CrashRun(w) PROVE HookInv'
<1>1. NoRun \in RunRow /\ RunCounted(NoRun, replays)
  BY FreshRun DEF NoRun
<1>2. run' = [run EXCEPT ![w] = NoRun] /\ UNCHANGED <<hook, replays>>
  BY DEF CrashRun
<1> QED
  BY <1>1, <1>2, RunGoesOn

LEMMA HookInvStep ==
  ASSUME HookInv, [QueueNext]_queueVars PROVE HookInv'
<1>1. ASSUME UNCHANGED <<hook, run, replays>> PROVE HookInv'
  BY <1>1 DEF HookInv
<1>2. CASE HookNext
  <2>1. ASSUME NEW d \in Deliveries, Emit(d) \/ BackoffEnds(d) \/ Replay(d) PROVE HookInv'
    BY <2>1, EmitCounts, BackoffCounts, ReplayCounts
  <2>2. ASSUME NEW w \in Runs, StartRun(w) \/ EndRun(w) \/ CrashRun(w) PROVE HookInv'
    BY <2>2, StartRunCounts, EndRunCounts, CrashRunCounts
  <2>3. ASSUME NEW w \in Runs, Attempt(w) PROVE HookInv'
    BY <2>3, SkipRowCounts, SendOkCounts, SendFailsCounts, SendRaisesCounts, WaitFailsCounts DEF Attempt
  <2> QED
    BY <1>2, <2>1, <2>2, <2>3 DEF HookNext
<1>3. CASE PrintNext
  BY <1>1, <1>3 DEF PrintNext, QueuePrint, TakePrint, PrintOk, PrintFails, CrashPrint, RetryFailedPrints, hookVars
<1>4. CASE MessageNext
  BY <1>1, <1>4 DEF MessageNext, QueueMessage, SendMessage, RetryMessages, GuestWrites, TicketFromMessage, hookVars
<1>5. CASE UNCHANGED queueVars
  BY <1>1, <1>5 DEF queueVars
<1> QED
  BY <1>2, <1>3, <1>4, <1>5 DEF QueueNext

LEMMA HookInvInit == QueueInit => HookInv
<1> SUFFICES ASSUME QueueInit PROVE HookInv
  OBVIOUS
<1>1. NoRun \in RunRow /\ RunCounted(NoRun, 0)
  BY FreshRun DEF NoRun
<1>2. 0 \in Nat /\ 0 <= MaxAttempts + 0 /\ 0 \in 0 .. MaxReplays
  BY OutboundAssumption
<1>3. NoRow \in HookRow /\ Counted(NoRow, 0)
  BY <1>2 DEF NoRow, HookRow, Counted, Waiting
<1> QED
  BY <1>1, <1>2, <1>3 DEF QueueInit, HookInv

-----------------------------------------------------------------------------
(***************************************************************************)
(* A job that may still be printed has an attempt left.                    *)
(***************************************************************************)

PrintsCounted ==
  \A j \in Prints : /\ print[j].attempts <= PrintLimit
                    /\ print[j].status \notin {"Printed", "Dead Letter"} => print[j].attempts < PrintLimit

JobsTyped ==
  /\ printJobs \in [Prints -> 0 .. MaxJobs] /\ msgJobs \in [Outgoing -> 0 .. MaxJobs]
  /\ msg \in [Outgoing -> [status : {"none", "Queued", "Failed", "Dead Letter"}, retries : 0 .. MessageLimit]]
  /\ inbox \subseteq Incoming /\ ticket \subseteq inbox
  /\ crashes \in 0 .. MaxCrashes

QueueInv == HookInv /\ PrintInv /\ PrintsCounted /\ JobsTyped

LEMMA OneAttemptMore == \A a \in Nat : a < PrintLimit => a + 1 <= PrintLimit
BY OutboundAssumption

\* A worker ends its job j with a status.
LEMMA PrintEndCounts ==
  ASSUME PrintInv, PrintsCounted, NEW p \in Printers, printing[p] # NoPrint, NEW status,
         status = "Failed" => print[printing[p]].attempts + 1 < PrintLimit,
         status \in {"Printed", "Failed", "Dead Letter"},
         print' = [print EXCEPT ![printing[p]] = [status |-> status, attempts |-> print[printing[p]].attempts + 1]]
  PROVE  PrintsCounted'
<1>1. PICK j \in Prints : j = printing[p] /\ printing[p] # NoPrint
  BY DEF PrintInv, PrintRows
<1>2. print[j].attempts < PrintLimit
  BY <1>1 DEF PrintInv, PrintOpen, PrintsCounted
<1>3. PICK a \in Nat : a = print[j].attempts
  BY DEF PrintInv, PrintRows
<1>4. a + 1 <= PrintLimit
  BY <1>2, <1>3, OneAttemptMore
<1>5. PICK row : row = [status |-> status, attempts |-> a + 1]
  OBVIOUS
<1>6. \A i \in Prints : print'[i] = IF i = j THEN row ELSE print[i]
  BY <1>1, <1>3, <1>5 DEF PrintInv, PrintRows
<1>7. row.attempts <= PrintLimit /\ (row.status \notin {"Printed", "Dead Letter"} => row.attempts < PrintLimit)
  BY <1>1, <1>3, <1>4, <1>5
<1> QED
  BY <1>6, <1>7 DEF PrintsCounted

LEMMA PrintsCountedStep ==
  ASSUME PrintInv, PrintsCounted, [QueueNext]_queueVars PROVE PrintsCounted'
<1>1. ASSUME UNCHANGED print PROVE PrintsCounted'
  BY <1>1 DEF PrintsCounted
<1>2. ASSUME NEW j \in Prints, QueuePrint(j) PROVE PrintsCounted'
  <2>1. /\ print' = [print EXCEPT ![j].status = "Queued"] /\ print[j].status = "none"
        /\ print \in [Prints -> [status : PrintStatuses, attempts : Nat]]
    BY <1>2 DEF QueuePrint, PrintInv, PrintRows
  <2>2. \A i \in Prints : /\ print'[i].attempts = print[i].attempts
                          /\ i # j => print'[i].status = print[i].status
    BY <2>1
  <2> QED
    BY <2>1, <2>2 DEF PrintsCounted
<1>3. ASSUME NEW p \in Printers, PrintOk(p) PROVE PrintsCounted'
  <2>1. PICK j \in Prints : j = printing[p] /\ printing[p] # NoPrint
    BY <1>3 DEF PrintOk, PrintInv, PrintRows
  <2>2. print' = [print EXCEPT ![printing[p]] = [status |-> "Printed", attempts |-> print[printing[p]].attempts + 1]]
    BY <1>3, <2>1 DEF PrintOk, PrintInv, PrintRows
  <2> QED
    BY <2>1, <2>2, PrintEndCounts
<1>4. ASSUME NEW p \in Printers, PrintFails(p) PROVE PrintsCounted'
  <2>1. PICK j \in Prints : j = printing[p] /\ printing[p] # NoPrint
    BY <1>4 DEF PrintFails, PrintInv, PrintRows
  <2>2. PICK a \in Nat : a = print[printing[p]].attempts + 1
    BY <2>1 DEF PrintInv, PrintRows
  <2>3. PICK status : status = IF a >= PrintLimit THEN "Dead Letter" ELSE "Failed"
    OBVIOUS
  <2>4. print' = [print EXCEPT ![printing[p]] = [status |-> status, attempts |-> print[printing[p]].attempts + 1]]
    BY <1>4, <2>2, <2>3 DEF PrintFails
  <2>5. /\ status \in {"Printed", "Failed", "Dead Letter"}
        /\ status = "Failed" => print[printing[p]].attempts + 1 < PrintLimit
    <3>1. PrintLimit \in Nat
      BY OutboundAssumption
    <3>2. ~ (a >= PrintLimit) => a < PrintLimit
      BY <2>2, <3>1
    <3> QED
      BY <2>2, <2>3, <3>2
  <2> QED
    BY <2>1, <2>4, <2>5, PrintEndCounts
<1>5. CASE HookNext
  BY <1>1, <1>5, HookParts
<1>6. CASE PrintNext
  <2>1. ASSUME \/ \E j \in Prints, p \in Printers : TakePrint(p, j)
               \/ \E p \in Printers : CrashPrint(p)
               \/ RetryFailedPrints
        PROVE  PrintsCounted'
    BY <1>1, <2>1 DEF TakePrint, CrashPrint, RetryFailedPrints
  <2> QED
    BY <1>2, <1>3, <1>4, <1>6, <2>1 DEF PrintNext
<1>7. CASE MessageNext
  BY <1>1, <1>7 DEF MessageNext, QueueMessage, SendMessage, RetryMessages, GuestWrites, TicketFromMessage, printVars
<1>8. CASE UNCHANGED queueVars
  BY <1>1, <1>8 DEF queueVars
<1> QED
  BY <1>5, <1>6, <1>7, <1>8 DEF QueueNext

LEMMA BoundsAre == /\ 1 \in 0 .. MaxJobs
                   /\ \A i \in 0 .. MaxJobs : (i > 0 => i - 1 \in 0 .. MaxJobs) /\ (i < MaxJobs => i + 1 \in 0 .. MaxJobs)
                   /\ \A i \in 0 .. MaxCrashes : i < MaxCrashes => i + 1 \in 0 .. MaxCrashes
BY OutboundAssumption

LEMMA CrashesStep ==
  ASSUME JobsTyped, [QueueNext]_queueVars PROVE crashes' \in 0 .. MaxCrashes
<1>1. crashes \in 0 .. MaxCrashes
  BY DEF JobsTyped
<1>2. ASSUME crashes < MaxCrashes, crashes' = crashes + 1 PROVE crashes' \in 0 .. MaxCrashes
  BY <1>1, <1>2, BoundsAre
<1>3. ASSUME NEW w \in Runs, NEW d \in Deliveries,
             SkipRow(w, d) \/ SendOk(w, d) \/ SendFails(w, d) \/ SendRaises(w, d) \/ WaitFails(w, d)
      PROVE  crashes' \in 0 .. MaxCrashes
  BY <1>1, <1>2, <1>3 DEF SkipRow, SendOk, SendFails, SendRaises, WaitFails
<1>4. CASE HookNext
  BY <1>1, <1>2, <1>3, <1>4 DEF HookNext, Emit, BackoffEnds, Replay, StartRun, Attempt, EndRun, CrashRun
<1>5. CASE PrintNext
  BY <1>1, <1>2, <1>5 DEF PrintNext, QueuePrint, TakePrint, PrintOk, PrintFails, CrashPrint, RetryFailedPrints
<1>6. CASE MessageNext
  BY <1>1, <1>6 DEF MessageNext, QueueMessage, SendMessage, RetryMessages, GuestWrites, TicketFromMessage
<1>7. CASE UNCHANGED queueVars
  BY <1>1, <1>7 DEF queueVars
<1> QED
  BY <1>4, <1>5, <1>6, <1>7 DEF QueueNext

LEMMA PrintJobsStep ==
  ASSUME JobsTyped, [QueueNext]_queueVars PROVE printJobs' \in [Prints -> 0 .. MaxJobs]
<1>1. printJobs \in [Prints -> 0 .. MaxJobs]
  BY DEF JobsTyped
<1>2. ASSUME NEW j \in Prints, QueuePrint(j) PROVE printJobs' \in [Prints -> 0 .. MaxJobs]
  BY <1>1, <1>2, BoundsAre DEF QueuePrint
<1>3. ASSUME NEW j \in Prints, NEW p \in Printers, TakePrint(p, j) PROVE printJobs' \in [Prints -> 0 .. MaxJobs]
  <2>1. printJobs[j] - 1 \in 0 .. MaxJobs
    BY <1>1, <1>3, BoundsAre DEF TakePrint
  <2> QED
    BY <1>1, <1>3, <2>1 DEF TakePrint
<1>4. ASSUME RetryFailedPrints PROVE printJobs' \in [Prints -> 0 .. MaxJobs]
  BY <1>1, <1>4, BoundsAre DEF RetryFailedPrints
<1>5. ASSUME UNCHANGED printJobs PROVE printJobs' \in [Prints -> 0 .. MaxJobs]
  BY <1>1, <1>5
<1>6. CASE HookNext
  BY <1>5, <1>6 DEF HookNext, Emit, BackoffEnds, Replay, StartRun, Attempt, EndRun, CrashRun, SkipRow, SendOk,
                    SendFails, SendRaises, WaitFails, printVars
<1>7. CASE PrintNext
  BY <1>2, <1>3, <1>4, <1>5, <1>7 DEF PrintNext, PrintOk, PrintFails, CrashPrint
<1>8. CASE MessageNext
  BY <1>5, <1>8 DEF MessageNext, QueueMessage, SendMessage, RetryMessages, GuestWrites, TicketFromMessage, printVars
<1>9. CASE UNCHANGED queueVars
  BY <1>5, <1>9 DEF queueVars
<1> QED
  BY <1>6, <1>7, <1>8, <1>9 DEF QueueNext

MessagesTyped ==
  /\ msgJobs \in [Outgoing -> 0 .. MaxJobs]
  /\ msg \in [Outgoing -> [status : {"none", "Queued", "Failed", "Dead Letter"}, retries : 0 .. MessageLimit]]
  /\ inbox \subseteq Incoming /\ ticket \subseteq inbox

LEMMA MessagesStep ==
  ASSUME MessagesTyped, [QueueNext]_queueVars PROVE MessagesTyped'
<1>1. ASSUME UNCHANGED messageVars PROVE MessagesTyped'
  BY <1>1 DEF messageVars, MessagesTyped
<1>2. ASSUME NEW m \in Outgoing, QueueMessage(m) PROVE MessagesTyped'
  BY <1>2, BoundsAre DEF QueueMessage, MessagesTyped
<1>3. ASSUME NEW m \in Outgoing, SendMessage(m) PROVE MessagesTyped'
  <2>1. msgJobs[m] - 1 \in 0 .. MaxJobs
    BY <1>3, BoundsAre DEF SendMessage, MessagesTyped
  <2>2. FailStatus(msg[m].retries) \in {"Failed", "Dead Letter"}
    BY DEF FailStatus
  <2> QED
    BY <1>3, <2>1, <2>2 DEF SendMessage, MessagesTyped
<1>4. ASSUME RetryMessages PROVE MessagesTyped'
  BY <1>4, BoundsAre DEF RetryMessages, MessagesTyped
<1>5. ASSUME NEW i \in Incoming, GuestWrites(i) \/ TicketFromMessage(i) PROVE MessagesTyped'
  BY <1>5 DEF GuestWrites, TicketFromMessage, MessagesTyped
<1>6. CASE HookNext
  BY <1>1, <1>6 DEF HookNext, Emit, BackoffEnds, Replay, StartRun, Attempt, EndRun, CrashRun, SkipRow, SendOk,
                    SendFails, SendRaises, WaitFails
<1>7. CASE PrintNext
  BY <1>1, <1>7 DEF PrintNext, QueuePrint, TakePrint, PrintOk, PrintFails, CrashPrint, RetryFailedPrints
<1>8. CASE MessageNext
  BY <1>2, <1>3, <1>4, <1>5, <1>8 DEF MessageNext
<1>9. CASE UNCHANGED queueVars
  BY <1>1, <1>9 DEF queueVars, messageVars
<1> QED
  BY <1>6, <1>7, <1>8, <1>9 DEF QueueNext

LEMMA QueueInvInit == QueueInit => QueueInv
<1> SUFFICES ASSUME QueueInit PROVE QueueInv
  OBVIOUS
<1>1. 0 \in 0 .. MaxJobs /\ 0 \in 0 .. MessageLimit /\ 0 \in 0 .. MaxCrashes /\ 0 < PrintLimit /\ 0 <= PrintLimit
  BY OutboundAssumption
<1>2. PrintsCounted
  BY <1>1 DEF QueueInit, PrintsCounted
<1>3. JobsTyped
  BY <1>1 DEF QueueInit, JobsTyped
<1> QED
  BY <1>2, <1>3, HookInvInit, PrintInvInit DEF QueueInv

LEMMA QueueInvStep == QueueInv /\ [QueueNext]_queueVars => QueueInv'
<1> SUFFICES ASSUME QueueInv, [QueueNext]_queueVars PROVE QueueInv'
  OBVIOUS
<1>1. JobsTyped'
  <2>1. MessagesTyped
    BY DEF QueueInv, JobsTyped, MessagesTyped
  <2>2. MessagesTyped'
    BY <2>1, MessagesStep
  <2> QED
    BY <2>2, CrashesStep, PrintJobsStep DEF QueueInv, JobsTyped, MessagesTyped
<1> QED
  BY <1>1, HookInvStep, PrintInvStep, PrintsCountedStep DEF QueueInv

LEMMA QueueInvTypes == QueueInv => QueueTypeOK
<1> SUFFICES ASSUME QueueInv PROVE QueueTypeOK
  OBVIOUS
<1>1. ASSUME NEW j \in Prints
      PROVE  print[j] \in [status : {"none", "Queued", "Printed", "Failed", "Dead Letter"}, attempts : 0 .. PrintLimit]
  <2>1. PICK row \in [status : PrintStatuses, attempts : Nat] : row = print[j]
    BY DEF QueueInv, PrintInv, PrintRows
  <2>2. PICK a \in Nat : a = row.attempts
    BY <2>1
  <2>3. a <= PrintLimit
    BY <2>1, <2>2 DEF QueueInv, PrintsCounted
  <2>4. a \in 0 .. PrintLimit
    BY <2>2, <2>3, OutboundAssumption
  <2> QED
    BY <2>1, <2>2, <2>4 DEF PrintStatuses
<1>2. print \in [Prints -> [status : {"none", "Queued", "Printed", "Failed", "Dead Letter"}, attempts : 0 .. PrintLimit]]
  BY <1>1 DEF QueueInv, PrintInv, PrintRows
<1>3. /\ received \in [Deliveries -> Nat] /\ sheets \in [Prints -> Nat]
      /\ printing \in [Printers -> Prints \cup {NoPrint}] /\ replays \in 0 .. MaxReplays
  BY DEF QueueInv, PrintInv, PrintRows, HookInv
<1>4. HookInv
  BY DEF QueueInv
<1> QED
  BY <1>2, <1>3, <1>4, HookTypes DEF QueueTypeOK, QueueInv, JobsTyped

\* The invariants of the channels and of the queues, for any number of requests, runs,
\* workers, messages and bounds.
IntegrationsInv == ChannelInv /\ Batched /\ CalendarsTyped /\ QueueInv

\* Every variable of the channels and of the queues has its type: what a request has not
\* committed are events of its batch and bookings, a delivery counts at most max_attempts
\* attempts and one for each replay, and a print at most its limit (process_webhook_queue,
\* process_print_job).
THEOREM IntegrationsTyped == ChannelSpec /\ QueueSpec => []TypeOK
<1>1. ChannelInit => ChannelInv /\ Batched /\ CalendarsTyped
  BY ChannelInvInit, ChannelStartsTyped
<1>2. ChannelInv /\ Batched /\ CalendarsTyped /\ [ChannelNext]_channelVars => (ChannelInv /\ Batched /\ CalendarsTyped)'
  BY ChannelInvStep, BatchedStep, CalendarsStep
<1>3. ChannelInv /\ Batched /\ CalendarsTyped => ChannelTypeOK
  BY ChannelTypes
<1>4. ChannelSpec => []ChannelTypeOK
  BY <1>1, <1>2, <1>3, PTL DEF ChannelSpec
<1>5. QueueSpec => []QueueTypeOK
  BY QueueInvInit, QueueInvStep, QueueInvTypes, PTL DEF QueueSpec
<1>6. ChannelTypeOK /\ QueueTypeOK => TypeOK
  BY DEF TypeOK
<1> QED
  BY <1>4, <1>5, <1>6, PTL

\* A behaviour of the composition, whatever its traffic, is one of each of its parts: what is
\* proved of the channels and of the queues holds in the instance that is model-checked.
THEOREM PartsAreBehaviours ==
  MCSpec => /\ ChannelInit /\ [][ChannelNext]_channelVars
            /\ QueueInit /\ [][QueueNext]_queueVars
<1>1. MCInit => ChannelInit /\ QueueInit
  BY DEF MCInit
<1>2. [MCNext]_integrationVars => [ChannelNext]_channelVars /\ [QueueNext]_queueVars
  <2> SUFFICES ASSUME [MCNext]_integrationVars PROVE [ChannelNext]_channelVars /\ [QueueNext]_queueVars
    OBVIOUS
  <2>1. CASE UNCHANGED integrationVars
    BY <2>1 DEF integrationVars
  <2>2. CASE MCNext
    <3>1. \/ (WebhookNext \/ CalendarNext) /\ UNCHANGED queueVars
          \/ (HookNext \/ PrintNext \/ MessageNext) /\ UNCHANGED channelVars
      BY <2>2, Zenon DEF MCNext
    <3> QED
      BY <3>1, Zenon DEF ChannelNext, QueueNext
  <2> QED
    BY <2>1, <2>2
<1> QED
  BY <1>1, <1>2, PTL DEF MCSpec

\* The safety properties of the composition that is model-checked: the parts do not disturb
\* each other.
THEOREM CompositionSafe == MCSpec => [](TypeOK /\ NothingIsLost) /\ SentOnce
<1>1. ChannelInit /\ QueueInit => IntegrationsInv
  BY ChannelInvInit, ChannelStartsTyped, QueueInvInit DEF IntegrationsInv
<1>2. IntegrationsInv /\ [ChannelNext]_channelVars /\ [QueueNext]_queueVars => IntegrationsInv'
  BY ChannelInvStep, BatchedStep, CalendarsStep, QueueInvStep DEF IntegrationsInv
<1>3. IntegrationsInv => TypeOK /\ NothingIsLost
  BY ChannelTypes, QueueInvTypes, InvGivesNothingIsLost DEF IntegrationsInv, TypeOK
<1>4. IntegrationsInv /\ [QueueNext]_queueVars => [NotAgain]_queueVars
  BY SentStaysOnce DEF IntegrationsInv, QueueInv
<1>5. MCSpec => [][NotAgain]_queueVars
  BY <1>1, <1>2, <1>4, PartsAreBehaviours, PTL
<1>6. MCSpec => [](TypeOK /\ NothingIsLost)
  BY <1>1, <1>2, <1>3, PartsAreBehaviours, PTL
<1> QED
  BY <1>5, <1>6 DEF SentOnce, NotAgain
=============================================================================
