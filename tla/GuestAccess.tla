----------------------------- MODULE GuestAccess -----------------------------
(***************************************************************************)
(* What a guest reaches by a link, and what the hotel keeps of a guest     *)
(* (guest_portal.py, prearrival.py, media.py, the guest services of        *)
(* services.py): bookings made online, links, self check-in and documents, *)
(* payment requests, pre-arrival forms, restrictions, merged and           *)
(* anonymised guests, laundry orders and experiences.                      *)
(*                                                                         *)
(* A pre-arrival form is submitted and revoked in two steps, what the      *)
(* request reads and its commit; every save moves the modified time of the *)
(* form.  All other operations are one step.                               *)
(***************************************************************************)
EXTENDS Integers, FiniteSets, FiniteSetsExt

CONSTANTS
  People, NoOne,       \* people by their contact; also the customers made of them
  Bookings,            \* reservations, by the request that makes them
  Online,              \* rooms of the type that is sold online
  Links, Forms,        \* portal links; pre-arrival forms, each with a link of its own
  Writers,             \* requests that submit or revoke a form
  Answers, NoAnswer,
  Bans,                \* blacklist records, numbered in order of creation
  PrivacyRequests,
  Orders, Outings,     \* laundry orders; bookings of one session of an experience
  Seats, AutoPost,     \* capacity of the session; auto_post_laundry_on_return
  Required, Verified,  \* deposit of a booking; verification is asked for at check-in
  MaxItems, MaxFormStamp   \* bounds: counted items, saves of a form

ASSUME GuestAssumption ==
  /\ Bookings # {} /\ Links \cap Forms = {}
  /\ Bans \subseteq Nat /\ NoOne \notin People /\ NoAnswer \notin Answers
  /\ Required \in Nat /\ Online \in Nat /\ Seats \in Nat /\ MaxItems \in Nat
  /\ MaxFormStamp \in Nat /\ AutoPost \in BOOLEAN /\ Verified \in BOOLEAN

VARIABLES
  person,        \* the customer to whom the contact of a person leads
  profile,       \* tabHotel Guest Profile of a customer
  ban,           \* tabHotel Guest Blacklist
  privacy,       \* tabHotel Guest Privacy Request
  booking,       \* tabHotel Reservation
  link,          \* tabHotel Guest Access Token
  form,          \* tabHotel Prearrival Form Submission
  writer,        \* a request on a form before its commit
  registration,  \* tabHotel Guest Registration with its documents
  deposit,       \* money of a booking: Sales Order, open invoice, payment requests
  laundry,       \* tabHotel Laundry Order
  outing         \* tabHotel Experience Booking

guestVars == <<person, profile, ban, privacy, booking, link, form, writer,
               registration, deposit, laundry, outing>>
guestFile == <<person, profile, ban, privacy>>
formVars == <<form, writer>>
serviceVars == <<laundry, outing>>

LinkStates == {"none", "Active", "Revoked", "Expired"}
FormStates == {"Draft", "Issued", "Submitted", "Expired", "Revoked"}
LaundryStates == {"Requested", "In Process", "Ready", "Returned", "Billed", "Cancelled"}

\* Every variable has its type.
GuestTypeOK ==
  /\ person \in [People -> People \cup {NoOne}]
  /\ profile \in [People -> [status : {"none", "Active", "Restricted", "Anonymized"},
                             record : Bans \cup {0}, hold : BOOLEAN]]
  /\ ban \in [Bans -> [status : {"none", "Draft", "Active", "Revoked", "Expired"}, guest : People \cup {NoOne},
                       level : {"Warning", "Block Online", "Block All"}, over : BOOLEAN]]
  /\ privacy \in [PrivacyRequests -> [guest : People \cup {NoOne}, ripe : BOOLEAN,
                    type : {"Anonymization", "Data Access"},
                    status : {"none", "Received", "Cooling Period", "Approved", "Completed", "Rejected"}]]
  /\ booking \in [Bookings -> [status : {"none", "Confirmed", "Checked In", "Checked Out", "Cancelled"},
                               guest : People \cup {NoOne}]]
  /\ link \in [Links \cup Forms -> [status : LinkStates, booking : Bookings, late : BOOLEAN, uses : {0, 1}]]
  /\ form \in [Forms -> [status : FormStates \cup {"none"}, answer : Answers \cup {NoAnswer},
                         stamp : 0 .. MaxFormStamp]]
  /\ \A w \in Writers : writer[w].on => writer[w].form \in Forms /\ writer[w].stamp \in 0 .. MaxFormStamp
  /\ registration \in [Bookings -> [status : {"none", "Draft", "Completed", "Verified"},
                                    document : BOOLEAN, purged : BOOLEAN]]
  /\ deposit \in [Bookings -> [received : 0 .. Required, order : 0 .. Required, invoice : BOOLEAN,
                               requests : SUBSET {"Sales Order", "Sales Invoice"}]]
  /\ laundry \in [Orders -> [status : LaundryStates \cup {"none"}, booking : Bookings, posted : BOOLEAN,
                             items : 0 .. MaxItems, charged : 0 .. MaxItems]]
  /\ outing \in [Outings -> [status : {"none", "Requested", "Confirmed"}, people : 0 .. Seats,
                             over : BOOLEAN, posted : BOOLEAN]]

GuestInit ==
  LET b0 == CHOOSE b \in Bookings : TRUE IN
  /\ person = [p \in People |-> NoOne]
  /\ profile = [c \in People |-> [status |-> "none", record |-> 0, hold |-> FALSE]]
  /\ ban = [k \in Bans |-> [status |-> "none", guest |-> NoOne, level |-> "Warning", over |-> FALSE]]
  /\ privacy = [q \in PrivacyRequests |-> [guest |-> NoOne, ripe |-> FALSE, type |-> "Data Access",
                                           status |-> "none"]]
  /\ booking = [b \in Bookings |-> [status |-> "none", guest |-> NoOne]]
  /\ link = [l \in Links \cup Forms |-> [status |-> "none", booking |-> b0, late |-> FALSE, uses |-> 0]]
  /\ form = [f \in Forms |-> [status |-> "none", answer |-> NoAnswer, stamp |-> 0]]
  /\ writer = [w \in Writers |-> [on |-> FALSE]]
  /\ registration = [b \in Bookings |-> [status |-> "none", document |-> FALSE, purged |-> FALSE]]
  /\ deposit = [b \in Bookings |-> [received |-> 0, order |-> 0, invoice |-> FALSE, requests |-> {}]]
  /\ laundry = [o \in Orders |-> [status |-> "none", booking |-> b0, posted |-> FALSE, items |-> 0, charged |-> 0]]
  /\ outing = [x \in Outings |-> [status |-> "none", people |-> 0, over |-> FALSE, posted |-> FALSE]]

-----------------------------------------------------------------------------
(* Links.                                                                  *)

\* issue_guest_token under a new key.
NewLink(l, b) == [link EXCEPT ![l] = [status |-> "Active", booking |-> b, late |-> FALSE, uses |-> 0]]

\* token_is_usable; a form's link is for one use.
Usable(l) == link[l].status = "Active" /\ ~ link[l].late /\ (l \in Forms => link[l].uses = 0)

\* A portal link of booking b, validated.
Opens(l, b) == l \in Links /\ Usable(l) /\ link[l].booking = b

IssuePortalLink(l, b) ==
  /\ booking[b].status # "none" /\ link[l].status = "none"
  /\ link' = NewLink(l, b)
  /\ UNCHANGED <<guestFile, booking, formVars, registration, deposit, serviceVars>>

LinkAges(l) ==
  /\ link[l].status # "none" /\ ~ link[l].late /\ link' = [link EXCEPT ![l].late = TRUE]
  /\ UNCHANGED <<guestFile, booking, formVars, registration, deposit, serviceVars>>

\* The status in the form of the token; validate lets no late one be active.
EditLink(l, st) ==
  /\ link[l].status \notin {"none", st}
  /\ link' = [link EXCEPT ![l].status = IF st = "Active" /\ link[l].late THEN "Expired" ELSE st]
  /\ UNCHANGED <<guestFile, booking, formVars, registration, deposit, serviceVars>>

ExpireLinks ==
  /\ link' = [l \in DOMAIN link |-> IF link[l].status = "Active" /\ link[l].late
                                    THEN [link[l] EXCEPT !.status = "Expired"] ELSE link[l]]
  /\ link' # link
  /\ UNCHANGED <<guestFile, booking, formVars, registration, deposit, serviceVars>>

-----------------------------------------------------------------------------
(* Bookings.                                                               *)

InForce(k) == ban[k].status = "Active" /\ ~ ban[k].over

\* active_blacklist: the newest record alone, whatever the older ones say.
Level(c) == LET R == {k \in Bans : ban[k].guest = c /\ InForce(k)} IN
            IF R = {} THEN "None" ELSE ban[Max(R)].level

Sold == {b \in Bookings : booking[b].status \in {"Confirmed", "Checked In"}}

\* resolve_or_create_guest.
CustomerOf(p) == IF person[p] = NoOne THEN p ELSE person[p]

\* ensure_guest_profile.
WithProfile(c) == [profile EXCEPT ![c].status = IF @ = "none" THEN "Active" ELSE @]

\* create_public_booking.  Bound: one whose contact was anonymised books as somebody new.
CreatePublicBooking(b, p, l) ==
  LET c == CustomerOf(p) IN
  /\ booking[b].status = "none" /\ link[l].status = "none"
  /\ Cardinality(Sold) < Online
  /\ Level(c) \notin {"Block Online", "Block All"}
  /\ person[p] = NoOne => profile[c].status = "none"
  /\ person' = [person EXCEPT ![p] = c] /\ profile' = WithProfile(c)
  /\ booking' = [booking EXCEPT ![b] = [status |-> "Confirmed", guest |-> c]]
  /\ link' = NewLink(l, b)
  /\ UNCHANGED <<ban, privacy, formVars, registration, deposit, serviceVars>>

\* The same request again: the booking exists, a further link goes out.
RetryPublicBooking(b, p, l) ==
  /\ booking[b].status # "none" /\ booking[b].guest = CustomerOf(p) /\ Cardinality(Sold) < Online
  /\ Level(booking[b].guest) \notin {"Block Online", "Block All"}
  /\ link[l].status = "none" /\ link' = NewLink(l, b)
  /\ UNCHANGED <<guestFile, booking, formVars, registration, deposit, serviceVars>>

\* A customer whom the desk has made is looked up: get_guest_profile_360.
OpenGuestProfile(c) ==
  /\ person[c] = NoOne /\ profile[c].status = "none"
  /\ person' = [person EXCEPT ![c] = c] /\ profile' = WithProfile(c)
  /\ UNCHANGED <<ban, privacy, booking, link, formVars, registration, deposit, serviceVars>>

\* A booking at the desk: validate_reservation_guest_status.
BookAtDesk(b, c, manager) ==
  /\ booking[b].status = "none" /\ profile[c].status # "none" /\ Cardinality(Sold) < Online
  /\ Level(c) = "Block All" => manager
  /\ booking' = [booking EXCEPT ![b] = [status |-> "Confirmed", guest |-> c]]
  /\ UNCHANGED <<guestFile, link, formVars, registration, deposit, serviceVars>>

CancelByGuest(l, b) ==
  /\ Opens(l, b) /\ booking[b].status = "Confirmed"
  /\ booking' = [booking EXCEPT ![b].status = "Cancelled"]
  /\ UNCHANGED <<guestFile, link, formVars, registration, deposit, serviceVars>>

ArriveAtDesk(b) ==
  /\ booking[b].status = "Confirmed" /\ (Verified => registration[b].status = "Verified")
  /\ booking' = [booking EXCEPT ![b].status = "Checked In"]
  /\ UNCHANGED <<guestFile, link, formVars, registration, deposit, serviceVars>>

\* purge_registration_documents; the mode is Verify and Discard.
Purged(b) == [registration[b] EXCEPT !.document = FALSE, !.purged = TRUE]

LeaveHotel(b) ==
  /\ booking[b].status = "Checked In" /\ ~ deposit[b].invoice
  /\ booking' = [booking EXCEPT ![b].status = "Checked Out"]
  /\ registration' = IF registration[b].status = "none" THEN registration
                     ELSE [registration EXCEPT ![b] = Purged(b)]
  /\ UNCHANGED <<guestFile, link, formVars, deposit, serviceVars>>

-----------------------------------------------------------------------------
(* Registration and documents.                                             *)

\* submit_self_checkin completes a registration, a verified one too.
SubmitSelfCheckin(l, b) ==
  /\ Opens(l, b) /\ booking[b].status = "Confirmed" /\ registration[b].status # "Completed"
  /\ registration' = [registration EXCEPT ![b].status = "Completed"]
  /\ UNCHANGED <<guestFile, booking, link, formVars, deposit, serviceVars>>

EnsureRegistration(b) ==
  /\ booking[b].status # "none" /\ registration[b].status = "none"
  /\ registration' = [registration EXCEPT ![b].status = "Draft"]
  /\ UNCHANGED <<guestFile, booking, link, formVars, deposit, serviceVars>>

EditRegistration(b, st) ==
  /\ registration[b].status \notin {"none", st}
  /\ registration' = [registration EXCEPT ![b].status = st]
  /\ UNCHANGED <<guestFile, booking, link, formVars, deposit, serviceVars>>

\* A guest before check-in, the staff at any time.
UploadDocument(l, b, staff) ==
  /\ registration[b].status # "none" /\ ~ registration[b].document
  /\ staff \/ (Opens(l, b) /\ booking[b].status = "Confirmed")
  /\ registration' = [registration EXCEPT ![b].document = TRUE]
  /\ UNCHANGED <<guestFile, booking, link, formVars, deposit, serviceVars>>

PurgeByStaff(b) ==
  /\ registration[b].status # "none" /\ registration[b] # Purged(b)
  /\ registration' = [registration EXCEPT ![b] = Purged(b)]
  /\ UNCHANGED <<guestFile, booking, link, formVars, deposit, serviceVars>>

\* The daily job: a registration that was purged once is not looked at again.
PurgeDaily ==
  LET old == {b \in Bookings : /\ registration[b].status # "none" /\ ~ registration[b].purged
                               /\ booking[b].status \in {"Checked Out", "Cancelled"}} IN
  /\ old # {}
  /\ registration' = [b \in Bookings |-> IF b \in old THEN Purged(b) ELSE registration[b]]
  /\ UNCHANGED <<guestFile, booking, link, formVars, deposit, serviceVars>>

-----------------------------------------------------------------------------
(* Payment requests.                                                       *)

\* An open invoice goes first; else the deposit, ordered once, at what was due then.
RequestOnlinePayment(l, b) ==
  LET d == deposit[b] IN
  /\ Opens(l, b) /\ (d.invoice \/ d.received < Required)
  /\ deposit' = [deposit EXCEPT ![b] =
       IF d.invoice THEN [d EXCEPT !.requests = @ \cup {"Sales Invoice"}]
       ELSE [d EXCEPT !.requests = @ \cup {"Sales Order"},
                      !.order = IF @ = 0 THEN Required - d.received ELSE @]]
  /\ deposit' # deposit
  /\ UNCHANGED <<guestFile, booking, link, formVars, registration, serviceVars>>

\* A payment of the deposit; an invoice is opened or settled; a request cancelled.
MoneyMoves(b, d) ==
  /\ booking[b].status # "none" /\ d # deposit[b]
  /\ \/ \E n \in 0 .. Required : d = [deposit[b] EXCEPT !.received = n]
     \/ d = [deposit[b] EXCEPT !.invoice = ~ @]
     \/ \E t \in deposit[b].requests : d = [deposit[b] EXCEPT !.requests = @ \ {t}]
  /\ deposit' = [deposit EXCEPT ![b] = d]
  /\ UNCHANGED <<guestFile, booking, link, formVars, registration, serviceVars>>

-----------------------------------------------------------------------------
(* Pre-arrival forms.                                                      *)

\* One form of a booking is open at a time.
IssueForm(f, b) ==
  /\ booking[b].status = "Confirmed" /\ form[f].status = "none"
  /\ \A g \in Forms : link[g].booking = b => form[g].status \notin {"Draft", "Issued"}
  /\ form' = [form EXCEPT ![f].status = "Issued"]
  /\ link' = NewLink(f, b)
  /\ UNCHANGED <<guestFile, booking, writer, registration, deposit, serviceVars>>

\* A request reads the form (and, to submit it, its link).
LoadForm(w, f, act) ==
  /\ ~ writer[w].on /\ form[f].status \notin {"none", "Submitted"}
  /\ act = "submit" => Usable(f)
  /\ writer' = [writer EXCEPT ![w] = [on |-> TRUE, form |-> f, act |-> act, stamp |-> form[f].stamp]]
  /\ UNCHANGED <<guestFile, booking, link, form, registration, deposit, serviceVars>>

\* validate: the answers of what is Submitted now may not change.
SaveForm(f, st, a) ==
  /\ form[f].status = "Submitted" => a = form[f].answer
  /\ form[f].stamp < MaxFormStamp
  /\ form' = [form EXCEPT ![f] = [status |-> st, answer |-> a, stamp |-> @.stamp + 1]]

\* Mutant: a submission is saved without the check that the form is the one read.
MutCommitSubmitBlind(w, a) ==
  LET f == writer[w].form IN
  /\ writer[w].on /\ writer[w].act = "submit" /\ SaveForm(f, "Submitted", a)
  /\ link' = [link EXCEPT ![f].uses = 1]
  /\ writer' = [writer EXCEPT ![w] = [on |-> FALSE]]
  /\ UNCHANGED <<guestFile, booking, registration, deposit, serviceVars>>

\* submit_prearrival_form commits: the answers, and the one use of the link.
CommitSubmit(w, a) ==
  LET f == writer[w].form IN
  /\ writer[w].on /\ writer[w].act = "submit" /\ writer[w].stamp = form[f].stamp
  /\ SaveForm(f, "Submitted", a)
  /\ link' = [link EXCEPT ![f].uses = 1]
  /\ writer' = [writer EXCEPT ![w] = [on |-> FALSE]]
  /\ UNCHANGED <<guestFile, booking, registration, deposit, serviceVars>>

CommitRevoke(w) ==
  LET f == writer[w].form IN
  /\ writer[w].on /\ writer[w].act = "revoke" /\ writer[w].stamp = form[f].stamp
  /\ SaveForm(f, "Revoked", form[f].answer)
  /\ link' = [link EXCEPT ![f].status = "Revoked"]
  /\ writer' = [writer EXCEPT ![w] = [on |-> FALSE]]
  /\ UNCHANGED <<guestFile, booking, registration, deposit, serviceVars>>

\* Wrong answers, or the form has moved on.
WriterFails(w) ==
  /\ writer[w].on /\ writer' = [writer EXCEPT ![w] = [on |-> FALSE]]
  /\ UNCHANGED <<guestFile, booking, link, form, registration, deposit, serviceVars>>

\* The status in the form of the submission, which the staff may write.
EditForm(f, st) ==
  /\ form[f].status \notin {"none", st} /\ SaveForm(f, st, form[f].answer)
  /\ UNCHANGED <<guestFile, booking, link, writer, registration, deposit, serviceVars>>

-----------------------------------------------------------------------------
(* Restrictions, merges, privacy.                                          *)

\* on_update of a restriction k saved as r: what the profile shows.
Shown(k, r) ==
  CASE r.status = "Active" ->
         [profile EXCEPT ![r.guest].record = k,
            ![r.guest].status = IF r.level = "Warning" THEN "Active" ELSE "Restricted"]
    [] r.status # "Active" /\ profile[r.guest].record = k ->
         [profile EXCEPT ![r.guest].record = 0, ![r.guest].status = "Active"]
    [] OTHER -> profile

SaveBan(k, r) ==
  /\ ban' = [ban EXCEPT ![k] = r] /\ profile' = Shown(k, r)
  /\ UNCHANGED <<person, privacy, booking, link, formVars, registration, deposit, serviceVars>>

CreateBan(k, c, level) ==
  /\ ban[k].status = "none" /\ profile[c].status # "none"
  /\ \A j \in Bans : j < k => ban[j].status # "none"
  /\ SaveBan(k, [status |-> "Draft", guest |-> c, level |-> level, over |-> FALSE])

EditBan(k, st) == ban[k].status \notin {"none", st} /\ SaveBan(k, [ban[k] EXCEPT !.status = st])

BanEnds(k) ==
  /\ ban[k].status # "none" /\ ~ ban[k].over /\ ban' = [ban EXCEPT ![k].over = TRUE]
  /\ UNCHANGED <<person, profile, privacy, booking, link, formVars, registration, deposit, serviceVars>>

\* expire_blacklist_records, one save.
ExpireBan(k) == ban[k].over /\ ban[k].status = "Active" /\ SaveBan(k, [ban[k] EXCEPT !.status = "Expired"])

\* execute_guest_merge.  Frappe deletes no profile that a reservation names.
MergeGuests(d, c) ==
  LET moved(x) == IF x = d THEN c ELSE x IN
  /\ d # c /\ profile[d].status # "none" /\ profile[c].status # "none"
  /\ \A b \in Bookings : booking[b].guest # d
  /\ person' = [p \in People |-> moved(person[p])]
  /\ profile' = [profile EXCEPT ![d] = [status |-> "none", record |-> 0, hold |-> FALSE]]
  /\ ban' = [k \in Bans |-> [ban[k] EXCEPT !.guest = moved(@)]]
  /\ privacy' = [q \in PrivacyRequests |-> [privacy[q] EXCEPT !.guest = moved(@)]]
  /\ UNCHANGED <<booking, link, formVars, registration, deposit, serviceVars>>

SubmitPrivacyRequest(l, b, q, type) ==
  /\ Opens(l, b) /\ privacy[q].status = "none"
  /\ privacy' = [privacy EXCEPT ![q] = [guest |-> booking[b].guest, ripe |-> FALSE, type |-> type,
                                        status |-> "Received"]]
  /\ UNCHANGED <<person, profile, ban, booking, link, formVars, registration, deposit, serviceVars>>

EditPrivacyRequest(q, st) ==
  /\ privacy[q].status \notin {"none", st} /\ privacy' = [privacy EXCEPT ![q].status = st]
  /\ UNCHANGED <<person, profile, ban, booking, link, formVars, registration, deposit, serviceVars>>

CoolingEnds(q) ==
  /\ privacy[q].status # "none" /\ ~ privacy[q].ripe /\ privacy' = [privacy EXCEPT ![q].ripe = TRUE]
  /\ UNCHANGED <<person, profile, ban, booking, link, formVars, registration, deposit, serviceVars>>

\* The Retention Hold of a profile.
EditHold(c) ==
  /\ profile[c].status # "none" /\ profile' = [profile EXCEPT ![c].hold = ~ @]
  /\ UNCHANGED <<person, ban, privacy, booking, link, formVars, registration, deposit, serviceVars>>

\* can_anonymize.
MayAnonymize(c) ==
  /\ ~ profile[c].hold
  /\ \A b \in Bookings : booking[b].guest = c => b \notin Sold /\ ~ deposit[b].invoice

\* process_privacy_request.
ProcessPrivacyRequest(q) ==
  LET c == privacy[q].guest
      anonymize == privacy[q].type = "Anonymization" IN
  /\ privacy[q].status \in {"Approved", "Cooling Period"} /\ privacy[q].ripe
  /\ anonymize => MayAnonymize(c)
  /\ privacy' = [privacy EXCEPT ![q].status = "Completed"]
  /\ profile' = IF anonymize THEN [profile EXCEPT ![c].status = "Anonymized", ![c].hold = FALSE] ELSE profile
  /\ person' = [p \in People |-> IF anonymize /\ person[p] = c THEN NoOne ELSE person[p]]
  /\ UNCHANGED <<ban, booking, link, formVars, registration, deposit, serviceVars>>

-----------------------------------------------------------------------------
(* Laundry and experiences.                                                *)

NoOrder(o) == laundry[o].status = "none"
Lodged(o) == booking[laundry[o].booking].status = "Checked In"   \* its validate

RequestLaundry(l, b, o) ==
  /\ Opens(l, b) /\ booking[b].status = "Checked In" /\ NoOrder(o)
  /\ laundry' = [laundry EXCEPT ![o].status = "Requested", ![o].booking = b]
  /\ UNCHANGED <<guestFile, booking, link, formVars, registration, deposit, outing>>

CountLaundry(o, n) ==
  /\ ~ NoOrder(o) /\ Lodged(o) /\ n # laundry[o].items /\ laundry' = [laundry EXCEPT ![o].items = n]
  /\ UNCHANGED <<guestFile, booking, link, formVars, registration, deposit, outing>>

\* post_laundry_to_folio: each counted row under its own key, once.
Posted(r) == [r EXCEPT !.charged = r.items, !.posted = TRUE, !.status = "Billed"]

PostLaundry(o) ==
  /\ laundry[o].status \in {"Ready", "Returned"} /\ ~ laundry[o].posted /\ Lodged(o) /\ laundry[o].items > 0
  /\ laundry' = [laundry EXCEPT ![o] = Posted(@)]
  /\ UNCHANGED <<guestFile, booking, link, formVars, registration, deposit, outing>>

\* update_laundry_status: any status after any other; a return posts the order.
UpdateLaundry(o, st) ==
  LET posts == st = "Returned" /\ AutoPost /\ ~ laundry[o].posted IN
  /\ ~ NoOrder(o) /\ Lodged(o) /\ st # "Requested" /\ st # laundry[o].status
  /\ posts => laundry[o].items > 0
  /\ laundry' = [laundry EXCEPT ![o] = IF posts THEN Posted(@) ELSE [@ EXCEPT !.status = st]]
  /\ UNCHANGED <<guestFile, booking, link, formVars, registration, deposit, outing>>

Booked(x) == MapThenSumSet(LAMBDA y : outing[y].people, Outings \ {x})

\* validate of an experience booking, with n people.
MaySaveOuting(x, n) == ~ outing[x].over /\ Booked(x) + n <= Seats

BookExperience(l, b, x, n) ==
  /\ Opens(l, b) /\ outing[x].status = "none" /\ n > 0 /\ MaySaveOuting(x, n)
  /\ outing' = [outing EXCEPT ![x].status = "Requested", ![x].people = n]
  /\ UNCHANGED <<guestFile, booking, link, formVars, registration, deposit, laundry>>

ConfirmExperience(x) ==
  /\ outing[x].status = "Requested" /\ MaySaveOuting(x, outing[x].people)
  /\ outing' = [outing EXCEPT ![x].status = "Confirmed"]
  /\ UNCHANGED <<guestFile, booking, link, formVars, registration, deposit, laundry>>

\* The posting saves the booking, which its schedule allows only before the session.
PostExperience(x) ==
  /\ outing[x].status = "Confirmed" /\ ~ outing[x].posted /\ MaySaveOuting(x, outing[x].people)
  /\ outing' = [outing EXCEPT ![x].posted = TRUE]
  /\ UNCHANGED <<guestFile, booking, link, formVars, registration, deposit, laundry>>

SessionTakesPlace ==
  /\ \E x \in Outings : ~ outing[x].over
  /\ outing' = [x \in Outings |-> [outing[x] EXCEPT !.over = TRUE]]
  /\ UNCHANGED <<guestFile, booking, link, formVars, registration, deposit, laundry>>

-----------------------------------------------------------------------------
BookingNext == \E b \in Bookings :
  \/ \E p \in People, l \in Links : CreatePublicBooking(b, p, l) \/ RetryPublicBooking(b, p, l)
  \/ \E c \in People, manager \in BOOLEAN : BookAtDesk(b, c, manager)
  \/ ArriveAtDesk(b) \/ LeaveHotel(b)
  \/ \E l \in Links : CancelByGuest(l, b) \/ IssuePortalLink(l, b)

LinkNext ==
  \/ \E l \in Links \cup Forms : LinkAges(l) \/ \E st \in {"Active", "Revoked", "Expired"} : EditLink(l, st)
  \/ ExpireLinks

PortalNext ==
  \/ \E b \in Bookings :
       \/ \E l \in Links : SubmitSelfCheckin(l, b) \/ RequestOnlinePayment(l, b)
       \/ \E l \in Links, staff \in BOOLEAN : UploadDocument(l, b, staff)
       \/ \E st \in {"Draft", "Completed", "Verified"} : EditRegistration(b, st)
       \/ EnsureRegistration(b) \/ PurgeByStaff(b)
       \/ \E n \in 0 .. Required, i \in BOOLEAN, R \in SUBSET {"Sales Order", "Sales Invoice"} :
            MoneyMoves(b, [deposit[b] EXCEPT !.received = n, !.invoice = i, !.requests = R])
  \/ PurgeDaily

PrearrivalNext ==
  \/ \E f \in Forms : \/ \E b \in Bookings : IssueForm(f, b)
                      \/ \E st \in FormStates : EditForm(f, st)
                      \/ \E w \in Writers, act \in {"submit", "revoke"} : LoadForm(w, f, act)
  \/ \E w \in Writers : CommitRevoke(w) \/ WriterFails(w) \/ \E a \in Answers : CommitSubmit(w, a)

FileNext ==
  \/ \E k \in Bans :
       \/ \E c \in People, level \in {"Warning", "Block Online", "Block All"} : CreateBan(k, c, level)
       \/ BanEnds(k) \/ ExpireBan(k) \/ \E st \in {"Draft", "Active", "Revoked"} : EditBan(k, st)
  \/ \E c, d \in People : MergeGuests(d, c)
  \/ \E c \in People : EditHold(c) \/ OpenGuestProfile(c)
  \/ \E q \in PrivacyRequests :
       \/ \E l \in Links, b \in Bookings, type \in {"Anonymization", "Data Access"} :
            SubmitPrivacyRequest(l, b, q, type)
       \/ \E st \in {"Cooling Period", "Approved", "Rejected"} : EditPrivacyRequest(q, st)
       \/ CoolingEnds(q) \/ ProcessPrivacyRequest(q)

GuestServiceNext ==
  \/ \E o \in Orders :
       \/ \E l \in Links, b \in Bookings : RequestLaundry(l, b, o)
       \/ \E n \in 0 .. MaxItems : CountLaundry(o, n)
       \/ PostLaundry(o) \/ \E st \in LaundryStates : UpdateLaundry(o, st)
  \/ \E x \in Outings :
       \/ \E l \in Links, b \in Bookings, n \in 1 .. Seats : BookExperience(l, b, x, n)
       \/ ConfirmExperience(x) \/ PostExperience(x)
  \/ SessionTakesPlace

GuestNext ==
  BookingNext \/ LinkNext \/ PortalNext \/ PrearrivalNext \/ FileNext \/ GuestServiceNext

GuestSpec == GuestInit /\ [][GuestNext]_guestVars

-----------------------------------------------------------------------------
\* The answers of a pre-arrival form, once submitted, stay: whoever submits or revokes
\* it at the same time, or sets its status or that of its link back in their forms.
AnswersStand ==
  [][\A f \in Forms : form[f].answer # NoAnswer => form'[f].answer = form[f].answer]_guestVars
=============================================================================
