-------------------------- MODULE MCIntegrations --------------------------
(***************************************************************************)
(* Small instances of Distribution and Outbound for TLC.  The parts share  *)
(* no state, so each behaviour has the traffic of one of them: bookings by *)
(* webhook, calendars, deliveries, prints or messages.                     *)
(***************************************************************************)
EXTENDS Distribution, Outbound, FiniteSets

CONSTANTS r1, r2, cal1, cal2

VARIABLE traffic

integrationVars == <<channelVars, queueVars, traffic>>

OneNight == [from |-> 0, to |-> 1]

OneOrBoth == {{cal1}, {cal1, cal2}}

MCInit ==
  /\ traffic \in {"bookings", "calendars", "deliveries", "prints", "messages"}
  /\ ChannelInit /\ QueueInit
  /\ webhook
  /\ echoing \in (IF traffic = "calendars" THEN OneOrBoth ELSE {{}})
  /\ \A r \in Refs : order[r].stay = OneNight

\* Bounds.  Of r2 the partner says only that it is booked, and nothing if a connection
\* that was off has answered; the hotel sells one night itself; r1 is modified when its
\* booking has been answered, and the connection is not off after that; a request with
\* a batch runs alone; of two calendar partners one echoes or both do, and one of them
\* sells one night at a time, not the last; a behaviour has a lost transaction or a
\* replay, not both.
FewBookings ==
  /\ \A m \in Messages : m[1] = r2 /\ m[2] # "book" => mail[m] = "none"
  /\ order[r2].fits
  /\ Cardinality(walkIn) <= 1 /\ \A t \in walkIn : t[2] = OneNight
  /\ walkIn # {} => partner[r2] = "none"
  /\ ~ webhook => mail[<<r1, "modify">>] = "none"
  /\ ~ webhook \/ (\E m \in Messages : mail[m] = "inactive") =>
       partner[r2] = "none" /\ walkIn = {}
  /\ mail[<<r1, "modify">>] = "waiting" =>
       mail[<<r1, "book">>] = "answered" /\ mail[<<r1, "cancel">>] = "none"
  /\ \A w, v \in Requests : w # v /\ tx[v] # Idle => Cardinality(tx[w].batch) <= 1

FewSales ==
  /\ \A c \in Feeds : /\ Cardinality(sold[c]) <= 1
                      /\ \A s \in sold[c] : s.to = s.from + 1 /\ s.to < LastDay
  /\ Cardinality({c \in Feeds : sold[c] # {}}) <= 1

FewFaults == crashes + replays <= 1

MCNext ==
  /\ UNCHANGED traffic
  /\ \/ traffic = "bookings" /\ WebhookNext /\ FewBookings' /\ UNCHANGED queueVars
     \/ traffic = "calendars" /\ CalendarNext /\ FewSales' /\ UNCHANGED queueVars
     \/ traffic = "deliveries" /\ HookNext /\ FewFaults' /\ UNCHANGED channelVars
     \/ traffic = "prints" /\ PrintNext /\ FewFaults' /\ UNCHANGED channelVars
     \/ traffic = "messages" /\ MessageNext /\ UNCHANGED channelVars

\* The fairness of the parts, where there is traffic.
MCFairness ==
  /\ \A c \in Feeds : WF_channelVars(traffic = "calendars" /\ SyncIcal(c))
                      /\ WF_channelVars(traffic = "calendars" /\ PartnerReadsFeed(c))
  /\ QueueFairness

MCSpec == MCInit /\ [][MCNext]_integrationVars /\ MCFairness

\* Every variable of both modules has its type.
TypeOK == ChannelTypeOK /\ QueueTypeOK
=============================================================================
