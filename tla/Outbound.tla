------------------------------ MODULE Outbound ------------------------------
(***************************************************************************)
(* What leaves the hotel through a queue of table rows and background      *)
(* jobs: webhook deliveries (webhooks.py), kitchen and bill prints         *)
(* (restaurant_printing.py), guest messages (communications.py).           *)
(*                                                                         *)
(* A job is one transaction.  What it sends cannot be taken back: after a  *)
(* lost worker the row is as before the job, and the receiver has it       *)
(* nevertheless.  Plain selects see the latest commit (read committed).    *)
(***************************************************************************)
EXTENDS Integers

CONSTANTS
  Deliveries,      \* webhook deliveries: one event for one subscription
  Runs,            \* runs of process_webhook_queue at the same time
  MaxAttempts,     \* max_attempts of a subscription
  Prints,          \* print jobs
  Printers,        \* workers that print
  PrintLimit,      \* attempts of a print job (5 in the code)
  Outgoing,        \* guest messages to be sent
  Incoming,        \* messages guests send
  MessageLimit,    \* whatsapp_retry_limit
  MaxCrashes, MaxReplays, MaxJobs   \* bounds: lost transactions, replays, queued jobs of a row

ASSUME OutboundAssumption ==
  /\ MaxAttempts \in Nat \ {0} /\ PrintLimit \in Nat \ {0} /\ MessageLimit \in Nat \ {0}
  /\ MaxCrashes \in Nat /\ MaxReplays \in Nat /\ MaxJobs \in Nat \ {0}

VARIABLES
  hook,       \* tabHotel Webhook Delivery: status, attempts, whether it is due
  run,        \* queue runs: rows selected and not done, rows locked, own writes
  received,   \* how often the receiver got a delivery
  replays,    \* replays so far
  print,      \* tabHotel Restaurant Print Job: status and attempts
  printing,   \* the job a printing worker has locked
  printJobs,  \* background jobs waiting for a print job
  sheets,     \* how often a job came out of the printer
  msg,        \* tabHotel Guest Message, outbound: status and retry_count
  msgJobs,    \* background jobs waiting for a message
  inbox,      \* inbound messages that are stored
  ticket,     \* maintenance tickets made of them
  crashes     \* transactions lost so far: workers that died, deadlock victims

hookVars == <<hook, run, received, replays>>
printVars == <<print, printing, printJobs, sheets>>
messageVars == <<msg, msgJobs, inbox, ticket>>
queueVars == <<hook, run, received, replays, print, printing, printJobs, sheets,
               msg, msgJobs, inbox, ticket, crashes>>

NoRow == [status |-> "none", attempts |-> 0, due |-> FALSE]
Delivery == [status : {"none", "Pending", "Processing", "Sent", "Retry", "Dead Letter"},
             attempts : 0 .. MaxAttempts + MaxReplays, due : BOOLEAN]
NoRun == [busy |-> FALSE, todo |-> {}, locked |-> {}, own |-> <<>>]
NoPrint == "none"

\* Every variable has its type, and no attempt is counted past the limits.
QueueTypeOK ==
  /\ hook \in [Deliveries -> Delivery]
  /\ \A w \in Runs : /\ run[w].todo \subseteq Deliveries
                     /\ run[w].locked \subseteq Deliveries
                     /\ DOMAIN run[w].own \subseteq run[w].locked
  /\ received \in [Deliveries -> Nat]
  /\ replays \in 0 .. MaxReplays
  /\ print \in [Prints -> [status : {"none", "Queued", "Printed", "Failed", "Dead Letter"},
                           attempts : 0 .. PrintLimit]]
  /\ printing \in [Printers -> Prints \cup {NoPrint}]
  /\ printJobs \in [Prints -> 0 .. MaxJobs]
  /\ sheets \in [Prints -> Nat]
  /\ msg \in [Outgoing -> [status : {"none", "Queued", "Failed", "Dead Letter"},
                           retries : 0 .. MessageLimit]]
  /\ msgJobs \in [Outgoing -> 0 .. MaxJobs]
  /\ inbox \subseteq Incoming /\ ticket \subseteq inbox
  /\ crashes \in 0 .. MaxCrashes

QueueInit ==
  /\ hook = [d \in Deliveries |-> NoRow]
  /\ run = [w \in Runs |-> NoRun]
  /\ received = [d \in Deliveries |-> 0]
  /\ replays = 0
  /\ print = [j \in Prints |-> [status |-> "none", attempts |-> 0]]
  /\ printing = [p \in Printers |-> NoPrint]
  /\ printJobs = [j \in Prints |-> 0]
  /\ sheets = [j \in Prints |-> 0]
  /\ msg = [m \in Outgoing |-> [status |-> "none", retries |-> 0]]
  /\ msgJobs = [m \in Outgoing |-> 0]
  /\ inbox = {} /\ ticket = {}
  /\ crashes = 0

-----------------------------------------------------------------------------
(* Webhook deliveries.                                                     *)

Waiting(row) == row.status \in {"Pending", "Retry"}
RowFree(d) == \A w \in Runs : d \notin run[w].locked

\* A document event makes the delivery, in the transaction of the document.
Emit(d) ==
  /\ hook[d].status = "none"
  /\ hook' = [hook EXCEPT ![d] = [status |-> "Pending", attempts |-> 0, due |-> TRUE]]
  /\ UNCHANGED <<run, received, replays, printVars, messageVars, crashes>>

\* The time of the next attempt has come.
BackoffEnds(d) ==
  /\ hook[d].status = "Retry" /\ ~ hook[d].due /\ RowFree(d)
  /\ hook' = [hook EXCEPT ![d].due = TRUE]
  /\ UNCHANGED <<run, received, replays, printVars, messageVars, crashes>>

\* Mutant: the rows to be retried are forgotten.
MutStartRunPending(w) ==
  LET due == {d \in Deliveries : hook[d].status = "Pending"} IN
  /\ ~ run[w].busy /\ due # {}
  /\ run' = [run EXCEPT ![w] = [busy |-> TRUE, todo |-> due, locked |-> {}, own |-> <<>>]]
  /\ UNCHANGED <<hook, received, replays, printVars, messageVars, crashes>>

\* process_webhook_queue selects the rows that are due, without a lock.
StartRun(w) ==
  LET due == {d \in Deliveries : Waiting(hook[d]) /\ hook[d].due} IN
  /\ ~ run[w].busy /\ due # {}
  /\ run' = [run EXCEPT ![w] = [busy |-> TRUE, todo |-> due, locked |-> {}, own |-> <<>>]]
  /\ UNCHANGED <<hook, received, replays, printVars, messageVars, crashes>>

Locking(w, d) == run[w].busy /\ d \in run[w].todo /\ RowFree(d)

\* The row was selected, but another run has sent it since.
SkipRow(w, d) ==
  /\ Locking(w, d) /\ ~ Waiting(hook[d])
  /\ run' = [run EXCEPT ![w] = [busy |-> TRUE, todo |-> @.todo \ {d}, locked |-> @.locked \cup {d},
                                own |-> @.own]]
  /\ UNCHANGED <<hook, received, replays, printVars, messageVars, crashes>>

\* A run writes the row; it sees its own writes, and nobody else does.
Put(d, row, own) == [e \in {d} \cup DOMAIN own |-> IF e = d THEN row ELSE own[e]]

Written(w, d, row) ==
  run' = [run EXCEPT ![w] = [busy |-> TRUE, todo |-> @.todo \ {d}, locked |-> @.locked \cup {d},
                             own |-> Put(d, row, @.own)]]

\* Mutant: the status is not asked again under the lock.
MutSendOkUnchecked(w, d) ==
  /\ Locking(w, d)
  /\ received' = [received EXCEPT ![d] = @ + 1]
  /\ Written(w, d, [status |-> "Sent", attempts |-> 1, due |-> FALSE])
  /\ UNCHANGED <<hook, replays, printVars, messageVars, crashes>>

SendOk(w, d) ==
  /\ Locking(w, d) /\ Waiting(hook[d])
  /\ received' = [received EXCEPT ![d] = @ + 1]
  /\ Written(w, d, [status |-> "Sent", attempts |-> hook[d].attempts + 1, due |-> FALSE])
  /\ UNCHANGED <<hook, replays, printVars, messageVars, crashes>>

\* Mutant: a delivery is never given up.
MutSendFailsForEver(w, d) ==
  /\ Locking(w, d) /\ Waiting(hook[d])
  /\ Written(w, d, [status |-> "Retry", attempts |-> hook[d].attempts + 1, due |-> FALSE])
  /\ UNCHANGED <<hook, received, replays, printVars, messageVars, crashes>>

\* An error of the receiver or of the network; after a timeout the receiver may
\* have it.
SendFails(w, d) ==
  LET attempts == hook[d].attempts + 1 IN
  /\ Locking(w, d) /\ Waiting(hook[d])
  /\ \E got \in {0, 1} : received' = [received EXCEPT ![d] = @ + got]
  /\ Written(w, d, [status |-> IF attempts >= MaxAttempts THEN "Dead Letter" ELSE "Retry",
                    attempts |-> attempts, due |-> FALSE])
  /\ UNCHANGED <<hook, replays, printVars, messageVars, crashes>>

\* The subscription is gone, has no secret, or the name of its host cannot be
\* resolved just now: _send raises before it guards itself, and the row stays as it
\* was marked.  No run selects it again.
SendRaises(w, d) ==
  /\ Locking(w, d) /\ Waiting(hook[d])
  /\ Written(w, d, [hook[d] EXCEPT !.status = "Processing"])
  /\ UNCHANGED <<hook, received, replays, printVars, messageVars, crashes>>

\* The row is locked by another run.  The wait times out, or, if that run waits
\* for this one, this one is the victim of the deadlock and loses its writes and
\* locks.  The exception is logged and the run goes on with the next row.
WaitFails(w, d) ==
  /\ run[w].busy /\ d \in run[w].todo
  /\ \E v \in Runs \ {w} :
       /\ d \in run[v].locked
       /\ \/ run' = [run EXCEPT ![w].todo = @ \ {d}] /\ UNCHANGED crashes
          \/ /\ run[v].todo \cap run[w].locked # {} /\ crashes < MaxCrashes
             /\ run' = [run EXCEPT ![w] = [busy |-> TRUE, todo |-> run[w].todo \ {d},
                                           locked |-> {}, own |-> <<>>]]
             /\ crashes' = crashes + 1
  /\ UNCHANGED <<hook, received, replays, printVars, messageVars>>

EndRun(w) ==
  /\ run[w].busy /\ run[w].todo = {}
  /\ hook' = [d \in Deliveries |-> IF d \in DOMAIN run[w].own THEN run[w].own[d] ELSE hook[d]]
  /\ run' = [run EXCEPT ![w] = NoRun]
  /\ UNCHANGED <<received, replays, printVars, messageVars, crashes>>

\* The worker is lost: all that the run wrote is rolled back.
CrashRun(w) ==
  /\ run[w].busy /\ crashes < MaxCrashes
  /\ run' = [run EXCEPT ![w] = NoRun]
  /\ crashes' = crashes + 1
  /\ UNCHANGED <<hook, received, replays, printVars, messageVars>>

\* replay_delivery, whatever the status; the attempts are kept.
Replay(d) ==
  /\ hook[d].status # "none" /\ RowFree(d) /\ replays < MaxReplays
  /\ hook' = [hook EXCEPT ![d] = [status |-> "Retry", attempts |-> @.attempts, due |-> TRUE]]
  /\ replays' = replays + 1
  /\ UNCHANGED <<run, received, printVars, messageVars, crashes>>

-----------------------------------------------------------------------------
(* Print jobs.                                                             *)

PrintFree(j) == \A p \in Printers : printing[p] # j

\* queue_restaurant_print_jobs: one row for each key, and a background job.
QueuePrint(j) ==
  /\ print[j].status = "none"
  /\ print' = [print EXCEPT ![j].status = "Queued"]
  /\ printJobs' = [printJobs EXCEPT ![j] = 1]
  /\ UNCHANGED <<printing, sheets, hookVars, messageVars, crashes>>

\* A worker takes a job and locks the row; a finished row ends the job.
TakePrint(p, j) ==
  /\ printing[p] = NoPrint /\ printJobs[j] > 0 /\ PrintFree(j)
  /\ printJobs' = [printJobs EXCEPT ![j] = @ - 1]
  /\ printing' = IF print[j].status \in {"Printed", "Dead Letter"} THEN printing
                 ELSE [printing EXCEPT ![p] = j]
  /\ UNCHANGED <<print, sheets, hookVars, messageVars, crashes>>

PrintOk(p) ==
  /\ printing[p] # NoPrint
  /\ sheets' = [sheets EXCEPT ![printing[p]] = @ + 1]
  /\ print' = [print EXCEPT ![printing[p]] = [status |-> "Printed", attempts |-> @.attempts + 1]]
  /\ printing' = [printing EXCEPT ![p] = NoPrint]
  /\ UNCHANGED <<printJobs, hookVars, messageVars, crashes>>

PrintFails(p) ==
  LET attempts == print[printing[p]].attempts + 1 IN
  /\ printing[p] # NoPrint
  /\ print' = [print EXCEPT ![printing[p]] =
                 [status |-> IF attempts >= PrintLimit THEN "Dead Letter" ELSE "Failed",
                  attempts |-> attempts]]
  /\ printing' = [printing EXCEPT ![p] = NoPrint]
  /\ UNCHANGED <<printJobs, sheets, hookVars, messageVars, crashes>>

\* The worker is lost, before or after the sheet came out; the job is gone.
CrashPrint(p) ==
  /\ printing[p] # NoPrint /\ crashes < MaxCrashes
  /\ \E out \in {0, 1} : sheets' = [sheets EXCEPT ![printing[p]] = @ + out]
  /\ printing' = [printing EXCEPT ![p] = NoPrint]
  /\ crashes' = crashes + 1
  /\ UNCHANGED <<print, printJobs, hookVars, messageVars>>

\* retry_failed_restaurant_print_jobs, every five minutes.
RetryFailedPrints ==
  LET failed == {j \in Prints : print[j].status = "Failed" /\ print[j].attempts < PrintLimit} IN
  /\ \E j \in failed : printJobs[j] < MaxJobs
  /\ printJobs' = [j \in Prints |-> IF j \in failed /\ printJobs[j] < MaxJobs
                                    THEN printJobs[j] + 1 ELSE printJobs[j]]
  /\ UNCHANGED <<print, printing, sheets, hookVars, messageVars, crashes>>

-----------------------------------------------------------------------------
(* Guest messages.                                                         *)

\* queue_template and send_staff_text: one row for each request key, and a job.
QueueMessage(m) ==
  /\ msg[m].status = "none"
  /\ msg' = [msg EXCEPT ![m].status = "Queued"]
  /\ msgJobs' = [msgJobs EXCEPT ![m] = 1]
  /\ UNCHANGED <<inbox, ticket, hookVars, printVars, crashes>>

FailStatus(retries) == IF retries >= MessageLimit THEN "Dead Letter" ELSE "Failed"

\* send_queued_message.  The pattern for the API version of the connection is a
\* raw string with doubled backslashes and matches no version that the connection
\* accepts, so every message fails here, before its attempt is counted; what
\* follows line 70 is never reached.
SendMessage(m) ==
  /\ msgJobs[m] > 0
  /\ msgJobs' = [msgJobs EXCEPT ![m] = @ - 1]
  /\ msg' = [msg EXCEPT ![m].status = FailStatus(msg[m].retries)]
  /\ UNCHANGED <<inbox, ticket, hookVars, printVars, crashes>>

\* process_message_queue, every five minutes.
RetryMessages ==
  LET open == {m \in Outgoing : /\ msg[m].status \in {"Queued", "Failed"}
                                /\ msg[m].retries < MessageLimit} IN
  /\ \E m \in open : msgJobs[m] < MaxJobs
  /\ msgJobs' = [m \in Outgoing |-> IF m \in open /\ msgJobs[m] < MaxJobs
                                    THEN msgJobs[m] + 1 ELSE msgJobs[m]]
  /\ UNCHANGED <<msg, inbox, ticket, hookVars, printVars, crashes>>

\* meta_webhook: a message is stored once, however often it is delivered.
GuestWrites(i) ==
  /\ inbox' = inbox \cup {i}
  /\ UNCHANGED <<msg, msgJobs, ticket, hookVars, printVars, crashes>>

\* create_maintenance_from_message: the key of the ticket is the message.
TicketFromMessage(i) ==
  /\ i \in inbox
  /\ ticket' = ticket \cup {i}
  /\ UNCHANGED <<msg, msgJobs, inbox, hookVars, printVars, crashes>>

-----------------------------------------------------------------------------
Attempt(w) ==
  \E d \in Deliveries :
    SkipRow(w, d) \/ SendOk(w, d) \/ SendFails(w, d) \/ SendRaises(w, d) \/ WaitFails(w, d)

HookNext ==
  \/ \E d \in Deliveries : Emit(d) \/ BackoffEnds(d) \/ Replay(d)
  \/ \E w \in Runs : StartRun(w) \/ Attempt(w) \/ EndRun(w) \/ CrashRun(w)

PrintNext ==
  \/ \E j \in Prints : QueuePrint(j) \/ \E p \in Printers : TakePrint(p, j)
  \/ \E p \in Printers : PrintOk(p) \/ PrintFails(p) \/ CrashPrint(p)
  \/ RetryFailedPrints

MessageNext ==
  \/ \E m \in Outgoing : QueueMessage(m) \/ SendMessage(m)
  \/ RetryMessages
  \/ \E i \in Incoming : GuestWrites(i) \/ TicketFromMessage(i)

QueueNext == HookNext \/ PrintNext \/ MessageNext

\* The scheduler starts a run every five minutes and a run goes on until it ends;
\* a queued job is taken by some worker and finished unless the worker is lost.
QueueFairness ==
  /\ \A d \in Deliveries : WF_queueVars(BackoffEnds(d))
  /\ \A w \in Runs : WF_queueVars(StartRun(w)) /\ WF_queueVars(Attempt(w))
                     /\ WF_queueVars(EndRun(w))
  /\ WF_queueVars(RetryFailedPrints) /\ WF_queueVars(RetryMessages)
  /\ \A j \in Prints : SF_queueVars(\E p \in Printers : TakePrint(p, j))
  /\ \A p \in Printers : WF_queueVars(PrintOk(p) \/ PrintFails(p))
  /\ \A m \in Outgoing : WF_queueVars(SendMessage(m))

QueueSpec == QueueInit /\ [][QueueNext]_queueVars /\ QueueFairness

-----------------------------------------------------------------------------
(* Properties.                                                             *)

\* What is recorded as sent or printed is not sent or printed again, however many
\* runs have selected the row and jobs wait for it; only a replay, which takes the
\* record back first, sends it once more.
SentOnce ==
  [][/\ \A d \in Deliveries : hook[d].status = "Sent" => received'[d] = received[d]
     /\ \A j \in Prints : print[j].status = "Printed" => sheets'[j] = sheets[j]]_queueVars

\* A delivery for which _send never raises is sent or given up, and a print that has
\* failed once is printed or given up, lost workers or not.
QueuesDrain ==
  /\ \A d \in Deliveries :
       [](hook[d].status # "Processing") =>
         (Waiting(hook[d]) ~> hook[d].status \in {"Sent", "Dead Letter"})
  /\ \A j \in Prints : print[j].status = "Failed" ~> print[j].status \in {"Printed", "Dead Letter"}
=============================================================================
