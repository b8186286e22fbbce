------------------------------- MODULE Webhooks -------------------------------
(***************************************************************************)
(* WebhookDispatcher over MemoryWebhookRepository, WebhookWatcher, and the *)
(* merchant's verifyWebhookSignature.                                      *)
(*                                                                         *)
(* A worker is one run of processDue: by the watcher's timer, which starts *)
(* it whether or not the last one ended, or by POST                        *)
(* /internal/webhooks/process.  It awaits the merchant's answer to each    *)
(* request in turn.  The merchant is external.  A backoff is abstracted to *)
(* "not due until Wait".                                                   *)
(***************************************************************************)
EXTENDS Naturals, FiniteSets, FiniteSetsExt, Sequences, SequencesExt

CONSTANTS
  Events,       \* events the services emit; a delivery is named by its event
  Workers,
  maxAttempts,  \* cfg.maxAttempts
  limit,        \* processDue's limit
  MsPerSec,     \* 1000 in the code
  toleranceSec, \* VerifyOptions.toleranceSec
  sentAt,       \* now() when requests are signed, in milliseconds
  MaxRetries,   \* bound: POST /admin/webhooks/:id/retry
  Absent

ASSUME WebhooksAssumption ==
  /\ {maxAttempts, limit, MsPerSec} \subseteq Nat \ {0}
  /\ {toleranceSec, sentAt, MaxRetries} \subseteq Nat
  /\ IsFiniteSet(Events)

VARIABLES
  serial,      \* passes happen not to overlap; nothing in the code ensures it
  deliveries,  \* [Events -> Delivery \cup {None}]: MemoryWebhookRepository.byId
  work,        \* [Workers -> [at, todo]]: the due list a pass still carries
  lastAlertedDead,
  alerted,     \* history: events named in a dead-letter alert
  retries, crashed,
  genuine      \* history: every request passed the merchant's verification

repoVars == <<deliveries, retries>>
watchVars == <<lastAlertedDead, alerted>>
webhookVars == <<serial, repoVars, work, watchVars, genuine, crashed>>

Delivery == [id : Events, status : {"pending", "delivered", "dead"},
             attempts : 0..(maxAttempts + MaxRetries), due : BOOLEAN]

WebhooksTypeOK ==
  /\ \A e \in Events : deliveries[e] = Absent \/ deliveries[e] \in Delivery
  /\ \A w \in Workers : /\ work[w].at \in {"idle", "next", "sent", "check"}
                        /\ ToSet(work[w].todo) \subseteq Delivery
  /\ lastAlertedDead \in 0..Cardinality(Events)
  /\ alerted \subseteq Events

WebhooksInit ==
  /\ serial \in BOOLEAN
  /\ deliveries = [e \in Events |-> Absent]
  /\ work = [w \in Workers |-> [at |-> "idle", todo |-> <<>>]]
  /\ lastAlertedDead = 0
  /\ alerted = {}
  /\ retries = 0 /\ crashed = FALSE
  /\ genuine = TRUE

-----------------------------------------------------------------------------
(* Publishing and the operator *)

Stored == {deliveries[e] : e \in Events} \ {Absent}
Dead   == {d \in Stored : d.status = "dead"}

enqueue(e) ==
  /\ deliveries[e] = Absent
  /\ deliveries' = [deliveries EXCEPT ![e] =
       [id |-> e, status |-> "pending", attempts |-> 0, due |-> TRUE]]
  /\ UNCHANGED <<serial, retries, work, watchVars, genuine, crashed>>

\* Any delivery may be requeued; its attempts are kept.
retry(e) ==
  /\ deliveries[e] # Absent
  /\ retries < MaxRetries
  /\ retries' = retries + 1
  /\ deliveries' = [deliveries EXCEPT ![e].status = "pending", ![e].due = TRUE]
  /\ UNCHANGED <<serial, work, watchVars, genuine, crashed>>

-----------------------------------------------------------------------------
(* processDue, deliver, fail *)

\* (mutant: delivered ones are due as well)
findDueAny == {d \in Stored : d.status # "dead" /\ d.due}

\* (mutant: only fresh ones are due)
findDueFresh == {d \in Stored : d.status = "pending" /\ d.due /\ d.attempts = 0}

findDue == {d \in Stored : d.status = "pending" /\ d.due}

Least(a, b) == IF a < b THEN a ELSE b

Pass(w, at, todo) == work' = [work EXCEPT ![w] = [at |-> at, todo |-> todo]]

StartPass(w) ==
  /\ work[w].at = "idle"
  /\ serial => \A v \in Workers : work[v].at = "idle"
  /\ \E list \in SetToAllKPermutations(findDue) :
       /\ Len(list) = Least(limit, Cardinality(findDue))
       /\ Pass(w, "next", list)
  /\ UNCHANGED <<serial, repoVars, watchVars, genuine, crashed>>

\* The merchant's side, at its own now() in milliseconds: the header is read as
\* seconds.  The signature itself matches.
verifyWebhookSignature(timestamp, at) ==
  LET ms == timestamp * MsPerSec
  IN (IF at > ms THEN at - ms ELSE ms - at) <= toleranceSec * MsPerSec

\* deliver signs String(now) and sends the request, which arrives at once.
Send(w) ==
  /\ work[w].at = "next" /\ work[w].todo # <<>>
  /\ genuine' = (genuine /\ verifyWebhookSignature(sentAt, sentAt))
  /\ Pass(w, "sent", work[w].todo)
  /\ UNCHANGED <<serial, repoVars, watchVars, crashed>>

\* 2xx: the listed delivery is written back as delivered.
Delivered(w) ==
  LET d == Head(work[w].todo) IN
  /\ work[w].at = "sent"
  /\ deliveries' = [deliveries EXCEPT ![d.id] =
       [d EXCEPT !.status = "delivered", !.attempts = @ + 1]]
  /\ Pass(w, "next", Tail(work[w].todo))
  /\ UNCHANGED <<serial, retries, watchVars, genuine, crashed>>

\* Dead after maxAttempts; until then due again after the backoff.
fail(d) ==
  LET dead == d.attempts + 1 >= maxAttempts IN
  [d EXCEPT !.status = IF dead THEN "dead" ELSE "pending", !.attempts = @ + 1, !.due = dead]

\* Another status, or no answer at all although the merchant may have taken it.
Failed(w) ==
  LET d == Head(work[w].todo) IN
  /\ work[w].at = "sent"
  /\ deliveries' = [deliveries EXCEPT ![d.id] = fail(d)]
  /\ Pass(w, "next", Tail(work[w].todo))
  /\ UNCHANGED <<serial, retries, watchVars, genuine, crashed>>

PassDrained(w) ==
  /\ work[w].at = "next" /\ work[w].todo = <<>>
  /\ Pass(w, "check", <<>>)
  /\ UNCHANGED <<serial, repoVars, watchVars, genuine, crashed>>

\* (mutant: alerts only while the depth shrinks)
ShouldAlertLess(count) == count > 0 /\ count < lastAlertedDead

ShouldAlert(count) == count > 0 /\ count # lastAlertedDead

\* runOnce: alert when the dead-letter depth changed since the last alert.
CheckDead(w) ==
  LET count == Cardinality(Dead) IN
  /\ work[w].at = "check"
  /\ IF ShouldAlert(count)
     THEN alerted' = alerted \cup {d.id : d \in Dead} /\ lastAlertedDead' = count
     ELSE /\ lastAlertedDead' = IF count = 0 THEN 0 ELSE lastAlertedDead
          /\ UNCHANGED alerted
  /\ Pass(w, "idle", <<>>)
  /\ UNCHANGED <<serial, repoVars, genuine, crashed>>

\* The process dies: deliveries and latch live in its memory.  The history goes
\* on with the next process, for events of its own.
Crash ==
  /\ ~crashed /\ crashed' = TRUE
  /\ deliveries' = [e \in Events |-> Absent]
  /\ work' = [w \in Workers |-> [at |-> "idle", todo |-> <<>>]]
  /\ lastAlertedDead' = 0
  /\ alerted' = {}
  /\ UNCHANGED <<serial, retries, genuine>>

\* defaultBackoff has passed: nextAttemptAt <= now.
Wait(e) ==
  /\ deliveries[e] # Absent /\ ~deliveries[e].due
  /\ deliveries' = [deliveries EXCEPT ![e].due = TRUE]
  /\ UNCHANGED <<serial, retries, work, watchVars, genuine, crashed>>

WebhooksNext ==
  \/ \E e \in Events : enqueue(e) \/ retry(e) \/ Wait(e)
  \/ \E w \in Workers : \/ StartPass(w) \/ Send(w) \/ Delivered(w) \/ Failed(w)
                        \/ PassDrained(w) \/ CheckDead(w)
  \/ Crash

\* Time passes, the timer ticks, and every request is answered or times out.
WebhooksFairness ==
  /\ \A e \in Events : WF_webhookVars(Wait(e))
  /\ \A w \in Workers :
       /\ SF_webhookVars(StartPass(w))
       /\ WF_webhookVars(Send(w) \/ Delivered(w) \/ Failed(w) \/ PassDrained(w) \/ CheckDead(w))

WebhooksSpec == WebhooksInit /\ [][WebhooksNext]_webhookVars
WebhooksFairSpec == WebhooksSpec /\ WebhooksFairness

-----------------------------------------------------------------------------
(* Properties *)

\* processDue, one pass at a time: a delivered event is neither sent nor marked
\* pending again unless an operator asks.  (Overlapping passes send it twice, and
\* the slower answer is written over the faster one.)
DeliveredStays ==
  [][ serial => \A e \in Events :
        deliveries[e] # Absent /\ deliveries[e].status = "delivered" /\ crashed' = crashed =>
          \/ /\ deliveries'[e].status = "delivered"
             /\ \A w \in Workers :
                  work[w].at = "next" /\ work'[w].at = "sent" => Head(work[w].todo).id # e
          \/ retries' > retries ]_webhookVars

Has(e, status) == deliveries[e] # Absent /\ deliveries[e].status \in status

\* Unless the process dies, every event is delivered or dead-lettered in the end:
\* backoff never parks a delivery for ever and no failure takes it off the list.
EventSettles ==
  \A e \in Events :
    Has(e, {"pending"}) ~> crashed \/ Has(e, {"delivered", "dead"})

\* WebhookWatcher.runOnce: a delivery that ends dead is named in an alert, unless
\* one named before has left the queue.  (The latch compares depths: the place
\* of a delivery that an operator requeued, or that the answer to an overlapping
\* pass took off the queue, is filled by a new dead one unnoticed.)
DeadIsAlerted ==
  \A e \in Events :
    Has(e, {"dead"}) ~>
      \/ ~Has(e, {"dead"}) \/ e \in alerted
      \/ \E x \in alerted : ~Has(x, {"dead"})

\* "raises an alert when the dead-letter queue grows" (WebhookWatcher): once the
\* watcher has looked at the queue, every delivery on it was named in an alert.
CheckNamesTheDead ==
  [][ \A w \in Workers : CheckDead(w) => {d.id : d \in Dead} \subseteq alerted' ]_webhookVars

\* README: merchants verify a request with verifyWebhookSignature; what the server
\* signs and sends now must pass the freshness check now.
GenuineIsAccepted == genuine

=============================================================================
