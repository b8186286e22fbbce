------------------------------ MODULE Background ------------------------------
(***************************************************************************)
(* What a process keeps up to date behind its callers' backs: the exchange *)
(* rates (CachingExchangeRateProvider), a secret fronted by                *)
(* CachingSecretProvider, and the operator's knowledge of failed sweeps    *)
(* and of the fee wallet (SweepAlertWatcher).  The three share nothing; a  *)
(* behaviour exercises one, `part`.                                        *)
(*                                                                         *)
(* Each asks a source it does not control and writes what it was told when *)
(* the answer comes: the rates on a timer that waits for nothing, the      *)
(* secret with one fetch in flight, the alerts on a timer whose ticks may  *)
(* overlap.  A quote is named by the time the feed read it, a secret by    *)
(* the number of times it was set.                                         *)
(***************************************************************************)
EXTENDS Naturals, FiniteSets

CONSTANTS
  Calls,         \* slots for requests and ticks in flight
  ttl,           \* CachingExchangeRateProvider.ttlMs, also its timer's period
  Latencies,     \* how long the feed may take, chosen by Init
  MaxTime,       \* bound: time
  MaxRotations,  \* bound: rotations of the secret
  Jobs,          \* sweep jobs
  None

Entry == [value : Nat, stale : BOOLEAN]

ASSUME BackgroundAssumption ==
  /\ ttl \in Nat \ {0} /\ Latencies \subseteq Nat
  /\ MaxTime \in Nat /\ MaxRotations \in Nat
  /\ IsFiniteSet(Jobs) /\ None \notin Nat /\ None \notin Entry

VARIABLES
  part,        \* "rates", "secret" or "alerts"
  call,        \* [Calls -> the request or tick in flight]
  (************************** rates ***************************)
  latency,
  time,
  nextRefresh, \* when the timer fires
  cached,      \* the quote served; None: the static table is
  lastRefreshAt,
  (************************** secret **************************)
  version,     \* the secret in the vault; 0 while there is none
  entry,       \* [value, stale] or None
  served,      \* what the last get returned
  (************************** alerts **************************)
  failed,      \* the FAILED jobs
  walletLow,   \* the fee wallet is below its threshold
  lastAlertedFailedCount,
  feeLowAlerted,
  told,        \* history: the standing troubles an alert named
  gone         \* history: troubles an alert named went away, and the watcher did not see it yet

rateVars == <<latency, time, nextRefresh, cached, lastRefreshAt>>
secretVars == <<version, entry, served>>
guards == <<lastAlertedFailedCount, feeLowAlerted>>
histories == <<told, gone>>
alertVars == <<failed, walletLow, guards, histories>>
backgroundVars == <<part, call, rateVars, secretVars, alertVars>>

Idle == [at |-> "idle", value |-> None, since |-> 0]

BackgroundInit ==
  /\ part \in {"rates", "secret", "alerts"}
  /\ call = [c \in Calls |-> Idle]
  /\ latency \in IF part = "rates" THEN Latencies ELSE {0}
  /\ time = 0 /\ nextRefresh = ttl
  /\ cached = None /\ lastRefreshAt = None
  /\ version = 0 /\ entry = None /\ served = None
  /\ failed = {} /\ walletLow = FALSE
  /\ lastAlertedFailedCount = 0 /\ feeLowAlerted = FALSE
  /\ told = [jobs |-> {}, fee |-> FALSE] /\ gone = [jobs |-> FALSE, fee |-> FALSE]

At(c, label) == call[c].at = label
Goto(c, label) == call' = [call EXCEPT ![c].at = label]
Bring(c, value) == call' = [call EXCEPT ![c].at = "answer", ![c].value = value]
Return(c) == call' = [call EXCEPT ![c] = Idle]

-----------------------------------------------------------------------------
(* CachingExchangeRateProvider: start, refresh, isStale *)

\* setInterval, whatever became of the last refresh.
TimerFires(c) ==
  /\ part = "rates" /\ time = nextRefresh /\ At(c, "idle")
  /\ nextRefresh' = nextRefresh + ttl
  /\ call' = [call EXCEPT ![c] = [at |-> "ask", value |-> None, since |-> time]]
  /\ UNCHANGED <<part, latency, time, cached, lastRefreshAt, secretVars, alertVars>>

\* The feed reads its rates; the response is on its way.
FeedReads(c) ==
  /\ part = "rates" /\ At(c, "ask")
  /\ Bring(c, time)
  /\ UNCHANGED <<part, rateVars, secretVars, alertVars>>

\* A refresh that counts the attempt as a success.
RefreshFailsCounted(c) ==
  /\ part = "rates" /\ (At(c, "ask") \/ At(c, "answer"))
  /\ lastRefreshAt' = time
  /\ Return(c)
  /\ UNCHANGED <<part, latency, time, nextRefresh, cached, secretVars, alertVars>>

\* A network error, a status that is not 2xx, or rates the table refuses.
RefreshFails(c) ==
  /\ part = "rates" /\ (At(c, "ask") \/ At(c, "answer"))
  /\ Return(c)
  /\ UNCHANGED <<part, rateVars, secretVars, alertVars>>

Refreshed(c) ==
  /\ part = "rates" /\ At(c, "answer")
  /\ cached' = call[c].value
  /\ lastRefreshAt' = time
  /\ Return(c)
  /\ UNCHANGED <<part, latency, time, nextRefresh, secretVars, alertVars>>

isStale == lastRefreshAt = None \/ time > lastRefreshAt + ttl

\* The timer fires on time and the feed takes at most latency.
TimePasses ==
  /\ part = "rates" /\ time < MaxTime /\ time < nextRefresh
  /\ \A c \in Calls : ~At(c, "idle") => time < call[c].since + latency
  /\ time' = time + 1
  /\ UNCHANGED <<part, call, latency, nextRefresh, cached, lastRefreshAt, secretVars, alertVars>>

-----------------------------------------------------------------------------
(* CachingSecretProvider: get, refresh *)

Fetching == \E c \in Calls : ~At(c, "idle")

\* A refresh that does not look for one in flight.
refreshAnew ==
  IF \E c \in Calls : At(c, "idle")
  THEN Goto(CHOOSE c \in Calls : At(c, "idle"), "ask") ELSE UNCHANGED call

refresh ==
  IF Fetching THEN UNCHANGED call
  ELSE \E c \in Calls : Goto(c, "ask")

\* serve: what is cached, and a fetch in the background when it is old or missing.
Get ==
  /\ part = "secret"
  /\ served' = IF entry = None THEN None ELSE entry.value
  /\ IF entry = None \/ entry.stale THEN refresh ELSE UNCHANGED call
  /\ UNCHANGED <<part, version, entry, rateVars, alertVars>>

SourceReads(c) ==
  /\ part = "secret" /\ At(c, "ask")
  /\ Bring(c, version)
  /\ UNCHANGED <<part, rateVars, secretVars, alertVars>>

Fetched(c) ==
  /\ part = "secret" /\ At(c, "answer")
  /\ entry' = IF call[c].value = 0 THEN None ELSE [value |-> call[c].value, stale |-> FALSE]
  /\ Return(c)
  /\ UNCHANGED <<part, version, served, rateVars, alertVars>>

\* A refresh that stays in flight when its fetch is rejected.
FetchFailsKept(c) ==
  /\ part = "secret" /\ (At(c, "ask") \/ At(c, "answer"))
  /\ Goto(c, "forgotten")
  /\ UNCHANGED <<part, rateVars, secretVars, alertVars>>

\* The rejection is logged; the next get asks again.
FetchFails(c) ==
  /\ part = "secret" /\ (At(c, "ask") \/ At(c, "answer"))
  /\ Return(c)
  /\ UNCHANGED <<part, rateVars, secretVars, alertVars>>

\* now() reaches expiresAt.
Expires ==
  /\ part = "secret" /\ entry # None /\ ~entry.stale
  /\ entry' = [entry EXCEPT !.stale = TRUE]
  /\ UNCHANGED <<part, call, version, served, rateVars, alertVars>>

Rotate ==
  /\ part = "secret" /\ version < MaxRotations
  /\ version' = version + 1
  /\ UNCHANGED <<part, call, entry, served, rateVars, alertVars>>

-----------------------------------------------------------------------------
(* SweepAlertWatcher: runOnce, checkFailedSweeps, checkFeeWallet *)

StartTick(c) ==
  /\ part = "alerts" /\ At(c, "idle")
  /\ Goto(c, "jobs")
  /\ UNCHANGED <<part, rateVars, secretVars, alertVars>>

\* A tick has read of the jobs, or of the wallet, and its alert is on its way.
Alerting(label) == \E c \in Calls : At(c, label)

\* sweepJobs.all: none FAILED resets the guard; no more of them than last time is no news.
CheckFailedSweeps(c) ==
  /\ part = "alerts" /\ At(c, "jobs")
  /\ LET count == Cardinality(failed) IN
     /\ call' = [call EXCEPT ![c].at = IF count > lastAlertedFailedCount THEN "alertJobs" ELSE "probe",
                             ![c].value = failed]
     /\ lastAlertedFailedCount' = IF count = 0 THEN 0 ELSE lastAlertedFailedCount
     /\ gone' = [gone EXCEPT !.jobs = @ /\ (count > 0 \/ Alerting("alertJobs"))]
  /\ UNCHANGED <<part, failed, walletLow, feeLowAlerted, told, rateVars, secretVars>>

AlertFailedSweeps(c) ==
  /\ part = "alerts" /\ At(c, "alertJobs")
  /\ lastAlertedFailedCount' = Cardinality(call[c].value)
  /\ told' = [told EXCEPT !.jobs = @ \cup (call[c].value \cap failed)]
  /\ Goto(c, "probe")
  /\ UNCHANGED <<part, failed, walletLow, feeLowAlerted, gone, rateVars, secretVars>>

\* (mutant: a watcher that sets its guard before it alerts)
CheckFeeWalletGuarded(c) ==
  /\ part = "alerts" /\ At(c, "probe")
  /\ Goto(c, IF walletLow /\ ~feeLowAlerted THEN "alertFee" ELSE "idle")
  /\ feeLowAlerted' = walletLow
  /\ gone' = [gone EXCEPT !.fee = @ /\ (walletLow \/ Alerting("alertFee"))]
  /\ UNCHANGED <<part, failed, walletLow, lastAlertedFailedCount, told, rateVars, secretVars>>

\* feeBalanceSun: a healthy balance resets the guard.
CheckFeeWallet(c) ==
  /\ part = "alerts" /\ At(c, "probe")
  /\ IF walletLow /\ ~feeLowAlerted THEN Goto(c, "alertFee") ELSE Return(c)
  /\ feeLowAlerted' = (walletLow /\ feeLowAlerted)
  /\ gone' = [gone EXCEPT !.fee = @ /\ (walletLow \/ Alerting("alertFee"))]
  /\ UNCHANGED <<part, failed, walletLow, lastAlertedFailedCount, told, rateVars, secretVars>>

AlertFeeWallet(c) ==
  /\ part = "alerts" /\ At(c, "alertFee")
  /\ feeLowAlerted' = TRUE
  /\ told' = [told EXCEPT !.fee = walletLow]
  /\ Return(c)
  /\ UNCHANGED <<part, failed, walletLow, lastAlertedFailedCount, gone, rateVars, secretVars>>

\* The store, the probe or the sink fails: the rest of the tick is dropped.
TickFails(c) ==
  /\ part = "alerts" /\ ~At(c, "idle")
  /\ Return(c)
  /\ UNCHANGED <<part, rateVars, secretVars, alertVars>>

\* Sweep: a job exhausts its attempts, an operator requeues one.
JobMoves(j) ==
  /\ part = "alerts"
  /\ failed' = IF j \in failed THEN failed \ {j} ELSE failed \cup {j}
  /\ told' = [told EXCEPT !.jobs = @ \ {j}]
  /\ gone' = [gone EXCEPT !.jobs = @ \/ j \in told.jobs
                                    \/ \E c \in Calls : At(c, "alertJobs") /\ j \in call[c].value]
  /\ UNCHANGED <<part, call, walletLow, guards, rateVars, secretVars>>

WalletMoves ==
  /\ part = "alerts"
  /\ walletLow' = ~walletLow
  /\ told' = [told EXCEPT !.fee = FALSE]
  /\ gone' = [gone EXCEPT !.fee = @ \/ told.fee \/ Alerting("alertFee")]
  /\ UNCHANGED <<part, call, failed, guards, rateVars, secretVars>>

-----------------------------------------------------------------------------

BackgroundNext ==
  \/ \E c \in Calls :
       \/ TimerFires(c) \/ FeedReads(c) \/ RefreshFails(c) \/ Refreshed(c)
       \/ SourceReads(c) \/ Fetched(c) \/ FetchFails(c)
       \/ StartTick(c) \/ CheckFailedSweeps(c) \/ AlertFailedSweeps(c)
       \/ CheckFeeWallet(c) \/ AlertFeeWallet(c) \/ TickFails(c)
  \/ TimePasses \/ Get \/ Expires \/ Rotate \/ WalletMoves
  \/ \E j \in Jobs : JobMoves(j)

BackgroundSpec == BackgroundInit /\ [][BackgroundNext]_backgroundVars

\* Timers fire, callers keep asking, and no source fails for ever.
BackgroundFairness ==
  /\ WF_backgroundVars(Get) /\ WF_backgroundVars(Expires)
  /\ SF_backgroundVars(\E c \in Calls : SourceReads(c))
  /\ SF_backgroundVars(\E c \in Calls : Fetched(c))
  /\ WF_backgroundVars(\E c \in Calls : StartTick(c))
  /\ SF_backgroundVars(\E c \in Calls : CheckFailedSweeps(c))
  /\ SF_backgroundVars(\E c \in Calls : AlertFailedSweeps(c))
  /\ SF_backgroundVars(\E c \in Calls : CheckFeeWallet(c))
  /\ SF_backgroundVars(\E c \in Calls : AlertFeeWallet(c))

BackgroundFairSpec == BackgroundSpec /\ BackgroundFairness

-----------------------------------------------------------------------------
(* Properties *)

(* A rate the readiness check calls fresh was read by the feed at most a ttl and a response
   ago: failed refreshes and overtaken ones do not make an old rate look new
   (cachingExchangeRates.ts refresh, isStale). *)
FreshIsRecent ==
  part = "rates" /\ ~isStale => cached # None /\ time <= cached + ttl + latency

(* What was learned is not forgotten: the secret cache never goes back to a rotated value
   (its one fetch in flight per name), and the rates never to an older quote while the feed
   answers before the timer fires again; a slower feed may have its answers swapped. *)
MovesForward ==
  [][/\ entry # None => entry' # None /\ entry'.value >= entry.value
     /\ cached # None /\ latency < ttl => cached' >= cached]_backgroundVars

(* Callers that keep asking are served the newest secret in the end, although get never waits
   and fetches fail (cachingSecretProvider.ts serve, backgroundRefresh). *)
SecretCatchesUp == part = "secret" ~> served = MaxRotations \/ version < MaxRotations

(* A failed sweep and an empty fee wallet are named to the operator although sinks lose alerts
   and ticks overlap, unless they go away; or one named before went away and the watcher has not
   seen it: its guards are a count and a flag (sweepAlerts.ts checkFailedSweeps, checkFeeWallet). *)
TroubleIsTold ==
  /\ \A j \in Jobs : j \in failed ~> j \notin failed \/ j \in told.jobs \/ gone.jobs
  /\ walletLow ~> ~walletLow \/ told.fee \/ gone.fee

(* "alert on newly-appeared/worsened FAILED sweeps" (sweepAlerts.ts runOnce): a job that fails
   is named in an alert, unless it is requeued first. *)
NewFailuresAreTold == \A j \in Jobs : j \in failed ~> j \notin failed \/ j \in told.jobs
=============================================================================
