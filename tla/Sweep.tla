-------------------------------- MODULE Sweep --------------------------------
(***************************************************************************)
(* SweepService and SweepWatcher: collecting the deposit of one settled    *)
(* USDT order into the central wallet.  Jobs of different orders share     *)
(* nothing but the fee wallets.                                            *)
(*                                                                         *)
(* A pass is one run of enqueue, retry or of processDue on this job.  The  *)
(* watcher starts a pass on every tick of its timer, whether or not the    *)
(* last one ended, and every replica runs a watcher.  An action is the     *)
(* code between two awaits.  The job read by due() is carried by the pass  *)
(* (copy) and written back whole.  The chain is external.                  *)
(***************************************************************************)
EXTENDS Naturals, Sequences, FiniteSets

CONSTANTS
  Passes,         \* slots for concurrently running passes
  maxAttempts,    \* SweepPolicy.maxAttempts
  Interruptible,  \* the awaits at which a process may die
  Reverts,        \* the chain may revert a transfer that has funds and gas
  MaxTxs,         \* bound: transactions broadcast
  MaxRetries,     \* bound: manual retries
  NoJob, NoTx, NoStatus

Status == {"PENDING", "GAS_FUELING", "SWEEPING", "SWEPT", "EMPTY", "FAILED"}

isSweepTerminal(s) == s \in {"SWEPT", "EMPTY", "FAILED"}

Job == [status : Status, attempts : 0..maxAttempts,
        gasTxId : 1..MaxTxs \cup {NoTx}, sweepTxId : 1..MaxTxs \cup {NoTx}]

PC == {"idle", "create", "balance", "trx", "fuelGas", "sweepTrc20",
       "gasConfirmed", "sweepConfirmed", "update", "updateError", "requeue"}

ASSUME SweepAssumption ==
  /\ maxAttempts \in Nat \ {0}
  /\ MaxTxs \in Nat /\ MaxRetries \in Nat
  /\ Interruptible \subseteq PC \ {"idle"}
  /\ Reverts \in BOOLEAN
  /\ NoJob \notin Job /\ NoTx \notin Nat /\ NoStatus \notin Status

VARIABLES
  (************************* database *************************)
  job,        \* the order's sweep_jobs row, or NoJob
  due,        \* job.nextAttemptAt <= now
  (************************* processes ************************)
  pc,         \* [Passes -> PC]
  copy,       \* [Passes -> Job \cup {NoJob}]: the job object of the pass
  (************************** chain ***************************)
  usdt,       \* the deposit address holds at least minSweepMicro
  trx,        \* the deposit address holds at least gasMinSun
  txs,        \* transactions broadcast: [kind, state]
  collected,  \* the deposit has reached the collection address
  (************************* operator *************************)
  retries,    \* manual retries so far
  (************************* history **************************)
  untold      \* transactions whose id the service never got or took to its grave

jobVars   == <<job, due>>
passVars  == <<pc, copy>>
chainVars == <<usdt, trx, txs, collected>>
vars      == <<jobVars, passVars, chainVars, retries, untold>>

Tx == [kind : {"gas", "sweep"}, state : {"broadcast", "succeeded", "reverted"}]

TypeOK ==
  /\ job \in Job \cup {NoJob}
  /\ due \in BOOLEAN
  /\ pc \in [Passes -> PC]
  /\ copy \in [Passes -> Job \cup {NoJob}]
  /\ {usdt, trx, collected} \subseteq BOOLEAN
  /\ txs \in Seq(Tx) /\ Len(txs) <= MaxTxs
  /\ retries \in 0..MaxRetries
  /\ untold \subseteq 1..MaxTxs

Init ==
  /\ job = NoJob /\ due = FALSE
  /\ pc = [p \in Passes |-> "idle"]
  /\ copy = [p \in Passes |-> NoJob]
  /\ usdt \in BOOLEAN /\ trx \in BOOLEAN
  /\ txs = <<>> /\ collected = FALSE
  /\ retries = 0 /\ untold = {}

-----------------------------------------------------------------------------
(* enqueue and retry *)

At(p, label)   == pc[p] = label
Goto(p, label) == pc' = [pc EXCEPT ![p] = label]

\* The pass continues at label with its job object changed to j.
Carry(p, j, label) == copy' = [copy EXCEPT ![p] = j] /\ Goto(p, label)

Stop(p) == Carry(p, NoJob, "idle")

\* findByOrderId finds no job.  An existing one would be returned.
StartEnqueue(p) ==
  /\ At(p, "idle")
  /\ job = NoJob
  /\ Goto(p, "create")
  /\ UNCHANGED <<jobVars, copy, chainVars, retries, untold>>

\* jobs.create; order_id is unique, so a second create throws.
CreateJob(p) ==
  /\ At(p, "create")
  /\ IF job = NoJob
     THEN /\ job' = [status |-> "PENDING", attempts |-> 0, gasTxId |-> NoTx, sweepTxId |-> NoTx]
          /\ due' = TRUE
     ELSE UNCHANGED jobVars
  /\ Stop(p)
  /\ UNCHANGED <<chainVars, retries, untold>>

\* (mutant: any job may be retried)
StartRetryAny(p) ==
  /\ At(p, "idle")
  /\ job # NoJob
  /\ retries < MaxRetries
  /\ retries' = retries + 1
  /\ Carry(p, [job EXCEPT !.status = "PENDING", !.attempts = 0], "requeue")
  /\ UNCHANGED <<jobVars, chainVars, untold>>

StartRetry(p) ==
  /\ At(p, "idle")
  /\ job # NoJob /\ job.status = "FAILED"
  /\ retries < MaxRetries
  /\ retries' = retries + 1
  /\ Carry(p, [job EXCEPT !.status = "PENDING", !.attempts = 0], "requeue")
  /\ UNCHANGED <<jobVars, chainVars, untold>>

-----------------------------------------------------------------------------
(* processDue and step *)

\* (mutant: a fueled job waits for the transfer it has not sent)
FirstAwaitSwept(s) == IF s = "PENDING" THEN "balance" ELSE "sweepConfirmed"

FirstAwait(s) ==
  CASE s = "PENDING"     -> "balance"
    [] s = "GAS_FUELING" -> "gasConfirmed"
    [] s = "SWEEPING"    -> "sweepConfirmed"

\* jobs.due returned the job; its step begins.
StartStep(p) ==
  /\ At(p, "idle")
  /\ job # NoJob /\ ~isSweepTerminal(job.status) /\ due
  /\ Carry(p, job, FirstAwait(job.status))
  /\ UNCHANGED <<jobVars, chainVars, retries, untold>>

advance(p, j, status) ==
  Carry(p, [j EXCEPT !.status = status, !.attempts = 0], "update")

finish(p, status) == Carry(p, [copy[p] EXCEPT !.status = status], "update")

defer(p) == Goto(p, "update") /\ UNCHANGED copy

ReadBalance(p) ==
  /\ At(p, "balance")
  /\ IF usdt THEN Goto(p, "trx") /\ UNCHANGED copy ELSE finish(p, "EMPTY")
  /\ UNCHANGED <<jobVars, chainVars, retries, untold>>

ReadTrx(p) ==
  /\ At(p, "trx")
  /\ Goto(p, IF trx THEN "sweepTrc20" ELSE "fuelGas")
  /\ UNCHANGED <<jobVars, copy, chainVars, retries, untold>>

Broadcast(kind) ==
  /\ Len(txs) < MaxTxs
  /\ txs' = Append(txs, [kind |-> kind, state |-> "broadcast"])

FuelGas(p) ==
  /\ At(p, "fuelGas")
  /\ Broadcast("gas")
  /\ advance(p, [copy[p] EXCEPT !.gasTxId = Len(txs')], "GAS_FUELING")
  /\ UNCHANGED <<jobVars, usdt, trx, collected, retries, untold>>

SweepTrc20(p) ==
  /\ At(p, "sweepTrc20")
  /\ Broadcast("sweep")
  /\ advance(p, [copy[p] EXCEPT !.sweepTxId = Len(txs')], "SWEEPING")
  /\ UNCHANGED <<jobVars, usdt, trx, collected, retries, untold>>

\* (mutant: a transaction is confirmed once it was broadcast)
isConfirmedEarly(txId) == txId # NoTx

\* isConfirmed counts blocks: a reverted transaction is confirmed like one that
\* succeeded.  While the block is too recent, or on an error, it is not.
isConfirmed(txId) == txId # NoTx /\ txs[txId].state # "broadcast"

GasConfirmed(p) ==
  /\ At(p, "gasConfirmed")
  /\ isConfirmed(copy[p].gasTxId)
  /\ Goto(p, "sweepTrc20")
  /\ UNCHANGED <<jobVars, copy, chainVars, retries, untold>>

SweepConfirmed(p) ==
  /\ At(p, "sweepConfirmed")
  /\ isConfirmed(copy[p].sweepTxId)
  /\ finish(p, "SWEPT")
  /\ UNCHANGED <<jobVars, chainVars, retries, untold>>

NotConfirmed(p) ==
  /\ At(p, "gasConfirmed") \/ At(p, "sweepConfirmed")
  /\ defer(p)
  /\ UNCHANGED <<jobVars, chainVars, retries, untold>>

\* jobs.update of the whole object; a job that goes on waits for its next
\* attempt, except one just requeued by retry.
Update(p) ==
  /\ At(p, "update") \/ At(p, "updateError") \/ At(p, "requeue")
  /\ job' = copy[p]
  /\ due' = (isSweepTerminal(copy[p].status) \/ At(p, "requeue"))
  /\ Stop(p)
  /\ UNCHANGED <<chainVars, retries, untold>>

onError(j) ==
  LET tried == [j EXCEPT !.attempts = @ + 1] IN
  IF tried.attempts >= maxAttempts THEN [tried EXCEPT !.status = "FAILED"] ELSE tried

Stepping(p) == pc[p] \notin {"idle", "create", "requeue", "updateError"}

\* (mutant: a broadcast that failed to be recorded is forgotten)
StepFailsForgetful(p) ==
  /\ Stepping(p)
  /\ Carry(p, onError(IF At(p, "update") /\ ~isSweepTerminal(job.status) THEN job ELSE copy[p]),
           "updateError")
  /\ UNCHANGED <<jobVars, chainVars, retries, untold>>

\* An await of the step throws; the object is recorded with the error, as far
\* as the step had changed it.
StepFails(p) ==
  /\ Stepping(p)
  /\ Carry(p, onError(copy[p]), "updateError")
  /\ UNCHANGED <<jobVars, chainVars, retries, untold>>

\* The node takes the transaction, but the call throws: the answer holds no txid
\* or never comes.  The step is recorded as failed and will be run again.
BroadcastThrows(p) ==
  /\ \/ At(p, "fuelGas") /\ Broadcast("gas")
     \/ At(p, "sweepTrc20") /\ Broadcast("sweep")
  /\ untold' = untold \cup {Len(txs')}
  /\ Carry(p, onError(copy[p]), "updateError")
  /\ UNCHANGED <<jobVars, usdt, trx, collected, retries>>

-----------------------------------------------------------------------------
(* Time, chain and crashes *)

\* nextAttemptAt passes.
Wait ==
  /\ ~due
  /\ due' = TRUE
  /\ UNCHANGED <<job, passVars, chainVars, retries, untold>>

\* A transaction is mined.  A transfer needs the balance and gas.
Mine(n) ==
  /\ n \in DOMAIN txs
  /\ txs[n].state = "broadcast"
  /\ \/ /\ txs[n].kind = "gas"
        /\ txs' = [txs EXCEPT ![n].state = "succeeded"]
        /\ trx' = TRUE
        /\ UNCHANGED <<usdt, collected>>
     \/ /\ txs[n].kind = "sweep"
        /\ usdt /\ trx
        /\ txs' = [txs EXCEPT ![n].state = "succeeded"]
        /\ usdt' = FALSE /\ trx' = FALSE /\ collected' = TRUE
     \/ /\ txs[n].kind = "sweep"
        /\ Reverts \/ ~(usdt /\ trx)
        /\ txs' = [txs EXCEPT ![n].state = "reverted"]
        /\ trx' = FALSE
        /\ UNCHANGED <<usdt, collected>>
  /\ UNCHANGED <<jobVars, passVars, retries, untold>>

\* The ids a pass holds that the job row does not.
Unsaved(p) ==
  IF copy[p] = NoJob THEN {}
  ELSE {copy[p].gasTxId, copy[p].sweepTxId} \ {job.gasTxId, job.sweepTxId, NoTx}

\* The process dies, or the write of a failed or requeued job fails.
Crash(p) ==
  /\ pc[p] \in Interruptible
  /\ Stop(p)
  /\ untold' = untold \cup Unsaved(p)
  /\ UNCHANGED <<jobVars, chainVars, retries>>

-----------------------------------------------------------------------------

Step(p) ==
  \/ CreateJob(p) \/ ReadBalance(p) \/ ReadTrx(p) \/ FuelGas(p) \/ SweepTrc20(p)
  \/ GasConfirmed(p) \/ SweepConfirmed(p) \/ Update(p)

Next ==
  \/ \E p \in Passes :
       StartEnqueue(p) \/ StartRetry(p) \/ StartStep(p)
         \/ Step(p) \/ NotConfirmed(p) \/ StepFails(p) \/ BroadcastThrows(p) \/ Crash(p)
  \/ \E n \in 1..MaxTxs : Mine(n)
  \/ Wait

Spec == Init /\ [][Next]_vars

\* The watcher's timer keeps starting passes on due jobs, blocks are produced,
\* and no await is cut short for ever: a process does not die, and the node does
\* not answer isConfirmed too early, at the same await time after time.
Fairness ==
  /\ WF_vars(Wait)
  /\ WF_vars(\E p \in Passes : StartStep(p))
  /\ \A p \in Passes :
       /\ WF_vars(Step(p) \/ NotConfirmed(p))
       /\ SF_vars(ReadBalance(p)) /\ SF_vars(ReadTrx(p)) /\ SF_vars(FuelGas(p))
       /\ SF_vars(SweepTrc20(p)) /\ SF_vars(GasConfirmed(p)) /\ SF_vars(SweepConfirmed(p))
  /\ \A n \in 1..MaxTxs : WF_vars(Mine(n))

FairSpec == Spec /\ Fairness

-----------------------------------------------------------------------------
(* Properties *)

Pipeline == INSTANCE SweepPipeline WITH
  status <- IF job = NoJob THEN NoStatus ELSE job.status

\* No pass, error, crash or retry takes the stored job off the documented
\* diagram (domain/deposit.ts SweepStatus).
ImplementsPipeline == Pipeline!Spec

\* A job reported as collected has its deposit in the central wallet
\* (SweepStatus.SWEPT "Funds confirmed at the collection address").
SweptMeansCollected == (job # NoJob /\ job.status = "SWEPT") => collected

Sent(kind) == {n \in DOMAIN txs : txs[n].kind = kind}
Told(kind) == Sent(kind) \ untold

\* A step is run again only when the service cannot know that it was: of the
\* broadcasts whose id it was given and did not die with, the fee wallet pays for
\* one top-up and the deposit is transferred once, again only when an operator
\* retries.  An id survives the failure of the update that should record it.
SentOnce == \A kind \in {"gas", "sweep"} : Cardinality(Told(kind)) <= 1 + retries

\* "each step is idempotent" (SweepWatcher): no step broadcasts what an earlier
\* attempt at it has broadcast.
EachStepIsIdempotent ==
  \A kind \in {"gas", "sweep"} : Cardinality(Sent(kind)) <= 1 + retries

\* Every queued sweep is finished or handed to the operator.
SweepEnds == (job # NoJob) ~> (job # NoJob /\ isSweepTerminal(job.status))

=============================================================================
