----------------------------- MODULE SweepProofs -----------------------------
(***************************************************************************)
(* Proofs about Sweep for every number of passes, attempts, transactions   *)
(* and retries.  That a job reported SWEPT has been collected needs only a *)
(* chain that reverts no funded transfer; the status diagram, and that     *)
(* nothing the service was told of is sent again, need one pass at a time. *)
(***************************************************************************)
EXTENDS Sweep, FiniteSetTheorems, TLAPS

-----------------------------------------------------------------------------
(* Type correctness *)

\* The labels at which a pass carries a job object.
Carrying == PC \ {"idle", "create"}

\* A job that has not failed has attempts left.
AttemptsInv(j) == j.status # "FAILED" => j.attempts < maxAttempts

PassType(p) ==
  /\ pc[p] \in Carrying => copy[p] \in Job /\ AttemptsInv(copy[p]) /\ job # NoJob
  /\ pc[p] \notin Carrying => copy[p] = NoJob
  /\ Stepping(p) => copy[p].status # "FAILED"

TypeInv ==
  /\ TypeOK
  /\ job # NoJob => AttemptsInv(job)
  /\ \A p \in Passes : PassType(p)

\* A pass's step moves that pass alone.
LEMMA Carried ==
  ASSUME TypeInv, NEW p \in Passes, NEW j \in Job \cup {NoJob}, NEW label \in PC,
         Carry(p, j, label)
  PROVE  /\ pc' \in [Passes -> PC] /\ copy' \in [Passes -> Job \cup {NoJob}]
         /\ pc'[p] = label /\ copy'[p] = j
         /\ \A q \in Passes \ {p} : pc'[q] = pc[q] /\ copy'[q] = copy[q]
BY DEF TypeInv, TypeOK, Carry, Goto

\* The object recorded with an error is a job, which has failed or may go on.
LEMMA ErrorType ==
  ASSUME NEW j \in Job, AttemptsInv(j), j.status # "FAILED"
  PROVE  /\ onError(j) \in Job /\ AttemptsInv(onError(j))
         /\ onError(j).status \in {j.status, "FAILED"}
         /\ onError(j).gasTxId = j.gasTxId /\ onError(j).sweepTxId = j.sweepTxId
<1> DEFINE tried == [j EXCEPT !.attempts = @ + 1]
<1>1. j.attempts \in 0..maxAttempts /\ j.attempts < maxAttempts /\ maxAttempts \in Nat
  BY SweepAssumption DEF Job, AttemptsInv
<1>2. /\ tried \in Job /\ tried.attempts = j.attempts + 1 /\ tried.status = j.status
      /\ tried.gasTxId = j.gasTxId /\ tried.sweepTxId = j.sweepTxId
  BY <1>1 DEF Job
<1>3. onError(j) = IF tried.attempts >= maxAttempts THEN [tried EXCEPT !.status = "FAILED"] ELSE tried
  BY DEF onError
<1> HIDE DEF tried
<1>4. CASE tried.attempts >= maxAttempts
  <2>1. onError(j) = [tried EXCEPT !.status = "FAILED"]
    BY <1>3, <1>4
  <2> QED
    BY <1>2, <2>1 DEF Job, Status, AttemptsInv
<1>5. CASE ~(tried.attempts >= maxAttempts)
  BY <1>1, <1>2, <1>3, <1>5 DEF AttemptsInv
<1> QED
  BY <1>4, <1>5

\* advance and retry move a job to another status with no attempt spent.
LEMMA AdvanceType ==
  ASSUME NEW j \in Job, NEW status \in Status, NEW k, k = [j EXCEPT !.status = status, !.attempts = 0]
  PROVE  /\ k \in Job /\ AttemptsInv(k) /\ k.status = status /\ k.attempts = 0
         /\ k.gasTxId = j.gasTxId /\ k.sweepTxId = j.sweepTxId
<1>1. maxAttempts \in Nat /\ 0 \in 0..maxAttempts /\ 0 < maxAttempts
  BY SweepAssumption
<1>2. k = [status |-> status, attempts |-> 0, gasTxId |-> j.gasTxId, sweepTxId |-> j.sweepTxId]
  BY DEF Job
<1> QED
  BY <1>1, <1>2 DEF Job, AttemptsInv

\* fuelGas and sweepTrc20 record the transaction they broadcast.
LEMMA BroadcastType ==
  ASSUME NEW j \in Job, NEW n \in 1..MaxTxs
  PROVE  /\ [j EXCEPT !.gasTxId = n] \in Job /\ [j EXCEPT !.sweepTxId = n] \in Job
         /\ [j EXCEPT !.gasTxId = n].gasTxId = n /\ [j EXCEPT !.gasTxId = n].sweepTxId = j.sweepTxId
         /\ [j EXCEPT !.sweepTxId = n].sweepTxId = n /\ [j EXCEPT !.sweepTxId = n].gasTxId = j.gasTxId
BY DEF Job

\* What a pass does to its own object: the object it goes on with, and that it
\* writes the database only from an object it carries.
LEMMA PassStep ==
  ASSUME TypeInv, NEW p \in Passes,
         \/ StartEnqueue(p) \/ StartRetry(p) \/ StartStep(p)
         \/ Step(p) \/ NotConfirmed(p) \/ StepFails(p) \/ BroadcastThrows(p) \/ Crash(p)
  PROVE  TypeInv'
<1> USE DEF At
<1>1. ASSUME NEW j \in Job \cup {NoJob}, NEW label \in PC, Carry(p, j, label),
             label \in Carrying => j \in Job /\ AttemptsInv(j) /\ job' # NoJob,
             label \notin Carrying => j = NoJob,
             label \in Carrying \ {"requeue", "updateError"} => j.status # "FAILED",
             job' = job \/ (job' \in Job /\ AttemptsInv(job')),
             due' \in BOOLEAN, retries' \in 0..MaxRetries, untold' \subseteq 1..MaxTxs,
             UNCHANGED chainVars \/ \E kind \in {"gas", "sweep"} : Broadcast(kind) /\ UNCHANGED <<usdt, trx, collected>>
      PROVE  TypeInv'
  <2>1. /\ pc' \in [Passes -> PC] /\ copy' \in [Passes -> Job \cup {NoJob}]
        /\ pc'[p] = label /\ copy'[p] = j
        /\ \A q \in Passes \ {p} : pc'[q] = pc[q] /\ copy'[q] = copy[q]
    BY <1>1, Carried
  <2>2. job # NoJob => job' # NoJob
    BY <1>1, SweepAssumption
  <2>3. \A q \in Passes : PassType(q)'
    <3>1. ASSUME NEW q \in Passes, q # p PROVE PassType(q)'
      BY <2>1, <2>2, <3>1 DEF TypeInv, PassType, Stepping
    <3>2. PassType(p)'
      BY <1>1, <2>1 DEF PassType, Stepping, Carrying
    <3> QED
      BY <3>1, <3>2
  <2>4. txs' \in Seq(Tx) /\ Len(txs') <= MaxTxs
    <3>1. ASSUME NEW kind \in {"gas", "sweep"}, Broadcast(kind)
          PROVE  txs' \in Seq(Tx) /\ Len(txs') <= MaxTxs
      <4>1. [kind |-> kind, state |-> "broadcast"] \in Tx
        BY DEF Tx
      <4> QED
        BY <3>1, <4>1, SweepAssumption DEF Broadcast, TypeInv, TypeOK
    <3> QED
      BY <1>1, <3>1 DEF chainVars, TypeInv, TypeOK
  <2>5. job' \in Job \cup {NoJob} /\ (job' # NoJob => AttemptsInv(job'))
    BY <1>1 DEF TypeInv, TypeOK, AttemptsInv
  <2>6. ({usdt, trx, collected} \subseteq BOOLEAN)'
    BY <1>1 DEF chainVars, TypeInv, TypeOK
  <2> QED
    BY <1>1, <2>1, <2>3, <2>4, <2>5, <2>6 DEF TypeInv, TypeOK, AttemptsInv
<1>2. /\ PassType(p) /\ due \in BOOLEAN /\ retries \in 0..MaxRetries /\ untold \subseteq 1..MaxTxs
      /\ job \in Job \cup {NoJob} /\ copy[p] \in Job \cup {NoJob} /\ maxAttempts \in Nat \ {0}
  BY SweepAssumption DEF TypeInv, TypeOK
<1>3. CASE StartEnqueue(p)
  <2>1. Carry(p, NoJob, "create")
    BY <1>2, <1>3 DEF StartEnqueue, Carry, PassType, Carrying, TypeInv, TypeOK
  <2> QED
    BY <1>1, <1>2, <1>3, <2>1 DEF StartEnqueue, jobVars, PC, Carrying
<1>4. CASE StartRetry(p)
  <2> DEFINE j == [job EXCEPT !.status = "PENDING", !.attempts = 0]
  <2>1. j \in Job /\ AttemptsInv(j)
    BY <1>2, <1>4, AdvanceType DEF StartRetry, Status
  <2>2. Carry(p, j, "requeue") /\ job' = job /\ job # NoJob /\ retries' \in 0..MaxRetries
    BY <1>2, <1>4, SweepAssumption DEF StartRetry, jobVars
  <2> HIDE DEF j
  <2> QED
    BY <1>1, <1>2, <1>4, <2>1, <2>2 DEF StartRetry, jobVars, PC, Carrying
<1>5. CASE StartStep(p)
  <2>1. job \in Job /\ AttemptsInv(job) /\ job.status \in {"PENDING", "GAS_FUELING", "SWEEPING"}
    BY <1>2, <1>5 DEF StartStep, TypeInv, isSweepTerminal, Job, Status
  <2>2. FirstAwait(job.status) \in {"balance", "gasConfirmed", "sweepConfirmed"}
    BY <2>1 DEF FirstAwait
  <2> QED
    BY <1>1, <1>2, <1>5, <2>1, <2>2 DEF StartStep, jobVars, PC, Carrying
<1>6. CASE CreateJob(p)
  <2> DEFINE j == [status |-> "PENDING", attempts |-> 0, gasTxId |-> NoTx, sweepTxId |-> NoTx]
  <2>1. j \in Job /\ AttemptsInv(j)
    BY <1>2 DEF Job, Status, AttemptsInv
  <2>2. Carry(p, NoJob, "idle")
    BY <1>6 DEF CreateJob, Stop
  <2> HIDE DEF j
  <2>3. (job' = job \/ job' = j) /\ due' \in BOOLEAN
    BY <1>2, <1>6 DEF CreateJob, jobVars, j
  <2> QED
    BY <1>1, <1>2, <1>6, <2>1, <2>2, <2>3 DEF CreateJob, PC, Carrying
<1>7. CASE ReadBalance(p)
  <2>1. copy[p] \in Job /\ AttemptsInv(copy[p]) /\ copy[p].status # "FAILED" /\ job # NoJob
    BY <1>2, <1>7 DEF ReadBalance, PassType, Carrying, PC, Stepping
  <2>2. CASE usdt
    <3>1. Carry(p, copy[p], "trx")
      BY <1>7, <2>2 DEF ReadBalance, Carry, TypeInv, TypeOK
    <3> QED
      BY <1>1, <1>2, <1>7, <2>1, <3>1 DEF ReadBalance, jobVars, PC, Carrying
  <2>3. CASE ~usdt
    <3> DEFINE j == [copy[p] EXCEPT !.status = "EMPTY"]
    <3>1. j \in Job /\ AttemptsInv(j) /\ j.status # "FAILED"
      BY <2>1 DEF Job, Status, AttemptsInv
    <3>2. Carry(p, j, "update")
      BY <1>7, <2>3 DEF ReadBalance, finish
    <3> HIDE DEF j
    <3> QED
      BY <1>1, <1>2, <1>7, <2>1, <3>1, <3>2 DEF ReadBalance, jobVars, PC, Carrying
  <2> QED
    BY <2>2, <2>3
<1>8. CASE ReadTrx(p) \/ GasConfirmed(p) \/ NotConfirmed(p)
  <2>1. copy[p] \in Job /\ AttemptsInv(copy[p]) /\ copy[p].status # "FAILED" /\ job # NoJob
    BY <1>2, <1>8 DEF ReadTrx, GasConfirmed, NotConfirmed, PassType, Carrying, PC, Stepping
  <2>2. \E label \in {"sweepTrc20", "fuelGas", "update"} : Carry(p, copy[p], label)
    BY <1>8 DEF ReadTrx, GasConfirmed, NotConfirmed, defer, Carry, TypeInv, TypeOK
  <2> QED
    BY <1>1, <1>2, <1>8, <2>1, <2>2 DEF ReadTrx, GasConfirmed, NotConfirmed, jobVars, PC, Carrying
<1>9. CASE FuelGas(p) \/ SweepTrc20(p)
  <2>1. copy[p] \in Job /\ AttemptsInv(copy[p]) /\ job # NoJob
    BY <1>2, <1>9 DEF FuelGas, SweepTrc20, PassType, Carrying, PC
  <2>2. Len(txs') \in 1..MaxTxs
    BY <1>9, SweepAssumption DEF FuelGas, SweepTrc20, Broadcast, TypeInv, TypeOK
  <2> DEFINE n == Len(txs')
             gas == [copy[p] EXCEPT !.gasTxId = n]
             sweep == [copy[p] EXCEPT !.sweepTxId = n]
             g == [gas EXCEPT !.status = "GAS_FUELING", !.attempts = 0]
             s == [sweep EXCEPT !.status = "SWEEPING", !.attempts = 0]
  <2>3. gas \in Job /\ sweep \in Job
    BY <2>1, <2>2, BroadcastType
  <2>4. g \in Job /\ AttemptsInv(g) /\ g.status # "FAILED" /\ s \in Job /\ AttemptsInv(s) /\ s.status # "FAILED"
    <3> HIDE DEF gas, sweep
    <3>1. "GAS_FUELING" \in Status /\ "SWEEPING" \in Status
      BY DEF Status
    <3> QED
      BY <2>3, <3>1, AdvanceType
  <2>5. Carry(p, g, "update") \/ Carry(p, s, "update")
    BY <1>9 DEF FuelGas, SweepTrc20, advance
  <2>6. \E kind \in {"gas", "sweep"} : Broadcast(kind) /\ UNCHANGED <<usdt, trx, collected>>
    BY <1>9 DEF FuelGas, SweepTrc20
  <2> HIDE DEF g, s
  <2> QED
    BY <1>1, <1>2, <1>9, <2>1, <2>3, <2>4, <2>5, <2>6 DEF FuelGas, SweepTrc20, jobVars, PC, Carrying
<1>10. CASE SweepConfirmed(p)
  <2>1. copy[p] \in Job /\ AttemptsInv(copy[p]) /\ copy[p].status # "FAILED" /\ job # NoJob
    BY <1>2, <1>10 DEF SweepConfirmed, PassType, Carrying, PC, Stepping
  <2> DEFINE j == [copy[p] EXCEPT !.status = "SWEPT"]
  <2>2. j \in Job /\ AttemptsInv(j) /\ j.status # "FAILED"
    BY <2>1 DEF Job, Status, AttemptsInv
  <2>3. Carry(p, j, "update")
    BY <1>10 DEF SweepConfirmed, finish
  <2> HIDE DEF j
  <2> QED
    BY <1>1, <1>2, <1>10, <2>1, <2>2, <2>3 DEF SweepConfirmed, jobVars, PC, Carrying
<1>11. CASE Update(p)
  <2>1. copy[p] \in Job /\ AttemptsInv(copy[p])
    BY <1>2, <1>11 DEF Update, PassType, Carrying, PC
  <2>2. Carry(p, NoJob, "idle") /\ job' = copy[p] /\ due' \in BOOLEAN
    BY <1>11 DEF Update, Stop, isSweepTerminal
  <2> QED
    BY <1>1, <1>2, <1>11, <2>1, <2>2 DEF Update, PC, Carrying
<1>12. CASE StepFails(p)
  <2>1. copy[p] \in Job /\ AttemptsInv(copy[p]) /\ copy[p].status # "FAILED" /\ job # NoJob
    BY <1>2, <1>12 DEF StepFails, PassType, Carrying, PC, Stepping, TypeInv, TypeOK
  <2>2. onError(copy[p]) \in Job /\ AttemptsInv(onError(copy[p]))
    BY <2>1, ErrorType
  <2> QED
    BY <1>1, <1>2, <1>12, <2>1, <2>2 DEF StepFails, jobVars, PC, Carrying
<1>13. CASE BroadcastThrows(p)
  <2>1. copy[p] \in Job /\ AttemptsInv(copy[p]) /\ copy[p].status # "FAILED" /\ job # NoJob
    BY <1>2, <1>13 DEF BroadcastThrows, PassType, Carrying, PC, Stepping
  <2>2. onError(copy[p]) \in Job /\ AttemptsInv(onError(copy[p]))
    BY <2>1, ErrorType
  <2>3. \E kind \in {"gas", "sweep"} : Broadcast(kind) /\ UNCHANGED <<usdt, trx, collected>>
    BY <1>13 DEF BroadcastThrows
  <2>4. Len(txs') \in 1..MaxTxs
    BY <2>3, SweepAssumption DEF Broadcast, TypeInv, TypeOK
  <2> QED
    BY <1>1, <1>2, <1>13, <2>1, <2>2, <2>3, <2>4 DEF BroadcastThrows, jobVars, PC, Carrying
<1>14. CASE Crash(p)
  <2>1. Unsaved(p) \subseteq 1..MaxTxs
    <3>1. CASE copy[p] = NoJob
      BY <3>1 DEF Unsaved
    <3>2. CASE copy[p] # NoJob
      <4>1. copy[p] \in Job
        BY <1>2, <3>2
      <4> QED
        BY <3>2, <4>1 DEF Unsaved, Job
    <3> QED
      BY <3>1, <3>2
  <2> QED
    BY <1>1, <1>2, <1>14, <2>1 DEF Crash, Stop, jobVars, PC, Carrying
<1> QED
  BY <1>3, <1>4, <1>5, <1>6, <1>7, <1>8, <1>9, <1>10, <1>11, <1>12, <1>13, <1>14 DEF Step

\* The chain settles one transaction and keeps what every transaction is.
LEMMA Mined ==
  ASSUME TypeInv, NEW n \in 1..MaxTxs, Mine(n)
  PROVE  /\ txs' \in Seq(Tx) /\ Len(txs') = Len(txs) /\ DOMAIN txs' = DOMAIN txs
         /\ n \in DOMAIN txs /\ txs[n].state = "broadcast" /\ txs'[n].state # "broadcast"
         /\ \A m \in DOMAIN txs : txs'[m].kind = txs[m].kind
         /\ \A m \in DOMAIN txs \ {n} : txs'[m] = txs[m]
<1>1. txs \in Seq(Tx) /\ n \in DOMAIN txs /\ txs[n].state = "broadcast"
  BY DEF Mine, TypeInv, TypeOK
<1>2. PICK state \in {"succeeded", "reverted"} : txs' = [txs EXCEPT ![n].state = state]
  BY DEF Mine
<1> DEFINE tx == [txs[n] EXCEPT !.state = state]
<1>3. txs[n] \in Tx
  BY <1>1
<1>4. tx \in Tx /\ tx.kind = txs[n].kind /\ tx.state = state
  BY <1>2, <1>3 DEF Tx
<1>5. txs' = [txs EXCEPT ![n] = tx]
  BY <1>1, <1>2
<1> HIDE DEF tx
<1>6. txs' \in Seq(Tx) /\ Len(txs') = Len(txs) /\ DOMAIN txs' = DOMAIN txs
  BY <1>1, <1>4, <1>5
<1>7. txs'[n] = tx /\ \A m \in DOMAIN txs \ {n} : txs'[m] = txs[m]
  BY <1>1, <1>5
<1> QED
  BY <1>1, <1>2, <1>4, <1>6, <1>7

\* The initial states are well typed.
LEMMA InitType ==
  ASSUME Init  PROVE TypeInv
<1>1. txs \in Seq(Tx) /\ Len(txs) <= MaxTxs
  BY SweepAssumption DEF Init
<1>2. retries \in 0..MaxRetries /\ job = NoJob /\ untold = {}
  BY SweepAssumption DEF Init
<1>3. /\ pc \in [Passes -> PC] /\ copy \in [Passes -> Job \cup {NoJob}]
      /\ \A p \in Passes : PassType(p)
  BY DEF Init, PassType, PC, Carrying, Stepping
<1> QED
  BY <1>1, <1>2, <1>3 DEF Init, TypeInv, TypeOK

\* Every step keeps the types.
LEMMA NextType ==
  ASSUME TypeInv, [Next]_vars  PROVE TypeInv'
<1>1. CASE \E p \in Passes :
             StartEnqueue(p) \/ StartRetry(p) \/ StartStep(p)
               \/ Step(p) \/ NotConfirmed(p) \/ StepFails(p) \/ BroadcastThrows(p) \/ Crash(p)
  BY <1>1, PassStep
<1>2. CASE \E n \in 1..MaxTxs : Mine(n)
  <2>1. PICK n \in 1..MaxTxs : Mine(n)
    BY <1>2
  <2>2. txs' \in Seq(Tx) /\ Len(txs') = Len(txs)
    BY <2>1, Mined
  <2>3. ({usdt, trx, collected} \subseteq BOOLEAN)'
    BY <2>1 DEF Mine, TypeInv, TypeOK
  <2> QED
    BY <2>1, <2>2, <2>3 DEF Mine, jobVars, passVars, TypeInv, TypeOK, PassType, Stepping
<1>3. CASE Wait
  BY <1>3 DEF Wait, passVars, chainVars, TypeInv, TypeOK, PassType, Stepping
<1>4. CASE UNCHANGED vars
  BY <1>4 DEF vars, jobVars, passVars, chainVars, TypeInv, TypeOK, PassType, Stepping
<1> QED
  BY <1>1, <1>2, <1>3, <1>4 DEF Next

\* Every variable keeps its type, and no job that may go on has spent its
\* attempts (policy.maxAttempts in SweepService.step's onError).
THEOREM TypeCorrect == Spec => []TypeInv
<1>1. Init => TypeInv
  BY InitType
<1>2. TypeInv /\ [Next]_vars => TypeInv'
  BY NextType
<1> QED
  BY <1>1, <1>2, PTL DEF Spec

-----------------------------------------------------------------------------
(* The status diagram *)

OnePass == \A p, q \in Passes : p = q

\* The abstract status.
Stored == IF job = NoJob THEN NoStatus ELSE job.status

\* The statuses a step can be at a label with, before it changes the object.
From(label) ==
  CASE label \in {"balance", "trx", "fuelGas"} -> {"PENDING"}
    [] label = "sweepTrc20"                   -> {"PENDING", "GAS_FUELING"}
    [] label = "gasConfirmed"                 -> {"GAS_FUELING"}
    [] label = "sweepConfirmed"               -> {"SWEEPING"}

Reading == {"balance", "trx", "fuelGas", "sweepTrc20", "gasConfirmed", "sweepConfirmed"}

WaitingStatus == {"PENDING", "GAS_FUELING", "SWEEPING"}

Moves == {<<"PENDING", "EMPTY">>, <<"PENDING", "GAS_FUELING">>, <<"PENDING", "SWEEPING">>,
          <<"GAS_FUELING", "SWEEPING">>, <<"SWEEPING", "SWEPT">>}

\* A lone pass works on the stored job until it records what it made of it.
PassTask(p) ==
  /\ pc[p] = "create" => job = NoJob
  /\ pc[p] \in Reading => copy[p] = job /\ job.status \in From(pc[p])
  /\ pc[p] \in {"update", "updateError"} =>
       /\ job.status \in WaitingStatus
       /\ \/ copy[p].status = job.status
          \/ <<job.status, copy[p].status>> \in Moves
          \/ pc[p] = "updateError" /\ copy[p].status = "FAILED"
  /\ pc[p] = "requeue" => job.status = "FAILED" /\ copy[p].status = "PENDING"

PassInv == TypeInv /\ \A p \in Passes : PassTask(p)

\* A step of the lone pass keeps its task and moves the job along the diagram.
LEMMA PassMoves ==
  ASSUME OnePass, PassInv, NEW p \in Passes,
         \/ StartEnqueue(p) \/ StartRetry(p) \/ StartStep(p)
         \/ Step(p) \/ NotConfirmed(p) \/ StepFails(p) \/ BroadcastThrows(p) \/ Crash(p)
  PROVE  PassTask(p)' /\ [Pipeline!Next]_Stored
<1> USE DEF At
<1>1. TypeInv /\ PassType(p) /\ PassTask(p) /\ job \in Job \cup {NoJob} /\ NoJob \notin Job
  BY SweepAssumption DEF PassInv, TypeInv, TypeOK
<1>2. ASSUME NEW label \in PC, NEW j \in Job \cup {NoJob}, Carry(p, j, label),
             UNCHANGED job,
             label \in {"create", "idle"} \cup Reading \cup {"update", "updateError", "requeue"},
             label = "create" => job = NoJob,
             label \in Reading => j = job /\ job.status \in From(label),
             label \in {"update", "updateError"} =>
               /\ job.status \in WaitingStatus
               /\ \/ j.status = job.status \/ <<job.status, j.status>> \in Moves
                  \/ label = "updateError" /\ j.status = "FAILED",
             label = "requeue" => job.status = "FAILED" /\ j.status = "PENDING"
      PROVE  PassTask(p)' /\ [Pipeline!Next]_Stored
  <2>1. pc'[p] = label /\ copy'[p] = j
    BY <1>1, <1>2, Carried
  <2> QED
    BY <1>2, <2>1 DEF PassTask, Stored
<1>3. CASE StartEnqueue(p)
  <2>1. Carry(p, NoJob, "create")
    BY <1>1, <1>3 DEF StartEnqueue, Carry, PassType, Carrying, TypeInv, TypeOK
  <2> QED
    BY <1>2, <1>3, <2>1 DEF StartEnqueue, jobVars, PC, Reading
<1>4. CASE StartRetry(p)
  <2> DEFINE j == [job EXCEPT !.status = "PENDING", !.attempts = 0]
  <2>1. j \in Job /\ j.status = "PENDING"
    BY <1>1, <1>4, AdvanceType DEF StartRetry, Status
  <2>2. Carry(p, j, "requeue") /\ UNCHANGED job /\ job.status = "FAILED"
    BY <1>4 DEF StartRetry, jobVars
  <2> HIDE DEF j
  <2> QED
    BY <1>2, <2>1, <2>2 DEF PC, Reading
<1>5. CASE StartStep(p)
  <2>1. job \in Job /\ job.status \in WaitingStatus
    BY <1>1, <1>5 DEF StartStep, isSweepTerminal, Job, Status, WaitingStatus
  <2>2. FirstAwait(job.status) \in Reading /\ job.status \in From(FirstAwait(job.status))
    BY <2>1 DEF FirstAwait, From, Reading, WaitingStatus
  <2>3. Carry(p, job, FirstAwait(job.status)) /\ UNCHANGED job
    BY <1>5 DEF StartStep, jobVars
  <2> QED
    BY <1>2, <2>1, <2>2, <2>3 DEF PC, Reading
<1>6. CASE CreateJob(p)
  <2>1. /\ job = NoJob /\ job'.status = "PENDING" /\ job' \in Job /\ pc'[p] = "idle"
    <3>1. job = NoJob
      BY <1>1, <1>6 DEF CreateJob, PassTask
    <3>2. job' \in Job /\ job'.status = "PENDING"
      BY <1>6, <3>1, SweepAssumption DEF CreateJob, Job, Status
    <3> QED
      BY <1>1, <1>6, <3>1, <3>2, Carried DEF CreateJob, Stop, PC
  <2>2. PassTask(p)'
    BY <2>1 DEF PassTask, Reading
  <2>3. Pipeline!Enqueue
    BY <1>1, <2>1 DEF Pipeline!Enqueue, Pipeline!Move
  <2> QED
    BY <2>2, <2>3 DEF Pipeline!Next
<1>7. CASE ReadBalance(p)
  <2>1. copy[p] = job /\ job \in Job /\ job.status = "PENDING"
    BY <1>1, <1>7 DEF ReadBalance, PassTask, PassType, Reading, Carrying, PC, From
  <2>2. CASE usdt
    <3>1. Carry(p, copy[p], "trx")
      BY <1>1, <1>7, <2>2 DEF ReadBalance, Carry, TypeInv, TypeOK
    <3> QED
      BY <1>2, <1>7, <2>1, <3>1 DEF ReadBalance, jobVars, PC, Reading, From
  <2>3. CASE ~usdt
    <3> DEFINE j == [copy[p] EXCEPT !.status = "EMPTY"]
    <3>1. j \in Job /\ j.status = "EMPTY"
      BY <2>1 DEF Job, Status
    <3>2. Carry(p, j, "update") /\ UNCHANGED job
      BY <1>7, <2>3 DEF ReadBalance, finish, jobVars
    <3> HIDE DEF j
    <3>3. <<job.status, j.status>> \in Moves /\ job.status \in WaitingStatus
      BY <2>1, <3>1 DEF Moves, WaitingStatus
    <3> QED
      BY <1>2, <3>1, <3>2, <3>3 DEF PC, Reading
  <2> QED
    BY <2>2, <2>3
<1>8. CASE ReadTrx(p)
  <2>1. copy[p] = job /\ job \in Job /\ job.status = "PENDING"
    BY <1>1, <1>8 DEF ReadTrx, PassTask, PassType, Reading, Carrying, PC, From
  <2>2. PICK label \in {"sweepTrc20", "fuelGas"} : Carry(p, copy[p], label)
    BY <1>1, <1>8 DEF ReadTrx, Carry, TypeInv, TypeOK
  <2>3. job.status \in From(label)
    BY <2>1, <2>2 DEF From
  <2> QED
    BY <1>2, <1>8, <2>1, <2>2, <2>3 DEF ReadTrx, jobVars, PC, Reading
<1>9. CASE FuelGas(p)
  <2>1. copy[p] = job /\ job \in Job /\ job.status = "PENDING"
    BY <1>1, <1>9 DEF FuelGas, PassTask, PassType, Reading, Carrying, PC, From
  <2> DEFINE gas == [copy[p] EXCEPT !.gasTxId = Len(txs')]
             j == [gas EXCEPT !.status = "GAS_FUELING", !.attempts = 0]
  <2>2. Carry(p, j, "update") /\ UNCHANGED job /\ Len(txs') \in 1..MaxTxs
    BY <1>1, <1>9, SweepAssumption DEF FuelGas, Broadcast, advance, jobVars, TypeInv, TypeOK
  <2>3. gas \in Job
    BY <2>1, <2>2, BroadcastType
  <2>4. j \in Job /\ j.status = "GAS_FUELING"
    <3> HIDE DEF gas
    <3> QED
      BY <2>3, AdvanceType DEF Status
  <2> HIDE DEF j
  <2>5. <<job.status, j.status>> \in Moves /\ job.status \in WaitingStatus
    BY <2>1, <2>4 DEF Moves, WaitingStatus
  <2> QED
    BY <1>2, <2>2, <2>4, <2>5 DEF PC, Reading
<1>10. CASE SweepTrc20(p)
  <2>1. copy[p] = job /\ job \in Job /\ job.status \in {"PENDING", "GAS_FUELING"}
    BY <1>1, <1>10 DEF SweepTrc20, PassTask, PassType, Reading, Carrying, PC, From
  <2> DEFINE sweep == [copy[p] EXCEPT !.sweepTxId = Len(txs')]
             j == [sweep EXCEPT !.status = "SWEEPING", !.attempts = 0]
  <2>2. Carry(p, j, "update") /\ UNCHANGED job /\ Len(txs') \in 1..MaxTxs
    BY <1>1, <1>10, SweepAssumption DEF SweepTrc20, Broadcast, advance, jobVars, TypeInv, TypeOK
  <2>3. sweep \in Job
    BY <2>1, <2>2, BroadcastType
  <2>4. j \in Job /\ j.status = "SWEEPING"
    <3> HIDE DEF sweep
    <3> QED
      BY <2>3, AdvanceType DEF Status
  <2> HIDE DEF j
  <2>5. <<job.status, j.status>> \in Moves /\ job.status \in WaitingStatus
    BY <2>1, <2>4 DEF Moves, WaitingStatus
  <2> QED
    BY <1>2, <2>2, <2>4, <2>5 DEF PC, Reading
<1>11. CASE GasConfirmed(p)
  <2>1. copy[p] = job /\ job \in Job /\ job.status = "GAS_FUELING"
    BY <1>1, <1>11 DEF GasConfirmed, PassTask, PassType, Reading, Carrying, PC, From
  <2>2. Carry(p, copy[p], "sweepTrc20")
    BY <1>1, <1>11 DEF GasConfirmed, Carry, TypeInv, TypeOK
  <2> QED
    BY <1>2, <1>11, <2>1, <2>2 DEF GasConfirmed, jobVars, PC, Reading, From
<1>12. CASE SweepConfirmed(p)
  <2>1. copy[p] = job /\ job \in Job /\ job.status = "SWEEPING"
    BY <1>1, <1>12 DEF SweepConfirmed, PassTask, PassType, Reading, Carrying, PC, From
  <2> DEFINE j == [copy[p] EXCEPT !.status = "SWEPT"]
  <2>2. j \in Job /\ j.status = "SWEPT"
    BY <2>1 DEF Job, Status
  <2>3. Carry(p, j, "update") /\ UNCHANGED job
    BY <1>12 DEF SweepConfirmed, finish, jobVars
  <2> HIDE DEF j
  <2>4. <<job.status, j.status>> \in Moves /\ job.status \in WaitingStatus
    BY <2>1, <2>2 DEF Moves, WaitingStatus
  <2> QED
    BY <1>2, <2>2, <2>3, <2>4 DEF PC, Reading
<1>13. CASE NotConfirmed(p)
  <2>1. copy[p] = job /\ job \in Job /\ job.status \in WaitingStatus
    BY <1>1, <1>13 DEF NotConfirmed, PassTask, PassType, Reading, Carrying, PC, From, WaitingStatus
  <2>2. Carry(p, copy[p], "update")
    BY <1>1, <1>13 DEF NotConfirmed, defer, Carry, TypeInv, TypeOK
  <2> QED
    BY <1>2, <1>13, <2>1, <2>2 DEF NotConfirmed, jobVars, PC, Reading
<1>14. CASE Update(p)
  <2>1. copy[p] \in Job /\ job \in Job
    BY <1>1, <1>14 DEF Update, PassType, Carrying, PC
  <2>2. job' = copy[p] /\ pc'[p] = "idle"
    BY <1>1, <1>14, Carried DEF Update, Stop, PC
  <2>3. PassTask(p)'
    BY <2>2 DEF PassTask, Reading
  <2>4. /\ job.status \in WaitingStatus \cup {"FAILED"}
        /\ \/ copy[p].status = job.status
           \/ <<job.status, copy[p].status>> \in Moves
           \/ job.status \in WaitingStatus /\ copy[p].status = "FAILED"
           \/ job.status = "FAILED" /\ copy[p].status = "PENDING"
    BY <1>1, <1>14 DEF Update, PassTask
  <2>5. job # NoJob /\ job' # NoJob
    BY <1>1, <2>1, <2>2
  <2>6. CASE copy[p].status = job.status
    BY <2>3, <2>2, <2>5, <2>6 DEF Stored
  <2>7. CASE <<job.status, copy[p].status>> \in Moves
    BY <2>3, <2>2, <2>5, <2>7 DEF Moves, Pipeline!Next, Pipeline!Advance, Pipeline!Move, Stored
  <2>8. CASE job.status \in WaitingStatus /\ copy[p].status = "FAILED"
    BY <2>3, <2>2, <2>5, <2>8 DEF Pipeline!Next, Pipeline!Exhaust, Pipeline!Move, Pipeline!Waiting, WaitingStatus, Stored
  <2>9. CASE job.status = "FAILED" /\ copy[p].status = "PENDING"
    BY <2>3, <2>2, <2>5, <2>9 DEF Pipeline!Next, Pipeline!Requeue, Pipeline!Move, Stored
  <2> QED
    BY <2>3, <2>4, <2>6, <2>7, <2>8, <2>9
<1>15. CASE StepFails(p)
  <2>1. copy[p] \in Job /\ AttemptsInv(copy[p]) /\ copy[p].status # "FAILED" /\ job \in Job
    BY <1>1, <1>15 DEF StepFails, PassType, Carrying, PC, Stepping, TypeInv, TypeOK
  <2>2. onError(copy[p]) \in Job /\ onError(copy[p]).status \in {copy[p].status, "FAILED"}
    BY <2>1, ErrorType
  <2>3. pc[p] \in Reading \cup {"update"}
    BY <1>1, <1>15 DEF StepFails, Stepping, PC, Reading, TypeInv, TypeOK
  <2>4. /\ job.status \in WaitingStatus
        /\ copy[p].status = job.status \/ <<job.status, copy[p].status>> \in Moves
    <3>1. CASE pc[p] \in Reading
      BY <1>1, <3>1 DEF PassTask, Reading, From, WaitingStatus
    <3>2. CASE pc[p] = "update"
      BY <1>1, <3>2 DEF PassTask
    <3> QED
      BY <2>3, <3>1, <3>2
  <2>5. Carry(p, onError(copy[p]), "updateError") /\ UNCHANGED job
    BY <1>15 DEF StepFails, jobVars
  <2>6. \/ onError(copy[p]).status = job.status \/ <<job.status, onError(copy[p]).status>> \in Moves
        \/ onError(copy[p]).status = "FAILED"
    BY <2>2, <2>4
  <2> HIDE DEF PassTask
  <2> QED
    BY <1>2, <2>2, <2>4, <2>5, <2>6 DEF PC, Reading
<1>16. CASE BroadcastThrows(p)
  <2>1. copy[p] = job /\ job \in Job /\ job.status \in WaitingStatus
    BY <1>1, <1>16 DEF BroadcastThrows, PassTask, PassType, Reading, Carrying, PC, From, WaitingStatus
  <2>2. AttemptsInv(copy[p]) /\ copy[p].status # "FAILED"
    BY <1>1, <1>16 DEF BroadcastThrows, PassType, Carrying, PC, Stepping
  <2>3. onError(copy[p]) \in Job /\ onError(copy[p]).status \in {job.status, "FAILED"}
    BY <2>1, <2>2, ErrorType
  <2>4. Carry(p, onError(copy[p]), "updateError") /\ UNCHANGED job
    BY <1>16 DEF BroadcastThrows, jobVars
  <2> HIDE DEF PassTask
  <2> QED
    BY <1>2, <2>1, <2>3, <2>4 DEF PC, Reading
<1>17. CASE Crash(p)
  BY <1>2, <1>17 DEF Crash, Stop, jobVars, PC, Reading
<1> QED
  BY <1>3, <1>4, <1>5, <1>6, <1>7, <1>8, <1>9, <1>10, <1>11, <1>12, <1>13, <1>14, <1>15,
     <1>16, <1>17 DEF Step

\* The initial states keep every pass's task.
LEMMA InitPass ==
  ASSUME Init  PROVE PassInv /\ Pipeline!Init
<1>1. \A p \in Passes : PassTask(p)
  BY DEF Init, PassTask, Reading
<1> QED
  BY <1>1, InitType DEF Init, PassInv, Pipeline!Init

\* Every step keeps the passes' tasks and moves the job along the diagram.
LEMMA NextPass ==
  ASSUME OnePass, PassInv, [Next]_vars
  PROVE  PassInv' /\ [Pipeline!Next]_Stored
<1>1. TypeInv'
  BY NextType DEF PassInv
<1>2. CASE \E p \in Passes :
             StartEnqueue(p) \/ StartRetry(p) \/ StartStep(p)
               \/ Step(p) \/ NotConfirmed(p) \/ StepFails(p) \/ BroadcastThrows(p) \/ Crash(p)
  <2>1. PICK p \in Passes :
             StartEnqueue(p) \/ StartRetry(p) \/ StartStep(p)
               \/ Step(p) \/ NotConfirmed(p) \/ StepFails(p) \/ BroadcastThrows(p) \/ Crash(p)
    BY <1>2
  <2>2. PassTask(p)' /\ [Pipeline!Next]_Stored
    BY <2>1, PassMoves
  <2>3. \A q \in Passes : q = p
    BY DEF OnePass
  <2> QED
    BY <1>1, <2>2, <2>3 DEF PassInv
<1>3. CASE UNCHANGED <<job, pc, copy>>
  BY <1>1, <1>3 DEF PassInv, PassTask, Stored
<1>4. ASSUME (\E n \in 1..MaxTxs : Mine(n)) \/ Wait \/ UNCHANGED vars
      PROVE  UNCHANGED <<job, pc, copy>>
  BY <1>4 DEF Mine, Wait, vars, jobVars, passVars
<1> QED
  BY <1>2, <1>3, <1>4 DEF Next

\* The lone pass always has its task.
LEMMA PassInvariant ==
  ASSUME OnePass  PROVE Spec => []PassInv
<1>1. Init => PassInv
  BY InitPass
<1>2. PassInv /\ [Next]_vars => PassInv'
  BY NextPass
<1> QED
  BY <1>1, <1>2, PTL DEF Spec

\* With one pass at a time, no error, crash or retry takes the stored job off
\* the documented diagram (SweepService.step, retry and jobs.update): Sweep
\* implements SweepPipeline.
THEOREM SweepImplementsPipeline ==
  ASSUME OnePass  PROVE Spec => ImplementsPipeline
<1>1. Init => PassInv /\ Pipeline!Init
  BY InitPass
<1>2. PassInv /\ [Next]_vars => PassInv' /\ [Pipeline!Next]_Stored
  BY NextPass
<1> QED
  BY <1>1, <1>2, PTL DEF Spec, ImplementsPipeline, Pipeline!Spec, Stored

-----------------------------------------------------------------------------
(* A job reported SWEPT has been collected *)

\* The chain reverts no transfer that has funds and gas.
FundedTransfersSucceed == Reverts = FALSE

TxIs(id, kind) == id # NoTx => id \in DOMAIN txs /\ txs[id].kind = kind

\* The deposit is, or was, there to be transferred; and the gas for it too.
Funded == usdt \/ collected
Fueled == collected \/ (usdt /\ trx)

\* What a job object says of the chain is true of it.
JobChain(j) ==
  /\ TxIs(j.gasTxId, "gas") /\ TxIs(j.sweepTxId, "sweep")
  /\ j.status = "GAS_FUELING" => Funded
  /\ j.status = "SWEPT" => collected

\* So is what a pass has found out.
PassChain(p) ==
  /\ pc[p] \in Carrying => JobChain(copy[p])
  /\ pc[p] = "gasConfirmed" => copy[p].status = "GAS_FUELING"
  /\ pc[p] \in {"trx", "fuelGas"} => Funded
  /\ pc[p] = "sweepTrc20" => Fueled

\* A transfer is broadcast only with funds and gas, so one that was mined has
\* collected the deposit; a top-up that was mined left gas or fed such a transfer.
TxInv(n) ==
  /\ txs[n].kind = "sweep" => Fueled
  /\ txs[n].kind = "sweep" /\ txs[n].state # "broadcast" => collected
  /\ txs[n].kind = "gas" /\ txs[n].state # "broadcast" => trx \/ collected

ChainInv ==
  /\ TypeInv
  /\ job # NoJob => JobChain(job)
  /\ \A p \in Passes : PassChain(p)
  /\ \A n \in DOMAIN txs : TxInv(n)

\* What the chain has made true stays true.
ChainKept ==
  /\ Funded => Funded'
  /\ Fueled => Fueled'
  /\ collected => collected'
  /\ \A id \in Nat \cup {NoTx}, kind \in {"gas", "sweep"} : TxIs(id, kind) => TxIs(id, kind)'

\* A broadcast keeps the chain's invariant if a transfer has funds and gas.
LEMMA BroadcastKeeps ==
  ASSUME ChainInv, NEW kind \in {"gas", "sweep"}, Broadcast(kind),
         UNCHANGED <<usdt, trx, collected>>, kind = "sweep" => Fueled
  PROVE  /\ ChainKept /\ \A n \in DOMAIN txs' : TxInv(n)'
         /\ Len(txs') \in 1..MaxTxs /\ TxIs(Len(txs), kind)'
<1>1. txs \in Seq(Tx) /\ MaxTxs \in Nat
  BY SweepAssumption DEF ChainInv, TypeInv, TypeOK
<1> DEFINE tx == [kind |-> kind, state |-> "broadcast"]
<1>2. tx.kind = kind /\ tx.state = "broadcast" /\ tx \in Tx
  BY DEF Tx
<1>3. Len(txs) < MaxTxs /\ txs' = Append(txs, tx)
  BY DEF Broadcast
<1> HIDE DEF tx
<1>4. /\ DOMAIN txs = 1..Len(txs) /\ DOMAIN txs' = 1..(Len(txs) + 1) /\ Len(txs') = Len(txs) + 1
      /\ Len(txs) \in Nat /\ txs'[Len(txs) + 1] = tx /\ \A n \in DOMAIN txs : txs'[n] = txs[n]
  BY <1>1, <1>2, <1>3
<1>5. Len(txs') \in 1..MaxTxs
  BY <1>1, <1>3, <1>4
<1>6. \A id, k : TxIs(id, k) => TxIs(id, k)'
  BY <1>4 DEF TxIs
<1>7. TxIs(Len(txs), kind)'
  BY <1>2, <1>4 DEF TxIs
<1>8. \A n \in DOMAIN txs' : n \in DOMAIN txs \/ n = Len(txs) + 1
  BY <1>4
<1>9. \A n \in DOMAIN txs' : TxInv(n)'
  BY <1>2, <1>4, <1>8 DEF ChainInv, TxInv, Fueled
<1> QED
  BY <1>5, <1>6, <1>7, <1>9 DEF ChainKept, Funded, Fueled

\* So does a block, when it reverts no funded transfer.
LEMMA MineKeeps ==
  ASSUME FundedTransfersSucceed, ChainInv, NEW n \in 1..MaxTxs, Mine(n)
  PROVE  ChainKept /\ \A m \in DOMAIN txs' : TxInv(m)'
<1>1. /\ DOMAIN txs' = DOMAIN txs /\ n \in DOMAIN txs
      /\ \A m \in DOMAIN txs : txs'[m].kind = txs[m].kind
      /\ \A m \in DOMAIN txs \ {n} : txs'[m] = txs[m]
  BY Mined DEF ChainInv
<1>2. TxInv(n) /\ usdt \in BOOLEAN /\ trx \in BOOLEAN /\ collected \in BOOLEAN
  BY <1>1 DEF ChainInv, TypeInv, TypeOK
<1>3. \A id, k : TxIs(id, k) => TxIs(id, k)'
  BY <1>1 DEF TxIs
<1>4. CASE txs[n].kind = "gas" /\ trx' = TRUE /\ UNCHANGED <<usdt, collected>>
  <2>1. ChainKept
    BY <1>2, <1>3, <1>4 DEF ChainKept, Funded, Fueled
  <2>2. \A m \in DOMAIN txs' : TxInv(m)'
    BY <1>1, <1>2, <1>4 DEF TxInv, Fueled, ChainInv
  <2> QED
    BY <2>1, <2>2
<1>5. CASE collected'
  BY <1>1, <1>3, <1>5 DEF ChainKept, TxInv, Funded, Fueled
<1>6. CASE /\ txs[n].kind = "sweep" /\ (Reverts \/ ~(usdt /\ trx))
           /\ trx' = FALSE /\ UNCHANGED <<usdt, collected>>
  <2>1. collected
    BY <1>2, <1>6 DEF TxInv, Fueled, FundedTransfersSucceed
  <2> QED
    BY <1>5, <1>6, <2>1
<1> QED
  BY <1>4, <1>5, <1>6 DEF Mine

\* What a job object says stays true.
LEMMA JobChainKept ==
  ASSUME ChainKept, NEW j \in Job, JobChain(j)
  PROVE  JobChain(j)'
<1>1. j.gasTxId \in Nat \cup {NoTx} /\ j.sweepTxId \in Nat \cup {NoTx}
  BY SweepAssumption DEF Job
<1> QED
  BY <1>1 DEF ChainKept, JobChain

\* A pass that does not move keeps what it knows.
LEMMA PassChainKept ==
  ASSUME ChainInv, ChainKept, NEW p \in Passes, pc'[p] = pc[p], copy'[p] = copy[p]
  PROVE  PassChain(p)'
<1>1. pc[p] \in Carrying => copy[p] \in Job /\ JobChain(copy[p])
  BY DEF ChainInv, TypeInv, PassType, PassChain
<1>2. pc[p] \in Carrying => JobChain(copy[p])'
  BY <1>1, JobChainKept
<1> QED
  BY <1>2 DEF ChainInv, ChainKept, PassChain

\* A pass's step tells its job object, the database and the chain the truth.
LEMMA PassKeepsChain ==
  ASSUME ChainInv, TypeInv', NEW p \in Passes,
         \/ StartEnqueue(p) \/ StartRetry(p) \/ StartStep(p)
         \/ Step(p) \/ NotConfirmed(p) \/ StepFails(p) \/ BroadcastThrows(p) \/ Crash(p)
  PROVE  ChainInv'
<1> USE DEF At
<1>1. /\ TypeInv /\ PassType(p) /\ PassChain(p)
      /\ job \in Job \cup {NoJob} /\ NoJob \notin Job /\ (job # NoJob => JobChain(job))
  BY SweepAssumption DEF ChainInv, TypeInv, TypeOK
<1>2. ASSUME NEW label \in PC, NEW j \in Job \cup {NoJob}, Carry(p, j, label),
             ChainKept, \A n \in DOMAIN txs' : TxInv(n)',
             job' = job \/ job' = NoJob \/ JobChain(job)',
             label \in Carrying => JobChain(j)',
             label = "gasConfirmed" => j.status = "GAS_FUELING",
             label \in {"trx", "fuelGas"} => Funded',
             label = "sweepTrc20" => Fueled'
      PROVE  ChainInv'
  <2>1. /\ pc'[p] = label /\ copy'[p] = j
        /\ \A q \in Passes \ {p} : pc'[q] = pc[q] /\ copy'[q] = copy[q]
    BY <1>1, <1>2, Carried
  <2>2. PassChain(p)'
    BY <1>2, <2>1 DEF PassChain
  <2>3. \A q \in Passes : PassChain(q)'
    BY <1>2, <2>1, <2>2, PassChainKept
  <2>4. (job # NoJob => JobChain(job))'
    <3>1. CASE job' = job /\ job # NoJob
      <4>1. PICK j0 \in Job : j0 = job /\ JobChain(j0)
        BY <1>1, <3>1
      <4>2. JobChain(j0)'
        BY <1>2, <4>1, JobChainKept
      <4> QED
        BY <3>1, <4>1, <4>2 DEF JobChain
    <3> QED
      BY <1>2, <3>1
  <2> QED
    BY <1>2, <2>3, <2>4 DEF ChainInv
<1>3. ASSUME UNCHANGED chainVars PROVE ChainKept /\ \A n \in DOMAIN txs' : TxInv(n)'
  BY <1>3 DEF ChainInv, ChainKept, chainVars, TxInv, TxIs, Funded, Fueled
<1>4. CASE StartEnqueue(p)
  <2>1. Carry(p, NoJob, "create")
    BY <1>1, <1>4 DEF StartEnqueue, Carry, PassType, Carrying, TypeInv, TypeOK
  <2> QED
    BY <1>2, <1>3, <1>4, <2>1 DEF StartEnqueue, jobVars, PC, Carrying
<1>5. CASE StartRetry(p)
  <2>1. job \in Job /\ JobChain(job) /\ UNCHANGED <<job, chainVars>>
    BY <1>1, <1>5 DEF StartRetry, jobVars
  <2>2. PICK j : j = [job EXCEPT !.status = "PENDING", !.attempts = 0]
    OBVIOUS
  <2>3. j \in Job /\ j.status = "PENDING" /\ j.gasTxId = job.gasTxId /\ j.sweepTxId = job.sweepTxId
    <3>1. "PENDING" \in Status
      BY DEF Status
    <3> QED
      BY <2>1, <2>2, <3>1, AdvanceType
  <2>4. Carry(p, j, "requeue")
    BY <1>5, <2>2 DEF StartRetry
  <2>5. JobChain(j)
    BY <2>1, <2>3 DEF JobChain
  <2> QED
    BY <1>2, <1>3, <2>1, <2>3, <2>4, <2>5, JobChainKept DEF PC
<1>6. CASE StartStep(p)
  <2>1. PICK j \in Job : j = job /\ JobChain(j) /\ j.status \in WaitingStatus
    BY <1>1, <1>6 DEF StartStep, isSweepTerminal, Job, Status, WaitingStatus
  <2>2. /\ FirstAwait(j.status) \in {"balance", "gasConfirmed", "sweepConfirmed"}
        /\ FirstAwait(j.status) = "gasConfirmed" => j.status = "GAS_FUELING"
    BY <2>1 DEF FirstAwait, WaitingStatus
  <2>3. Carry(p, j, FirstAwait(j.status)) /\ UNCHANGED <<job, chainVars>>
    BY <1>6, <2>1 DEF StartStep, jobVars
  <2> QED
    BY <1>2, <1>3, <2>1, <2>2, <2>3, JobChainKept DEF PC
<1>7. CASE CreateJob(p)
  <2>1. Carry(p, NoJob, "idle") /\ UNCHANGED chainVars
    BY <1>7 DEF CreateJob, Stop
  <2>2. job' = job \/ JobChain(job)'
    <3>1. CASE job = NoJob
      BY <1>7, <3>1 DEF CreateJob, JobChain, TxIs
    <3> QED
      BY <1>7, <3>1 DEF CreateJob, jobVars
  <2> QED
    BY <1>2, <1>3, <2>1, <2>2 DEF PC, Carrying
<1>8. CASE ReadBalance(p)
  <2>1. PICK c \in Job : c = copy[p] /\ JobChain(c) /\ UNCHANGED <<job, chainVars>>
    BY <1>1, <1>8 DEF ReadBalance, PassType, PassChain, Carrying, PC, jobVars
  <2>2. CASE ~usdt
    <3>1. PICK j : j = [c EXCEPT !.status = "EMPTY"]
      OBVIOUS
    <3>2. j \in Job /\ j.status = "EMPTY" /\ j.gasTxId = c.gasTxId /\ j.sweepTxId = c.sweepTxId
      BY <3>1 DEF Job, Status
    <3>3. Carry(p, j, "update")
      BY <1>8, <2>1, <2>2, <3>1 DEF ReadBalance, finish
    <3>4. JobChain(j)
      BY <2>1, <3>2 DEF JobChain
    <3> QED
      BY <1>2, <1>3, <2>1, <3>2, <3>3, <3>4, JobChainKept DEF PC
  <2>3. CASE usdt
    <3>1. Carry(p, c, "trx") /\ Funded'
      BY <1>1, <1>8, <2>1, <2>3 DEF ReadBalance, Carry, TypeInv, TypeOK, Funded, chainVars
    <3> QED
      BY <1>2, <1>3, <2>1, <3>1, JobChainKept DEF PC
  <2> QED
    BY <2>2, <2>3
<1>9. CASE ReadTrx(p)
  <2>1. PICK c \in Job : c = copy[p] /\ JobChain(c) /\ UNCHANGED <<job, chainVars>>
    BY <1>1, <1>9 DEF ReadTrx, PassType, PassChain, Carrying, PC, jobVars
  <2>2. PICK label \in {"sweepTrc20", "fuelGas"} : Carry(p, c, label) /\ (label = "sweepTrc20" => trx)
    BY <1>1, <1>9, <2>1 DEF ReadTrx, Carry, TypeInv, TypeOK
  <2>3. Funded' /\ (label = "sweepTrc20" => Fueled')
    BY <1>1, <1>9, <2>1, <2>2 DEF ReadTrx, PassChain, Funded, Fueled, chainVars
  <2> QED
    BY <1>2, <1>3, <2>1, <2>2, <2>3, JobChainKept DEF PC
<1>10. CASE NotConfirmed(p)
  <2>1. PICK c \in Job : c = copy[p] /\ JobChain(c) /\ UNCHANGED <<job, chainVars>>
    BY <1>1, <1>10 DEF NotConfirmed, PassType, PassChain, Carrying, PC, jobVars
  <2>2. Carry(p, c, "update")
    BY <1>1, <1>10, <2>1 DEF NotConfirmed, defer, Carry, TypeInv, TypeOK
  <2> QED
    BY <1>2, <1>3, <2>1, <2>2, JobChainKept DEF PC
<1>11. CASE FuelGas(p)
  <2>1. PICK c \in Job : c = copy[p] /\ JobChain(c)
    BY <1>1, <1>11 DEF FuelGas, PassType, PassChain, Carrying, PC
  <2>2. /\ Funded /\ ChainKept /\ \A m \in DOMAIN txs' : TxInv(m)'
        /\ Len(txs') \in 1..MaxTxs /\ TxIs(Len(txs), "gas")'
    BY <1>1, <1>11, BroadcastKeeps DEF FuelGas, PassChain
  <2>3. PICK n, gas, j : /\ n = Len(txs') /\ gas = [c EXCEPT !.gasTxId = n]
                         /\ j = [gas EXCEPT !.status = "GAS_FUELING", !.attempts = 0]
    OBVIOUS
  <2>4. Carry(p, j, "update") /\ UNCHANGED job
    BY <1>11, <2>1, <2>3 DEF FuelGas, advance, jobVars
  <2>5. gas \in Job /\ gas.gasTxId = n /\ gas.sweepTxId = c.sweepTxId
    <3>1. n \in 1..MaxTxs
      BY <2>2, <2>3
    <3> QED
      BY <2>3, <3>1, BroadcastType
  <2>6. j \in Job /\ j.status = "GAS_FUELING" /\ j.gasTxId = n /\ j.sweepTxId = c.sweepTxId
    <3>1. "GAS_FUELING" \in Status
      BY DEF Status
    <3>2. j = [gas EXCEPT !.status = "GAS_FUELING", !.attempts = 0]
      BY <2>3
    <3>3. gas \in Job
      BY <2>5
    <3>4. /\ j \in Job /\ j.status = "GAS_FUELING"
          /\ j.gasTxId = gas.gasTxId /\ j.sweepTxId = gas.sweepTxId
      BY <3>1, <3>2, <3>3, AdvanceType
    <3> QED
      BY <2>5, <3>4
  <2>7. JobChain(c)'
    BY <2>1, <2>2, JobChainKept
  <2>8. JobChain(j)'
    BY <2>2, <2>3, <2>6, <2>7 DEF JobChain, TxIs, ChainKept
  <2> QED
    BY <1>2, <2>2, <2>4, <2>6, <2>8 DEF PC
<1>12. CASE SweepTrc20(p)
  <2>1. PICK c \in Job : c = copy[p] /\ JobChain(c)
    BY <1>1, <1>12 DEF SweepTrc20, PassType, PassChain, Carrying, PC
  <2>2. /\ Fueled /\ ChainKept /\ \A m \in DOMAIN txs' : TxInv(m)'
        /\ Len(txs') \in 1..MaxTxs /\ TxIs(Len(txs), "sweep")'
    BY <1>1, <1>12, BroadcastKeeps DEF SweepTrc20, PassChain
  <2>3. PICK n, sweep, j : /\ n = Len(txs') /\ sweep = [c EXCEPT !.sweepTxId = n]
                           /\ j = [sweep EXCEPT !.status = "SWEEPING", !.attempts = 0]
    OBVIOUS
  <2>4. Carry(p, j, "update") /\ UNCHANGED job
    BY <1>12, <2>1, <2>3 DEF SweepTrc20, advance, jobVars
  <2>5. sweep \in Job /\ sweep.sweepTxId = n /\ sweep.gasTxId = c.gasTxId
    <3>1. n \in 1..MaxTxs
      BY <2>2, <2>3
    <3> QED
      BY <2>3, <3>1, BroadcastType
  <2>6. j \in Job /\ j.status = "SWEEPING" /\ j.sweepTxId = n /\ j.gasTxId = c.gasTxId
    <3>1. "SWEEPING" \in Status
      BY DEF Status
    <3>2. j = [sweep EXCEPT !.status = "SWEEPING", !.attempts = 0]
      BY <2>3
    <3>3. sweep \in Job
      BY <2>5
    <3>4. /\ j \in Job /\ j.status = "SWEEPING"
          /\ j.gasTxId = sweep.gasTxId /\ j.sweepTxId = sweep.sweepTxId
      BY <3>1, <3>2, <3>3, AdvanceType
    <3> QED
      BY <2>5, <3>4
  <2>7. JobChain(c)'
    BY <2>1, <2>2, JobChainKept
  <2>8. JobChain(j)'
    BY <2>2, <2>3, <2>6, <2>7 DEF JobChain, TxIs
  <2> QED
    BY <1>2, <2>2, <2>4, <2>6, <2>8 DEF PC
<1>13. CASE GasConfirmed(p)
  <2>1. PICK c \in Job : /\ c = copy[p] /\ JobChain(c) /\ c.status = "GAS_FUELING"
                         /\ UNCHANGED <<job, chainVars>>
    BY <1>1, <1>13 DEF GasConfirmed, PassType, PassChain, Carrying, PC, jobVars
  <2>2. /\ c.gasTxId \in DOMAIN txs /\ TxInv(c.gasTxId)
        /\ txs[c.gasTxId].kind = "gas" /\ txs[c.gasTxId].state # "broadcast"
    BY <1>13, <2>1 DEF GasConfirmed, isConfirmed, JobChain, TxIs, ChainInv
  <2>3. Fueled'
    BY <2>1, <2>2 DEF JobChain, TxInv, Funded, Fueled, chainVars
  <2>4. Carry(p, c, "sweepTrc20")
    BY <1>1, <1>13, <2>1 DEF GasConfirmed, Carry, TypeInv, TypeOK
  <2> QED
    BY <1>2, <1>3, <2>1, <2>3, <2>4, JobChainKept DEF PC
<1>14. CASE SweepConfirmed(p)
  <2>1. PICK c \in Job : c = copy[p] /\ JobChain(c) /\ UNCHANGED <<job, chainVars>>
    BY <1>1, <1>14 DEF SweepConfirmed, PassType, PassChain, Carrying, PC, jobVars
  <2>2. collected
    BY <1>14, <2>1 DEF SweepConfirmed, isConfirmed, JobChain, TxIs, TxInv, ChainInv
  <2>3. PICK j : j = [c EXCEPT !.status = "SWEPT"]
    OBVIOUS
  <2>4. j \in Job /\ j.status = "SWEPT" /\ j.gasTxId = c.gasTxId /\ j.sweepTxId = c.sweepTxId
    BY <2>3 DEF Job, Status
  <2>5. Carry(p, j, "update")
    BY <1>14, <2>1, <2>3 DEF SweepConfirmed, finish
  <2>6. JobChain(j)
    BY <2>1, <2>2, <2>4 DEF JobChain
  <2> QED
    BY <1>2, <1>3, <2>1, <2>4, <2>5, <2>6, JobChainKept DEF PC
<1>15. CASE Update(p)
  <2>1. PICK c \in Job : c = copy[p] /\ JobChain(c)
    BY <1>1, <1>15 DEF Update, PassType, PassChain, Carrying, PC
  <2>2. Carry(p, NoJob, "idle") /\ job' = c /\ UNCHANGED chainVars
    BY <1>15, <2>1 DEF Update, Stop
  <2>3. JobChain(c)'
    BY <1>3, <2>1, <2>2, JobChainKept
  <2>4. JobChain(job)'
    BY <2>2, <2>3 DEF JobChain
  <2> QED
    BY <1>2, <1>3, <2>2, <2>4 DEF PC, Carrying
<1>16. CASE StepFails(p)
  <2>1. PICK c \in Job : /\ c = copy[p] /\ AttemptsInv(c) /\ c.status # "FAILED"
                         /\ JobChain(c) /\ UNCHANGED <<job, chainVars>>
    BY <1>1, <1>16 DEF StepFails, PassType, PassChain, Carrying, PC, Stepping, jobVars, TypeInv, TypeOK
  <2>2. PICK j : j = onError(c)
    OBVIOUS
  <2>3. /\ j \in Job /\ j.status \in {c.status, "FAILED"}
        /\ j.gasTxId = c.gasTxId /\ j.sweepTxId = c.sweepTxId
    BY <2>1, <2>2, ErrorType
  <2>4. Carry(p, j, "updateError")
    BY <1>16, <2>1, <2>2 DEF StepFails
  <2>5. JobChain(j)
    BY <2>1, <2>3 DEF JobChain
  <2> QED
    BY <1>2, <1>3, <2>1, <2>3, <2>4, <2>5, JobChainKept DEF PC
<1>17. CASE BroadcastThrows(p)
  <2>1. PICK c \in Job : c = copy[p] /\ AttemptsInv(c) /\ c.status # "FAILED" /\ JobChain(c)
    BY <1>1, <1>17 DEF BroadcastThrows, PassType, PassChain, Carrying, PC, Stepping
  <2>2. ChainKept /\ \A m \in DOMAIN txs' : TxInv(m)'
    <3>1. CASE At(p, "fuelGas") /\ Broadcast("gas")
      BY <1>17, <3>1, BroadcastKeeps DEF BroadcastThrows
    <3>2. CASE At(p, "sweepTrc20") /\ Broadcast("sweep")
      BY <1>1, <1>17, <3>2, BroadcastKeeps DEF BroadcastThrows, PassChain
    <3> QED
      BY <1>17, <3>1, <3>2 DEF BroadcastThrows
  <2>3. PICK j : j = onError(c)
    OBVIOUS
  <2>4. /\ j \in Job /\ j.status \in {c.status, "FAILED"}
        /\ j.gasTxId = c.gasTxId /\ j.sweepTxId = c.sweepTxId
    BY <2>1, <2>3, ErrorType
  <2>5. Carry(p, j, "updateError") /\ UNCHANGED job
    BY <1>17, <2>1, <2>3 DEF BroadcastThrows, jobVars
  <2>6. JobChain(j)
    BY <2>1, <2>4 DEF JobChain
  <2> QED
    BY <1>2, <2>2, <2>4, <2>5, <2>6, JobChainKept DEF PC
<1>18. CASE Crash(p)
  BY <1>2, <1>3, <1>18 DEF Crash, Stop, jobVars, PC, Carrying
<1> QED
  BY <1>4, <1>5, <1>6, <1>7, <1>8, <1>9, <1>10, <1>11, <1>12, <1>13, <1>14, <1>15,
     <1>16, <1>17, <1>18 DEF Step

\* In the initial states there is nothing to know.
LEMMA InitChain ==
  ASSUME Init  PROVE ChainInv
<1>1. DOMAIN txs = {}
  BY DEF Init
<1> QED
  BY <1>1, InitType DEF Init, ChainInv, PassChain, Carrying

\* Every step tells the truth, if no funded transfer is reverted.
LEMMA NextChain ==
  ASSUME FundedTransfersSucceed, ChainInv, [Next]_vars
  PROVE  ChainInv'
<1>1. TypeInv'
  BY NextType DEF ChainInv
<1>2. CASE \E p \in Passes :
             StartEnqueue(p) \/ StartRetry(p) \/ StartStep(p)
               \/ Step(p) \/ NotConfirmed(p) \/ StepFails(p) \/ BroadcastThrows(p) \/ Crash(p)
  BY <1>1, <1>2, PassKeepsChain
<1>3. ASSUME ChainKept, \A n \in DOMAIN txs' : TxInv(n)', UNCHANGED <<job, pc, copy>>
      PROVE  ChainInv'
  <2>1. \A p \in Passes : PassChain(p)'
    BY <1>3, PassChainKept
  <2>2. (job # NoJob => JobChain(job))'
    <3>1. CASE job # NoJob
      <4>1. PICK j \in Job : j = job /\ JobChain(j)
        BY <3>1 DEF ChainInv, TypeInv, TypeOK
      <4>2. JobChain(j)'
        BY <1>3, <4>1, JobChainKept
      <4> QED
        BY <1>3, <4>1, <4>2 DEF JobChain
    <3> QED
      BY <1>3, <3>1
  <2> QED
    BY <1>1, <1>3, <2>1, <2>2 DEF ChainInv
<1>4. CASE \E n \in 1..MaxTxs : Mine(n)
  <2>1. PICK n \in 1..MaxTxs : Mine(n)
    BY <1>4
  <2>2. ChainKept /\ \A m \in DOMAIN txs' : TxInv(m)'
    BY <2>1, MineKeeps
  <2> QED
    BY <1>3, <2>1, <2>2 DEF Mine, jobVars, passVars
<1>5. CASE Wait \/ UNCHANGED vars
  <2>1. UNCHANGED <<job, pc, copy, usdt, trx, txs, collected>>
    BY <1>5 DEF Wait, vars, jobVars, passVars, chainVars
  <2>2. ChainKept /\ \A n \in DOMAIN txs' : TxInv(n)'
    BY <2>1 DEF ChainInv, ChainKept, TxInv, TxIs, Funded, Fueled
  <2> QED
    BY <1>3, <2>1, <2>2
<1> QED
  BY <1>2, <1>4, <1>5 DEF Next

\* However passes overlap, die and are retried, a job whose status says the funds
\* are confirmed at the collection address (SweepService.step, SWEEPING) has had
\* its deposit collected: isConfirmed only counts blocks, but a transfer is
\* broadcast only once the address has the funds and the gas, and one that then
\* succeeds is the only step that takes them away.
THEOREM SweptIsCollected ==
  ASSUME FundedTransfersSucceed  PROVE Spec => []SweptMeansCollected
<1>1. Init => ChainInv
  BY InitChain
<1>2. ChainInv /\ [Next]_vars => ChainInv'
  BY NextChain
<1>3. ChainInv => SweptMeansCollected
  BY DEF ChainInv, JobChain, SweptMeansCollected
<1> QED
  BY <1>1, <1>2, <1>3, PTL DEF Spec

-----------------------------------------------------------------------------
(* Nothing the service was told of is sent twice *)

\* The transactions a job object names.
Ids(j) == {j.gasTxId, j.sweepTxId} \ {NoTx}

\* They have been broadcast.
Known ==
  /\ job # NoJob => Ids(job) \subseteq DOMAIN txs
  /\ \A p \in Passes : pc[p] \in Carrying => Ids(copy[p]) \subseteq DOMAIN txs

\* What the service knows to have been sent, and what a death of p would leave of it.
Count(kind) == Cardinality(Told(kind))
SavedCount(p, kind) == Cardinality(Told(kind) \ Unsaved(p))

\* The statuses at which a step may still send a transaction of the kind.
Sendable(kind) == IF kind = "gas" THEN {"PENDING"} ELSE {"PENDING", "GAS_FUELING"}

\* A job that may still send has not sent since it was created or retried, as far
\* as it, or after a death its row, knows.
SentTask(kind) ==
  /\ Count(kind) <= 1 + retries
  /\ job = NoJob => Count(kind) = 0
  /\ \A p \in Passes :
       /\ pc[p] \in Carrying /\ copy[p].status \in Sendable(kind) => Count(kind) <= retries
       /\ job # NoJob /\ job.status \in Sendable(kind) => SavedCount(p, kind) <= retries

SentInv == PassInv /\ Known /\ \A kind \in {"gas", "sweep"} : SentTask(kind)

\* A broadcast adds one transaction at the end.
LEMMA BroadcastAdds ==
  ASSUME TypeInv, NEW kind \in {"gas", "sweep"}, Broadcast(kind)
  PROVE  /\ DOMAIN txs' = DOMAIN txs \cup {Len(txs')} /\ Len(txs') \notin DOMAIN txs
         /\ Len(txs') \in 1..MaxTxs /\ txs'[Len(txs')].kind = kind
         /\ \A m \in DOMAIN txs : txs'[m] = txs[m]
<1>1. txs \in Seq(Tx) /\ Len(txs) < MaxTxs /\ MaxTxs \in Nat
  BY SweepAssumption DEF TypeInv, TypeOK, Broadcast
<1>2. PICK tx \in Tx : tx.kind = kind /\ txs' = Append(txs, tx)
  BY DEF Tx, Broadcast
<1>3. DOMAIN txs = 1..Len(txs) /\ Len(txs) \in Nat /\ Len(txs') = Len(txs) + 1 /\ DOMAIN txs' = 1..Len(txs')
  BY <1>1, <1>2
<1> QED
  BY <1>1, <1>2, <1>3

\* The transactions a job object names are still there after any step.
LEMMA NextKnown ==
  ASSUME TypeInv, Known, [Next]_vars
  PROVE  Known'
<1> USE DEF At
<1>1. DOMAIN txs \subseteq DOMAIN txs'
  <2>1. CASE \E kind \in {"gas", "sweep"} : Broadcast(kind)
    BY <2>1, BroadcastAdds
  <2>2. CASE \E n \in 1..MaxTxs : Mine(n)
    BY <2>2, Mined
  <2>3. CASE UNCHANGED txs
    BY <2>3
  <2> QED
    BY <2>1, <2>2, <2>3 DEF Next, Step, vars, chainVars, StartEnqueue, StartRetry, StartStep, CreateJob,
       ReadBalance, ReadTrx, FuelGas, SweepTrc20, GasConfirmed, SweepConfirmed, Update, NotConfirmed,
       StepFails, BroadcastThrows, Crash, Wait
<1>2. ASSUME NEW p \in Passes, NEW j \in Job \cup {NoJob}, NEW label \in PC, Carry(p, j, label),
             label \in Carrying => Ids(j) \subseteq DOMAIN txs',
             job' = job \/ Ids(job') \subseteq DOMAIN txs'
      PROVE  Known'
  <2>1. /\ pc'[p] = label /\ copy'[p] = j
        /\ \A q \in Passes \ {p} : pc'[q] = pc[q] /\ copy'[q] = copy[q]
    BY <1>2, Carried
  <2> QED
    BY <1>1, <1>2, <2>1 DEF Known, Ids
<1>3. /\ job \in Job \cup {NoJob} /\ (job # NoJob => Ids(job) \subseteq DOMAIN txs)
      /\ \A p \in Passes : pc[p] \in Carrying => copy[p] \in Job /\ Ids(copy[p]) \subseteq DOMAIN txs
  BY DEF TypeInv, TypeOK, PassType, Known
<1>4. CASE UNCHANGED <<job, pc, copy>>
  BY <1>1, <1>4 DEF Known
<1>5. ASSUME NEW p \in Passes, StartEnqueue(p) \/ CreateJob(p) \/ Crash(p)
      PROVE  Known'
  <2>1. \E label \in {"create", "idle"} : Carry(p, NoJob, label)
    BY <1>5 DEF StartEnqueue, CreateJob, Crash, Stop, Carry, TypeInv, TypeOK, PassType, Carrying
  <2>2. job' = job \/ Ids(job') \subseteq DOMAIN txs'
    <3>1. CASE CreateJob(p) /\ job = NoJob
      BY <3>1 DEF CreateJob, Ids
    <3> QED
      BY <1>5, <3>1 DEF StartEnqueue, CreateJob, Crash, jobVars
  <2> QED
    BY <1>2, <2>1, <2>2 DEF PC, Carrying
<1>6. ASSUME NEW p \in Passes, StartRetry(p)  PROVE Known'
  <2>1. job \in Job /\ UNCHANGED job
    BY <1>3, <1>6 DEF StartRetry, jobVars
  <2>2. PICK j : j = [job EXCEPT !.status = "PENDING", !.attempts = 0]
    OBVIOUS
  <2>3. j \in Job /\ Ids(j) = Ids(job)
    <3>0. PICK status \in Status : status = "PENDING"
      BY DEF Status
    <3>1. j \in Job /\ j.gasTxId = job.gasTxId /\ j.sweepTxId = job.sweepTxId
      BY <2>1, <2>2, <3>0, AdvanceType
    <3> QED
      BY <3>1 DEF Ids
  <2>4. Carry(p, j, "requeue")
    BY <1>6, <2>2 DEF StartRetry
  <2> QED
    BY <1>1, <1>2, <1>3, <1>6, <2>1, <2>3, <2>4 DEF StartRetry, PC
<1>7. ASSUME NEW p \in Passes, StartStep(p)  PROVE Known'
  <2>1. job \in Job /\ FirstAwait(job.status) \in PC
    BY <1>3, <1>7 DEF StartStep, isSweepTerminal, Job, Status, FirstAwait, PC
  <2> QED
    BY <1>1, <1>2, <1>3, <1>7, <2>1 DEF StartStep, jobVars
\* A step that carries on an object with the same transactions.
<1>8. ASSUME NEW p \in Passes, pc[p] \in Carrying, NEW j \in Job, NEW label \in PC, Carry(p, j, label),
             j.gasTxId = copy[p].gasTxId, j.sweepTxId = copy[p].sweepTxId, UNCHANGED job
      PROVE  Known'
  BY <1>1, <1>2, <1>3, <1>8 DEF Ids
<1>9. ASSUME NEW p \in Passes, ReadTrx(p) \/ GasConfirmed(p) \/ NotConfirmed(p)
      PROVE  Known'
  <2>1. pc[p] \in Carrying /\ UNCHANGED job
    BY <1>9 DEF ReadTrx, GasConfirmed, NotConfirmed, Carrying, PC, jobVars
  <2>2. PICK label \in {"sweepTrc20", "fuelGas", "update"} : Carry(p, copy[p], label)
    BY <1>9 DEF ReadTrx, GasConfirmed, NotConfirmed, defer, Carry, TypeInv, TypeOK
  <2> QED
    BY <1>3, <1>8, <2>1, <2>2 DEF PC
<1>10. ASSUME NEW p \in Passes, ReadBalance(p) \/ SweepConfirmed(p)  PROVE Known'
  <2>1. pc[p] \in Carrying /\ UNCHANGED job /\ copy[p] \in Job
    BY <1>3, <1>10 DEF ReadBalance, SweepConfirmed, Carrying, PC, jobVars
  <2>2. \/ Carry(p, copy[p], "trx")
        \/ \E status \in {"EMPTY", "SWEPT"} : Carry(p, [copy[p] EXCEPT !.status = status], "update")
    BY <1>10 DEF ReadBalance, SweepConfirmed, finish, Carry, TypeInv, TypeOK
  <2>3. CASE Carry(p, copy[p], "trx")
    BY <1>8, <2>1, <2>3 DEF PC
  <2>4. ASSUME NEW status \in {"EMPTY", "SWEPT"}, Carry(p, [copy[p] EXCEPT !.status = status], "update")
        PROVE  Known'
    <3>1. PICK j : j = [copy[p] EXCEPT !.status = status]
      OBVIOUS
    <3>2. j \in Job /\ j.gasTxId = copy[p].gasTxId /\ j.sweepTxId = copy[p].sweepTxId
      BY <2>1, <3>1 DEF Job, Status
    <3> QED
      BY <1>8, <2>1, <2>4, <3>1, <3>2 DEF PC
  <2> QED
    BY <2>2, <2>3, <2>4
<1>11. ASSUME NEW p \in Passes, FuelGas(p) \/ SweepTrc20(p)  PROVE Known'
  <2>1. copy[p] \in Job /\ Ids(copy[p]) \subseteq DOMAIN txs' /\ UNCHANGED job
    BY <1>1, <1>3, <1>11 DEF FuelGas, SweepTrc20, Carrying, PC, jobVars
  <2>2. PICK n : n = Len(txs') /\ n \in DOMAIN txs' /\ n \in 1..MaxTxs
    BY <1>11, BroadcastAdds DEF FuelGas, SweepTrc20
  <2>3. PICK gas, sweep : gas = [copy[p] EXCEPT !.gasTxId = n] /\ sweep = [copy[p] EXCEPT !.sweepTxId = n]
    OBVIOUS
  <2>4. gas \in Job /\ sweep \in Job /\ Ids(gas) \subseteq DOMAIN txs' /\ Ids(sweep) \subseteq DOMAIN txs'
    BY <2>1, <2>2, <2>3, BroadcastType DEF Ids
  <2>5. PICK k \in {gas, sweep}, status \in {"GAS_FUELING", "SWEEPING"} :
          Carry(p, [k EXCEPT !.status = status, !.attempts = 0], "update")
    BY <1>11, <2>2, <2>3 DEF FuelGas, SweepTrc20, advance
  <2>6. PICK j : j = [k EXCEPT !.status = status, !.attempts = 0]
    OBVIOUS
  <2>7. status \in Status /\ k \in Job
    BY <2>4 DEF Status
  <2>8. j \in Job /\ Ids(j) = Ids(k)
    <3>1. j \in Job /\ j.gasTxId = k.gasTxId /\ j.sweepTxId = k.sweepTxId
      BY <2>6, <2>7, AdvanceType
    <3> QED
      BY <3>1 DEF Ids
  <2> QED
    BY <1>2, <2>1, <2>4, <2>5, <2>6, <2>8 DEF PC
<1>12. ASSUME NEW p \in Passes, Update(p)  PROVE Known'
  <2>1. copy[p] \in Job /\ Ids(copy[p]) \subseteq DOMAIN txs' /\ job' = copy[p] /\ Carry(p, NoJob, "idle")
    BY <1>1, <1>3, <1>12 DEF Update, Stop, Carrying, PC
  <2> QED
    BY <1>2, <2>1 DEF PC, Carrying
<1>13. ASSUME NEW p \in Passes, StepFails(p) \/ BroadcastThrows(p)  PROVE Known'
  <2>1. /\ pc[p] \in Carrying /\ copy[p] \in Job /\ AttemptsInv(copy[p]) /\ copy[p].status # "FAILED"
        /\ UNCHANGED job /\ Carry(p, onError(copy[p]), "updateError")
    BY <1>13 DEF StepFails, BroadcastThrows, Stepping, Carrying, PC, jobVars, TypeInv, TypeOK, PassType
  <2>2. PICK j : j = onError(copy[p])
    OBVIOUS
  <2>3. j \in Job /\ j.gasTxId = copy[p].gasTxId /\ j.sweepTxId = copy[p].sweepTxId
    BY <2>1, <2>2, ErrorType
  <2> QED
    BY <1>8, <2>1, <2>2, <2>3 DEF PC
<1>14. ASSUME (\E n \in 1..MaxTxs : Mine(n)) \/ Wait \/ UNCHANGED vars
       PROVE  UNCHANGED <<job, pc, copy>>
  BY <1>14 DEF Mine, Wait, vars, jobVars, passVars
<1> QED
  BY <1>4, <1>5, <1>6, <1>7, <1>9, <1>10, <1>11, <1>12, <1>13, <1>14 DEF Next, Step

\* The transactions the service was told of are finitely many; fewer count no more.
LEMMA Subsets ==
  ASSUME NEW T, IsFiniteSet(T), NEW S \in SUBSET T
  PROVE  IsFiniteSet(S) /\ Cardinality(S) \in Nat /\ Cardinality(S) <= Cardinality(T)
BY FS_Subset, FS_CardinalityType

LEMMA ToldType ==
  ASSUME TypeInv, NEW kind
  PROVE  IsFiniteSet(Told(kind)) /\ Count(kind) \in Nat
<1>1. DOMAIN txs = 1..Len(txs) /\ Len(txs) \in Nat
  BY DEF TypeInv, TypeOK
<1>2. IsFiniteSet(DOMAIN txs)
  BY <1>1, FS_Interval
<1>3. Told(kind) \in SUBSET DOMAIN txs
  BY DEF Told, Sent
<1> QED
  BY <1>2, <1>3, Subsets DEF Count

\* Told of nothing new, the service knows of no more.
LEMMA NothingNew ==
  ASSUME TypeInv, NEW kind, Told(kind)' \subseteq Told(kind)
  PROVE  /\ Count(kind)' \in Nat /\ Count(kind)' <= Count(kind)
         /\ \A p : /\ SavedCount(p, kind)' \in Nat /\ SavedCount(p, kind)' <= Count(kind)
                   /\ Unsaved(p)' = Unsaved(p) => SavedCount(p, kind)' <= SavedCount(p, kind)
<1>1. IsFiniteSet(Told(kind)) /\ Told(kind)' \in SUBSET Told(kind)
  BY ToldType
<1>2. Count(kind)' \in Nat /\ Count(kind)' <= Count(kind)
  BY <1>1, Subsets DEF Count
<1> SUFFICES ASSUME NEW p
             PROVE  /\ SavedCount(p, kind)' \in Nat /\ SavedCount(p, kind)' <= Count(kind)
                    /\ Unsaved(p)' = Unsaved(p) => SavedCount(p, kind)' <= SavedCount(p, kind)
  BY <1>2
<1>3. SavedCount(p, kind)' \in Nat /\ SavedCount(p, kind)' <= Count(kind)
  <2>1. PICK S : S = Told(kind)' \ Unsaved(p)'
    OBVIOUS
  <2>2. S \in SUBSET Told(kind)
    BY <1>1, <2>1
  <2>3. Cardinality(S) \in Nat /\ Cardinality(S) <= Cardinality(Told(kind))
    BY <1>1, <2>2, Subsets
  <2> QED
    BY <2>1, <2>3 DEF SavedCount, Count
<1>4. ASSUME Unsaved(p)' = Unsaved(p)  PROVE SavedCount(p, kind)' <= SavedCount(p, kind)
  <2>1. PICK S, T : S = Told(kind)' \ Unsaved(p) /\ T = Told(kind) \ Unsaved(p)
    OBVIOUS
  <2>2. T \in SUBSET Told(kind) /\ S \in SUBSET T
    BY <1>1, <2>1
  <2>3. Cardinality(S) <= Cardinality(T)
    BY <1>1, <2>2, Subsets
  <2> QED
    BY <1>4, <2>1, <2>3 DEF SavedCount
<1> QED
  BY <1>3, <1>4

\* A broadcast whose id the pass is given counts once, and a death of the pass
\* would leave no record of it.
LEMMA BroadcastCounts ==
  ASSUME TypeInv, NEW kind \in {"gas", "sweep"}, Broadcast(kind), UNCHANGED untold, NEW k, NEW p
  PROVE  /\ Count(k)' \in Nat /\ Count(k)' <= IF k = kind THEN Count(k) + 1 ELSE Count(k)
         /\ Len(txs') \in Unsaved(p)' => SavedCount(p, k)' \in Nat /\ SavedCount(p, k)' <= Count(k)
<1>1. PICK n : n = Len(txs') /\ n \notin DOMAIN txs /\ DOMAIN txs' = DOMAIN txs \cup {n}
               /\ txs'[n].kind = kind /\ \A m \in DOMAIN txs : txs'[m] = txs[m]
  BY BroadcastAdds
<1>2. Told(k)' \subseteq IF k = kind THEN Told(k) \cup {n} ELSE Told(k)
  BY <1>1 DEF Told, Sent
<1>3. IsFiniteSet(Told(k)) /\ Count(k) \in Nat
  BY ToldType
<1>4. Count(k)' \in Nat /\ Count(k)' <= IF k = kind THEN Count(k) + 1 ELSE Count(k)
  <2>1. CASE k # kind
    BY <1>2, <2>1, NothingNew
  <2>2. CASE k = kind
    <3>1. n \notin Told(k)
      BY <1>1 DEF Told, Sent
    <3>2. IsFiniteSet(Told(k) \cup {n}) /\ Cardinality(Told(k) \cup {n}) = Count(k) + 1
      BY <1>3, <3>1, FS_AddElement DEF Count
    <3>3. Told(k)' \in SUBSET (Told(k) \cup {n})
      BY <1>2, <2>2
    <3>4. Cardinality(Told(k)') \in Nat /\ Cardinality(Told(k)') <= Count(k) + 1
      BY <3>2, <3>3, Subsets
    <3> QED
      BY <2>2, <3>4 DEF Count
  <2> QED
    BY <2>1, <2>2
<1>5. ASSUME n \in Unsaved(p)'  PROVE SavedCount(p, k)' \in Nat /\ SavedCount(p, k)' <= Count(k)
  <2>1. PICK S : S = Told(k)' \ Unsaved(p)'
    OBVIOUS
  <2>2. S \in SUBSET Told(k)
    BY <1>2, <1>5, <2>1
  <2>3. Cardinality(S) \in Nat /\ Cardinality(S) <= Cardinality(Told(k))
    BY <1>3, <2>2, Subsets
  <2> QED
    BY <2>1, <2>3 DEF SavedCount, Count
<1> QED
  BY <1>1, <1>4, <1>5

\* A block tells the service nothing.
LEMMA MineCounts ==
  ASSUME TypeInv, NEW n \in 1..MaxTxs, Mine(n), NEW k
  PROVE  Told(k)' = Told(k)
<1>1. {m \in DOMAIN txs' : txs'[m].kind = k} = {m \in DOMAIN txs : txs[m].kind = k}
  BY Mined
<1>2. UNCHANGED untold
  BY DEF Mine
<1> QED
  BY <1>1, <1>2 DEF Told, Sent

\* The lone pass's step sends what may still be sent.
LEMMA PassSends ==
  ASSUME OnePass, SentInv, NEW p \in Passes,
         \/ StartEnqueue(p) \/ StartRetry(p) \/ StartStep(p)
         \/ Step(p) \/ NotConfirmed(p) \/ StepFails(p) \/ BroadcastThrows(p) \/ Crash(p),
         NEW kind \in {"gas", "sweep"}
  PROVE  SentTask(kind)'
<1> USE DEF At
<1>1. /\ TypeInv /\ PassType(p) /\ PassTask(p) /\ SentTask(kind) /\ Known
      /\ job \in Job \cup {NoJob} /\ NoJob \notin Job /\ retries \in Nat /\ Count(kind) \in Nat
      /\ \A q \in Passes : q = p
  <2>1. TypeInv /\ PassTask(p) /\ SentTask(kind) /\ Known
    BY DEF SentInv, PassInv
  <2>2. retries \in Nat /\ job \in Job \cup {NoJob} /\ NoJob \notin Job /\ PassType(p)
    BY <2>1, SweepAssumption DEF TypeInv, TypeOK
  <2> QED
    BY <2>1, <2>2, ToldType DEF OnePass
<1>2. ASSUME NEW label \in PC, NEW j \in Job \cup {NoJob}, Carry(p, j, label),
             Count(kind)' <= 1 + retries',
             job' = NoJob => Count(kind)' = 0,
             label \in Carrying /\ j.status \in Sendable(kind) => Count(kind)' <= retries',
             job' # NoJob /\ job'.status \in Sendable(kind) => SavedCount(p, kind)' <= retries'
      PROVE  SentTask(kind)'
  <2>1. pc'[p] = label /\ copy'[p] = j
    BY <1>1, <1>2, Carried
  <2> QED
    BY <1>1, <1>2, <2>1 DEF SentTask
\* A step that tells the service of nothing it did not know.
<1>3. ASSUME Told(kind)' \subseteq Told(kind)
      PROVE  /\ Count(kind)' \in Nat /\ Count(kind)' <= Count(kind)
             /\ SavedCount(p, kind)' \in Nat /\ SavedCount(p, kind)' <= Count(kind)
             /\ Unsaved(p)' = Unsaved(p) => SavedCount(p, kind)' <= SavedCount(p, kind)
  BY <1>1, <1>3, NothingNew
<1>4. pc[p] \in Carrying => /\ copy[p] \in Job /\ job # NoJob
                            /\ copy[p].status \in Sendable(kind) => Count(kind) <= retries
  BY <1>1 DEF PassType, SentTask
<1>5. /\ Count(kind) <= 1 + retries /\ (job = NoJob => Count(kind) = 0)
      /\ job # NoJob /\ job.status \in Sendable(kind) => SavedCount(p, kind) <= retries
  BY <1>1 DEF SentTask
<1>6. pc[p] \notin Carrying => Unsaved(p) = {} /\ SavedCount(p, kind) = Count(kind)
  <2>1. ASSUME Unsaved(p) = {}  PROVE Told(kind) \ Unsaved(p) = Told(kind)
    BY <2>1
  <2> QED
    BY <1>1, <2>1 DEF PassType, Unsaved, SavedCount, Count
<1>7. SavedCount(p, kind) \in Nat
  <2>1. PICK S : S = Told(kind) \ Unsaved(p)
    OBVIOUS
  <2>2. S \in SUBSET Told(kind) /\ IsFiniteSet(Told(kind))
    BY <1>1, <2>1, ToldType
  <2>3. Cardinality(S) \in Nat
    BY <2>2, Subsets
  <2> QED
    BY <2>1, <2>3 DEF SavedCount
<1>8. CASE StartEnqueue(p)
  <2>1. Carry(p, NoJob, "create") /\ UNCHANGED <<job, retries>> /\ job = NoJob
    BY <1>1, <1>8 DEF StartEnqueue, Carry, PassType, Carrying, TypeInv, TypeOK, jobVars
  <2>2. Told(kind)' = Told(kind)
    BY <1>8 DEF StartEnqueue, chainVars, Told, Sent
  <2> QED
    BY <1>1, <1>2, <1>3, <1>5, <2>1, <2>2 DEF PC, Carrying
<1>9. CASE StartRetry(p)
  <2>1. job \in Job /\ job.status = "FAILED" /\ UNCHANGED job /\ retries' = retries + 1
    BY <1>1, <1>9 DEF StartRetry, jobVars
  <2>2. PICK j : j = [job EXCEPT !.status = "PENDING", !.attempts = 0]
    OBVIOUS
  <2>3. j \in Job
    BY <2>1, <2>2, AdvanceType DEF Status
  <2>4. Carry(p, j, "requeue")
    BY <1>9, <2>2 DEF StartRetry
  <2>5. Told(kind)' = Told(kind)
    BY <1>9 DEF StartRetry, chainVars, Told, Sent
  <2>6. Count(kind)' <= 1 + retries' /\ Count(kind)' <= retries'
    BY <1>1, <1>3, <1>5, <2>1, <2>5
  <2>7. job' # NoJob /\ job'.status \notin Sendable(kind)
    BY <1>1, <2>1 DEF Sendable
  <2> QED
    BY <1>2, <2>3, <2>4, <2>6, <2>7 DEF PC
<1>10. CASE StartStep(p)
  <2>1. job \in Job /\ FirstAwait(job.status) \in Carrying /\ pc[p] \notin Carrying /\ copy[p] = NoJob
    BY <1>1, <1>10 DEF StartStep, isSweepTerminal, Job, Status, FirstAwait, Carrying, PC, PassType
  <2>2. Carry(p, job, FirstAwait(job.status)) /\ UNCHANGED <<job, retries>>
    BY <1>10 DEF StartStep, jobVars
  <2>3. Told(kind)' = Told(kind)
    BY <1>10 DEF StartStep, chainVars, Told, Sent
  <2>4. job.status \in Sendable(kind) => Count(kind) <= retries
    BY <1>1, <1>5, <1>6, <2>1
  <2>5. /\ Count(kind)' <= 1 + retries
        /\ job.status \in Sendable(kind) => Count(kind)' <= retries /\ SavedCount(p, kind)' <= retries
    BY <1>1, <1>3, <1>5, <2>3, <2>4
  <2> QED
    BY <1>1, <1>2, <2>1, <2>2, <2>5 DEF Carrying
<1>11. CASE CreateJob(p)
  <2>1. job = NoJob /\ retries' = retries /\ Carry(p, NoJob, "idle") /\ Told(kind)' = Told(kind)
    BY <1>1, <1>11 DEF CreateJob, PassTask, Stop, chainVars, Told, Sent
  <2>2. Count(kind)' = 0 /\ SavedCount(p, kind)' = 0
    BY <1>1, <1>3, <1>5, <2>1
  <2> QED
    BY <1>1, <1>2, <2>1, <2>2 DEF PC, Carrying
\* A step that goes on with a job object of the same transactions.
<1>12. ASSUME NEW c \in Job, c = copy[p], pc[p] \in Carrying, NEW j \in Job, NEW label \in Carrying,
              Carry(p, j, label), UNCHANGED <<job, retries>>, Told(kind)' \subseteq Told(kind),
              j.gasTxId = c.gasTxId, j.sweepTxId = c.sweepTxId,
              j.status \in Sendable(kind) => c.status = j.status
       PROVE  SentTask(kind)'
  <2>1. copy'[p] = j /\ label \in PC
    BY <1>1, <1>12, Carried DEF Carrying
  <2>2. Unsaved(p)' = Unsaved(p)
    BY <1>1, <1>12, <2>1 DEF Unsaved
  <2>3. /\ Count(kind)' <= 1 + retries'
        /\ j.status \in Sendable(kind) => Count(kind)' <= retries'
        /\ job.status \in Sendable(kind) => SavedCount(p, kind)' <= retries'
    BY <1>1, <1>3, <1>4, <1>5, <1>7, <1>12, <2>2
  <2> QED
    BY <1>2, <1>4, <1>12, <2>1, <2>3
<1>13. CASE ReadBalance(p) \/ SweepConfirmed(p)
  <2>1. PICK c \in Job : c = copy[p]
    BY <1>4, <1>13 DEF ReadBalance, SweepConfirmed, Carrying, PC
  <2>2. UNCHANGED <<job, retries>> /\ Told(kind)' = Told(kind) /\ pc[p] \in Carrying
    BY <1>13 DEF ReadBalance, SweepConfirmed, jobVars, chainVars, Told, Sent, Carrying, PC
  <2>3. \/ Carry(p, c, "trx")
        \/ \E status \in {"EMPTY", "SWEPT"} : Carry(p, [c EXCEPT !.status = status], "update")
    BY <1>1, <1>13, <2>1 DEF ReadBalance, SweepConfirmed, finish, Carry, TypeInv, TypeOK
  <2>4. CASE Carry(p, c, "trx")
    BY <1>12, <2>1, <2>2, <2>4 DEF PC, Carrying
  <2>5. ASSUME NEW status \in {"EMPTY", "SWEPT"}, Carry(p, [c EXCEPT !.status = status], "update")
        PROVE  SentTask(kind)'
    <3>1. PICK j : j = [c EXCEPT !.status = status]
      OBVIOUS
    <3>2. j \in Job /\ j.status = status /\ j.gasTxId = c.gasTxId /\ j.sweepTxId = c.sweepTxId
      BY <3>1 DEF Job, Status
    <3>3. j.status \notin Sendable(kind)
      BY <3>2 DEF Sendable
    <3> QED
      BY <1>12, <2>1, <2>2, <2>5, <3>1, <3>2, <3>3 DEF PC, Carrying
  <2> QED
    BY <2>3, <2>4, <2>5
<1>14. CASE ReadTrx(p) \/ GasConfirmed(p) \/ NotConfirmed(p)
  <2>1. PICK c \in Job : c = copy[p]
    BY <1>4, <1>14 DEF ReadTrx, GasConfirmed, NotConfirmed, Carrying, PC
  <2>2. UNCHANGED <<job, retries>> /\ Told(kind)' = Told(kind) /\ pc[p] \in Carrying
    BY <1>14 DEF ReadTrx, GasConfirmed, NotConfirmed, jobVars, chainVars, Told, Sent, Carrying, PC
  <2>3. PICK label \in {"sweepTrc20", "fuelGas", "update"} : Carry(p, c, label)
    BY <1>1, <1>14, <2>1 DEF ReadTrx, GasConfirmed, NotConfirmed, defer, Carry, TypeInv, TypeOK
  <2> QED
    BY <1>12, <2>1, <2>2, <2>3 DEF PC, Carrying
\* A broadcast whose id the service is given.
<1>15. ASSUME NEW sent \in {"gas", "sweep"}, Broadcast(sent), UNCHANGED <<job, retries, untold>>,
              copy[p] = job, job \in Job, pc[p] \in Carrying, job.status \in Sendable(sent),
              NEW j \in Job, Carry(p, j, "update"), j.status \notin Sendable(sent),
              j.status \in Sendable(kind) => job.status \in Sendable(kind),
              Len(txs') \in {j.gasTxId, j.sweepTxId}
       PROVE  SentTask(kind)'
  <2>1. copy'[p] = j
    BY <1>1, <1>15, Carried DEF PC
  <2>2. PICK n : n = Len(txs') /\ n \notin DOMAIN txs /\ n # NoTx
    BY <1>1, <1>15, BroadcastAdds, SweepAssumption
  <2>3. n \notin {job.gasTxId, job.sweepTxId}
    BY <1>1, <1>15, <2>2 DEF Known, Ids
  <2>4. n \in Unsaved(p)'
    BY <1>1, <1>15, <2>1, <2>2, <2>3 DEF Unsaved
  <2>5. /\ Count(kind)' \in Nat /\ Count(kind)' <= IF kind = sent THEN Count(kind) + 1 ELSE Count(kind)
        /\ SavedCount(p, kind)' \in Nat /\ SavedCount(p, kind)' <= Count(kind)
    <3>1. n \in Unsaved(p)' => SavedCount(p, kind)' \in Nat /\ SavedCount(p, kind)' <= Count(kind)
      BY <1>1, <1>15, <2>2, BroadcastCounts
    <3>2. Count(kind)' \in Nat /\ Count(kind)' <= IF kind = sent THEN Count(kind) + 1 ELSE Count(kind)
      BY <1>1, <1>15, BroadcastCounts
    <3> QED
      BY <2>4, <3>1, <3>2
  <2>6. job.status \in Sendable(kind) => Count(kind) <= retries
    BY <1>4, <1>15
  <2>7. /\ Count(kind)' <= 1 + retries
        /\ j.status \in Sendable(kind) => Count(kind)' <= retries
        /\ job.status \in Sendable(kind) => SavedCount(p, kind)' <= retries
    BY <1>1, <1>5, <1>15, <2>5, <2>6
  <2>8. retries' = retries /\ job' = job /\ job' # NoJob
    BY <1>1, <1>15
  <2> QED
    BY <1>2, <1>15, <2>7, <2>8 DEF PC
<1>16. CASE FuelGas(p)
  <2>1. copy[p] = job /\ job \in Job /\ job.status = "PENDING" /\ pc[p] \in Carrying
    BY <1>1, <1>16 DEF FuelGas, PassTask, PassType, Reading, Carrying, PC, From
  <2>2. Broadcast("gas") /\ UNCHANGED <<job, retries, untold>>
    BY <1>16 DEF FuelGas, jobVars
  <2>3. PICK n, gas, j : /\ n = Len(txs') /\ gas = [copy[p] EXCEPT !.gasTxId = n]
                         /\ j = [gas EXCEPT !.status = "GAS_FUELING", !.attempts = 0]
    OBVIOUS
  <2>4. Carry(p, j, "update")
    BY <1>16, <2>3 DEF FuelGas, advance
  <2>5. n \in 1..MaxTxs
    BY <1>1, <2>2, <2>3, BroadcastAdds
  <2>6. gas \in Job /\ gas.gasTxId = n
    BY <2>1, <2>3, <2>5, BroadcastType
  <2>7. j \in Job /\ j.status = "GAS_FUELING" /\ j.gasTxId = n
    <3>1. "GAS_FUELING" \in Status
      BY DEF Status
    <3>2. j = [gas EXCEPT !.status = "GAS_FUELING", !.attempts = 0]
      BY <2>3
    <3> QED
      BY <2>6, <3>1, <3>2, AdvanceType
  <2>8. /\ j.status \notin Sendable("gas") /\ job.status \in Sendable("gas")
        /\ j.status \in Sendable(kind) => job.status \in Sendable(kind)
    BY <2>1, <2>7 DEF Sendable
  <2> QED
    BY <1>15, <2>1, <2>2, <2>3, <2>4, <2>7, <2>8
<1>17. CASE SweepTrc20(p)
  <2>1. copy[p] = job /\ job \in Job /\ job.status \in {"PENDING", "GAS_FUELING"} /\ pc[p] \in Carrying
    BY <1>1, <1>17 DEF SweepTrc20, PassTask, PassType, Reading, Carrying, PC, From
  <2>2. Broadcast("sweep") /\ UNCHANGED <<job, retries, untold>>
    BY <1>17 DEF SweepTrc20, jobVars
  <2>3. PICK n, sweep, j : /\ n = Len(txs') /\ sweep = [copy[p] EXCEPT !.sweepTxId = n]
                           /\ j = [sweep EXCEPT !.status = "SWEEPING", !.attempts = 0]
    OBVIOUS
  <2>4. Carry(p, j, "update")
    BY <1>17, <2>3 DEF SweepTrc20, advance
  <2>5. n \in 1..MaxTxs
    BY <1>1, <2>2, <2>3, BroadcastAdds
  <2>6. sweep \in Job /\ sweep.sweepTxId = n
    BY <2>1, <2>3, <2>5, BroadcastType
  <2>7. j \in Job /\ j.status = "SWEEPING" /\ j.sweepTxId = n
    <3>1. "SWEEPING" \in Status
      BY DEF Status
    <3>2. j = [sweep EXCEPT !.status = "SWEEPING", !.attempts = 0]
      BY <2>3
    <3> QED
      BY <2>6, <3>1, <3>2, AdvanceType
  <2>8. /\ j.status \notin Sendable("sweep") /\ job.status \in Sendable("sweep")
        /\ j.status \notin Sendable(kind)
    BY <2>1, <2>7 DEF Sendable
  <2> QED
    BY <1>15, <2>1, <2>2, <2>3, <2>4, <2>7, <2>8
<1>18. CASE Update(p)
  <2>1. /\ pc[p] \in Carrying /\ Carry(p, NoJob, "idle") /\ job' = copy[p] /\ UNCHANGED retries
        /\ Told(kind)' = Told(kind)
    BY <1>18 DEF Update, Stop, Carrying, PC, chainVars, Told, Sent
  <2> QED
    BY <1>1, <1>2, <1>3, <1>4, <1>5, <2>1 DEF Carrying, PC
<1>19. CASE StepFails(p) \/ BroadcastThrows(p)
  <2>1. PICK c \in Job : c = copy[p] /\ AttemptsInv(c) /\ c.status # "FAILED"
    BY <1>1, <1>19 DEF StepFails, BroadcastThrows, PassType, Carrying, PC, Stepping, TypeInv, TypeOK
  <2>2. UNCHANGED <<job, retries>> /\ pc[p] \in Carrying
    BY <1>1, <1>19 DEF StepFails, BroadcastThrows, jobVars, Stepping, Carrying, PC, TypeInv, TypeOK
  <2>3. Told(kind)' \subseteq Told(kind)
    <3>1. CASE StepFails(p)
      BY <3>1 DEF StepFails, chainVars, Told, Sent
    <3>2. CASE BroadcastThrows(p)
      <4>1. PICK sent \in {"gas", "sweep"} : Broadcast(sent)
        BY <3>2 DEF BroadcastThrows
      <4>2. /\ DOMAIN txs' = DOMAIN txs \cup {Len(txs')} /\ untold' = untold \cup {Len(txs')}
            /\ \A m \in DOMAIN txs : txs'[m] = txs[m]
        BY <1>1, <3>2, <4>1, BroadcastAdds DEF BroadcastThrows
      <4> QED
        BY <4>2 DEF Told, Sent
    <3> QED
      BY <1>19, <3>1, <3>2
  <2>4. PICK j : j = onError(c)
    OBVIOUS
  <2>5. /\ j \in Job /\ j.status \in {c.status, "FAILED"}
        /\ j.gasTxId = c.gasTxId /\ j.sweepTxId = c.sweepTxId
    BY <2>1, <2>4, ErrorType
  <2>6. Carry(p, j, "updateError")
    BY <1>19, <2>1, <2>4 DEF StepFails, BroadcastThrows
  <2>7. j.status \in Sendable(kind) => c.status = j.status
    BY <2>5 DEF Sendable
  <2> QED
    BY <1>12, <2>1, <2>2, <2>3, <2>5, <2>6, <2>7 DEF PC, Carrying
<1>20. CASE Crash(p)
  <2>1. Carry(p, NoJob, "idle") /\ UNCHANGED <<job, retries>> /\ untold' = untold \cup Unsaved(p) /\ UNCHANGED txs
    BY <1>20 DEF Crash, Stop, jobVars, chainVars
  <2>2. Told(kind)' = Told(kind) \ Unsaved(p)
    BY <2>1 DEF Told, Sent
  <2>3. Count(kind)' = SavedCount(p, kind)
    BY <2>2 DEF Count, SavedCount
  <2>4. Told(kind)' \subseteq Told(kind) /\ copy'[p] = NoJob
    BY <1>1, <2>1, <2>2, Carried DEF PC
  <2>5. SavedCount(p, kind)' = Count(kind)'
    <3>1. Unsaved(p)' = {}
      BY <2>4 DEF Unsaved
    <3>2. Told(kind)' \ Unsaved(p)' = Told(kind)'
      BY <3>1
    <3> QED
      BY <3>2 DEF SavedCount, Count
  <2>6. Count(kind)' \in Nat /\ Count(kind)' <= Count(kind)
    BY <1>3, <2>4
  <2>7. job' = NoJob => Count(kind)' = 0
    BY <1>1, <1>5, <2>1, <2>6
  <2>8. Count(kind)' <= 1 + retries'
    BY <1>1, <1>5, <2>1, <2>6
  <2>9. job' # NoJob /\ job'.status \in Sendable(kind) => SavedCount(p, kind)' <= retries'
    BY <1>5, <2>1, <2>3, <2>5
  <2> QED
    BY <1>2, <2>1, <2>7, <2>8, <2>9 DEF PC, Carrying
<1> QED
  BY <1>8, <1>9, <1>10, <1>11, <1>13, <1>14, <1>16, <1>17, <1>18, <1>19, <1>20 DEF Step

\* Nothing is sent in the initial states.
LEMMA InitSent ==
  ASSUME Init  PROVE SentInv
<1>1. \A kind : Told(kind) = {}
  BY DEF Init, Told, Sent
<1>2. \A kind : Count(kind) = 0
  BY <1>1, FS_EmptySet DEF Count
<1>3. retries = 0 /\ job = NoJob /\ \A p \in Passes : pc[p] \notin Carrying
  BY DEF Init, Carrying
<1>4. Known /\ \A kind \in {"gas", "sweep"} : SentTask(kind)
  BY <1>2, <1>3 DEF SentTask, Known
<1> QED
  BY <1>4, InitPass DEF SentInv

\* No step sends what the service knows was sent.
LEMMA NextSent ==
  ASSUME OnePass, SentInv, [Next]_vars
  PROVE  SentInv'
<1>1. PassInv' /\ Known'
  BY NextPass, NextKnown DEF SentInv, PassInv
<1> SUFFICES ASSUME NEW kind \in {"gas", "sweep"}  PROVE SentTask(kind)'
  BY <1>1 DEF SentInv
<1>2. CASE \E p \in Passes :
             StartEnqueue(p) \/ StartRetry(p) \/ StartStep(p)
               \/ Step(p) \/ NotConfirmed(p) \/ StepFails(p) \/ BroadcastThrows(p) \/ Crash(p)
  BY <1>2, PassSends
<1>3. ASSUME Told(kind)' = Told(kind), UNCHANGED <<job, pc, copy, retries>>
      PROVE  SentTask(kind)'
  <2>1. Count(kind)' = Count(kind)
    BY <1>3 DEF Count
  <2>2. ASSUME NEW p  PROVE SavedCount(p, kind)' = SavedCount(p, kind)
    BY <1>3 DEF SavedCount, Unsaved
  <2> QED
    BY <1>3, <2>1, <2>2 DEF SentInv, SentTask
<1>4. CASE \E n \in 1..MaxTxs : Mine(n)
  <2>1. Told(kind)' = Told(kind)
    BY <1>4, MineCounts DEF SentInv, PassInv
  <2> QED
    BY <1>3, <1>4, <2>1 DEF Mine, jobVars, passVars
<1>5. CASE Wait \/ UNCHANGED vars
  BY <1>3, <1>5 DEF Wait, vars, jobVars, passVars, chainVars, Told, Sent
<1> QED
  BY <1>2, <1>4, <1>5 DEF Next

\* With one pass at a time, and whatever call, update or process fails, no top-up
\* and no transfer that the service was told of is sent again but when an operator
\* retries (SweepService.step, onError): a failure to record it loses no id.
THEOREM NothingSentTwice ==
  ASSUME OnePass  PROVE Spec => []SentOnce
<1>1. Init => SentInv
  BY InitSent
<1>2. SentInv /\ [Next]_vars => SentInv'
  BY NextSent
<1>3. SentInv => SentOnce
  BY DEF SentInv, SentTask, SentOnce, Count
<1> QED
  BY <1>1, <1>2, <1>3, PTL DEF Spec

=============================================================================
