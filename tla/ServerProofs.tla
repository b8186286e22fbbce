---------------------------- MODULE ServerProofs ----------------------------
(***************************************************************************)
(* Theorems about what a process does beside the work of its services:     *)
(* Server, for every set of requests, every set of deployments, every      *)
(* quota and window, and every bound on time; Background, for every number *)
(* of calls in flight, timer period, latency of the feed, number of        *)
(* rotations and of sweep jobs; Webhooks, for every finite set of events,  *)
(* set of workers, number of attempts and of the operator's retries.       *)
(***************************************************************************)
EXTENDS Server, Background, Webhooks, FiniteSetTheorems, FunctionTheorems, TLAPS

-----------------------------------------------------------------------------
(* The tables of Api *)

RefusalStatus == {400, 401, 404, 409, 500, 502, 503}

IsRoute(row) ==
  /\ row.guard \in {"none", "admin", "user", "tenant", "merchant"}
  /\ row.success \in {200, 201}
  /\ row.refusals \subseteq RefusalStatus

LEMMA RowOfTable ==
  ASSUME NEW table, NEW op \in {row.op : row \in table}
  PROVE  RowOf(table, op) \in table /\ RowOf(table, op).op = op
BY DEF RowOf

LEMMA RoutesAreRoutes == \A row \in RouteTable : IsRoute(row)
<1>1. \A row \in SystemRoutes : IsRoute(row)
  BY DEF SystemRoutes, R, IsRoute, RefusalStatus
<1>2. \A row \in AccountRoutes : IsRoute(row)
  BY DEF AccountRoutes, R, IsRoute, RefusalStatus
<1>3. \A row \in OrderRoutes : IsRoute(row)
  BY DEF OrderRoutes, R, IsRoute, RefusalStatus
<1>4. \A row \in NotifyRoutes : IsRoute(row)
  BY DEF NotifyRoutes, R, IsRoute, RefusalStatus
<1>5. \A row \in InternalRoutes : IsRoute(row)
  BY DEF InternalRoutes, R, IsRoute, RefusalStatus
<1>6. \A row \in DocsRoutes : IsRoute(row)
  BY DEF DocsRoutes, R, IsRoute, RefusalStatus
<1>7. \A row \in ReportRoutes : IsRoute(row)
  BY DEF ReportRoutes, R, IsRoute, RefusalStatus
<1>8. \A row \in MerchantRoutes : IsRoute(row)
  BY DEF MerchantRoutes, R, IsRoute, RefusalStatus
<1>9. \A row \in OperatorRoutes : IsRoute(row)
  BY DEF OperatorRoutes, R, IsRoute, RefusalStatus
<1> QED
  BY <1>1, <1>2, <1>3, <1>4, <1>5, <1>6, <1>7, <1>8, <1>9 DEF RouteTable

LEMMA RouteOf ==
  ASSUME NEW op \in Ops
  PROVE  IsRoute(Routes[op])
BY RowOfTable, RoutesAreRoutes DEF Routes, Ops

-----------------------------------------------------------------------------
(* Type correctness, and what a request in each phase was told *)

Checking == {"incr", "pexpire", "pttl", "reapply"}

(* A request is only told by sendJson, which ends it, or by its timeout. *)
Told(x) ==
  /\ x.phase \in Phases \ {"idle", "reading", "done"} => x.op \in Ops
  /\ x.phase = "idle" => x.sent = 0
  /\ x.phase # "done" => x.sent \in {0, 503}
  /\ x.acted => /\ x.phase \in {"reply", "done"} /\ x.status \in {200, 201}
                /\ x.sent \in {0, 503, 200, 201}

Counter == [count : Nat \ {0}, expires : Nat]

ReqOK == req \in [Requests -> Request] /\ \A r \in Requests : Told(req[r])

TypeInv == TypeOK /\ setup \in Setups /\ ReqOK

LEMMA SetupType ==
  ASSUME setup \in Setups
  PROVE  /\ setup.limiter \in {"off", "memory", "redis"}
         /\ setup.faults \subseteq {"redis", "slow", "stop"}
         /\ \A r \in Requests : setup.offered[r] \subseteq Ops \cup {"OPTIONS", "unmatched"}
BY ServerAssumption

LEMMA InitType == Init => TypeInv
<1> SUFFICES ASSUME Init PROVE TypeInv
  OBVIOUS
<1>1. NoRequest \in Request /\ Told(NoRequest)
  BY ServerAssumption DEF NoRequest, Request, Phases, Told, Statuses
<1>2. req = [r \in Requests |-> NoRequest] /\ counters = <<>> /\ setup \in Setups
  BY DEF Init
<1>3. DOMAIN counters = {}
  BY <1>2
<1>4. TypeOK
  BY <1>1, <1>2, <1>3, ServerAssumption DEF Init, TypeOK
<1> QED
  BY <1>1, <1>2, <1>4 DEF TypeInv, ReqOK, TypeOK

(* A step that changes one request, in one way. *)
Becomes(r, x) == req' = [req EXCEPT ![r] = x]

LEMMA BecomesOK ==
  ASSUME ReqOK, NEW r \in Requests, NEW x \in Request, Told(x), Becomes(r, x)
  PROVE  ReqOK'
<1>1. req' \in [Requests -> Request]
  BY DEF ReqOK, Becomes
<1>2. req'[r] = x /\ \A q \in Requests \ {r} : req'[q] = req[q]
  BY DEF ReqOK, Becomes
<1> QED
  BY <1>1, <1>2 DEF ReqOK

(* A request that is told n, and one that has been counted. *)
Stamp(x, p, n) == [x EXCEPT !.phase = p, !.sent = n]

Counted(x, p, count) == [x EXCEPT !.phase = p, !.count = count]

LEMMA StampType ==
  ASSUME NEW x \in Request, NEW p \in Phases, NEW n \in Statuses
  PROVE  /\ Stamp(x, p, n) \in Request
         /\ Stamp(x, p, n).phase = p /\ Stamp(x, p, n).sent = n
         /\ Stamp(x, p, n).acted = x.acted /\ Stamp(x, p, n).op = x.op
         /\ Stamp(x, p, n).status = x.status
<1>1. Stamp(x, p, n) \in Request
  BY DEF Request, Stamp
<1>2. /\ Stamp(x, p, n).phase = p /\ Stamp(x, p, n).sent = n
      /\ Stamp(x, p, n).acted = x.acted /\ Stamp(x, p, n).op = x.op
      /\ Stamp(x, p, n).status = x.status
  BY DEF Request, Stamp
<1> QED
  BY <1>1, <1>2

LEMMA CountedType ==
  ASSUME NEW x \in Request, NEW p \in Phases, NEW count \in Nat
  PROVE  /\ Counted(x, p, count) \in Request
         /\ Counted(x, p, count).phase = p /\ Counted(x, p, count).sent = x.sent
         /\ Counted(x, p, count).acted = x.acted /\ Counted(x, p, count).op = x.op
         /\ Counted(x, p, count).status = x.status
<1>1. Counted(x, p, count) \in Request
  BY DEF Request, Counted
<1>2. /\ Counted(x, p, count).phase = p /\ Counted(x, p, count).sent = x.sent
      /\ Counted(x, p, count).acted = x.acted /\ Counted(x, p, count).op = x.op
      /\ Counted(x, p, count).status = x.status
  BY DEF Request, Counted
<1> QED
  BY <1>1, <1>2

(* A request that moves on, with no new answer. *)
LEMMA ToOK ==
  ASSUME ReqOK, NEW r \in Requests, NEW p \in Phases \ {"idle", "reading", "reply", "done"},
         req[r].op \in Ops, req[r].phase # "done", req[r].phase # "reply", To(r, p)
  PROVE  ReqOK'
<1> DEFINE x == [req[r] EXCEPT !.phase = p]
<1>1. req[r] \in Request /\ Told(req[r])
  BY DEF ReqOK
<1>2. x \in Request
  BY <1>1 DEF Request
<1>3. /\ x.phase = p /\ x.op = req[r].op /\ x.sent = req[r].sent
      /\ x.acted = req[r].acted /\ x.status = req[r].status
  BY <1>1 DEF Request
<1>4. Becomes(r, x)
  BY DEF ReqOK, To, Becomes
<1> HIDE DEF x
<1>5. Told(x)
  BY <1>1, <1>3 DEF Told, Phases
<1> QED
  BY <1>2, <1>4, <1>5, BecomesOK

(* The answer of sendJson. *)
LEMMA SendOK ==
  ASSUME ReqOK, NEW r \in Requests, NEW status \in Statuses, sendJson(r, status),
         req[r].phase # "idle", req[r].acted => status = req[r].status
  PROVE  ReqOK' /\ proc' \in {proc, "crashed"}
<1>1. CASE req[r].sent = 0
  <2> DEFINE x == Stamp(req[r], "done", status)
  <2>1. req[r] \in Request /\ Told(req[r]) /\ "done" \in Phases
    BY DEF ReqOK, Phases
  <2>2. Becomes(r, x) /\ proc' = proc
    BY <1>1 DEF ReqOK, sendJson, Becomes, Stamp
  <2>3. /\ x \in Request /\ x.phase = "done" /\ x.sent = status
        /\ x.acted = req[r].acted /\ x.op = req[r].op /\ x.status = req[r].status
    BY <2>1, StampType
  <2> HIDE DEF x
  <2>4. Told(x)
    BY <2>1, <2>3 DEF Told
  <2> QED
    BY <2>2, <2>3, <2>4, BecomesOK
<1>2. CASE req[r].sent # 0
  BY <1>2 DEF sendJson, ReqOK
<1> QED
  BY <1>1, <1>2

ProcOK == proc' \in {"up", "stopping", "draining", "exited", "crashed"}

AdmittedOK == admitted' \in [Requests -> (0 .. MaxClock) \cup {Never}]

CountersOK == \A key \in DOMAIN counters' : counters'[key] \in Counter

LEMMA DecideOK ==
  ASSUME TypeInv, NEW r \in Requests, NEW count, Decide(r, count),
         req[r].op \in Ops, req[r].phase \in {"reading"} \cup Checking
  PROVE  ReqOK' /\ ProcOK /\ AdmittedOK
<1> USE DEF ProcOK, AdmittedOK
<1>0. ReqOK /\ TypeOK
  BY DEF TypeInv
<1>1. CASE req[r].sent # 0
  BY <1>0, <1>1 DEF Decide, ReqOK, TypeOK
<1>2. CASE req[r].sent = 0 /\ allowed(count)
  <2>1. To(r, "guard") /\ admitted' = [admitted EXCEPT ![r] = clock] /\ proc' = proc
    BY <1>2 DEF Decide
  <2>2. ReqOK'
    BY <1>0, <2>1, ToOK DEF Phases, Checking
  <2> QED
    BY <1>0, <2>1, <2>2 DEF TypeOK
<1>3. CASE req[r].sent = 0 /\ ~allowed(count)
  <2>1. sendJson(r, 429) /\ admitted' = admitted
    BY <1>3 DEF Decide
  <2>2. ~ req[r].acted /\ req[r].phase # "idle"
    BY <1>0 DEF ReqOK, Told, Checking
  <2>3. 429 \in Statuses
    BY DEF Statuses
  <2>4. ReqOK' /\ proc' \in {proc, "crashed"}
    <3> PICK status : status = 429
      OBVIOUS
    <3>1. status \in Statuses /\ sendJson(r, status)
      BY <2>1, <2>3
    <3> QED
      BY <1>0, <2>2, <3>1, SendOK
  <2> QED
    BY <1>0, <2>1, <2>4 DEF TypeOK
<1> QED
  BY <1>1, <1>2, <1>3

(* A counter that is put, with the expiry it had or a new one. *)
LEMMA PutOK ==
  ASSUME TypeInv, NEW key, NEW counter \in Counter,
         counters' = Put(key, counter)
  PROVE  CountersOK
BY DEF TypeInv, TypeOK, Put, CountersOK, Counter

LEMMA CountType ==
  ASSUME TypeInv, NEW key
  PROVE  CountOf(key) \in Nat /\ (Live(key) => counters[key].expires \in Nat)
BY DEF TypeInv, TypeOK, CountOf, Live

LEMMA AnswersType ==
  ASSUME NEW op \in Ops
  PROVE  Answers(op) \subseteq Statuses
<1>1. Routes[op].success \in {200, 201} /\ Routes[op].refusals \subseteq RefusalStatus
  BY RouteOf DEF IsRoute
<1>2. ReadyAnswers \subseteq {200, 503}
  BY DEF ReadyAnswers, report
<1> QED
  BY <1>1, <1>2 DEF Answers, RefusalStatus, Statuses

LEMMA StepType ==
  ASSUME TypeInv, NEW r \in Requests, Step(r)
  PROVE  ReqOK' /\ ProcOK /\ AdmittedOK /\ CountersOK /\ UNCHANGED <<setup, sql, redis, clock>>
<1> USE DEF ProcOK, AdmittedOK
<1>0. ReqOK /\ TypeOK /\ req[r] \in Request /\ Told(req[r])
  BY DEF TypeInv, ReqOK
<1>00. ASSUME UNCHANGED <<counters>>  PROVE CountersOK
  BY <1>0, <1>00 DEF TypeOK, CountersOK, Counter
<1>01. ASSUME UNCHANGED <<admitted, proc>>  PROVE AdmittedOK /\ ProcOK
  BY <1>0, <1>01 DEF TypeOK
<1>1. CASE Arrive(r)
  <2>1. PICK op \in setup.offered[r], cred \in {"none", "bad", "good"} :
          req' = [req EXCEPT ![r].phase = "reading", ![r].op = op, ![r].cred = cred]
    BY <1>1 DEF Arrive, Credentials
  <2> DEFINE x == [req[r] EXCEPT !.phase = "reading", !.op = op, !.cred = cred]
  <2>2. "reading" \in Phases /\ op \in Ops \cup {"none", "OPTIONS", "unmatched"}
    BY SetupType DEF Phases, TypeInv
  <2>3. x \in Request
    BY <1>0, <2>2 DEF Request
  <2>4. x.phase = "reading" /\ x.sent = req[r].sent /\ x.acted = req[r].acted /\ req[r].phase = "idle"
    BY <1>0, <1>1 DEF Request, Arrive
  <2>5. Becomes(r, x)
    BY <2>1, Zenon DEF Becomes
  <2> HIDE DEF x
  <2>6. Told(x)
    BY <1>0, <2>4 DEF Told
  <2> QED
    BY <1>0, <1>00, <1>01, <1>1, <2>3, <2>5, <2>6, BecomesOK DEF Arrive
<1>2. CASE BodyTooLarge(r)
  <2>1. sendJson(r, 413) /\ ~ req[r].acted /\ req[r].phase # "idle"
    BY <1>0, <1>2 DEF BodyTooLarge, Is, Told
  <2>2. 413 \in Statuses
    BY DEF Statuses
  <2>3. ReqOK' /\ proc' \in {proc, "crashed"}
    BY <1>0, <2>1, <2>2, SendOK
  <2> QED
    BY <1>0, <1>00, <1>2, <2>3 DEF BodyTooLarge, TypeOK
<1>3. CASE Timeout(r)
  <2>1. PICK p \in Phases : p = IF req[r].phase = "reading" THEN "done" ELSE req[r].phase
    BY <1>0 DEF Request, Phases
  <2> DEFINE x == Stamp(req[r], p, 503)
  <2>2. 503 \in Statuses /\ req[r].phase \notin {"idle", "done"}
    BY <1>3 DEF Timeout, Statuses
  <2>3. /\ x \in Request /\ x.phase = p /\ x.sent = 503
        /\ x.acted = req[r].acted /\ x.op = req[r].op /\ x.status = req[r].status
    BY <1>0, <2>2, StampType
  <2>4. req' = [req EXCEPT ![r].phase = p, ![r].sent = 503]
    BY <1>0, <1>3, <2>1 DEF ReqOK, Timeout
  <2>5. Becomes(r, x)
    <3>1. PICK n : n = 503
      OBVIOUS
    <3> DEFINE y == [req[r] EXCEPT !.phase = p, !.sent = n]
    <3>2. req' = [req EXCEPT ![r].phase = p, ![r].sent = n]
      BY <2>4, <3>1
    <3>3. Becomes(r, y)
      BY <3>2, Zenon DEF Becomes
    <3>4. x = y
      BY <3>1 DEF Stamp
    <3> QED
      BY <3>3, <3>4
  <2> HIDE DEF x
  <2>6. Told(x)
    BY <1>0, <2>1, <2>2, <2>3 DEF Told
  <2> QED
    BY <1>0, <1>00, <1>01, <1>3, <2>3, <2>5, <2>6, BecomesOK DEF Timeout
<1>4. CASE Unrouted(r)
  <2>1. PICK status \in {404, 204} : sendJson(r, status)
    BY <1>4 DEF Unrouted
  <2>2. UNCHANGED <<setup, sql, redis, clock, counters, admitted>>
    BY <1>4 DEF Unrouted
  <2>3. ~ req[r].acted /\ req[r].phase # "idle" /\ status \in Statuses
    BY <1>0, <1>4 DEF Unrouted, Is, Told, Statuses
  <2>4. ReqOK' /\ proc' \in {proc, "crashed"}
    BY <1>0, <2>1, <2>3, SendOK
  <2> QED
    BY <1>0, <1>00, <2>2, <2>4 DEF TypeOK
<1>5. CASE DispatchUnlimited(r)
  <2>1. To(r, "guard") /\ req[r].op \in Ops /\ req[r].phase = "reading"
    BY <1>5 DEF DispatchUnlimited, Is
  <2>2. ReqOK'
    BY <1>0, <2>1, ToOK DEF Phases
  <2> QED
    BY <1>00, <1>01, <1>5, <2>2 DEF DispatchUnlimited
<1>6. CASE CheckWindow(r)
  <2> DEFINE key == Pattern(req[r].op)
             count == CountOf(key) + 1
             expires == IF Live(key) THEN counters[key].expires ELSE clock + Window
  <2>1. count \in Nat \ {0} /\ expires \in Nat
    BY <1>0, CountType, ServerAssumption DEF TypeOK
  <2>2. counters' = Put(key, [count |-> count, expires |-> expires]) /\ Decide(r, count)
    BY <1>6 DEF CheckWindow
  <2>3. setup.limiter # "off" /\ req[r].op \in Ops /\ req[r].phase = "reading"
    BY <1>6 DEF CheckWindow, Is
  <2>4. CountersOK
    BY <2>1, <2>2, <2>3, PutOK DEF Counter
  <2>5. ReqOK' /\ ProcOK /\ AdmittedOK
    BY <2>2, <2>3, DecideOK
  <2> QED
    BY <1>6, <2>4, <2>5 DEF CheckWindow
<1>7. CASE NameBucket(r)
  <2> DEFINE x == [req[r] EXCEPT !.phase = "incr", !.called = clock]
  <2>1. "incr" \in Phases /\ clock \in 0 .. MaxClock
    BY <1>0 DEF TypeOK, Phases
  <2>2. x \in Request
    BY <1>0, <2>1 DEF Request
  <2>3. /\ x.phase = "incr" /\ x.sent = req[r].sent /\ x.acted = req[r].acted
        /\ x.op = req[r].op /\ x.op \in Ops /\ req[r].phase = "reading"
    BY <1>0, <1>7 DEF Request, NameBucket, Is
  <2>4. Becomes(r, x)
    BY <1>7, Zenon DEF Becomes, NameBucket
  <2> HIDE DEF x
  <2>5. Told(x)
    BY <1>0, <2>3 DEF Told
  <2> QED
    BY <1>0, <1>00, <1>01, <1>7, <2>2, <2>4, <2>5, BecomesOK DEF NameBucket
<1>8. CASE Incr(r)
  <2> DEFINE b == Bucket(r)
             count == CountOf(b) + 1
             expires == IF Live(b) THEN counters[b].expires ELSE 0
  <2>1. count \in Nat \ {0} /\ expires \in Nat
    BY CountType
  <2>2. PICK p \in {"pexpire", "pttl"} : p = IF count = 1 THEN "pexpire" ELSE "pttl"
    OBVIOUS
  <2> DEFINE x == Counted(req[r], p, count)
  <2>3. counters' = Put(b, [count |-> count, expires |-> expires]) /\ Becomes(r, x)
    BY <1>0, <1>8, <2>2 DEF Incr, Becomes, ReqOK, Counted
  <2>4. req[r].phase = "incr" /\ p \in Phases
    BY <1>8 DEF Incr, Is, Phases
  <2> HIDE DEF b, count, expires
  <2>5. CountersOK
    BY <2>1, <2>3, PutOK DEF Counter
  <2>6. /\ x \in Request /\ x.phase = p /\ x.sent = req[r].sent
        /\ x.acted = req[r].acted /\ x.op = req[r].op /\ x.status = req[r].status
    BY <1>0, <2>1, <2>4, CountedType
  <2> HIDE DEF x
  <2>7. Told(x)
    BY <1>0, <2>2, <2>4, <2>6 DEF Told, Phases
  <2> QED
    BY <1>0, <1>01, <1>8, <2>3, <2>5, <2>6, <2>7, BecomesOK DEF Incr
<1>9. CASE Pexpire(r)
  <2>1. req[r].phase \in {"pexpire", "reapply"} /\ req[r].op \in Ops
    BY <1>0, <1>9 DEF Pexpire, Told, Phases
  <2>2. CountersOK
    <3>2. clock + Window \in Nat
      BY <1>0, ServerAssumption DEF TypeOK
    <3>3. CASE ~ Live(Bucket(r))
      BY <1>00, <1>9, <3>3 DEF Pexpire
    <3>4. CASE Live(Bucket(r))
      <4>1. counters' = [counters EXCEPT ![Bucket(r)].expires = clock + Window]
        BY <1>9, <3>4 DEF Pexpire
      <4> QED
        BY <1>0, <1>9, <3>2, <3>4, <4>1 DEF TypeOK, CountersOK, Counter, Pexpire
    <3> QED
      BY <3>3, <3>4
  <2>3. CASE Decide(r, req[r].count)
    BY <1>9, <2>1, <2>2, <2>3, DecideOK DEF Pexpire, Checking
  <2>4. CASE To(r, "pttl") /\ UNCHANGED <<proc, admitted>>
    <3>1. ReqOK'
      BY <1>0, <2>1, <2>4, ToOK DEF Phases
    <3> QED
      BY <1>01, <1>9, <2>2, <2>4, <3>1 DEF Pexpire
  <2> QED
    BY <1>9, <2>3, <2>4 DEF Pexpire
<1>10. CASE Pttl(r)
  <2>1. req[r].phase = "pttl" /\ req[r].op \in Ops
    BY <1>0, <1>10 DEF Pttl, Is, Told, Phases
  <2>2. CASE Decide(r, req[r].count)
    BY <1>00, <1>10, <2>1, <2>2, DecideOK DEF Pttl, Checking
  <2>3. CASE To(r, "reapply") /\ UNCHANGED <<proc, admitted>>
    <3>1. ReqOK'
      BY <1>0, <2>1, <2>3, ToOK DEF Phases
    <3> QED
      BY <1>00, <1>01, <1>10, <2>3, <3>1 DEF Pttl
  <2> QED
    BY <1>10, <2>2, <2>3 DEF Pttl
<1>11. CASE RedisRejects(r)
  BY <1>0, <1>00, <1>11 DEF RedisRejects, TypeOK, ReqOK
<1>12. CASE Guard(r)
  <2> DEFINE status == refusal(req[r].op, setup.adminToken, req[r].cred)
  <2>1. req[r].phase = "guard" /\ req[r].op \in Ops /\ ~ req[r].acted
    BY <1>0, <1>12 DEF Guard, Is, Told, Phases
  <2>2. status \in {0, 401, 403}
    BY DEF refusal, requireAdmin, authenticate, merchantScope
  <2>3. UNCHANGED <<setup, sql, redis, clock, counters, admitted>>
    BY <1>12 DEF Guard
  <2>4. \/ \E s \in {401, 403, 500} : sendJson(r, s)
        \/ To(r, "work") /\ proc' = proc
    BY <1>12, <2>2 DEF Guard
  <2>5. CASE \E s \in {401, 403, 500} : sendJson(r, s)
    <3>1. {401, 403, 500} \subseteq Statuses
      BY DEF Statuses
    <3>2. ReqOK' /\ proc' \in {proc, "crashed"}
      BY <1>0, <2>1, <2>5, <3>1, SendOK
    <3> QED
      BY <1>0, <1>00, <2>3, <3>2 DEF TypeOK
  <2>6. CASE To(r, "work") /\ proc' = proc
    <3>1. ReqOK'
      BY <1>0, <2>1, <2>6, ToOK DEF Phases
    <3> QED
      BY <1>00, <1>01, <2>3, <2>6, <3>1
  <2> QED
    BY <2>4, <2>5, <2>6
<1>15. CASE Query(r) \/ QueryAnswered(r)
  <2>1. /\ \E p \in {"query", "work"} : To(r, p)
        /\ req[r].phase \in {"work", "query"} /\ req[r].op \in Ops
        /\ UNCHANGED <<setup, proc, sql, redis, clock, counters, admitted>>
    BY <1>0, <1>15 DEF Query, QueryAnswered, Is, Told, Phases
  <2>2. ReqOK'
    BY <1>0, <2>1, ToOK DEF Phases
  <2> QED
    BY <1>00, <1>01, <2>1, <2>2
<1>13. CASE Serve(r)
  <2>1. req[r].phase = "work" /\ req[r].op \in Ops
    BY <1>0, <1>13 DEF Serve, Is, Told, Phases
  <2>2. PICK status \in Answers(req[r].op) :
          req' = [req EXCEPT ![r].phase = "reply", ![r].status = status,
                             ![r].acted = status = Routes[req[r].op].success]
    BY <1>13 DEF Serve
  <2>3. status \in Statuses
    BY <2>1, AnswersType
  <2>4. PICK acted \in BOOLEAN : acted <=> status = Routes[req[r].op].success
    OBVIOUS
  <2> DEFINE x == [req[r] EXCEPT !.phase = "reply", !.status = status, !.acted = acted]
  <2>5. x \in Request
    <3>1. "reply" \in Phases
      BY DEF Phases
    <3> QED
      BY <1>0, <2>3, <3>1 DEF Request
  <2>6. /\ x.phase = "reply" /\ x.sent = req[r].sent /\ x.status = status /\ x.acted = acted
        /\ x.op = req[r].op
    BY <1>0 DEF Request
  <2>7. Becomes(r, x)
    BY <2>2, <2>4, Zenon DEF Becomes
  <2> HIDE DEF x
  <2>8. Told(x)
    <3>1. acted => status \in {200, 201}
      BY <2>1, <2>4, RouteOf DEF IsRoute
    <3> QED
      BY <1>0, <2>1, <2>6, <3>1 DEF Told
  <2> QED
    BY <1>0, <1>00, <1>01, <1>13, <2>5, <2>7, <2>8, BecomesOK DEF Serve
<1>14. CASE Reply(r)
  <2>1. req[r].phase = "reply" /\ sendJson(r, req[r].status) /\ req[r].status \in Statuses
    BY <1>0, <1>14 DEF Reply, Is, Request
  <2> QED
    BY <1>0, <1>00, <1>14, <2>1, SendOK DEF Reply, TypeOK
<1> QED
  BY <1>1, <1>2, <1>3, <1>4, <1>5, <1>6, <1>7, <1>8, <1>9, <1>10, <1>11, <1>12, <1>13, <1>14,
     <1>15 DEF Step

Lifecycle ==
  \/ Signal \/ EndPool \/ PoolEnded \/ QuitRedis \/ RedisQuit
  \/ CloseServer \/ Drained \/ ForceClose

LEMMA NextCases ==
  ASSUME [Next]_vars
  PROVE  (\E r \in Requests : Step(r)) \/ Lifecycle \/ Tick \/ UNCHANGED vars
BY DEF Next, Lifecycle

LEMMA LifecycleFrame ==
  ASSUME Lifecycle
  PROVE  UNCHANGED <<setup, clock, counters, req, admitted>>
BY DEF Lifecycle, Signal, EndPool, PoolEnded, QuitRedis, RedisQuit, CloseServer, Drained, ForceClose

LEMMA NextType ==
  ASSUME TypeInv, [Next]_vars
  PROVE  TypeInv'
<1>0. TypeOK /\ ReqOK /\ setup \in Setups
  BY DEF TypeInv
<1>1. CASE \E r \in Requests : Step(r)
  <2>1. ReqOK' /\ ProcOK /\ AdmittedOK /\ CountersOK /\ UNCHANGED <<setup, sql, redis, clock>>
    BY <1>1, StepType
  <2> QED
    BY <1>0, <2>1 DEF TypeInv, TypeOK, ReqOK, ProcOK, AdmittedOK, CountersOK, Counter
<1>2. CASE Lifecycle
  <2>1. ReqOK'
    BY <1>0, <1>2, LifecycleFrame DEF ReqOK
  <2>2. proc' \in {"up", "stopping", "draining", "exited", "crashed"}
        /\ sql' \in {"open", "ending", "closed"} /\ redis' \in {"open", "quitting", "closed"}
    BY <1>0, <1>2 DEF TypeOK, Lifecycle, Signal, EndPool, PoolEnded, QuitRedis, RedisQuit,
                      CloseServer, Drained, ForceClose
  <2> QED
    BY <1>0, <1>2, <2>1, <2>2, LifecycleFrame DEF TypeInv, TypeOK
<1>3. CASE Tick
  <2>1. clock' \in 0 .. MaxClock
    BY <1>0, <1>3, ServerAssumption DEF TypeOK, Tick
  <2>2. UNCHANGED <<setup, proc, sql, redis, counters, req, admitted>>
    BY <1>3 DEF Tick
  <2> QED
    BY <1>0, <2>1, <2>2 DEF TypeInv, TypeOK, ReqOK
<1>4. CASE UNCHANGED vars
  BY <1>0, <1>4 DEF TypeInv, TypeOK, ReqOK, vars
<1> QED
  BY <1>1, <1>2, <1>3, <1>4, NextCases

LEMMA TypeInvariant == Spec => []TypeInv
BY InitType, NextType, PTL DEF Spec

(* Every variable keeps its type, whatever the deployment (http.ts, rateLimiter.ts,
   redisRateLimiter.ts, gracefulShutdown.ts). *)
THEOREM TypeCorrect == Spec => []TypeOK
<1>1. TypeInv => TypeOK
  BY DEF TypeInv
<1> QED
  BY <1>1, TypeInvariant, PTL

(* A client told 401, 403, 413 or 429 was refused before anything was done for it, and its
   handler has ended: the only answer that leaves a handler running is the timeout's 503, and
   a handler that acted answers 200 or 201 (http.ts, dispatch and handle). *)
THEOREM RefusalsChangeNothing == Spec => []RefusedUntouched
<1>1. TypeInv => RefusedUntouched
  BY DEF TypeInv, ReqOK, Told, RefusedUntouched
<1> QED
  BY <1>1, TypeInvariant, PTL

-----------------------------------------------------------------------------
(* The quota.  A request is let pass once, after it was counted.           *)

PromptChecks == Latency = 0 \/ \A s \in Setups : s.limiter # "redis"

Late == {"pexpire", "pttl", "reapply"}

AdmissionInv ==
  \A r \in Requests :
    /\ req[r].phase \in {"idle", "reading"} \cup Checking => admitted[r] = Never
    /\ req[r].phase \in {"idle", "reading", "incr"} => req[r].count = 0
    /\ req[r].phase \in Late => req[r].count > 0
    /\ req[r].phase \in Checking => setup.limiter = "redis"
    /\ admitted[r] # Never => setup.limiter # "off"
    /\ admitted[r] <= clock /\ req[r].called <= clock

(* In memory: the window of a route, what passed in it, and what passed in the window's length
   before it.  What passed in any such length is at most these two. *)
Start(op) == counters[op].expires - Window

WindowOf(op) ==
  /\ Start(op) \in 0 .. clock
  /\ \A r \in Requests : Pattern(req[r].op) = op => admitted[r] < counters[op].expires
  /\ Cardinality(Passed(op, Start(op), clock)) <= counters[op].count
  /\ Cardinality(Passed(op, Start(op), clock)) <= max
  /\ \A t \in Nat :
       /\ t >= Start(op) - Window => Cardinality(Passed(op, t, Start(op) - 1)) <= max
       /\ Cardinality(Passed(op, t, t + Window - 1)) <= 2 * max

WindowInv ==
  setup.limiter = "memory" =>
    /\ \A r \in Requests : admitted[r] # Never => Pattern(req[r].op) \in DOMAIN counters
    /\ \A op \in DOMAIN counters : WindowOf(op)

(* In Redis: a request is counted and let pass in the bucket of its call; the counts of one
   bucket differ, because its key outlives the bucket. *)
Slot(t) == t \div Window

Good(r) == req[r].count > 0 /\ (req[r].sent = 0 \/ admitted[r] # Never)

Prompt == \A r \in Requests : req[r].phase \in Checking /\ req[r].sent = 0 => req[r].called = clock

PassedByCount ==
  \A r \in Requests :
    admitted[r] # Never => Good(r) /\ admitted[r] = req[r].called /\ req[r].count <= max

KeyOutlives ==
  \A key \in DOMAIN counters : \A t \in Nat :
    counters[key].expires # 0 /\ Slot(t) = key[2] => t < counters[key].expires

CountedInKey ==
  \A r \in Requests :
    Good(r) /\ Slot(req[r].called) = Slot(clock) =>
      Bucket(r) \in DOMAIN counters /\ req[r].count <= counters[Bucket(r)].count

CountsDiffer ==
  \A r, q \in Requests :
    Good(r) /\ Good(q) /\ r # q /\ Bucket(r) = Bucket(q) => req[r].count # req[q].count

BucketInv ==
  setup.limiter = "redis" => Prompt /\ PassedByCount /\ KeyOutlives /\ CountedInKey /\ CountsDiffer

(***************************************************************************)
(* What a step of a request does to what the quota is about.               *)
(***************************************************************************)
(* The other requests stay as they are. *)
Moves(r) == \A q \in Requests \ {r} : req'[q] = req[q]

Kept(r) == Pattern(req'[r].op) = Pattern(req[r].op) /\ req'[r].called = req[r].called /\ req'[r].count = req[r].count

Quiet(r) ==
  /\ Kept(r)
  /\ \/ req'[r].phase \in {"guard", "work", "query", "reply", "done"}
     \/ req'[r].phase \in Late /\ req[r].phase \in Late
     \/ req'[r].phase = req[r].phase
  /\ req[r].sent \in {0, req'[r].sent}

Admits(r, count) ==
  /\ req[r].sent = 0 /\ count <= max /\ req'[r].phase = "guard"
  /\ admitted' = [admitted EXCEPT ![r] = clock]

Windows(r) ==
  /\ setup.limiter = "memory" /\ req[r].phase = "reading" /\ Quiet(r)
  /\ counters' = Put(Pattern(req[r].op),
       [count |-> CountOf(Pattern(req[r].op)) + 1,
        expires |-> IF Live(Pattern(req[r].op)) THEN counters[Pattern(req[r].op)].expires ELSE clock + Window])
  /\ admitted' = admitted \/ Admits(r, CountOf(Pattern(req[r].op)) + 1)

Arrives(r) ==
  /\ req[r].phase = "idle" /\ req'[r].phase = "reading"
  /\ req'[r].called = req[r].called /\ req'[r].count = req[r].count /\ req'[r].sent = req[r].sent
  /\ UNCHANGED <<counters, admitted>>

Names(r) ==
  /\ setup.limiter = "redis" /\ req[r].phase = "reading" /\ req'[r].phase = "incr"
  /\ req'[r].called = clock /\ Pattern(req'[r].op) = Pattern(req[r].op) /\ req'[r].count = req[r].count
  /\ req'[r].sent = req[r].sent
  /\ UNCHANGED <<counters, admitted>>

Counts(r) ==
  /\ req[r].phase = "incr" /\ req'[r].phase \in Late
  /\ req'[r].called = req[r].called /\ Pattern(req'[r].op) = Pattern(req[r].op) /\ req'[r].sent = req[r].sent
  /\ req'[r].count = CountOf(Bucket(r)) + 1
  /\ counters' = Put(Bucket(r), [count |-> CountOf(Bucket(r)) + 1,
                                 expires |-> IF Live(Bucket(r)) THEN counters[Bucket(r)].expires ELSE 0])
  /\ admitted' = admitted

Renews(r) ==
  \/ counters' = counters
  \/ Live(Bucket(r)) /\ counters' = [counters EXCEPT ![Bucket(r)].expires = clock + Window]

Answered(r) ==
  /\ req[r].phase \in Late /\ Quiet(r) /\ Renews(r)
  /\ admitted' = admitted \/ Admits(r, req[r].count)

LEMMA ToQuiet ==
  ASSUME ReqOK, NEW r \in Requests, NEW p, To(r, p),
         p \in {"guard", "work", "query", "reply", "done"} \/ (p \in Late /\ req[r].phase \in Late)
  PROVE  Quiet(r) /\ Moves(r) /\ req'[r].phase = p
BY DEF ReqOK, To, Quiet, Kept, Moves, Request

LEMMA SendQuiet ==
  ASSUME ReqOK, NEW r \in Requests, NEW status, sendJson(r, status)
  PROVE  Quiet(r) /\ Moves(r)
BY DEF ReqOK, sendJson, Quiet, Kept, Moves, Request

LEMMA DecideQuiet ==
  ASSUME ReqOK, NEW r \in Requests, NEW count, Decide(r, count)
  PROVE  Quiet(r) /\ Moves(r) /\ (admitted' = admitted \/ Admits(r, count))
<1>1. CASE req[r].sent # 0
  BY <1>1 DEF Decide, Quiet, Kept, Moves
<1>2. CASE req[r].sent = 0 /\ allowed(count)
  <2>1. To(r, "guard") /\ admitted' = [admitted EXCEPT ![r] = clock] /\ count <= max
    BY <1>2 DEF Decide, allowed
  <2> QED
    BY <1>2, <2>1, ToQuiet DEF Admits
<1>3. CASE req[r].sent = 0 /\ ~allowed(count)
  BY <1>3, SendQuiet DEF Decide
<1> QED
  BY <1>1, <1>2, <1>3

LEMMA StepKinds ==
  ASSUME TypeInv, NEW r \in Requests, Step(r)
  PROVE  /\ Moves(r) /\ UNCHANGED <<setup, clock>>
         /\ \/ Quiet(r) /\ UNCHANGED <<counters, admitted>>
            \/ Arrives(r)
            \/ Windows(r)
            \/ Names(r)
            \/ Counts(r)
            \/ Answered(r)
<1>0. ReqOK /\ req[r] \in Request /\ req \in [Requests -> Request]
  BY DEF TypeInv, ReqOK
<1>1. CASE Arrive(r)
  <2>1. PICK op, cred : req' = [req EXCEPT ![r].phase = "reading", ![r].op = op, ![r].cred = cred]
    BY <1>1 DEF Arrive
  <2> QED
    BY <1>0, <1>1, <2>1 DEF Arrive, Arrives, Moves, Request
<1>2. CASE BodyTooLarge(r)
  BY <1>0, <1>2, SendQuiet DEF BodyTooLarge
<1>3. CASE Timeout(r)
  BY <1>0, <1>3 DEF Timeout, Quiet, Kept, Moves, Request
<1>4. CASE Unrouted(r)
  BY <1>0, <1>4, SendQuiet DEF Unrouted
<1>5. CASE DispatchUnlimited(r)
  BY <1>0, <1>5, ToQuiet DEF DispatchUnlimited
<1>6. CASE CheckWindow(r)
  <2>1. Decide(r, CountOf(Pattern(req[r].op)) + 1)
    BY <1>6 DEF CheckWindow
  <2> QED
    BY <1>0, <1>6, <2>1, DecideQuiet DEF CheckWindow, Windows, Is
<1>7. CASE NameBucket(r)
  BY <1>0, <1>7 DEF NameBucket, Names, Moves, Is, Request
<1>8. CASE Incr(r)
  <2>1. PICK p \in {"pexpire", "pttl"} :
          req' = [req EXCEPT ![r].phase = p, ![r].count = CountOf(Bucket(r)) + 1]
    BY <1>8 DEF Incr
  <2>2. /\ req'[r].phase = p /\ req'[r].called = req[r].called /\ Pattern(req'[r].op) = Pattern(req[r].op)
        /\ req'[r].sent = req[r].sent /\ req'[r].count = CountOf(Bucket(r)) + 1 /\ Moves(r)
    BY <1>0, <2>1 DEF Request, Moves
  <2> QED
    BY <1>8, <2>2 DEF Incr, Counts, Is, Late
<1>9. CASE Pexpire(r)
  <2>1. Renews(r) /\ req[r].phase \in Late
    BY <1>9 DEF Pexpire, Renews, Late
  <2>2. CASE Decide(r, req[r].count)
    BY <1>0, <1>9, <2>1, <2>2, DecideQuiet DEF Pexpire, Answered
  <2>3. CASE To(r, "pttl") /\ admitted' = admitted
    BY <1>0, <1>9, <2>1, <2>3, ToQuiet DEF Pexpire, Answered, Late
  <2> QED
    BY <1>9, <2>2, <2>3 DEF Pexpire
<1>10. CASE Pttl(r)
  <2>1. Renews(r) /\ req[r].phase \in Late
    BY <1>10 DEF Pttl, Is, Renews, Late
  <2>2. CASE Decide(r, req[r].count)
    BY <1>0, <1>10, <2>1, <2>2, DecideQuiet DEF Pttl, Answered
  <2>3. CASE To(r, "reapply") /\ admitted' = admitted
    BY <1>0, <1>10, <2>1, <2>3, ToQuiet DEF Pttl, Answered, Late
  <2> QED
    BY <1>10, <2>2, <2>3 DEF Pttl
<1>11. CASE RedisRejects(r)
  BY <1>11 DEF RedisRejects, Quiet, Kept, Moves
<1>12. CASE Guard(r)
  <2>1. (\E status : sendJson(r, status)) \/ To(r, "work")
    BY <1>12 DEF Guard
  <2> QED
    BY <1>0, <1>12, <2>1, SendQuiet, ToQuiet DEF Guard
<1>13. CASE Serve(r)
  <2>1. PICK status, acted : req' = [req EXCEPT ![r].phase = "reply", ![r].status = status,
                                              ![r].acted = acted]
    BY <1>13 DEF Serve
  <2> QED
    BY <1>0, <1>13, <2>1 DEF Serve, Quiet, Kept, Moves, Request
<1>14. CASE Reply(r)
  BY <1>0, <1>14, SendQuiet DEF Reply
<1>15. CASE Query(r) \/ QueryAnswered(r)
  BY <1>0, <1>15, ToQuiet DEF Query, QueryAnswered
<1> QED
  BY <1>1, <1>2, <1>3, <1>4, <1>5, <1>6, <1>7, <1>8, <1>9, <1>10, <1>11, <1>12, <1>13, <1>14,
     <1>15 DEF Step

LEMMA QuotaTypes ==
  ASSUME TypeInv
  PROVE  /\ clock \in Nat /\ Window \in Nat \ {0} /\ max \in Nat \ {0}
         /\ \A r \in Requests : /\ req[r].called \in Nat /\ req[r].count \in Nat
                               /\ req[r].phase \in Phases
                               /\ (admitted[r] \in Nat \/ admitted[r] = Never)
         /\ admitted \in [Requests -> (0 .. MaxClock) \cup {Never}]
         /\ \A key \in DOMAIN counters : /\ counters[key].count \in Nat \ {0}
                                        /\ counters[key].expires \in Nat
         /\ Never \in Int /\ Never < 0
BY ServerAssumption DEF TypeInv, TypeOK, ReqOK, Request, Never

LEMMA AdmissionNext ==
  ASSUME TypeInv, AdmissionInv, [Next]_vars
  PROVE  AdmissionInv'
<1> USE DEF AdmissionInv, Checking, Late
<1>1. ASSUME NEW r \in Requests, Step(r)
      PROVE  AdmissionInv'
  <2>1. Moves(r) /\ UNCHANGED <<setup, clock>>
    BY <1>1, StepKinds
  <2>2. ASSUME admitted' = admitted, Quiet(r) PROVE AdmissionInv'
    BY <2>1, <2>2 DEF Moves, Quiet, Kept
  <2>3. ASSUME Quiet(r), NEW count, Admits(r, count), setup.limiter # "off" PROVE AdmissionInv'
    <3>1. admitted'[r] = clock /\ \A q \in Requests \ {r} : admitted'[q] = admitted[q]
      BY <2>3, QuotaTypes DEF Admits
    <3>2. req'[r].phase = "guard" /\ req'[r].called = req[r].called
      BY <2>3 DEF Admits, Quiet, Kept
    <3>3. /\ admitted'[r] <= clock' /\ req'[r].called <= clock'
          /\ req'[r].phase \notin {"idle", "reading", "incr"} \cup Checking \cup Late
          /\ setup'.limiter # "off"
      BY <2>1, <2>3, <3>1, <3>2, QuotaTypes
    <3>4. \A q \in Requests \ {r} : req'[q] = req[q]
      BY <2>1 DEF Moves
    <3> QED
      BY <2>1, <3>1, <3>3, <3>4
  <2>4. CASE Arrives(r)
    BY <2>1, <2>4, QuotaTypes DEF Moves, Arrives
  <2>5. CASE Names(r)
    BY <2>1, <2>5, QuotaTypes DEF Moves, Names
  <2>6. CASE Counts(r)
    <3>1. req'[r].count \in Nat \ {0}
      BY <2>6, CountType DEF Counts
    <3> QED
      BY <2>1, <2>6, <3>1, QuotaTypes DEF Moves, Counts
  <2> QED
    BY <1>1, <2>2, <2>3, <2>4, <2>5, <2>6, StepKinds DEF Windows, Answered
<1>2. CASE Tick
  BY <1>2, QuotaTypes DEF Tick
<1>3. CASE Lifecycle \/ UNCHANGED vars
  BY <1>3, LifecycleFrame DEF vars
<1> QED
  BY <1>1, <1>2, <1>3, NextCases

(***************************************************************************)
(* The window in memory.                                                   *)
(***************************************************************************)
LEMMA Sizes ==
  ASSUME NEW A \in SUBSET Requests, NEW B \in SUBSET Requests
  PROVE  /\ Cardinality(A) \in Nat
         /\ A \subseteq B => Cardinality(A) <= Cardinality(B)
         /\ Cardinality(A \cup B) <= Cardinality(A) + Cardinality(B)
         /\ Cardinality({}) = 0
         /\ \A r \in Requests : Cardinality(A \cup {r}) <= Cardinality(A) + 1
<1>1. IsFiniteSet(A) /\ IsFiniteSet(B)
  BY ServerAssumption, FS_Subset
<1>2. Cardinality(A) \in Nat /\ Cardinality(B) \in Nat
  BY <1>1, FS_CardinalityType
<1>3. A \subseteq B => Cardinality(A) <= Cardinality(B)
  BY <1>1, FS_Subset
<1>4. Cardinality(A \cup B) <= Cardinality(A) + Cardinality(B)
  <2>1. Cardinality(A \cup B) = Cardinality(A) + Cardinality(B) - Cardinality(A \cap B)
    BY <1>1, FS_Union
  <2>2. Cardinality(A \cap B) \in Nat
    BY <1>1, FS_Intersection, FS_CardinalityType
  <2> QED
    BY <1>2, <2>1, <2>2
<1>5. Cardinality({}) = 0
  BY FS_EmptySet
<1>6. ASSUME NEW r \in Requests  PROVE Cardinality(A \cup {r}) <= Cardinality(A) + 1
  <2>1. Cardinality(A \cup {r}) = IF r \in A THEN Cardinality(A) ELSE Cardinality(A) + 1
    BY <1>1, FS_AddElement
  <2> QED
    BY <1>2, <2>1
<1> QED
  BY <1>2, <1>3, <1>4, <1>5, <1>6

(* What has passed once the step is taken. *)
PassedNext(op, from, to) == {q \in Requests : Pattern(req'[q].op) = op /\ admitted'[q] \in from .. to}

LEMMA PassedChange ==
  ASSUME TypeInv, NEW r \in Requests, Moves(r), Pattern(req'[r].op) = Pattern(req[r].op), admitted[r] = Never,
         admitted' \in {admitted, [admitted EXCEPT ![r] = clock]},
         NEW op, NEW from \in Nat, NEW to \in Int
  PROVE  /\ op # Pattern(req[r].op) \/ clock \notin from .. to \/ admitted' = admitted
              => PassedNext(op, from, to) = Passed(op, from, to)
         /\ PassedNext(op, from, to) \subseteq Passed(op, from, to) \cup {r}
<1>1. \A q \in Requests \ {r} : req'[q] = req[q] /\ admitted'[q] = admitted[q]
  BY QuotaTypes DEF Moves
<1>2. admitted'[r] = admitted[r] \/ (admitted'[r] = clock /\ admitted' # admitted)
  BY QuotaTypes
<1>3. Never \notin from .. to
  BY QuotaTypes
<1> QED
  BY <1>1, <1>2, <1>3 DEF PassedNext, Passed

(* The next step's window and the length before it bound every length that ends in it. *)
LEMMA LengthBound ==
  ASSUME TypeInv, NEW r \in Requests, Moves(r), Pattern(req'[r].op) = Pattern(req[r].op), admitted[r] = Never,
         admitted' \in {admitted, [admitted EXCEPT ![r] = clock]},
         \A q \in Requests : admitted[q] <= clock,
         NEW start \in 0 .. clock,
         Cardinality(PassedNext(Pattern(req[r].op), start, clock)) <= max,
         \A t \in Nat : t >= start - Window => Cardinality(Passed(Pattern(req[r].op), t, start - 1)) <= max,
         \A t \in Nat : Cardinality(Passed(Pattern(req[r].op), t, t + Window - 1)) <= 2 * max,
         NEW t \in Nat
  PROVE  Cardinality(PassedNext(Pattern(req[r].op), t, t + Window - 1)) <= 2 * max
<1> DEFINE op == Pattern(req[r].op)
           all == PassedNext(op, t, t + Window - 1)
           before == Passed(op, t, start - 1)
           now == PassedNext(op, start, clock)
<1>0. clock \in Nat /\ Window \in Nat \ {0} /\ max \in Nat \ {0} /\ start \in Nat
  BY QuotaTypes
<1>1. CASE clock \notin t .. t + Window - 1 \/ admitted' = admitted
  <2>1. t + Window - 1 \in Int
    BY <1>0
  <2>2. all = Passed(op, t, t + Window - 1)
    <3>1. PICK key : key = op
      OBVIOUS
    <3>2. PassedNext(key, t, t + Window - 1) = Passed(key, t, t + Window - 1)
      BY <1>1, <2>1, PassedChange
    <3> QED
      BY <3>1, <3>2
  <2> HIDE DEF all
  <2>3. Cardinality(all) <= 2 * max
    BY <2>2
  <2> QED
    BY <2>3 DEF all
<1>2. CASE clock \in t .. t + Window - 1
  <2>1. t >= start - Window
    BY <1>0, <1>2
  <2>2. Cardinality(before) <= max
    BY <2>1
  <2>3. all \subseteq before \cup now
    <3>1. ASSUME NEW q \in all  PROVE q \in before \/ q \in now
      <4>1. q \in Requests /\ Pattern(req'[q].op) = op /\ admitted'[q] \in t .. t + Window - 1
        BY DEF PassedNext
      <4>2. q # r => req'[q] = req[q] /\ admitted'[q] = admitted[q]
        BY <4>1, QuotaTypes DEF Moves
      <4>3. admitted'[q] \in Nat /\ admitted'[q] <= clock
        <5>1. q = r => admitted'[q] = clock
          BY <1>0, <4>1, QuotaTypes
        <5> QED
          BY <1>0, <4>1, <4>2, <5>1
      <4>4. CASE admitted'[q] >= start
        BY <1>0, <4>1, <4>3, <4>4 DEF PassedNext
      <4>5. CASE admitted'[q] < start
        <5>1. q # r
          BY <1>0, <4>1, <4>5, QuotaTypes
        <5> QED
          BY <1>0, <4>1, <4>2, <4>3, <4>5, <5>1 DEF Passed
      <4> QED
        BY <1>0, <4>3, <4>4, <4>5
    <3> QED
      BY <3>1
  <2>4. before \subseteq Requests /\ now \subseteq Requests /\ all \subseteq Requests
    BY DEF Passed, PassedNext
  <2> HIDE DEF all, before, now
  <2>5. /\ Cardinality(all) <= Cardinality(before \cup now)
        /\ Cardinality(before \cup now) <= Cardinality(before) + Cardinality(now)
        /\ Cardinality(all) \in Nat /\ Cardinality(before) \in Nat /\ Cardinality(now) \in Nat
        /\ Cardinality(before \cup now) \in Nat
    BY <2>3, <2>4, Sizes
  <2>6. Cardinality(now) <= max
    BY DEF now
  <2>7. Cardinality(all) <= 2 * max
    BY <1>0, <2>2, <2>5, <2>6
  <2> QED
    BY <2>7 DEF all
<1> QED
  BY <1>1, <1>2

(* A route's window while another route's is counted in. *)
LEMMA OtherWindow ==
  ASSUME TypeInv, NEW r \in Requests, Moves(r), Pattern(req'[r].op) = Pattern(req[r].op), admitted[r] = Never,
         admitted' \in {admitted, [admitted EXCEPT ![r] = clock]}, clock' = clock,
         NEW op \in DOMAIN counters, WindowOf(op),
         op # Pattern(req[r].op), counters'[op] = counters[op]
  PROVE  WindowOf(op)'
<1>0. clock \in Nat /\ Window \in Nat \ {0} /\ max \in Nat \ {0} /\ Start(op) \in Nat
  BY QuotaTypes DEF WindowOf
<1>1. Start(op)' = Start(op)
  BY DEF Start
<1>2. ASSUME NEW from, NEW to  PROVE PassedNext(op, from, to) = Passed(op, from, to)
  <2>1. \A q \in Requests \ {r} : req'[q] = req[q] /\ admitted'[q] = admitted[q]
    BY QuotaTypes DEF Moves
  <2> QED
    BY <2>1 DEF PassedNext, Passed
<1>3. ASSUME NEW t \in Nat, t >= Start(op) - Window
      PROVE  Cardinality(PassedNext(op, t, Start(op) - 1)) <= max
  <2>1. PassedNext(op, t, Start(op) - 1) = Passed(op, t, Start(op) - 1)
    BY <1>2
  <2> QED
    BY <1>3, <2>1 DEF WindowOf
<1>4. ASSUME NEW t \in Nat
      PROVE  Cardinality(PassedNext(op, t, t + Window - 1)) <= 2 * max
  <2>1. PassedNext(op, t, t + Window - 1) = Passed(op, t, t + Window - 1)
    BY <1>2
  <2> QED
    BY <2>1 DEF WindowOf
<1>5. \A q \in Requests : Pattern(req'[q].op) = op => admitted'[q] < counters'[op].expires
  <2>1. \A q \in Requests : Pattern(req'[q].op) = op => req'[q] = req[q] /\ admitted'[q] = admitted[q]
    BY QuotaTypes DEF Moves
  <2> QED
    BY <2>1 DEF WindowOf
<1>6. /\ Cardinality(PassedNext(op, Start(op)', clock')) <= counters'[op].count
      /\ Cardinality(PassedNext(op, Start(op)', clock')) <= max
  BY <1>1, <1>2 DEF WindowOf
<1>7. ASSUME NEW t \in Nat, t >= Start(op)' - Window
      PROVE  Cardinality(PassedNext(op, t, Start(op)' - 1)) <= max
  BY <1>1, <1>3, <1>7
<1>8. Start(op)' \in 0 .. clock'
  BY <1>1 DEF WindowOf
<1> QED
  BY <1>4, <1>5, <1>6, <1>7, <1>8 DEF WindowOf, PassedNext, Passed

(* The window of the route that is counted: the one it was, or one that starts now. *)
LEMMA OwnWindow ==
  ASSUME TypeInv, AdmissionInv, WindowInv, NEW r \in Requests, Moves(r), Windows(r), clock' = clock,
         NEW op, op = Pattern(req[r].op)
  PROVE  WindowOf(op)'
<1>0. /\ clock \in Nat /\ Window \in Nat \ {0} /\ max \in Nat \ {0}
      /\ Pattern(req'[r].op) = op /\ admitted[r] = Never /\ \A q \in Requests : admitted[q] <= clock
      /\ (op \in DOMAIN counters => WindowOf(op))
      /\ \A q \in Requests : admitted[q] # Never => Pattern(req[q].op) \in DOMAIN counters
  BY QuotaTypes DEF Windows, Quiet, Kept, AdmissionInv, WindowInv
<1>1. admitted' \in {admitted, [admitted EXCEPT ![r] = clock]}
  BY DEF Windows, Admits
<1>2. /\ \A q \in Requests \ {r} : req'[q] = req[q] /\ admitted'[q] = admitted[q]
      /\ admitted'[r] \in {Never, clock}
  BY <1>0, <1>1, QuotaTypes DEF Moves
<1> DEFINE count == CountOf(op) + 1
           expires == IF Live(op) THEN counters[op].expires ELSE clock + Window
           start == expires - Window
<1>3. /\ counters'[op].count = count /\ counters'[op].expires = expires /\ op \in DOMAIN counters'
      /\ count \in Nat \ {0} /\ expires \in Nat
  BY <1>0, CountType DEF Windows, Put
<1>4. admitted' # admitted => count <= max
  BY DEF Windows, Admits
<1>5. start \in 0 .. clock /\ clock < expires
  <2>1. CASE Live(op)
    BY <1>0, <2>1, QuotaTypes DEF Live, WindowOf, Start
  <2>2. CASE ~ Live(op)
    BY <1>0, <2>2
  <2> QED
    BY <2>1, <2>2
<1>6. \A q \in Requests : Pattern(req'[q].op) = op => admitted'[q] < expires
  <2>1. \A q \in Requests : admitted'[q] <= clock
    BY <1>0, <1>2, QuotaTypes
  <2>2. \A q \in Requests : admitted'[q] \in Int
    BY <1>2, QuotaTypes
  <2> QED
    BY <1>0, <1>3, <1>5, <2>1, <2>2
<1>7. /\ Cardinality(Passed(op, start, clock)) <= CountOf(op)
      /\ Cardinality(Passed(op, start, clock)) <= max
      /\ \A t \in Nat :
           /\ t >= start - Window => Cardinality(Passed(op, t, start - 1)) <= max
           /\ Cardinality(Passed(op, t, t + Window - 1)) <= 2 * max
  <2>0. \A from, to : Passed(op, from, to) \in SUBSET Requests
    BY DEF Passed
  <2>1. CASE Live(op)
    <3>1. op \in DOMAIN counters /\ CountOf(op) = counters[op].count /\ start = Start(op)
      BY <2>1 DEF Live, CountOf, Start
    <3> QED
      BY <1>0, <3>1 DEF WindowOf
  <2>2. CASE ~ Live(op) /\ op \in DOMAIN counters
    <3>1. WindowOf(op) /\ CountOf(op) = 0 /\ start = clock
      BY <1>0, <2>2 DEF CountOf
    <3>2. counters[op].expires \in 1 .. clock /\ Start(op) = counters[op].expires - Window
      BY <2>2 DEF Live, Start
    <3>3. Passed(op, clock, clock) = {}
      <4>1. ASSUME NEW q \in Requests, Pattern(req[q].op) = op, admitted[q] \in clock .. clock  PROVE FALSE
        BY <1>0, <3>1, <3>2, <4>1 DEF WindowOf
      <4> QED
        BY <4>1 DEF Passed
    <3>4. ASSUME NEW t \in Nat, t >= clock - Window
          PROVE  Cardinality(Passed(op, t, clock - 1)) <= max
      <4>1. t >= Start(op) /\ Start(op) \in Nat
        BY <1>0, <3>1, <3>2, <3>4 DEF WindowOf
      <4>2. Passed(op, t, clock - 1) \subseteq Passed(op, Start(op), clock)
        BY <1>0, <4>1 DEF Passed
      <4>3. Cardinality(Passed(op, t, clock - 1)) <= Cardinality(Passed(op, Start(op), clock))
        BY <2>0, <4>2, Sizes
      <4>4. /\ Cardinality(Passed(op, t, clock - 1)) \in Nat
            /\ Cardinality(Passed(op, Start(op), clock)) \in Nat
        BY <2>0, Sizes
      <4> QED
        BY <1>0, <3>1, <4>3, <4>4 DEF WindowOf
    <3>5. Cardinality(Passed(op, start, clock)) = 0
      BY <3>1, <3>3, FS_EmptySet
    <3>6. \A t \in Nat : t >= start - Window => Cardinality(Passed(op, t, start - 1)) <= max
      BY <3>1, <3>4
    <3> QED
      BY <1>0, <3>1, <3>5, <3>6 DEF WindowOf
  <2>3. CASE op \notin DOMAIN counters
    <3>1. CountOf(op) = 0 /\ ~ Live(op) /\ start = clock
      BY <1>0, <2>3 DEF CountOf, Live
    <3>2. ASSUME NEW from \in Nat, NEW to  PROVE Passed(op, from, to) = {}
      BY <1>0, <2>3, QuotaTypes DEF Passed
    <3>3. \A from \in Nat : \A to : Cardinality(Passed(op, from, to)) = 0
      BY <3>2, FS_EmptySet
    <3>4. Cardinality(Passed(op, start, clock)) = 0
      BY <1>0, <3>1, <3>3
    <3>5. /\ \A t \in Nat : Cardinality(Passed(op, t, start - 1)) = 0
          /\ \A t \in Nat : Cardinality(Passed(op, t, t + Window - 1)) = 0
      BY <3>3
    <3> QED
      BY <1>0, <3>1, <3>4, <3>5
  <2> QED
    BY <2>1, <2>2, <2>3
<1> HIDE DEF expires, start
<1>8. /\ Cardinality(PassedNext(op, start, clock)) <= count
      /\ Cardinality(PassedNext(op, start, clock)) <= max
  <2> DEFINE was == Passed(op, start, clock)
             is == PassedNext(op, start, clock)
  <2>1. was \in SUBSET Requests /\ is \in SUBSET Requests
    BY DEF Passed, PassedNext
  <2>2. start \in Nat /\ clock \in Int
    BY <1>0, <1>5
  <2>3. is \subseteq was \cup {r} /\ (admitted' = admitted => is = was)
    BY <1>0, <1>1, <2>2, PassedChange
  <2>4. Cardinality(was) <= CountOf(op) /\ Cardinality(was) <= max
    BY <1>7
  <2> HIDE DEF was, is
  <2>5. was \cup {r} \in SUBSET Requests
    BY <2>1
  <2>6. /\ Cardinality(was) \in Nat /\ Cardinality(is) \in Nat
        /\ Cardinality(was \cup {r}) \in Nat
        /\ Cardinality(is) <= Cardinality(was \cup {r})
        /\ Cardinality(was \cup {r}) <= Cardinality(was) + 1
    BY <2>1, <2>3, <2>5, Sizes
  <2>7. CountOf(op) \in Nat /\ count = CountOf(op) + 1
    BY CountType
  <2>8. Cardinality(is) <= count /\ Cardinality(is) <= max
    BY <1>0, <1>4, <2>3, <2>4, <2>6, <2>7
  <2> QED
    BY <2>8 DEF is
<1> HIDE DEF count
<1>9. ASSUME NEW t \in Nat, t >= start - Window
      PROVE  Cardinality(PassedNext(op, t, start - 1)) <= max
  <2>1. PICK last \in Int : last = start - 1
    BY <1>0, <1>5
  <2>2. clock \notin t .. last
    BY <1>0, <1>5, <2>1
  <2>3. PassedNext(op, t, last) = Passed(op, t, last)
    BY <1>0, <1>1, <2>2, PassedChange
  <2> QED
    BY <1>7, <1>9, <2>1, <2>3
<1>10. \A t \in Nat : Cardinality(PassedNext(op, t, t + Window - 1)) <= 2 * max
  BY <1>0, <1>1, <1>5, <1>7, <1>8, LengthBound
<1>11. Start(op)' = start /\ counters'[op].count = count /\ counters'[op].expires = expires
  BY <1>3 DEF start, Start
<1>12. /\ Cardinality(PassedNext(op, Start(op)', clock')) <= counters'[op].count
       /\ Cardinality(PassedNext(op, Start(op)', clock')) <= max
  BY <1>8, <1>11
<1>13. ASSUME NEW t \in Nat, t >= Start(op)' - Window
       PROVE  Cardinality(PassedNext(op, t, Start(op)' - 1)) <= max
  BY <1>9, <1>11, <1>13
<1>14. Start(op)' \in 0 .. clock'
  BY <1>5, <1>11
<1> QED
  BY <1>6, <1>10, <1>11, <1>12, <1>13, <1>14 DEF WindowOf, PassedNext, Passed

LEMMA WindowNext ==
  ASSUME TypeInv, AdmissionInv, WindowInv, [Next]_vars
  PROVE  WindowInv'
<1>0. setup' = setup
  BY NextCases, StepKinds, LifecycleFrame DEF Tick, vars
<1> SUFFICES ASSUME setup.limiter = "memory"
             PROVE  /\ \A r \in Requests : admitted'[r] # Never => Pattern(req'[r].op) \in DOMAIN counters'
                    /\ \A op \in DOMAIN counters' : WindowOf(op)'
  BY <1>0 DEF WindowInv
<1>1. /\ \A r \in Requests : admitted[r] # Never => Pattern(req[r].op) \in DOMAIN counters
      /\ \A op \in DOMAIN counters : WindowOf(op)
      /\ \A r \in Requests : req[r].phase \notin Checking
  BY DEF WindowInv, AdmissionInv
<1>2. ASSUME NEW r \in Requests, Windows(r), Moves(r), clock' = clock
      PROVE  /\ \A q \in Requests : admitted'[q] # Never => Pattern(req'[q].op) \in DOMAIN counters'
             /\ \A op \in DOMAIN counters' : WindowOf(op)'
  <2>1. /\ admitted[r] = Never /\ Pattern(req'[r].op) = Pattern(req[r].op)
        /\ admitted' \in {admitted, [admitted EXCEPT ![r] = clock]}
    BY <1>2 DEF Windows, Quiet, Kept, Admits, AdmissionInv
  <2>2. /\ DOMAIN counters' = DOMAIN counters \cup {Pattern(req[r].op)}
        /\ \A op \in DOMAIN counters : op # Pattern(req[r].op) => counters'[op] = counters[op]
    BY <1>2 DEF Windows, Put
  <2>3. ASSUME NEW op \in DOMAIN counters'  PROVE WindowOf(op)'
    <3>1. CASE op = Pattern(req[r].op)
      BY <1>2, <3>1, OwnWindow
    <3>2. CASE op # Pattern(req[r].op)
      BY <1>1, <1>2, <2>1, <2>2, <3>2, OtherWindow
    <3> QED
      BY <3>1, <3>2
  <2>4. \A q \in Requests : admitted'[q] # Never => Pattern(req'[q].op) \in DOMAIN counters'
    BY <1>1, <1>2, <2>1, <2>2, QuotaTypes DEF Moves
  <2> QED
    BY <2>3, <2>4
<1>3. ASSUME UNCHANGED <<counters, admitted>>, clock' \in {clock, clock + 1},
             \A r \in Requests : admitted[r] = Never \/ Pattern(req'[r].op) = Pattern(req[r].op)
      PROVE  /\ \A q \in Requests : admitted'[q] # Never => Pattern(req'[q].op) \in DOMAIN counters'
             /\ \A op \in DOMAIN counters' : WindowOf(op)'
  <2>1. ASSUME NEW op, NEW from \in Nat, NEW to  PROVE PassedNext(op, from, to) = Passed(op, from, to)
    BY <1>3, QuotaTypes DEF PassedNext, Passed
  <2>2. ASSUME NEW op \in DOMAIN counters  PROVE WindowOf(op)'
    <3>1. Start(op)' = Start(op) /\ Start(op) \in Nat /\ Start(op) \in 0 .. clock'
      BY <1>1, <1>3, QuotaTypes DEF Start, WindowOf
    <3>2. PassedNext(op, Start(op)', clock') = Passed(op, Start(op), clock)
      <4>1. Passed(op, Start(op), clock') = Passed(op, Start(op), clock)
        BY <1>3, <3>1, QuotaTypes DEF Passed, AdmissionInv
      <4> QED
        BY <2>1, <3>1, <4>1
    <3>3. ASSUME NEW q \in Requests, Pattern(req'[q].op) = op  PROVE admitted'[q] < counters'[op].expires
      BY <1>1, <1>3, <3>3, QuotaTypes DEF WindowOf
    <3>4. ASSUME NEW t \in Nat
          PROVE  /\ t >= Start(op)' - Window => Cardinality(PassedNext(op, t, Start(op)' - 1)) <= max
                 /\ Cardinality(PassedNext(op, t, t + Window - 1)) <= 2 * max
      BY <1>1, <2>1, <3>1 DEF WindowOf
    <3>5. /\ Cardinality(PassedNext(op, Start(op)', clock')) <= counters'[op].count
          /\ Cardinality(PassedNext(op, Start(op)', clock')) <= max
      BY <1>1, <1>3, <3>2 DEF WindowOf
    <3> QED
      BY <3>1, <3>3, <3>4, <3>5 DEF WindowOf, PassedNext, Passed
  <2> QED
    BY <1>1, <1>3, <2>2, QuotaTypes
<1>4. ASSUME NEW r \in Requests, Step(r)
      PROVE  /\ \A q \in Requests : admitted'[q] # Never => Pattern(req'[q].op) \in DOMAIN counters'
             /\ \A op \in DOMAIN counters' : WindowOf(op)'
  <2>1. Moves(r) /\ clock' = clock
    BY <1>4, StepKinds
  <2>2. ~ Names(r) /\ ~ Counts(r) /\ ~ Answered(r)
    BY <1>1 DEF Names, Counts, Answered, Checking, Late
  <2>3. CASE Windows(r)
    BY <1>2, <2>1, <2>3
  <2>4. CASE (Quiet(r) /\ UNCHANGED <<counters, admitted>>) \/ Arrives(r)
    <3>1. \A q \in Requests : admitted[q] = Never \/ Pattern(req'[q].op) = Pattern(req[q].op)
      BY <2>1, <2>4 DEF Moves, Quiet, Kept, Arrives, AdmissionInv
    <3> QED
      BY <1>3, <2>1, <2>4, <3>1 DEF Arrives
  <2> QED
    BY <1>4, <2>2, <2>3, <2>4, StepKinds
<1>5. CASE Lifecycle \/ Tick \/ UNCHANGED vars
  BY <1>3, <1>5, LifecycleFrame DEF Tick, vars
<1> QED
  BY <1>4, <1>5, NextCases

(***************************************************************************)
(* The buckets in Redis.                                                   *)
(***************************************************************************)
LEMMA Division ==
  ASSUME NEW n \in Nat, NEW w \in Nat \ {0}
  PROVE  n \div w \in Nat /\ w * (n \div w) <= n /\ n < w * (n \div w) + w
OBVIOUS

LEMMA Product ==
  ASSUME NEW p \in Nat, NEW q \in Nat, NEW w \in Nat \ {0}, p < q
  PROVE  w * p + w <= w * q
OBVIOUS

LEMMA SlotType == ASSUME NEW t \in Nat PROVE Slot(t) \in Nat
BY Division, ServerAssumption DEF Slot

LEMMA SlotOrder ==
  ASSUME NEW a \in Nat, NEW b \in Nat, a <= b
  PROVE  Slot(a) <= Slot(b)
<1> DEFINE p == Slot(b)
           q == Slot(a)
<1>1. /\ p \in Nat /\ q \in Nat /\ Window \in Nat \ {0}
      /\ Window * q <= a /\ b < Window * p + Window
  BY Division, ServerAssumption DEF Slot
<1> HIDE DEF p, q
<1>2. Window * p \in Nat /\ Window * q \in Nat
  BY <1>1
<1>3. p < q => Window * p + Window <= Window * q
  BY <1>1, Product
<1>4. q <= p
  BY <1>1, <1>2, <1>3
<1> QED
  BY <1>4 DEF p, q

LEMMA SlotLength ==
  ASSUME NEW a \in Nat, NEW b \in Nat
  PROVE  /\ Slot(a) = Slot(b) => b < a + Window
         /\ b <= a + Window - 1 => Slot(b) <= Slot(a) + 1
<1> DEFINE p == Slot(b)
           q == Slot(a)
<1>1. /\ p \in Nat /\ q \in Nat /\ Window \in Nat \ {0}
      /\ Window * q <= a /\ a < Window * q + Window
      /\ Window * p <= b /\ b < Window * p + Window
  BY Division, ServerAssumption DEF Slot
<1> HIDE DEF p, q
<1>2. Window * p \in Nat /\ Window * q \in Nat
  BY <1>1
<1>3. p = q => b < a + Window
  BY <1>1, <1>2
<1>4. ASSUME q + 1 < p, b <= a + Window - 1  PROVE FALSE
  <2>1. Window * (q + 1) + Window <= Window * p
    BY <1>1, <1>4, Product
  <2>2. Window * (q + 1) = Window * q + Window
    BY <1>1
  <2> QED
    BY <1>1, <1>2, <1>4, <2>1, <2>2
<1>5. b <= a + Window - 1 => p <= q + 1
  BY <1>1, <1>4
<1> QED
  BY <1>3, <1>5 DEF p, q

LEMMA BucketIs ==
  ASSUME NEW r \in Requests, NEW q \in Requests
  PROVE  /\ Bucket(r) = Bucket(q) <=> Pattern(req[r].op) = Pattern(req[q].op) /\ Slot(req[r].called) = Slot(req[q].called)
         /\ Bucket(r)[2] = Slot(req[r].called)
BY DEF Bucket, Slot

(* What one more call of Redis, answered or not, leaves as it was. *)
LEMMA AnsweredBuckets ==
  ASSUME TypeInv, AdmissionInv, BucketInv, setup.limiter = "redis", clock' = clock,
         NEW r \in Requests, Moves(r), Quiet(r), Renews(r),
         admitted' = admitted \/ (req[r].phase \in Late /\ Admits(r, req[r].count))
  PROVE  Prompt' /\ PassedByCount' /\ KeyOutlives' /\ CountedInKey' /\ CountsDiffer'
<1>0. Prompt /\ PassedByCount /\ KeyOutlives /\ CountedInKey /\ CountsDiffer
  BY DEF BucketInv
<1>1. \A q \in Requests \ {r} : req'[q] = req[q] /\ admitted'[q] = admitted[q]
  BY QuotaTypes DEF Moves, Admits
<1>2. \A q \in Requests : /\ Pattern(req'[q].op) = Pattern(req[q].op) /\ req'[q].called = req[q].called
                          /\ req'[q].count = req[q].count
  BY <1>1 DEF Quiet, Kept
<1>3. \A q \in Requests : Bucket(q)' = Bucket(q)
  BY <1>2 DEF Bucket
<1>4. \/ admitted'[r] = admitted[r]
      \/ /\ admitted'[r] = clock /\ req[r].phase \in Late /\ req[r].sent = 0
         /\ req[r].count <= max /\ req[r].count > 0
  BY QuotaTypes DEF Admits, AdmissionInv
<1>5. \A q \in Requests : Good(q)' => Good(q)
  <2>1. Good(r)' => Good(r)
    BY <1>2, <1>4 DEF Good, Quiet
  <2>2. \A q \in Requests \ {r} : Good(q)' => Good(q)
    BY <1>1 DEF Good
  <2> QED
    BY <2>1, <2>2
<1>6. /\ DOMAIN counters' = DOMAIN counters
      /\ \A key \in DOMAIN counters :
           /\ counters'[key].count = counters[key].count
           /\ \/ counters'[key].expires = counters[key].expires
              \/ key = Bucket(r) /\ counters'[key].expires = clock + Window
  <2>1. CASE counters' = counters
    BY <2>1
  <2>2. CASE /\ Live(Bucket(r))
             /\ counters' = [counters EXCEPT ![Bucket(r)].expires = clock + Window]
    BY <2>2 DEF Live, TypeInv, TypeOK
  <2> QED
    BY <2>1, <2>2 DEF Renews
<1>7. Prompt'
  <2>1. req'[r].phase \in Checking /\ req'[r].sent = 0 => req[r].phase \in Checking /\ req[r].sent = 0
    BY DEF Quiet, Checking, Late
  <2> QED
    BY <1>0, <1>1, <1>2, <2>1 DEF Prompt
<1>8. PassedByCount'
  <2>1. ASSUME NEW q \in Requests, admitted'[q] # Never
        PROVE  Good(q)' /\ admitted'[q] = req[q].called /\ req[q].count <= max
    <3>1. CASE admitted'[q] = admitted[q]
      BY <1>0, <1>2, <2>1, <3>1 DEF PassedByCount, Good
    <3>2. CASE admitted'[q] # admitted[q]
      <4>1. q = r
        BY <1>1, <3>2
      <4>2. req[r].called = clock
        BY <1>0, <1>4, <3>2, <4>1 DEF Prompt, Checking, Late
      <4> QED
        BY <1>2, <1>4, <2>1, <3>2, <4>1, <4>2 DEF Good
    <3> QED
      BY <3>1, <3>2
  <2> QED
    BY <1>2, <2>1 DEF PassedByCount
<1>9. KeyOutlives'
  <2>1. ASSUME NEW t \in Nat, Slot(t) = Bucket(r)[2]  PROVE t < clock + Window
    <3>1. t < req[r].called + Window
      BY <2>1, QuotaTypes, BucketIs, SlotLength
    <3> QED
      BY <3>1, QuotaTypes DEF AdmissionInv
  <2>2. ASSUME NEW key \in DOMAIN counters, NEW t \in Nat,
               counters'[key].expires # 0, Slot(t) = key[2]
        PROVE  t < counters'[key].expires
    <3>1. CASE counters'[key].expires = counters[key].expires
      BY <1>0, <2>2, <3>1 DEF KeyOutlives
    <3>2. CASE key = Bucket(r) /\ counters'[key].expires = clock + Window
      BY <2>1, <2>2, <3>2
    <3> QED
      BY <1>6, <3>1, <3>2
  <2> QED
    BY <1>6, <2>2 DEF KeyOutlives, Slot
<1>10. CountedInKey'
  BY <1>0, <1>2, <1>3, <1>5, <1>6 DEF CountedInKey, Slot
<1>11. CountsDiffer'
  BY <1>0, <1>2, <1>3, <1>5 DEF CountsDiffer
<1> QED
  BY <1>7, <1>8, <1>9, <1>10, <1>11

(* A request that arrives or names its bucket has no count yet. *)
LEMMA NamedBuckets ==
  ASSUME TypeInv, AdmissionInv, BucketInv, setup.limiter = "redis", clock' = clock,
         NEW r \in Requests, Moves(r), Arrives(r) \/ Names(r)
  PROVE  Prompt' /\ PassedByCount' /\ KeyOutlives' /\ CountedInKey' /\ CountsDiffer'
<1>0. Prompt /\ PassedByCount /\ KeyOutlives /\ CountedInKey /\ CountsDiffer
  BY DEF BucketInv
<1>1. /\ admitted' = admitted /\ counters' = counters /\ admitted[r] = Never
      /\ req'[r].count = 0
      /\ req'[r].phase \in Checking => req'[r].called = clock
  BY DEF Arrives, Names, AdmissionInv, Checking
<1>2. \A q \in Requests \ {r} : req'[q] = req[q] /\ Bucket(q)' = Bucket(q) /\ Good(q)' = Good(q)
  BY <1>1 DEF Moves, Bucket, Good
<1>3. ~ Good(r)'
  BY <1>1 DEF Good
<1>4. Prompt'
  BY <1>0, <1>1, <1>2 DEF Prompt
<1>5. PassedByCount'
  BY <1>0, <1>1, <1>2 DEF PassedByCount
<1>6. KeyOutlives'
  BY <1>0, <1>1 DEF KeyOutlives, Slot
<1>7. CountedInKey'
  BY <1>0, <1>1, <1>2, <1>3 DEF CountedInKey, Slot
<1>8. CountsDiffer'
  BY <1>0, <1>2, <1>3 DEF CountsDiffer
<1> QED
  BY <1>4, <1>5, <1>6, <1>7, <1>8

(* A count that is taken is above those of its bucket, whose key is live while the bucket is
   the current one. *)
LEMMA LiveKey ==
  ASSUME TypeInv, BucketInv, setup.limiter = "redis",
         NEW r \in Requests, Bucket(r) \in DOMAIN counters, Slot(req[r].called) = Slot(clock)
  PROVE  Live(Bucket(r)) /\ CountOf(Bucket(r)) = counters[Bucket(r)].count
<1>1. Slot(clock) = Bucket(r)[2]
  BY BucketIs
<1>2. counters[Bucket(r)].expires # 0 => clock < counters[Bucket(r)].expires
  BY <1>1, QuotaTypes DEF BucketInv, KeyOutlives
<1>3. Live(Bucket(r))
  BY <1>2, QuotaTypes DEF Live
<1> QED
  BY <1>3 DEF CountOf

LEMMA CountedBuckets ==
  ASSUME TypeInv, AdmissionInv, BucketInv, setup.limiter = "redis", clock' = clock,
         NEW r \in Requests, Moves(r), Counts(r)
  PROVE  Prompt' /\ PassedByCount' /\ KeyOutlives' /\ CountedInKey' /\ CountsDiffer'
<1>0. Prompt /\ PassedByCount /\ KeyOutlives /\ CountedInKey /\ CountsDiffer
  BY DEF BucketInv
<1> DEFINE b == Bucket(r)
           count == CountOf(b) + 1
<1>1. /\ admitted' = admitted /\ admitted[r] = Never /\ req[r].count = 0
      /\ req'[r].called = req[r].called /\ Pattern(req'[r].op) = Pattern(req[r].op) /\ req'[r].sent = req[r].sent
      /\ req'[r].count = count /\ count \in Nat \ {0}
      /\ req[r].sent = 0 => req[r].called = clock
  BY <1>0, CountType DEF Counts, AdmissionInv, Prompt, Checking
<1>2. /\ DOMAIN counters' = DOMAIN counters \cup {b}
      /\ counters'[b].count = count
      /\ counters'[b].expires = IF Live(b) THEN counters[b].expires ELSE 0
      /\ \A key \in DOMAIN counters : key # b => counters'[key] = counters[key]
  BY DEF Counts, Put
<1>3. \A q \in Requests \ {r} : req'[q] = req[q] /\ Good(q)' = Good(q)
  BY <1>1 DEF Moves, Good
<1>4. \A q \in Requests : Bucket(q)' = Bucket(q)
  BY <1>1, <1>3 DEF Bucket
<1>5. Good(r)' => Slot(req[r].called) = Slot(clock)
  BY <1>1 DEF Good
<1>6. ASSUME NEW q \in Requests \ {r}, Good(q), Slot(req[q].called) = Slot(clock), Bucket(q) = b
      PROVE  b \in DOMAIN counters /\ req[q].count < count
  <2>1. b \in DOMAIN counters /\ req[q].count <= counters[b].count
    BY <1>0, <1>6 DEF CountedInKey
  <2>2. CountOf(b) = counters[b].count
    BY <1>6, <2>1, LiveKey
  <2> QED
    BY <2>1, <2>2, QuotaTypes
<1> HIDE DEF count
<1>7. Prompt'
  <2>1. req'[r].sent = 0 => req'[r].called = clock
    BY <1>1
  <2> QED
    BY <1>0, <1>3, <2>1 DEF Prompt
<1>8. PassedByCount'
  BY <1>0, <1>1, <1>3 DEF PassedByCount
<1>9. KeyOutlives'
  <2>1. ASSUME NEW key \in DOMAIN counters', NEW t \in Nat,
               counters'[key].expires # 0, Slot(t) = key[2]
        PROVE  t < counters'[key].expires
    <3>1. key \in DOMAIN counters /\ counters'[key].expires = counters[key].expires
      BY <1>2, <2>1 DEF Live
    <3> QED
      BY <1>0, <2>1, <3>1 DEF KeyOutlives
  <2> QED
    BY <2>1 DEF KeyOutlives, Slot
<1>10. CountedInKey'
  <2>1. ASSUME NEW q \in Requests, Good(q)', Slot(req'[q].called) = Slot(clock)
        PROVE  Bucket(q) \in DOMAIN counters' /\ req'[q].count <= counters'[Bucket(q)].count
    <3>1. CASE q = r
      BY <1>1, <1>2, <3>1
    <3>2. CASE q # r /\ Bucket(q) = b
      BY <1>1, <1>2, <1>3, <1>6, <2>1, <3>2, QuotaTypes
    <3>3. CASE q # r /\ Bucket(q) # b
      BY <1>0, <1>2, <1>3, <2>1, <3>3 DEF CountedInKey
    <3> QED
      BY <3>1, <3>2, <3>3
  <2> QED
    BY <1>4, <2>1 DEF CountedInKey, Slot
<1>11. CountsDiffer'
  <2>1. ASSUME NEW q \in Requests \ {r}, Good(r)', Good(q), Bucket(q) = b
        PROVE  req[q].count # count
    <3>1. Slot(req[q].called) = Slot(clock)
      BY <1>5, <2>1, BucketIs
    <3> QED
      BY <1>1, <1>6, <2>1, <3>1, QuotaTypes
  <2>2. ASSUME NEW q \in Requests, NEW p \in Requests, Good(q)', Good(p)', q # p, Bucket(q) = Bucket(p)
        PROVE  req'[q].count # req'[p].count
    <3>1. CASE q = r
      BY <1>1, <1>3, <2>1, <2>2, <3>1
    <3>2. CASE p = r
      BY <1>1, <1>3, <2>1, <2>2, <3>2
    <3>3. CASE q # r /\ p # r
      BY <1>0, <1>3, <2>2, <3>3 DEF CountsDiffer
    <3> QED
      BY <3>1, <3>2, <3>3
  <2> QED
    BY <1>4, <2>2 DEF CountsDiffer
<1> QED
  BY <1>7, <1>8, <1>9, <1>10, <1>11

LEMMA BucketNext ==
  ASSUME PromptChecks, TypeInv, AdmissionInv, BucketInv, [Next]_vars
  PROVE  BucketInv'
<1>0. setup' = setup
  BY NextCases, StepKinds, LifecycleFrame DEF Tick, vars
<1> SUFFICES ASSUME setup.limiter = "redis"
             PROVE  Prompt' /\ PassedByCount' /\ KeyOutlives' /\ CountedInKey' /\ CountsDiffer'
  BY <1>0 DEF BucketInv
<1>1. ASSUME NEW r \in Requests, Step(r)
      PROVE  Prompt' /\ PassedByCount' /\ KeyOutlives' /\ CountedInKey' /\ CountsDiffer'
  <2>1. Moves(r) /\ clock' = clock
    BY <1>1, StepKinds
  <2>2. CASE (Quiet(r) /\ UNCHANGED <<counters, admitted>>) \/ Answered(r)
    BY <2>1, <2>2, AnsweredBuckets DEF Answered, Renews
  <2>3. CASE Arrives(r) \/ Names(r)
    BY <2>1, <2>3, NamedBuckets
  <2>4. CASE Counts(r)
    BY <2>1, <2>4, CountedBuckets
  <2> QED
    BY <1>1, <2>2, <2>3, <2>4, StepKinds DEF Windows
<1>2. Prompt /\ PassedByCount /\ KeyOutlives /\ CountedInKey /\ CountsDiffer
  BY DEF BucketInv
<1>3. CASE Tick
  <2>1. Latency = 0
    BY DEF PromptChecks, TypeInv
  <2>2. /\ UNCHANGED <<counters, req, admitted>> /\ clock' = clock + 1
        /\ \A r \in Requests : ~ (req[r].phase \in Checking /\ req[r].sent = 0)
    BY <1>2, <1>3, <2>1, QuotaTypes DEF Tick, Prompt, Checking
  <2>3. \A r \in Requests : Slot(req[r].called) = Slot(clock') => Slot(req[r].called) = Slot(clock)
    <3>1. ASSUME NEW r \in Requests
          PROVE  Slot(req[r].called) <= Slot(clock) /\ Slot(clock) <= Slot(clock')
      BY <2>2, QuotaTypes, SlotOrder DEF AdmissionInv
    <3>2. \A r \in Requests : /\ Slot(req[r].called) \in Nat
                              /\ Slot(clock) \in Nat /\ Slot(clock') \in Nat
      BY <2>2, QuotaTypes, SlotType
    <3> QED
      BY <3>1, <3>2
  <2>4. Prompt'
    BY <2>2 DEF Prompt
  <2>5. PassedByCount'
    BY <1>2, <2>2 DEF PassedByCount, Good
  <2>6. KeyOutlives'
    BY <1>2, <2>2 DEF KeyOutlives, Slot
  <2>7. CountedInKey'
    <3>1. \A r \in Requests : Good(r)' = Good(r) /\ Bucket(r)' = Bucket(r)
      BY <2>2 DEF Good, Bucket
    <3> QED
      BY <1>2, <2>2, <2>3, <3>1 DEF CountedInKey, Slot
  <2>8. CountsDiffer'
    BY <1>2, <2>2 DEF CountsDiffer, Good, Bucket
  <2> QED
    BY <2>4, <2>5, <2>6, <2>7, <2>8
<1>4. CASE Lifecycle \/ UNCHANGED vars
  <2>1. UNCHANGED <<counters, req, admitted, clock>>
    BY <1>4, LifecycleFrame DEF vars
  <2> QED
    BY <1>2, <2>1 DEF Prompt, PassedByCount, KeyOutlives, CountedInKey, CountsDiffer, Good, Bucket, Slot
<1> QED
  BY <1>1, <1>3, <1>4, NextCases

(***************************************************************************)
(* The bound.                                                              *)
(***************************************************************************)
LEMMA InitQuota == Init => AdmissionInv /\ WindowInv /\ BucketInv
<1> SUFFICES ASSUME Init PROVE AdmissionInv /\ WindowInv /\ BucketInv
  OBVIOUS
<1>1. /\ \A r \in Requests : /\ admitted[r] = Never /\ req[r].phase = "idle"
                             /\ req[r].count = 0 /\ req[r].called = 0
      /\ clock = 0 /\ DOMAIN counters = {}
  BY DEF Init, NoRequest
<1>2. AdmissionInv
  BY <1>1 DEF AdmissionInv, Checking, Late, Never
<1>3. WindowInv
  BY <1>1 DEF WindowInv
<1>4. BucketInv
  BY <1>1 DEF BucketInv, Prompt, PassedByCount, KeyOutlives, CountedInKey, CountsDiffer, Good, Checking
<1> QED
  BY <1>2, <1>3, <1>4

(* What a bucket let pass: its counts are different numbers, none above the quota. *)
InBucket(op, slot) ==
  {r \in Requests : Pattern(req[r].op) = op /\ admitted[r] # Never /\ Slot(req[r].called) = slot}

LEMMA BucketBound ==
  ASSUME TypeInv, BucketInv, setup.limiter = "redis", NEW op, NEW slot
  PROVE  Cardinality(InBucket(op, slot)) <= max
<1> DEFINE f == [r \in InBucket(op, slot) |-> req[r].count]
<1>1. \A r \in InBucket(op, slot) : r \in Requests /\ Good(r) /\ req[r].count \in 1 .. max
  BY QuotaTypes DEF InBucket, BucketInv, PassedByCount, Good
<1>2. \A r, q \in InBucket(op, slot) : req[r].count = req[q].count => r = q
  <2>1. \A r, q \in InBucket(op, slot) : Bucket(r) = Bucket(q)
    BY BucketIs DEF InBucket
  <2> QED
    BY <1>1, <2>1 DEF BucketInv, CountsDiffer
<1>3. f \in Injection(InBucket(op, slot), 1 .. max)
  BY <1>1, <1>2, Fun_IsInj
<1>4. IsFiniteSet(1 .. max) /\ Cardinality(1 .. max) = max
  BY QuotaTypes, FS_Interval
<1>5. Cardinality(InBucket(op, slot)) <= Cardinality(1 .. max)
  BY <1>3, <1>4, FS_Injection
<1> QED
  BY <1>4, <1>5

LEMMA QuotaBound ==
  ASSUME TypeInv, AdmissionInv, WindowInv, BucketInv
  PROVE  BurstBounded
<1> SUFFICES ASSUME NEW r \in Requests, NEW t \in 0 .. MaxClock
             PROVE  Cardinality(Passed(Pattern(req[r].op), t, t + Window - 1)) <= 2 * max
  BY DEF BurstBounded
<1>0. t \in Nat
  BY ServerAssumption
<1>1. ASSUME \A q \in Requests : Pattern(req[q].op) = Pattern(req[r].op) => admitted[q] = Never
      PROVE  Cardinality(Passed(Pattern(req[r].op), t, t + Window - 1)) <= 2 * max
  <2>1. Passed(Pattern(req[r].op), t, t + Window - 1) = {}
    BY <1>0, <1>1, QuotaTypes DEF Passed
  <2>2. Cardinality(Passed(Pattern(req[r].op), t, t + Window - 1)) = 0
    BY <2>1, FS_EmptySet
  <2> QED
    BY <2>2, QuotaTypes
<1>2. CASE setup.limiter = "off"
  BY <1>1, <1>2 DEF AdmissionInv
<1>3. CASE setup.limiter = "memory"
  BY <1>0, <1>1, <1>3 DEF WindowInv, WindowOf
<1>4. CASE setup.limiter = "redis"
  <2> DEFINE op == Pattern(req[r].op)
             all == Passed(op, t, t + Window - 1)
             one == InBucket(op, Slot(t))
             next == InBucket(op, Slot(t) + 1)
  <2>1. all \subseteq one \cup next
    <3>1. ASSUME NEW q \in all  PROVE q \in one \/ q \in next
      <4>1. q \in Requests /\ Pattern(req[q].op) = op /\ admitted[q] \in t .. t + Window - 1
        BY DEF Passed
      <4>2. admitted[q] # Never
        BY <1>0, <4>1, QuotaTypes
      <4>3. req[q].called = admitted[q]
        BY <1>4, <4>1, <4>2 DEF BucketInv, PassedByCount
      <4>4. Slot(t) <= Slot(req[q].called) /\ Slot(req[q].called) <= Slot(t) + 1
        BY <1>0, <4>1, <4>3, QuotaTypes, SlotOrder, SlotLength
      <4>5. Slot(req[q].called) \in {Slot(t), Slot(t) + 1}
        BY <1>0, <4>1, <4>4, QuotaTypes, SlotType
      <4> QED
        BY <4>1, <4>2, <4>5 DEF InBucket
    <3> QED
      BY <3>1
  <2>2. Cardinality(one) <= max /\ Cardinality(next) <= max
    BY <1>4, BucketBound
  <2>3. one \subseteq Requests /\ next \subseteq Requests /\ all \subseteq Requests
    BY DEF InBucket, Passed
  <2> HIDE DEF all, one, next
  <2>4. /\ Cardinality(all) <= Cardinality(one \cup next)
        /\ Cardinality(one \cup next) <= Cardinality(one) + Cardinality(next)
        /\ Cardinality(all) \in Nat /\ Cardinality(one) \in Nat /\ Cardinality(next) \in Nat
        /\ Cardinality(one \cup next) \in Nat
    BY <2>1, <2>3, Sizes
  <2>5. Cardinality(all) <= 2 * max
    BY <2>2, <2>4, QuotaTypes
  <2> QED
    BY <2>5 DEF all
<1> QED
  BY <1>2, <1>3, <1>4, SetupType DEF TypeInv

(* In any length of time as long as a window, a route lets at most two quotas pass, in memory
   and in Redis (rateLimiter.ts check, redisRateLimiter.ts check).  A check in Redis has to be
   answered within the tick of its call: one that is answered after the key of its bucket
   expired is counted from one again. *)
THEOREM BurstsAreBounded == PromptChecks => (Spec => []BurstBounded)
<1> SUFFICES ASSUME PromptChecks PROVE Spec => []BurstBounded
  OBVIOUS
<1> DEFINE Inv == TypeInv /\ AdmissionInv /\ WindowInv /\ BucketInv
<1>1. Init => Inv
  BY InitType, InitQuota
<1>2. Inv /\ [Next]_vars => Inv'
  BY NextType, AdmissionNext, WindowNext, BucketNext
<1>3. Inv => BurstBounded
  BY QuotaBound
<1> HIDE DEF Inv
<1> QED
  BY <1>1, <1>2, <1>3, PTL DEF Spec

-----------------------------------------------------------------------------
(* Background: the type invariant *)

Labels == {"idle", "ask", "answer", "jobs", "alertJobs", "probe", "alertFee"}
Call == [at : Labels, value : Nat \cup {None} \cup SUBSET Jobs, since : Nat]

\* What a part's calls pass through.
LabelsOf(p) ==
  IF p = "alerts" THEN {"idle", "jobs", "alertJobs", "probe", "alertFee"}
                  ELSE {"idle", "ask", "answer"}

Heard == [jobs : SUBSET Jobs, fee : BOOLEAN]
WentAway == [jobs : BOOLEAN, fee : BOOLEAN]

BackgroundTypeInv ==
  /\ part \in {"rates", "secret", "alerts"}
  /\ call \in [Calls -> Call]
  /\ \A c \in Calls : /\ call[c].at \in LabelsOf(part)
                      /\ call[c].at = "answer" => call[c].value \in Nat
                      /\ call[c].at = "alertJobs" => call[c].value \in SUBSET Jobs
  /\ latency \in Nat /\ time \in Nat /\ nextRefresh \in Nat
  /\ cached \in Nat \cup {None} /\ lastRefreshAt \in Nat \cup {None}
  /\ version \in Nat /\ entry \in Entry \cup {None} /\ served \in Nat \cup {None}
  /\ failed \subseteq Jobs /\ walletLow \in BOOLEAN
  /\ lastAlertedFailedCount \in Nat /\ feeLowAlerted \in BOOLEAN
  /\ told \in Heard /\ gone \in WentAway

\* The constants, one by one.
LEMMA BackgroundConstants ==
  /\ ttl \in Nat /\ ttl > 0 /\ Latencies \subseteq Nat
  /\ IsFiniteSet(Jobs) /\ None \notin Nat /\ None \notin Entry
BY BackgroundAssumption

LEMMA IdleType ==
  Idle \in Call /\ Idle.at = "idle"
BY DEF Idle, Call, Labels

\* What a call in flight is after each of the ways it moves.
LEMMA CallMoves ==
  ASSUME call \in [Calls -> Call], NEW c \in Calls
  PROVE  /\ \A label \in Labels : Goto(c, label) =>
              /\ call' \in [Calls -> Call] /\ call'[c].at = label
              /\ call'[c].value = call[c].value /\ call'[c].since = call[c].since
              /\ \A d \in Calls \ {c} : call'[d] = call[d]
         /\ \A value \in Nat : Bring(c, value) =>
              /\ call' \in [Calls -> Call] /\ call'[c].at = "answer"
              /\ call'[c].value = value /\ call'[c].since = call[c].since
              /\ \A d \in Calls \ {c} : call'[d] = call[d]
         /\ Return(c) =>
              /\ call' \in [Calls -> Call] /\ call'[c] = Idle
              /\ \A d \in Calls \ {c} : call'[d] = call[d]
<1>1. ASSUME NEW label \in Labels, Goto(c, label)
      PROVE  /\ call' \in [Calls -> Call] /\ call'[c].at = label
             /\ call'[c].value = call[c].value /\ call'[c].since = call[c].since
             /\ \A d \in Calls \ {c} : call'[d] = call[d]
  BY <1>1 DEF Goto, Call
<1>2. ASSUME NEW value \in Nat, Bring(c, value)
      PROVE  /\ call' \in [Calls -> Call] /\ call'[c].at = "answer"
             /\ call'[c].value = value /\ call'[c].since = call[c].since
             /\ \A d \in Calls \ {c} : call'[d] = call[d]
  <2>1. "answer" \in Labels
    BY DEF Labels
  <2> QED
    BY <1>2, <2>1 DEF Bring, Call
<1>3. ASSUME Return(c)
      PROVE  /\ call' \in [Calls -> Call] /\ call'[c] = Idle
             /\ \A d \in Calls \ {c} : call'[d] = call[d]
  BY <1>3, IdleType DEF Return
<1> QED
  BY <1>1, <1>2, <1>3

RateStep(c) == TimerFires(c) \/ FeedReads(c) \/ RefreshFails(c) \/ Refreshed(c)
SecretStep(c) == SourceReads(c) \/ Fetched(c) \/ FetchFails(c)
AlertStep(c) ==
  \/ StartTick(c) \/ CheckFailedSweeps(c) \/ AlertFailedSweeps(c)
  \/ CheckFeeWallet(c) \/ AlertFeeWallet(c) \/ TickFails(c)

\* The disjuncts of Next, grouped.
LEMMA BackgroundCases ==
  ASSUME BackgroundNext
  PROVE  \/ \E c \in Calls : RateStep(c) \/ SecretStep(c) \/ AlertStep(c)
         \/ TimePasses \/ Get \/ Expires \/ Rotate \/ WalletMoves
         \/ \E j \in Jobs : JobMoves(j)
BY DEF BackgroundNext, RateStep, SecretStep, AlertStep

\* A get changes no call but the one that is to fetch, and starts none when one runs.
LEMMA GetCalls ==
  ASSUME BackgroundTypeInv, Get
  PROVE  \/ call' = call
         \/ /\ \A d \in Calls : At(d, "idle")
            /\ \E c \in Calls : Goto(c, "ask")
BY DEF Get, refresh, Fetching

\* A step of one call that leaves it well typed.
LEMMA CallType ==
  ASSUME BackgroundTypeInv, NEW c \in Calls, part' = part, call' \in [Calls -> Call],
         call'[c].at \in LabelsOf(part),
         call'[c].at = "answer" => call'[c].value \in Nat,
         call'[c].at = "alertJobs" => call'[c].value \in SUBSET Jobs,
         \A d \in Calls \ {c} : call'[d] = call[d],
         latency' \in Nat, time' \in Nat, nextRefresh' \in Nat,
         cached' \in Nat \cup {None}, lastRefreshAt' \in Nat \cup {None},
         version' \in Nat, entry' \in Entry \cup {None}, served' \in Nat \cup {None},
         failed' \subseteq Jobs, walletLow' \in BOOLEAN,
         lastAlertedFailedCount' \in Nat, feeLowAlerted' \in BOOLEAN,
         told' \in Heard, gone' \in WentAway
  PROVE  BackgroundTypeInv'
BY DEF BackgroundTypeInv

LEMMA RateType ==
  ASSUME BackgroundTypeInv, NEW c \in Calls, RateStep(c)
  PROVE  BackgroundTypeInv'
<1> USE DEF secretVars, alertVars, guards, histories, LabelsOf
<1>1. CASE TimerFires(c)
  <2>1. [at |-> "ask", value |-> None, since |-> time] \in Call
    BY DEF BackgroundTypeInv, Call, Labels
  <2>2. /\ call' \in [Calls -> Call] /\ call'[c].at = "ask"
        /\ \A d \in Calls \ {c} : call'[d] = call[d]
    BY <1>1, <2>1 DEF TimerFires, BackgroundTypeInv
  <2> QED
    BY <1>1, <2>2, CallType, BackgroundConstants DEF TimerFires, BackgroundTypeInv
<1>2. CASE FeedReads(c)
  BY <1>2, CallMoves, CallType DEF FeedReads, BackgroundTypeInv, rateVars
<1>3. CASE RefreshFails(c)
  BY <1>3, CallMoves, IdleType, CallType DEF RefreshFails, BackgroundTypeInv, rateVars
<1>4. CASE Refreshed(c)
  BY <1>4, CallMoves, IdleType, CallType DEF Refreshed, BackgroundTypeInv, At
<1> QED
  BY <1>1, <1>2, <1>3, <1>4 DEF RateStep

LEMMA SecretType ==
  ASSUME BackgroundTypeInv, NEW c \in Calls, SecretStep(c)
  PROVE  BackgroundTypeInv'
<1> USE DEF rateVars, secretVars, alertVars, guards, histories, LabelsOf
<1>1. CASE SourceReads(c)
  BY <1>1, CallMoves, CallType DEF SourceReads, BackgroundTypeInv
<1>2. CASE Fetched(c)
  <2>1. call[c].value \in Nat
    BY <1>2 DEF Fetched, At, BackgroundTypeInv
  <2>2. entry' \in Entry \cup {None}
    BY <1>2, <2>1 DEF Fetched, Entry
  <2> QED
    BY <1>2, <2>2, CallMoves, IdleType, CallType DEF Fetched, BackgroundTypeInv
<1>3. CASE FetchFails(c)
  BY <1>3, CallMoves, IdleType, CallType DEF FetchFails, BackgroundTypeInv
<1> QED
  BY <1>1, <1>2, <1>3 DEF SecretStep

LEMMA AlertType ==
  ASSUME BackgroundTypeInv, NEW c \in Calls, AlertStep(c)
  PROVE  BackgroundTypeInv'
<1> USE DEF rateVars, secretVars, alertVars, guards, histories, LabelsOf
<1>1. {"idle", "jobs", "alertJobs", "probe", "alertFee"} \subseteq Labels
  BY DEF Labels
<1>2. CASE StartTick(c)
  BY <1>1, <1>2, CallMoves, CallType DEF StartTick, BackgroundTypeInv
<1>3. CASE CheckFailedSweeps(c)
  <2>1. Cardinality(failed) \in Nat
    BY BackgroundConstants, FS_Subset, FS_CardinalityType DEF BackgroundTypeInv
  <2>2. PICK label \in {"alertJobs", "probe"} : call' = [call EXCEPT ![c].at = label, ![c].value = failed]
    BY <1>3 DEF CheckFailedSweeps
  <2>3. /\ call' \in [Calls -> Call] /\ call'[c].at = label /\ call'[c].value = failed
        /\ \A d \in Calls \ {c} : call'[d] = call[d]
    BY <1>1, <2>2 DEF BackgroundTypeInv, Call
  <2>4. gone' \in WentAway
    BY <1>3 DEF CheckFailedSweeps, BackgroundTypeInv, WentAway
  <2>5. lastAlertedFailedCount' \in Nat
    BY <1>3 DEF CheckFailedSweeps, BackgroundTypeInv
  <2> QED
    BY <1>3, <2>3, <2>4, <2>5, CallType DEF CheckFailedSweeps, BackgroundTypeInv
<1>4. CASE AlertFailedSweeps(c)
  <2>1. call[c].value \subseteq Jobs
    BY <1>4 DEF AlertFailedSweeps, At, BackgroundTypeInv
  <2>2. lastAlertedFailedCount' \in Nat
    BY <1>4, <2>1, BackgroundConstants, FS_Subset, FS_CardinalityType DEF AlertFailedSweeps
  <2>3. told' \in Heard
    BY <1>4, <2>1 DEF AlertFailedSweeps, BackgroundTypeInv, Heard
  <2> QED
    BY <1>1, <1>4, <2>2, <2>3, CallMoves, CallType DEF AlertFailedSweeps, BackgroundTypeInv
<1>5. CASE CheckFeeWallet(c)
  <2>1. /\ call' \in [Calls -> Call] /\ call'[c].at \in {"alertFee", "idle"}
        /\ \A d \in Calls \ {c} : call'[d] = call[d]
    BY <1>1, <1>5, CallMoves, IdleType DEF CheckFeeWallet, BackgroundTypeInv
  <2>2. gone' \in WentAway
    BY <1>5 DEF CheckFeeWallet, BackgroundTypeInv, WentAway
  <2>3. feeLowAlerted' \in BOOLEAN
    BY <1>5 DEF CheckFeeWallet, BackgroundTypeInv
  <2> QED
    BY <1>5, <2>1, <2>2, <2>3, CallType DEF CheckFeeWallet, BackgroundTypeInv
<1>6. CASE AlertFeeWallet(c)
  <2>1. told' \in Heard
    BY <1>6 DEF AlertFeeWallet, BackgroundTypeInv, Heard
  <2> QED
    BY <1>6, <2>1, CallMoves, IdleType, CallType DEF AlertFeeWallet, BackgroundTypeInv
<1>7. CASE TickFails(c)
  BY <1>7, CallMoves, IdleType, CallType DEF TickFails, BackgroundTypeInv
<1> QED
  BY <1>2, <1>3, <1>4, <1>5, <1>6, <1>7 DEF AlertStep

LEMMA BackgroundInitType ==
  BackgroundInit => BackgroundTypeInv
<1> SUFFICES ASSUME BackgroundInit  PROVE BackgroundTypeInv
  OBVIOUS
<1>1. latency \in Nat
  BY BackgroundConstants DEF BackgroundInit
<1>2. call \in [Calls -> Call] /\ \A c \in Calls : call[c].at = "idle"
  BY IdleType DEF BackgroundInit
<1>3. told \in Heard /\ gone \in WentAway
  BY DEF BackgroundInit, Heard, WentAway
<1> QED
  BY <1>1, <1>2, <1>3, BackgroundConstants DEF BackgroundInit, BackgroundTypeInv, LabelsOf

LEMMA BackgroundNextType ==
  BackgroundTypeInv /\ [BackgroundNext]_backgroundVars => BackgroundTypeInv'
<1> SUFFICES ASSUME BackgroundTypeInv, [BackgroundNext]_backgroundVars  PROVE BackgroundTypeInv'
  OBVIOUS
<1> USE DEF rateVars, secretVars, alertVars, guards, histories
<1>1. CASE TimePasses
  BY <1>1 DEF TimePasses, BackgroundTypeInv
<1>2. CASE Get
  <2>1. served' \in Nat \cup {None}
    BY <1>2 DEF Get, BackgroundTypeInv, Entry
  <2>2. CASE call' = call
    BY <1>2, <2>1, <2>2 DEF Get, BackgroundTypeInv
  <2>3. ASSUME NEW c \in Calls, Goto(c, "ask")  PROVE BackgroundTypeInv'
    <3>1. /\ call' \in [Calls -> Call] /\ call'[c].at = "ask"
          /\ \A d \in Calls \ {c} : call'[d] = call[d]
      BY <2>3, CallMoves DEF BackgroundTypeInv, Labels
    <3> QED
      BY <1>2, <2>1, <3>1, CallType DEF Get, BackgroundTypeInv, LabelsOf
  <2> QED
    BY <1>2, <2>2, <2>3, GetCalls
<1>3. CASE Expires
  BY <1>3 DEF Expires, BackgroundTypeInv, Entry
<1>4. CASE Rotate
  BY <1>4 DEF Rotate, BackgroundTypeInv
<1>5. CASE WalletMoves
  <2>1. walletLow' \in BOOLEAN
    BY <1>5 DEF WalletMoves
  <2>2. told' \in Heard /\ gone' \in WentAway
    BY <1>5 DEF WalletMoves, BackgroundTypeInv, Heard, WentAway
  <2> QED
    BY <1>5, <2>1, <2>2 DEF WalletMoves, BackgroundTypeInv
<1>6. ASSUME NEW j \in Jobs, JobMoves(j)  PROVE BackgroundTypeInv'
  <2>1. told' \in Heard
    BY <1>6 DEF JobMoves, BackgroundTypeInv, Heard
  <2>2. gone' \in WentAway
    BY <1>6 DEF JobMoves, BackgroundTypeInv, WentAway, Heard
  <2> QED
    BY <1>6, <2>1, <2>2 DEF JobMoves, BackgroundTypeInv
<1>7. CASE UNCHANGED backgroundVars
  BY <1>7 DEF backgroundVars, BackgroundTypeInv
<1> QED
  BY <1>1, <1>2, <1>3, <1>4, <1>5, <1>6, <1>7, BackgroundCases, RateType, SecretType, AlertType

\* Every value stays of its type, and a call passes only through its own part's awaits.
THEOREM BackgroundTypeCorrect == BackgroundSpec => []BackgroundTypeInv
BY BackgroundInitType, BackgroundNextType, PTL DEF BackgroundSpec

-----------------------------------------------------------------------------
(* The exchange rates *)

InFlight(c) == ~ At(c, "idle")

\* A refresh runs for at most the latency and brings a quote of that time; the quote
\* served was that young when it was written.  A feed faster than the timer has one
\* refresh in flight, younger than what is served.
RatesInv ==
  /\ time <= nextRefresh
  /\ \A c \in Calls : InFlight(c) =>
       /\ call[c].since <= time /\ time <= call[c].since + latency
       /\ At(c, "answer") => call[c].since <= call[c].value /\ call[c].value <= time
  /\ cached = None <=> lastRefreshAt = None
  /\ cached # None => /\ cached <= lastRefreshAt /\ lastRefreshAt <= cached + latency
                      /\ lastRefreshAt <= time
  /\ latency < ttl => \A c \in Calls : InFlight(c) =>
       /\ call[c].since + ttl = nextRefresh
       /\ cached # None => cached <= call[c].since
       /\ \A d \in Calls : InFlight(d) => c = d

\* A step of one call of the rates.
LEMMA RefreshStep ==
  ASSUME BackgroundTypeInv, part = "rates", RatesInv, NEW c \in Calls, RateStep(c)
  PROVE  /\ RatesInv'
         /\ cached # None => cached' # None /\ (latency < ttl => cached' >= cached)
<1>1. /\ latency \in Nat /\ time \in Nat /\ nextRefresh \in Nat
      /\ ttl \in Nat /\ ttl > 0 /\ None \notin Nat
      /\ \A d \in Calls : call[d].since \in Nat
      /\ \A d \in Calls : At(d, "answer") => call[d].value \in Nat
      /\ cached \in Nat \cup {None} /\ lastRefreshAt \in Nat \cup {None}
  BY BackgroundConstants DEF BackgroundTypeInv, Call, At
<1>2. CASE TimerFires(c)
  <2>1. /\ call'[c].at = "ask" /\ call'[c].since = time
        /\ \A d \in Calls \ {c} : call'[d] = call[d]
        /\ time = nextRefresh /\ nextRefresh' = nextRefresh + ttl
        /\ UNCHANGED <<latency, time, cached, lastRefreshAt>>
    BY <1>2 DEF TimerFires, BackgroundTypeInv
  <2>2. latency < ttl => \A d \in Calls : ~ InFlight(d)
    BY <1>1, <2>1 DEF RatesInv
  <2>3. ASSUME NEW d \in Calls, InFlight(d)'
        PROVE  /\ call'[d].since <= time' /\ time' <= call'[d].since + latency'
               /\ At(d, "answer")' => call'[d].since <= call'[d].value /\ call'[d].value <= time'
               /\ latency' < ttl =>
                    /\ d = c /\ call'[d].since + ttl = nextRefresh'
                    /\ cached' # None => cached' <= call'[d].since
    <3>1. CASE d = c
      BY <1>1, <2>1, <3>1 DEF RatesInv, At
    <3>2. CASE d # c
      BY <1>1, <2>1, <2>2, <2>3, <3>2 DEF RatesInv, At, InFlight
    <3> QED
      BY <3>1, <3>2
  <2> QED
    BY <1>1, <2>1, <2>3 DEF RatesInv
<1>3. CASE FeedReads(c)
  <2>1. /\ call'[c].at = "answer" /\ call'[c].since = call[c].since /\ call'[c].value = time
        /\ \A d \in Calls \ {c} : call'[d] = call[d]
        /\ InFlight(c) /\ UNCHANGED rateVars
    BY <1>1, <1>3, CallMoves DEF FeedReads, BackgroundTypeInv, InFlight, At
  <2>2. \A d \in Calls : InFlight(d)' => InFlight(d) /\ call'[d].since = call[d].since
    BY <2>1 DEF InFlight, At
  <2>3. \A d \in Calls : At(d, "answer")' => call'[d].value = time \/ (At(d, "answer") /\ call'[d] = call[d])
    BY <2>1 DEF At
  <2> QED
    BY <1>1, <2>1, <2>2, <2>3 DEF RatesInv, rateVars
<1>4. CASE RefreshFails(c) \/ Refreshed(c)
  <2>1. /\ call'[c].at = "idle" /\ \A d \in Calls \ {c} : call'[d] = call[d]
        /\ InFlight(c) /\ UNCHANGED <<latency, time, nextRefresh>>
    BY <1>4, CallMoves, IdleType DEF RefreshFails, Refreshed, BackgroundTypeInv, InFlight, At, rateVars
  <2>2. \A d \in Calls : InFlight(d)' => d # c /\ InFlight(d) /\ call'[d] = call[d]
    BY <2>1 DEF InFlight, At
  <2>3. \/ UNCHANGED <<cached, lastRefreshAt>>
        \/ /\ At(c, "answer") /\ cached' = call[c].value /\ lastRefreshAt' = time
    BY <1>4 DEF RefreshFails, Refreshed, rateVars
  <2>4. \A d \in Calls : InFlight(d)' => (At(d, "answer")' <=> At(d, "answer"))
    BY <2>2 DEF At
  <2>5. CASE UNCHANGED <<cached, lastRefreshAt>>
    BY <1>1, <2>1, <2>2, <2>4, <2>5 DEF RatesInv
  <2>6. CASE At(c, "answer") /\ cached' = call[c].value /\ lastRefreshAt' = time
    <3>1. /\ cached' \in Nat /\ lastRefreshAt' \in Nat /\ cached' <= time /\ time <= cached' + latency
          /\ latency < ttl => (cached # None => cached' >= cached)
      BY <1>1, <2>1, <2>6 DEF RatesInv
    <3>2. latency < ttl => \A d \in Calls : ~ InFlight(d)'
      BY <2>1, <2>2 DEF RatesInv
    <3> QED
      BY <1>1, <2>1, <2>2, <2>4, <2>6, <3>1, <3>2 DEF RatesInv
  <2> QED
    BY <2>3, <2>5, <2>6
<1> QED
  BY <1>2, <1>3, <1>4 DEF RateStep

LEMMA RatesStep ==
  ASSUME BackgroundTypeInv, part = "rates", RatesInv, [BackgroundNext]_backgroundVars
  PROVE  /\ RatesInv'
         /\ cached # None => cached' # None /\ (latency < ttl => cached' >= cached)
<1>1. /\ latency \in Nat /\ time \in Nat /\ nextRefresh \in Nat
      /\ None \notin Nat /\ \A d \in Calls : call[d].since \in Nat
      /\ \A d \in Calls : At(d, "answer") => call[d].value \in Nat
      /\ cached \in Nat \cup {None} /\ lastRefreshAt \in Nat \cup {None}
  BY BackgroundConstants DEF BackgroundTypeInv, Call, At
<1>2. CASE UNCHANGED backgroundVars
  BY <1>1, <1>2 DEF backgroundVars, rateVars, RatesInv, InFlight, At
<1>3. CASE TimePasses
  <2>1. /\ UNCHANGED <<call, latency, nextRefresh, cached, lastRefreshAt>>
        /\ time' = time + 1 /\ time < nextRefresh
        /\ \A c \in Calls : InFlight(c) => time < call[c].since + latency
    BY <1>3 DEF TimePasses, InFlight
  <2>2. time' <= nextRefresh'
    BY <1>1, <2>1
  <2>3. \A c \in Calls : InFlight(c)' =>
          /\ call'[c].since <= time' /\ time' <= call'[c].since + latency'
          /\ At(c, "answer")' => call'[c].since <= call'[c].value /\ call'[c].value <= time'
    BY <1>1, <2>1 DEF RatesInv, InFlight, At
  <2> QED
    BY <1>1, <2>1, <2>2, <2>3 DEF RatesInv, InFlight, At
<1>4. ASSUME NEW c \in Calls, SecretStep(c) \/ AlertStep(c)  PROVE FALSE
  BY <1>4 DEF SecretStep, AlertStep, SourceReads, Fetched, FetchFails, StartTick,
       CheckFailedSweeps, AlertFailedSweeps, CheckFeeWallet, AlertFeeWallet, TickFails
<1>5. ASSUME Get \/ Expires \/ Rotate \/ WalletMoves \/ \E j \in Jobs : JobMoves(j)  PROVE FALSE
  BY <1>5 DEF Get, Expires, Rotate, WalletMoves, JobMoves
<1> QED
  BY <1>2, <1>3, <1>4, <1>5, BackgroundCases, RefreshStep

-----------------------------------------------------------------------------
(* The secret *)

\* One fetch is in flight, and what it brings is no older than what is cached.
SecretInv ==
  /\ \A c, d \in Calls : InFlight(c) /\ InFlight(d) => c = d
  /\ entry # None => 1 <= entry.value /\ entry.value <= version
  /\ \A c \in Calls : At(c, "answer") =>
       call[c].value <= version /\ (entry # None => entry.value <= call[c].value)

LEMMA SecretNext ==
  ASSUME BackgroundTypeInv, part = "secret", SecretInv, [BackgroundNext]_backgroundVars
  PROVE  /\ SecretInv'
         /\ entry # None => entry' # None /\ entry'.value >= entry.value
<1>1. /\ version \in Nat /\ None \notin Nat /\ None \notin Entry
      /\ \A d \in Calls : At(d, "answer") => call[d].value \in Nat
      /\ entry # None => entry \in Entry /\ entry.value \in Nat
  BY BackgroundConstants DEF BackgroundTypeInv, Call, At, Entry
<1>2. ASSUME UNCHANGED <<call, version, entry>>
      PROVE  SecretInv' /\ (entry # None => entry' # None /\ entry'.value >= entry.value)
  BY <1>1, <1>2 DEF SecretInv, InFlight, At
<1>3. CASE UNCHANGED backgroundVars
  BY <1>2, <1>3 DEF backgroundVars, secretVars
<1>4. CASE Get
  <2>1. UNCHANGED <<version, entry>>
    BY <1>4 DEF Get
  <2>2. ASSUME NEW c \in Calls, \A d \in Calls : At(d, "idle"), Goto(c, "ask")
        PROVE  SecretInv'
    <3>1. call'[c].at = "ask" /\ \A d \in Calls \ {c} : call'[d] = call[d]
      BY <2>2, CallMoves DEF BackgroundTypeInv, Labels
    <3>2. \A d \in Calls : (InFlight(d)' => d = c) /\ ~ At(d, "answer")'
      BY <2>2, <3>1 DEF InFlight, At
    <3> QED
      BY <2>1, <3>2 DEF SecretInv
  <2> QED
    BY <1>1, <1>2, <1>4, <2>1, <2>2, GetCalls
<1>5. CASE Expires
  <2>1. PICK e \in Entry : e = entry
    BY <1>1, <1>5 DEF Expires
  <2>2. entry' = [e EXCEPT !.stale = TRUE] /\ UNCHANGED <<call, version>>
    BY <1>5, <2>1 DEF Expires
  <2>3. entry'.value = entry.value /\ entry # None /\ entry' # None
    <3>1. entry'.value = e.value /\ entry' \in Entry
      BY <2>2 DEF Entry
    <3> QED
      BY <1>1, <2>1, <3>1
  <2>4. SecretInv'
    BY <2>2, <2>3 DEF SecretInv, InFlight, At
  <2> QED
    BY <1>1, <2>3, <2>4
<1>6. CASE Rotate
  <2>1. version' = version + 1 /\ UNCHANGED <<call, entry>>
    BY <1>6 DEF Rotate
  <2>2. \A n \in Nat : n <= version => n <= version'
    BY <1>1, <2>1
  <2>3. SecretInv'
    BY <1>1, <2>1, <2>2 DEF SecretInv, InFlight, At
  <2> QED
    BY <1>1, <2>1, <2>3
<1>7. ASSUME NEW c \in Calls, SourceReads(c)
      PROVE  SecretInv' /\ (entry # None => entry' # None /\ entry'.value >= entry.value)
  <2>1. /\ call'[c].at = "answer" /\ call'[c].value = version
        /\ \A d \in Calls \ {c} : call'[d] = call[d]
        /\ InFlight(c) /\ UNCHANGED <<version, entry>>
    BY <1>1, <1>7, CallMoves DEF SourceReads, BackgroundTypeInv, InFlight, At, secretVars
  <2>2. \A d \in Calls : InFlight(d)' => InFlight(d)
    BY <2>1 DEF InFlight, At
  <2>3. \A d \in Calls : At(d, "answer")' => d = c
    BY <2>1 DEF SecretInv, InFlight, At
  <2> QED
    BY <1>1, <2>1, <2>2, <2>3 DEF SecretInv
<1>8. ASSUME NEW c \in Calls, Fetched(c) \/ FetchFails(c)
      PROVE  SecretInv' /\ (entry # None => entry' # None /\ entry'.value >= entry.value)
  <2>1. /\ call'[c].at = "idle" /\ \A d \in Calls \ {c} : call'[d] = call[d]
        /\ InFlight(c) /\ UNCHANGED version
    BY <1>8, CallMoves, IdleType DEF Fetched, FetchFails, BackgroundTypeInv, InFlight, At, secretVars
  <2>2. \A d \in Calls : ~ InFlight(d)' /\ ~ At(d, "answer")'
    BY <2>1 DEF SecretInv, InFlight, At
  <2>3. CASE FetchFails(c)
    BY <1>1, <2>1, <2>2, <2>3 DEF SecretInv, FetchFails, secretVars
  <2>4. CASE Fetched(c)
    <3>1. PICK v \in Nat : v = call[c].value /\ v <= version /\ (entry # None => entry.value <= v)
      BY <1>1, <2>4 DEF SecretInv, Fetched
    <3>2. entry' = IF v = 0 THEN None ELSE [value |-> v, stale |-> FALSE]
      BY <2>4, <3>1 DEF Fetched
    <3>3. entry # None => v >= 1
      BY <1>1, <3>1 DEF SecretInv
    <3>4. entry' # None => entry'.value = v /\ v # 0
      BY <3>2
    <3>5. v # 0 => entry' # None
      <4>1. [value |-> v, stale |-> FALSE] \in Entry
        BY DEF Entry
      <4> QED
        BY <1>1, <3>2, <4>1
    <3> QED
      BY <1>1, <2>1, <2>2, <3>1, <3>3, <3>4, <3>5 DEF SecretInv
  <2> QED
    BY <1>8, <2>3, <2>4
<1>9. ASSUME NEW c \in Calls, RateStep(c) \/ AlertStep(c)  PROVE FALSE
  BY <1>9 DEF RateStep, AlertStep, TimerFires, FeedReads, RefreshFails, Refreshed, StartTick,
       CheckFailedSweeps, AlertFailedSweeps, CheckFeeWallet, AlertFeeWallet, TickFails
<1>10. ASSUME TimePasses \/ WalletMoves \/ \E j \in Jobs : JobMoves(j)  PROVE FALSE
  BY <1>10 DEF TimePasses, WalletMoves, JobMoves
<1> QED
  BY <1>3, <1>4, <1>5, <1>6, <1>7, <1>8, <1>9, <1>10, BackgroundCases DEF SecretStep

-----------------------------------------------------------------------------

BackgroundInv ==
  /\ BackgroundTypeInv
  /\ part = "rates" => RatesInv
  /\ part = "secret" => SecretInv
  /\ part # "rates" => cached = None
  /\ part # "secret" => entry = None

\* The parts share nothing: what one keeps, the steps of the others leave alone.
LEMMA PartsApart ==
  ASSUME BackgroundTypeInv, [BackgroundNext]_backgroundVars
  PROVE  /\ part' = part
         /\ part # "rates" => cached' = cached
         /\ part # "secret" => entry' = entry
<1> USE DEF rateVars, secretVars
<1>1. ASSUME NEW c \in Calls, RateStep(c) \/ SecretStep(c)
      PROVE  part' = part /\ (part # "rates" => cached' = cached) /\ (part # "secret" => entry' = entry)
  BY <1>1 DEF RateStep, SecretStep, TimerFires, FeedReads, RefreshFails, Refreshed,
              SourceReads, Fetched, FetchFails
<1>2. ASSUME NEW c \in Calls, AlertStep(c)
      PROVE  part' = part /\ cached' = cached /\ entry' = entry
  BY <1>2 DEF AlertStep, StartTick, CheckFailedSweeps, AlertFailedSweeps, CheckFeeWallet,
              AlertFeeWallet, TickFails
<1>3. ASSUME TimePasses \/ Get \/ Expires \/ Rotate \/ WalletMoves \/ \E j \in Jobs : JobMoves(j)
      PROVE  part' = part /\ (part # "rates" => cached' = cached) /\ (part # "secret" => entry' = entry)
  BY <1>3 DEF TimePasses, Get, Expires, Rotate, WalletMoves, JobMoves
<1> QED
  BY <1>1, <1>2, <1>3, BackgroundCases DEF backgroundVars

LEMMA BackgroundInvariant ==
  BackgroundSpec => []BackgroundInv
<1>1. BackgroundInit => BackgroundInv
  <2> SUFFICES ASSUME BackgroundInit  PROVE BackgroundInv
    OBVIOUS
  <2>1. \A c \in Calls : ~ InFlight(c) /\ ~ At(c, "answer")
    BY IdleType DEF BackgroundInit, InFlight, At, Idle
  <2>2. cached = None /\ lastRefreshAt = None /\ entry = None /\ time = 0 /\ nextRefresh = ttl
    BY DEF BackgroundInit
  <2>3. RatesInv
    BY <2>1, <2>2, BackgroundConstants DEF RatesInv
  <2> QED
    BY <2>1, <2>2, <2>3, BackgroundInitType DEF BackgroundInv, SecretInv
<1>2. BackgroundInv /\ [BackgroundNext]_backgroundVars => BackgroundInv'
  BY BackgroundNextType, RatesStep, SecretNext, PartsApart DEF BackgroundInv
<1> QED
  BY <1>1, <1>2, PTL DEF BackgroundSpec

\* A rate the readiness check calls fresh was read by the feed at most a ttl and one
\* response ago, however many refreshes failed or overtook each other
\* (CachingExchangeRateProvider.isStale goes by the time of the write).
THEOREM FreshRatesAreRecent == BackgroundSpec => []FreshIsRecent
<1>1. BackgroundInv => FreshIsRecent
  <2> SUFFICES ASSUME BackgroundInv, part = "rates", ~ isStale
               PROVE  cached # None /\ time <= cached + ttl + latency
    BY DEF FreshIsRecent
  <2>1. /\ lastRefreshAt # None /\ cached # None /\ lastRefreshAt <= cached + latency
        /\ ~ (time > lastRefreshAt + ttl)
    BY DEF isStale, BackgroundInv, RatesInv
  <2>2. lastRefreshAt \in Nat /\ cached \in Nat /\ time \in Nat /\ latency \in Nat /\ ttl \in Nat
    BY <2>1, BackgroundConstants DEF BackgroundInv, BackgroundTypeInv
  <2> QED
    BY <2>1, <2>2
<1> QED
  BY <1>1, BackgroundInvariant, PTL

\* No step forgets what was learned: the secret cache never goes back to a rotated
\* value, nor the rates to an older quote while the feed is faster than the timer
\* (CachingSecretProvider.refresh shares the fetch in flight, setInterval does not).
THEOREM CachesMoveForward == BackgroundSpec => MovesForward
<1>1. BackgroundInv /\ [BackgroundNext]_backgroundVars =>
        [/\ entry # None => entry' # None /\ entry'.value >= entry.value
         /\ cached # None /\ latency < ttl => cached' >= cached]_backgroundVars
  <2> SUFFICES ASSUME BackgroundInv, BackgroundNext
               PROVE  /\ entry # None => entry' # None /\ entry'.value >= entry.value
                      /\ cached # None /\ latency < ttl => cached' >= cached
    OBVIOUS
  <2>1. entry # None => part = "secret"
    BY DEF BackgroundInv
  <2>2. cached # None => part = "rates"
    BY DEF BackgroundInv
  <2> QED
    BY <2>1, <2>2, RatesStep, SecretNext DEF BackgroundInv
<1> QED
  BY <1>1, BackgroundInvariant, PTL DEF BackgroundSpec, MovesForward

-----------------------------------------------------------------------------
(* Webhooks: deliveries and passes *)

\* A delivery is tried maxAttempts times and once more for each retry; a pending one has
\* an attempt left, also in the list of a pass that read it long ago.
Tried(d, requeued) ==
  /\ d.attempts <= maxAttempts + requeued
  /\ d.status = "pending" => d.attempts < maxAttempts + requeued

Listed(list, requeued) ==
  \A k \in 1 .. Len(list) : list[k].status = "pending" /\ Tried(list[k], requeued)

DeliveriesInv ==
  /\ deliveries \in [Events -> Delivery \cup {Absent}]
  /\ \A e \in Events : deliveries[e] # Absent => deliveries[e].id = e /\ Tried(deliveries[e], retries)
  /\ retries \in 0 .. MaxRetries

PassesInv ==
  /\ work \in [Workers -> [at : {"idle", "next", "sent", "check"}, todo : Seq(Delivery)]]
  /\ \A w \in Workers : /\ Listed(work[w].todo, retries)
                        /\ work[w].at = "sent" => work[w].todo # <<>>

WatchInv == lastAlertedDead \in 0 .. Cardinality(Events) /\ alerted \subseteq Events

\* While passes do not overlap, the one under way lists deliveries as they stand.
SerialInv ==
  serial =>
    /\ \A v, w \in Workers : v # w => work[v].at = "idle" \/ work[w].at = "idle"
    /\ \A w \in Workers :
         /\ work[w].at = "idle" => work[w].todo = <<>>
         /\ \A k \in 1 .. Len(work[w].todo) :
              /\ work[w].todo[k].due
              /\ deliveries[work[w].todo[k].id] = work[w].todo[k]
              /\ deliveries[work[w].todo[k].id] # Absent
         /\ \A k, l \in 1 .. Len(work[w].todo) :
              k # l => work[w].todo[k].id # work[w].todo[l].id

WebhooksInv == DeliveriesInv /\ PassesInv /\ WatchInv /\ SerialInv

LEMMA WebhookConstants ==
  maxAttempts \in Nat /\ maxAttempts > 0 /\ MaxRetries \in Nat /\ IsFiniteSet(Events)
BY WebhooksAssumption

LEMMA DeliveryFields ==
  ASSUME NEW d \in Delivery
  PROVE  /\ d.id \in Events /\ d.status \in {"pending", "delivered", "dead"}
         /\ d.attempts \in Nat /\ d.attempts <= maxAttempts + MaxRetries /\ d.due \in BOOLEAN
BY WebhookConstants DEF Delivery

\* A delivery written back or requeued.
Rewrite(d, status, n, due) == [d EXCEPT !.status = status, !.attempts = n, !.due = due]

LEMMA Rewritten ==
  ASSUME NEW d \in Delivery, NEW status \in {"pending", "delivered", "dead"}, NEW n \in Nat,
         n <= maxAttempts + MaxRetries, NEW due \in BOOLEAN
  PROVE  LET c == Rewrite(d, status, n, due) IN
         /\ c \in Delivery /\ c.id = d.id /\ c.status = status /\ c.attempts = n
         /\ status = d.status /\ n = d.attempts /\ due = d.due => c = d
<1>1. PICK c : c = [d EXCEPT !.status = status, !.attempts = n, !.due = due]
  OBVIOUS
<1>2. c = [id |-> d.id, status |-> status, attempts |-> n, due |-> due]
  BY <1>1 DEF Delivery
<1>3. n \in 0 .. (maxAttempts + MaxRetries)
  BY WebhookConstants
<1>4. c \in Delivery
  BY <1>2, <1>3, DeliveryFields DEF Delivery
<1>5. d = [id |-> d.id, status |-> d.status, attempts |-> d.attempts, due |-> d.due]
  BY DEF Delivery
<1>6. c.id = d.id /\ c.status = status /\ c.attempts = n /\ c.due = due
  BY <1>2
<1>7. status = d.status /\ n = d.attempts /\ due = d.due => c = d
  BY <1>2, <1>5
<1> QED
  BY <1>1, <1>4, <1>6, <1>7 DEF Rewrite

LEMMA StoredAreDeliveries ==
  ASSUME DeliveriesInv
  PROVE  /\ IsFiniteSet(Stored)
         /\ \A d \in Stored : d \in Delivery /\ d.id \in Events /\ deliveries[d.id] = d /\ d # Absent
<1> DEFINE E == {e \in Events : deliveries[e] # Absent}
           f == [e \in E |-> deliveries[e]]
<1>1. IsFiniteSet(E)
  BY WebhookConstants, FS_Subset
<1>2. f \in Surjection(E, Stored)
  BY DEF Surjection, Stored
<1>3. IsFiniteSet(Stored)
  BY <1>1, <1>2, FS_Surjection
<1>4. ASSUME NEW d \in Stored
      PROVE  d \in Delivery /\ d.id \in Events /\ deliveries[d.id] = d /\ d # Absent
  BY DEF Stored, DeliveriesInv
<1> QED
  BY <1>3, <1>4

LEMMA DeadAreFew ==
  ASSUME DeliveriesInv
  PROVE  Cardinality(Dead) \in 0 .. Cardinality(Events)
<1> DEFINE f == [d \in Dead |-> d.id]
<1>1. f \in Injection(Dead, Events)
  BY StoredAreDeliveries DEF Dead, Injection, IsInjective
<1>2. IsFiniteSet(Dead) /\ Cardinality(Dead) <= Cardinality(Events)
  BY <1>1, WebhookConstants, FS_Injection
<1> QED
  BY <1>2, WebhookConstants, FS_CardinalityType

\* The due list: deliveries as stored, each once.
LEMMA DueList ==
  ASSUME DeliveriesInv, NEW list \in SetToAllKPermutations(findDue)
  PROVE  /\ list \in Seq(Delivery) /\ Listed(list, retries)
         /\ \A k \in 1 .. Len(list) :
              list[k].due /\ deliveries[list[k].id] = list[k] /\ deliveries[list[k].id] # Absent
         /\ \A k, l \in 1 .. Len(list) : k # l => list[k].id # list[l].id
<1>1. PICK s \in SUBSET findDue : list \in SetToSeqs(s)
  BY DEF SetToAllKPermutations
<1>2. IsFiniteSet(s)
  BY StoredAreDeliveries, FS_Subset DEF findDue
<1>3. Cardinality(s) \in Nat
  BY <1>2, FS_CardinalityType
<1>4. /\ list \in [1 .. Cardinality(s) -> s]
      /\ \A i, j \in 1 .. Cardinality(s) : i # j => list[i] # list[j]
  BY <1>1 DEF SetToSeqs
<1>5. list \in Seq(Delivery) /\ Len(list) = Cardinality(s)
  BY <1>3, <1>4, StoredAreDeliveries DEF findDue
<1>6. ASSUME NEW k \in 1 .. Len(list)
      PROVE  /\ list[k].status = "pending" /\ Tried(list[k], retries) /\ list[k].due
             /\ deliveries[list[k].id] = list[k] /\ deliveries[list[k].id] # Absent
  <2>1. list[k] \in findDue
    BY <1>4, <1>5
  <2> QED
    BY <2>1, StoredAreDeliveries DEF findDue, DeliveriesInv
<1>7. \A k, l \in 1 .. Len(list) : k # l => list[k].id # list[l].id
  BY <1>4, <1>5, <1>6
<1> QED
  BY <1>5, <1>6, <1>7 DEF Listed

LEMMA PassMoves ==
  ASSUME PassesInv, retries' = retries, NEW w \in Workers,
         NEW at \in {"idle", "next", "sent", "check"}, NEW todo \in Seq(Delivery),
         Listed(todo, retries), at = "sent" => todo # <<>>, Pass(w, at, todo)
  PROVE  /\ PassesInv' /\ work'[w].at = at /\ work'[w].todo = todo
         /\ \A v \in Workers \ {w} : work'[v] = work[v]
<1>1. /\ work' \in [Workers -> [at : {"idle", "next", "sent", "check"}, todo : Seq(Delivery)]]
      /\ work'[w].at = at /\ work'[w].todo = todo /\ \A v \in Workers \ {w} : work'[v] = work[v]
  BY DEF Pass, PassesInv
<1>2. ASSUME NEW v \in Workers
      PROVE  Listed(work'[v].todo, retries') /\ (work'[v].at = "sent" => work'[v].todo # <<>>)
  <2>1. CASE v = w
    BY <1>1, <2>1
  <2>2. CASE v # w
    BY <1>1, <2>2 DEF PassesInv
  <2> QED
    BY <2>1, <2>2
<1> QED
  BY <1>1, <1>2 DEF PassesInv

\* Taking the head off a list leaves a list of the same kind.
LEMMA RestListed ==
  ASSUME NEW list \in Seq(Delivery), list # <<>>, Listed(list, retries)
  PROVE  /\ Head(list) = list[1] /\ Head(list) \in Delivery
         /\ Head(list).status = "pending" /\ Tried(Head(list), retries)
         /\ Tail(list) \in Seq(Delivery) /\ Len(Tail(list)) = Len(list) - 1 /\ Listed(Tail(list), retries)
         /\ \A k \in 1 .. Len(Tail(list)) : Tail(list)[k] = list[k + 1] /\ k + 1 \in 1 .. Len(list)
<1>1. Len(list) \in Nat /\ Len(list) > 0 /\ Tail(list) \in Seq(Delivery)
      /\ Len(Tail(list)) = Len(list) - 1 /\ Head(list) = list[1] /\ 1 \in 1 .. Len(list)
  OBVIOUS
<1>2. \A k \in 1 .. Len(Tail(list)) : Tail(list)[k] = list[k + 1] /\ k + 1 \in 1 .. Len(list)
  BY <1>1
<1>3. Listed(Tail(list), retries)
  BY <1>2 DEF Listed
<1>4. Head(list) \in Delivery /\ Head(list).status = "pending" /\ Tried(Head(list), retries)
  BY <1>1 DEF Listed
<1> QED
  BY <1>1, <1>2, <1>3, <1>4

\* A step that leaves the deliveries and the requeues alone, and moves one pass on.
LEMMA PassOnly ==
  ASSUME WebhooksInv, UNCHANGED <<serial, repoVars>>, NEW w \in Workers,
         NEW at \in {"idle", "next", "sent", "check"}, NEW todo \in Seq(Delivery),
         Pass(w, at, todo), work[w].at # "idle", at # "idle" \/ todo = <<>>,
         todo \in {work[w].todo, <<>>}, at = "sent" => todo # <<>>, WatchInv'
  PROVE  WebhooksInv'
<1>1. Listed(todo, retries)
  BY DEF Listed, WebhooksInv, PassesInv
<1>2. /\ PassesInv' /\ work'[w].at = at /\ work'[w].todo = todo
      /\ \A v \in Workers \ {w} : work'[v] = work[v]
  BY <1>1, PassMoves DEF WebhooksInv, repoVars
<1>3. DeliveriesInv'
  BY DEF WebhooksInv, DeliveriesInv, Tried, repoVars
<1>4. ASSUME serial
      PROVE  /\ \A u, v \in Workers : u # v => work'[u].at = "idle" \/ work'[v].at = "idle"
             /\ \A v \in Workers :
                  /\ work'[v].at = "idle" => work'[v].todo = <<>>
                  /\ work'[v].todo \in {work[v].todo, <<>>}
  BY <1>2, <1>4 DEF WebhooksInv, SerialInv
<1>5. SerialInv'
  BY <1>4 DEF WebhooksInv, SerialInv, repoVars
<1> QED
  BY <1>2, <1>3, <1>5 DEF WebhooksInv

LEMMA StartPassKeeps ==
  ASSUME WebhooksInv, NEW w \in Workers, StartPass(w)
  PROVE  WebhooksInv'
<1>1. PICK list \in SetToAllKPermutations(findDue) : Pass(w, "next", list)
  BY DEF StartPass
<1>2. /\ list \in Seq(Delivery) /\ Listed(list, retries)
      /\ \A k \in 1 .. Len(list) :
           list[k].due /\ deliveries[list[k].id] = list[k] /\ deliveries[list[k].id] # Absent
      /\ \A k, l \in 1 .. Len(list) : k # l => list[k].id # list[l].id
  BY DueList DEF WebhooksInv
<1>3. /\ PassesInv' /\ work'[w].at = "next" /\ work'[w].todo = list
      /\ \A v \in Workers \ {w} : work'[v] = work[v]
  BY <1>1, <1>2, PassMoves DEF WebhooksInv, StartPass, repoVars
<1>4. DeliveriesInv' /\ WatchInv'
  BY DEF WebhooksInv, DeliveriesInv, WatchInv, Tried, StartPass, repoVars, watchVars
<1>5. serial => \A v \in Workers : work[v].at = "idle" /\ work[v].todo = <<>>
  BY DEF StartPass, WebhooksInv, SerialInv
<1>6. SerialInv'
  <2> SUFFICES ASSUME serial'  PROVE SerialInv'
    BY DEF SerialInv
  <2>1. serial /\ deliveries' = deliveries
    BY DEF StartPass, repoVars
  <2>2. \A v \in Workers \ {w} : work'[v].at = "idle" /\ work'[v].todo = <<>>
    BY <1>3, <1>5, <2>1
  <2>3. \A v \in Workers : v = w \/ v \in Workers \ {w}
    OBVIOUS
  <2>4. \A u, v \in Workers : u # v => work'[u].at = "idle" \/ work'[v].at = "idle"
    BY <2>2, <2>3
  <2>5. ASSUME NEW v \in Workers
        PROVE  /\ work'[v].at = "idle" => work'[v].todo = <<>>
               /\ \A k \in 1 .. Len(work'[v].todo) :
                    /\ work'[v].todo[k].due
                    /\ deliveries'[work'[v].todo[k].id] = work'[v].todo[k]
                    /\ deliveries'[work'[v].todo[k].id] # Absent
               /\ \A k, l \in 1 .. Len(work'[v].todo) :
                    k # l => work'[v].todo[k].id # work'[v].todo[l].id
    <3>1. CASE v = w
      BY <1>2, <1>3, <2>1, <3>1
    <3>2. CASE v # w
      BY <2>2, <3>2
    <3> QED
      BY <3>1, <3>2
  <2> QED
    BY <2>4, <2>5 DEF SerialInv
<1> QED
  BY <1>3, <1>4, <1>6 DEF WebhooksInv

\* The answer to a request: what is written back is the listed delivery, one attempt on.
LEMMA WriteBack ==
  ASSUME WebhooksInv, NEW w \in Workers, work[w].at = "sent",
         NEW d \in Delivery, d.id = Head(work[w].todo).id, Tried(d, retries),
         deliveries' = [deliveries EXCEPT ![d.id] = d],
         Pass(w, "next", Tail(work[w].todo)), UNCHANGED <<serial, retries, watchVars>>
  PROVE  WebhooksInv'
<1> DEFINE list == work[w].todo
<1>1. list \in Seq(Delivery) /\ list # <<>> /\ Listed(list, retries)
  BY DEF WebhooksInv, PassesInv
<1>2. /\ Head(list) = list[1]
      /\ Tail(list) \in Seq(Delivery) /\ Len(Tail(list)) = Len(list) - 1 /\ Listed(Tail(list), retries)
      /\ \A k \in 1 .. Len(Tail(list)) : Tail(list)[k] = list[k + 1] /\ k + 1 \in 1 .. Len(list)
  BY <1>1, RestListed
<1>3. /\ PassesInv' /\ work'[w].at = "next" /\ work'[w].todo = Tail(list)
      /\ \A v \in Workers \ {w} : work'[v] = work[v]
  BY <1>1, <1>2, PassMoves DEF WebhooksInv
<1>4. d.id \in Events
  BY DeliveryFields
<1>5. DeliveriesInv'
  BY <1>4 DEF WebhooksInv, DeliveriesInv, Tried
<1>6. SerialInv'
  <2> SUFFICES ASSUME serial'  PROVE SerialInv'
    BY DEF SerialInv
  <2> HIDE DEF list
  <2>1. serial
    OBVIOUS
  <2>2. \A v \in Workers \ {w} : work'[v].at = "idle" /\ work'[v].todo = <<>>
    BY <1>3, <2>1 DEF WebhooksInv, SerialInv
  <2>3. /\ \A k \in 1 .. Len(list) :
             list[k].due /\ deliveries[list[k].id] = list[k] /\ deliveries[list[k].id] # Absent
        /\ \A k, l \in 1 .. Len(list) : k # l => list[k].id # list[l].id
    BY <2>1 DEF WebhooksInv, SerialInv, list
  <2>4. Len(list) \in Nat /\ 1 \in 1 .. Len(list)
    BY <1>1
  <2>5. ASSUME NEW k \in 1 .. Len(Tail(list))
        PROVE  /\ Tail(list)[k].due /\ deliveries'[Tail(list)[k].id] = Tail(list)[k]
               /\ deliveries'[Tail(list)[k].id] # Absent
    <3>1. Tail(list)[k] = list[k + 1] /\ k + 1 \in 1 .. Len(list) /\ k + 1 # 1
      BY <1>2, <2>4
    <3>2. list[k + 1].id # list[1].id
      BY <2>3, <2>4, <3>1
    <3>3. list[1].id = d.id
      BY <1>2 DEF list
    <3>4. deliveries'[list[k + 1].id] = deliveries[list[k + 1].id]
      <4>1. list[k + 1].id \in Events
        BY <1>1, <3>1, DeliveryFields
      <4> QED
        BY <3>2, <3>3, <4>1 DEF WebhooksInv, DeliveriesInv
    <3> QED
      BY <2>3, <3>1, <3>4
  <2>6. \A k, l \in 1 .. Len(Tail(list)) : k # l => Tail(list)[k].id # Tail(list)[l].id
    <3> SUFFICES ASSUME NEW k \in 1 .. Len(Tail(list)), NEW l \in 1 .. Len(Tail(list)), k # l
                 PROVE  Tail(list)[k].id # Tail(list)[l].id
      OBVIOUS
    <3>1. k + 1 \in 1 .. Len(list) /\ l + 1 \in 1 .. Len(list) /\ k + 1 # l + 1
      BY <1>2, <2>4
    <3>2. list[k + 1].id # list[l + 1].id
      BY <2>3, <3>1
    <3> QED
      BY <1>2, <3>2
  <2>7. \A u, v \in Workers : u # v => work'[u].at = "idle" \/ work'[v].at = "idle"
    BY <2>2
  <2>8. ASSUME NEW v \in Workers
        PROVE  /\ work'[v].at = "idle" => work'[v].todo = <<>>
               /\ \A k \in 1 .. Len(work'[v].todo) :
                    /\ work'[v].todo[k].due
                    /\ deliveries'[work'[v].todo[k].id] = work'[v].todo[k]
                    /\ deliveries'[work'[v].todo[k].id] # Absent
               /\ \A k, l \in 1 .. Len(work'[v].todo) :
                    k # l => work'[v].todo[k].id # work'[v].todo[l].id
    <3>1. CASE v = w
      <4> DEFINE AsStored(todo) ==
            /\ \A k \in 1 .. Len(todo) :
                 todo[k].due /\ deliveries'[todo[k].id] = todo[k] /\ deliveries'[todo[k].id] # Absent
            /\ \A k, l \in 1 .. Len(todo) : k # l => todo[k].id # todo[l].id
      <4>1. AsStored(Tail(list))
        BY <2>5, <2>6
      <4>2. AsStored(work'[v].todo) /\ work'[v].at = "next"
        <5> HIDE DEF AsStored
        <5> QED
          BY <1>3, <3>1, <4>1
      <4> QED
        BY <4>2
    <3>2. CASE v # w
      BY <2>2, <3>2
    <3> QED
      BY <3>1, <3>2
  <2> QED
    BY <2>7, <2>8 DEF SerialInv
<1> QED
  BY <1>3, <1>5, <1>6 DEF WebhooksInv, WatchInv, watchVars

LEMMA AnswersKeep ==
  ASSUME WebhooksInv, NEW w \in Workers, Delivered(w) \/ Failed(w)
  PROVE  WebhooksInv'
<1> DEFINE d == Head(work[w].todo)
           tried == [d EXCEPT !.status = "delivered", !.attempts = @ + 1]
<1>1. work[w].at = "sent"
  BY DEF Delivered, Failed
<1>2. /\ d \in Delivery /\ d.status = "pending" /\ Tried(d, retries)
  BY <1>1, RestListed DEF WebhooksInv, PassesInv
<1>3. /\ d.attempts \in Nat /\ d.attempts < maxAttempts + retries
      /\ retries \in Nat /\ retries <= MaxRetries
  BY <1>2, WebhookConstants, DeliveryFields DEF Tried, WebhooksInv, DeliveriesInv
<1>4. CASE Delivered(w)
  <2>1. tried \in Delivery /\ tried.id = d.id /\ Tried(tried, retries)
    <3>1. tried = Rewrite(d, "delivered", d.attempts + 1, d.due)
      BY <1>2 DEF Delivery, Rewrite
    <3>2. d.attempts + 1 \in Nat /\ d.attempts + 1 <= maxAttempts + MaxRetries /\ d.due \in BOOLEAN
      BY <1>2, <1>3, WebhookConstants, DeliveryFields
    <3> HIDE DEF d, tried
    <3>3. tried \in Delivery /\ tried.id = d.id /\ tried.status = "delivered" /\ tried.attempts = d.attempts + 1
      BY <1>2, <3>1, <3>2, Rewritten
    <3> QED
      BY <1>3, <3>3, WebhookConstants DEF Tried
  <2> QED
    BY <1>1, <1>4, <2>1, WriteBack DEF Delivered, watchVars
<1>5. CASE Failed(w)
  <2>1. fail(d) \in Delivery /\ fail(d).id = d.id /\ Tried(fail(d), retries)
    <3> DEFINE dead == d.attempts + 1 >= maxAttempts
    <3>1. fail(d) = Rewrite(d, IF dead THEN "dead" ELSE "pending", d.attempts + 1, dead)
      BY DEF fail, Rewrite
    <3>2. /\ d.attempts + 1 \in Nat /\ d.attempts + 1 <= maxAttempts + MaxRetries
          /\ dead \in BOOLEAN /\ (IF dead THEN "dead" ELSE "pending") \in {"pending", "delivered", "dead"}
      BY <1>3, WebhookConstants
    <3> HIDE DEF d, dead
    <3>3. /\ fail(d) \in Delivery /\ fail(d).id = d.id /\ fail(d).attempts = d.attempts + 1
          /\ fail(d).status = IF dead THEN "dead" ELSE "pending"
      BY <1>2, <3>1, <3>2, Rewritten
    <3>4. fail(d).status = "pending" => d.attempts + 1 < maxAttempts
      BY <1>3, <3>3, WebhookConstants DEF dead
    <3> QED
      BY <1>3, <3>3, <3>4, WebhookConstants DEF Tried
  <2> QED
    BY <1>1, <1>5, <2>1, WriteBack DEF Failed, watchVars
<1> QED
  BY <1>4, <1>5

LEMMA OwnStepsKeep ==
  ASSUME WebhooksInv, NEW w \in Workers, Send(w) \/ PassDrained(w) \/ CheckDead(w)
  PROVE  WebhooksInv'
<1>1. work[w].todo \in Seq(Delivery) /\ <<>> \in Seq(Delivery)
  BY DEF WebhooksInv, PassesInv
<1>2. CASE Send(w)
  <2>1. WatchInv'
    BY <1>2 DEF Send, WebhooksInv, WatchInv, watchVars
  <2> QED
    BY <1>1, <1>2, <2>1, PassOnly DEF Send
<1>3. CASE PassDrained(w)
  <2>1. WatchInv'
    BY <1>3 DEF PassDrained, WebhooksInv, WatchInv, watchVars
  <2> QED
    BY <1>1, <1>3, <2>1, PassOnly DEF PassDrained
<1>4. CASE CheckDead(w)
  <2>1. Cardinality(Dead) \in 0 .. Cardinality(Events) /\ \A d \in Dead : d.id \in Events
    BY DeadAreFew, StoredAreDeliveries DEF WebhooksInv, Dead
  <2>2. WatchInv'
    BY <1>4, <2>1 DEF CheckDead, WebhooksInv, WatchInv
  <2> QED
    BY <1>1, <1>4, <2>2, PassOnly DEF CheckDead
<1> QED
  BY <1>2, <1>3, <1>4

\* Emitting, requeueing and waiting write no delivery an exclusive pass has listed.
LEMMA OutsideKeeps ==
  ASSUME WebhooksInv, NEW e \in Events, enqueue(e) \/ retry(e) \/ Wait(e)
  PROVE  WebhooksInv'
<1>1. /\ retries \in Nat /\ retries' \in Nat /\ retries <= retries' /\ retries' <= MaxRetries
      /\ UNCHANGED <<work, serial, watchVars>>
  BY WebhookConstants DEF enqueue, retry, Wait, WebhooksInv, DeliveriesInv
<1>2. \A d : Tried(d, retries) /\ d.attempts \in Nat => Tried(d, retries')
  BY <1>1, WebhookConstants DEF Tried
<1>3. PICK d \in Delivery :
        /\ deliveries' = [deliveries EXCEPT ![e] = d] /\ d.id = e /\ Tried(d, retries')
        /\ \/ deliveries[e] = Absent
           \/ deliveries[e].status = "pending" /\ deliveries[e].due /\ d = deliveries[e]
           \/ deliveries[e].status # "pending" \/ ~ deliveries[e].due
  <2>1. CASE enqueue(e)
    <3> DEFINE d == [id |-> e, status |-> "pending", attempts |-> 0, due |-> TRUE]
    <3>1. d \in Delivery /\ d.id = e /\ Tried(d, retries')
      <4>1. maxAttempts + MaxRetries \in Nat
        BY WebhookConstants
      <4>2. 0 < maxAttempts + retries' /\ 0 <= maxAttempts + retries'
        <5>1. \A r \in Nat : 0 < maxAttempts + r /\ 0 <= maxAttempts + r
          BY WebhookConstants
        <5> QED
          BY <1>1, <5>1
      <4>3. d \in Delivery
        BY <4>1 DEF Delivery
      <4>4. d.id = e /\ d.attempts = 0
        OBVIOUS
      <4> HIDE DEF d
      <4> QED
        BY <4>2, <4>3, <4>4 DEF Tried
    <3> QED
      BY <2>1, <3>1 DEF enqueue
  <2>2. CASE retry(e)
    <3> DEFINE d == [deliveries[e] EXCEPT !.status = "pending", !.due = TRUE]
    <3>1. /\ deliveries[e] \in Delivery /\ deliveries[e].id = e
          /\ deliveries[e].attempts \in Nat /\ deliveries[e].attempts <= maxAttempts + retries
      BY <2>2, DeliveryFields DEF retry, WebhooksInv, DeliveriesInv, Tried
    <3>2. /\ d \in Delivery /\ d.id = e /\ d.attempts = deliveries[e].attempts
          /\ deliveries[e].status = "pending" /\ deliveries[e].due => d = deliveries[e]
      <4>1. d = Rewrite(deliveries[e], "pending", deliveries[e].attempts, TRUE)
        BY <3>1 DEF Delivery, Rewrite
      <4>2. deliveries[e].attempts <= maxAttempts + MaxRetries /\ deliveries[e].due \in BOOLEAN
        BY <3>1, DeliveryFields
      <4>3. deliveries[e].due => deliveries[e].due = TRUE
        BY <4>2
      <4> HIDE DEF d
      <4> QED
        <5>1. /\ d \in Delivery /\ d.id = deliveries[e].id /\ d.attempts = deliveries[e].attempts
              /\ "pending" = deliveries[e].status /\ TRUE = deliveries[e].due => d = deliveries[e]
          <6>1. PICK c : c = deliveries[e]
            OBVIOUS
          <6>2. PICK due \in BOOLEAN : due = TRUE
            OBVIOUS
          <6>3. /\ c \in Delivery /\ "pending" \in {"pending", "delivered", "dead"}
                /\ c.attempts \in Nat /\ c.attempts <= maxAttempts + MaxRetries
            BY <3>1, <4>2, <6>1
          <6>4. d = Rewrite(c, "pending", c.attempts, due)
            BY <4>1, <6>1, <6>2
          <6>5. /\ d \in Delivery /\ d.id = c.id /\ d.attempts = c.attempts
                /\ "pending" = c.status /\ due = c.due => d = c
            BY <6>3, <6>4, Rewritten
          <6> QED
            BY <6>1, <6>2, <6>5
        <5> QED
          BY <3>1, <4>3, <5>1
    <3>3. Tried(d, retries')
      <4>1. retries' = retries + 1
        BY <2>2 DEF retry
      <4> HIDE DEF d
      <4> QED
        BY <3>1, <3>2, <4>1, <1>1, WebhookConstants DEF Tried
    <3>4. deliveries[e].status = "pending" /\ deliveries[e].due => d = deliveries[e]
      BY <3>2
    <3>5. deliveries' = [deliveries EXCEPT ![e] = d]
      BY <2>2 DEF retry, WebhooksInv, DeliveriesInv
    <3> QED
      BY <3>2, <3>3, <3>4, <3>5
  <2>3. CASE Wait(e)
    <3> DEFINE d == [deliveries[e] EXCEPT !.due = TRUE]
    <3>1. /\ deliveries[e] \in Delivery /\ deliveries[e].id = e /\ Tried(deliveries[e], retries)
      BY <2>3 DEF Wait, WebhooksInv, DeliveriesInv
    <3>2. d \in Delivery /\ d.id = e /\ d.attempts = deliveries[e].attempts /\ d.status = deliveries[e].status
      BY <3>1 DEF Delivery
    <3>3. Tried(d, retries')
      BY <2>3, <3>1, <3>2 DEF Wait, Tried, repoVars
    <3>4. deliveries' = [deliveries EXCEPT ![e] = d] /\ ~ deliveries[e].due
      BY <2>3 DEF Wait, WebhooksInv, DeliveriesInv
    <3> QED
      BY <3>2, <3>3, <3>4
  <2> QED
    BY <2>1, <2>2, <2>3
<1>4. DeliveriesInv'
  <2>1. deliveries' \in [Events -> Delivery \cup {Absent}] /\ deliveries'[e] = d
        /\ \A o \in Events \ {e} : deliveries'[o] = deliveries[o]
    BY <1>3 DEF WebhooksInv, DeliveriesInv
  <2>2. ASSUME NEW o \in Events, deliveries'[o] # Absent
        PROVE  deliveries'[o].id = o /\ Tried(deliveries'[o], retries')
    <3>1. CASE o = e
      BY <1>3, <2>1, <3>1 DEF Tried
    <3>2. CASE o # e
      <4>1. deliveries[o] \in Delivery /\ deliveries[o].id = o /\ Tried(deliveries[o], retries)
        BY <2>1, <2>2, <3>2 DEF WebhooksInv, DeliveriesInv
      <4>2. deliveries[o].attempts \in Nat
        BY <4>1, DeliveryFields
      <4>3. Tried(deliveries[o], retries) => deliveries[o].attempts <= maxAttempts + retries'
                 /\ (deliveries[o].status = "pending" => deliveries[o].attempts < maxAttempts + retries')
        BY <1>1, <4>2, WebhookConstants DEF Tried
      <4> QED
        BY <2>1, <3>2, <4>1, <4>3, WebhookConstants DEF Tried
    <3> QED
      BY <3>1, <3>2
  <2>3. retries' \in 0 .. MaxRetries
    BY <1>1, WebhookConstants
  <2> QED
    BY <2>1, <2>2, <2>3 DEF DeliveriesInv, Tried
<1>5. PassesInv'
  <2>1. \A w \in Workers : \A k \in 1 .. Len(work[w].todo) : work[w].todo[k] \in Delivery
    BY DEF WebhooksInv, PassesInv
  <2>2. \A w \in Workers : \A k \in 1 .. Len(work[w].todo) :
          /\ work[w].todo[k].status = "pending"
          /\ work[w].todo[k].attempts <= maxAttempts + retries'
          /\ work[w].todo[k].attempts < maxAttempts + retries'
    BY <1>1, <2>1, WebhookConstants, DeliveryFields DEF WebhooksInv, PassesInv, Listed, Tried
  <2> QED
    BY <1>1, <2>2 DEF WebhooksInv, PassesInv, Listed, Tried
<1>6. SerialInv'
  <2> SUFFICES ASSUME serial, NEW w \in Workers, NEW k \in 1 .. Len(work[w].todo)
               PROVE  deliveries'[work[w].todo[k].id] = deliveries[work[w].todo[k].id]
    BY <1>1 DEF WebhooksInv, SerialInv
  <2> DEFINE l == work[w].todo[k]
  <2>1. /\ l \in Delivery /\ l.id \in Events /\ l.status = "pending" /\ l.due
        /\ deliveries[l.id] = l /\ deliveries[l.id] # Absent
    BY DeliveryFields DEF WebhooksInv, SerialInv, PassesInv, Listed
  <2> QED
    BY <1>3, <2>1 DEF WebhooksInv, DeliveriesInv
<1> QED
  BY <1>1, <1>4, <1>5, <1>6 DEF WebhooksInv, WatchInv, watchVars

LEMMA CrashKeeps ==
  ASSUME WebhooksInv, Crash
  PROVE  WebhooksInv'
<1>1. <<>> \in Seq(Delivery) /\ 0 \in 0 .. Cardinality(Events)
  BY WebhookConstants, FS_CardinalityType
<1>2. \A w \in Workers : work'[w].at = "idle" /\ work'[w].todo = <<>>
  BY DEF Crash
<1>3. DeliveriesInv' /\ WatchInv'
  BY <1>1 DEF Crash, WebhooksInv, DeliveriesInv, WatchInv
<1>4. PassesInv'
  BY <1>1, <1>2 DEF Crash, PassesInv, Listed
<1>5. SerialInv'
  BY <1>2 DEF SerialInv
<1> QED
  BY <1>3, <1>4, <1>5 DEF WebhooksInv

LEMMA WebhooksStart == WebhooksInit => WebhooksInv
<1> SUFFICES ASSUME WebhooksInit  PROVE WebhooksInv
  OBVIOUS
<1>1. <<>> \in Seq(Delivery) /\ 0 \in 0 .. Cardinality(Events)
  BY WebhookConstants, FS_CardinalityType
<1>2. \A w \in Workers : work[w].at = "idle" /\ work[w].todo = <<>>
  BY DEF WebhooksInit
<1>3. DeliveriesInv /\ WatchInv
  BY <1>1, WebhookConstants DEF WebhooksInit, DeliveriesInv, WatchInv
<1>4. PassesInv
  BY <1>1, <1>2 DEF WebhooksInit, PassesInv, Listed
<1>5. SerialInv
  BY <1>2 DEF SerialInv
<1> QED
  BY <1>3, <1>4, <1>5 DEF WebhooksInv

LEMMA WebhooksStep == WebhooksInv /\ [WebhooksNext]_webhookVars => WebhooksInv'
<1> SUFFICES ASSUME WebhooksInv, [WebhooksNext]_webhookVars  PROVE WebhooksInv'
  OBVIOUS
<1>1. ASSUME NEW e \in Events, enqueue(e) \/ retry(e) \/ Wait(e)  PROVE WebhooksInv'
  BY <1>1, OutsideKeeps
<1>2. ASSUME NEW w \in Workers, StartPass(w)  PROVE WebhooksInv'
  BY <1>2, StartPassKeeps
<1>3. ASSUME NEW w \in Workers, Delivered(w) \/ Failed(w)  PROVE WebhooksInv'
  BY <1>3, AnswersKeep
<1>4. ASSUME NEW w \in Workers, Send(w) \/ PassDrained(w) \/ CheckDead(w)  PROVE WebhooksInv'
  BY <1>4, OwnStepsKeep
<1>5. CASE UNCHANGED webhookVars
  BY <1>5 DEF webhookVars, repoVars, watchVars, WebhooksInv, DeliveriesInv, PassesInv, WatchInv,
              SerialInv, Listed, Tried
<1> QED
  BY <1>1, <1>2, <1>3, <1>4, <1>5, CrashKeeps DEF WebhooksNext

LEMMA WebhooksInvariant == WebhooksSpec => []WebhooksInv
BY WebhooksStart, WebhooksStep, PTL DEF WebhooksSpec

\* Every delivery is of its type: no interleaving of passes, however stale the deliveries
\* they write back, gives one more attempts than maxAttempts and the operator's retries
\* allow (WebhookDispatcher.fail, retry).
THEOREM WebhooksTypeCorrect == WebhooksSpec => []WebhooksTypeOK
<1>1. WebhooksInv => WebhooksTypeOK
  <2> SUFFICES ASSUME WebhooksInv  PROVE WebhooksTypeOK
    OBVIOUS
  <2>1. \A w \in Workers : work[w].todo \in Seq(Delivery) /\ ToSet(work[w].todo) \subseteq Delivery
    BY DEF WebhooksInv, PassesInv, ToSet
  <2> QED
    BY <2>1 DEF WebhooksInv, DeliveriesInv, PassesInv, WatchInv, WebhooksTypeOK
<1> QED
  BY <1>1, WebhooksInvariant, PTL

\* While passes do not overlap, a delivered event is not sent again, nor put back, unless an
\* operator asks (WebhookDispatcher.processDue writes back the deliveries it listed).
THEOREM DeliveredIsFinal == WebhooksSpec => DeliveredStays
<1> DEFINE A == serial => \A e \in Events :
             deliveries[e] # Absent /\ deliveries[e].status = "delivered" /\ crashed' = crashed =>
               \/ /\ deliveries'[e].status = "delivered"
                  /\ \A w \in Workers :
                       work[w].at = "next" /\ work'[w].at = "sent" => Head(work[w].todo).id # e
               \/ retries' > retries
<1>1. WebhooksInv /\ [WebhooksNext]_webhookVars => [A]_webhookVars
  <2> SUFFICES ASSUME WebhooksInv, WebhooksNext, serial, crashed' = crashed,
                      NEW e \in Events, deliveries[e] # Absent, deliveries[e].status = "delivered"
               PROVE  \/ /\ deliveries'[e].status = "delivered"
                         /\ \A v \in Workers :
                              work[v].at = "next" /\ work'[v].at = "sent" => Head(work[v].todo).id # e
                      \/ retries' > retries
    OBVIOUS
  <2> DEFINE Final == /\ deliveries'[e].status = "delivered"
                     /\ \A v \in Workers :
                          work[v].at = "next" /\ work'[v].at = "sent" => Head(work[v].todo).id # e
  <2>1. ASSUME NEW o \in Events, enqueue(o) \/ retry(o) \/ Wait(o)
        PROVE  Final \/ retries' > retries
    <3>1. CASE enqueue(o)
      BY <3>1 DEF enqueue, WebhooksInv, DeliveriesInv
    <3>2. CASE retry(o)
      BY <3>2, WebhookConstants DEF retry, WebhooksInv, DeliveriesInv
    <3>3. CASE Wait(o)
      BY <3>3, DeliveryFields DEF Wait, WebhooksInv, DeliveriesInv
    <3> QED
      BY <2>1, <3>1, <3>2, <3>3
  <2>2. ASSUME NEW w \in Workers, Send(w) \/ Delivered(w) \/ Failed(w)
        PROVE  Final
    <3> DEFINE d == Head(work[w].todo)
    <3>1. work[w].todo \in Seq(Delivery) /\ work[w].todo # <<>> /\ Listed(work[w].todo, retries)
      BY <2>2 DEF Send, Delivered, Failed, WebhooksInv, PassesInv
    <3>2. d = work[w].todo[1] /\ d.status = "pending" /\ 1 \in 1 .. Len(work[w].todo)
      BY <3>1, RestListed
    <3>3. deliveries[d.id] = d
      BY <3>2 DEF WebhooksInv, SerialInv
    <3>4. d.id # e
      BY <3>2, <3>3
    <3> QED
      <4>1. CASE Send(w)
        BY <3>4, <4>1 DEF Send, Pass, WebhooksInv, PassesInv, DeliveriesInv, repoVars
      <4>2. CASE Delivered(w)
        BY <3>4, <4>2 DEF Delivered, Pass, WebhooksInv, PassesInv, DeliveriesInv
      <4>3. CASE Failed(w)
        BY <3>4, <4>3 DEF Failed, Pass, WebhooksInv, PassesInv, DeliveriesInv
      <4> QED
        BY <2>2, <4>1, <4>2, <4>3
  <2>3. ASSUME NEW w \in Workers, StartPass(w) \/ PassDrained(w) \/ CheckDead(w)
        PROVE  Final
    <3> USE DEF Pass, WebhooksInv, PassesInv, repoVars
    <3>1. CASE StartPass(w)
      BY <3>1 DEF StartPass
    <3>2. CASE PassDrained(w)
      BY <3>2 DEF PassDrained
    <3>3. CASE CheckDead(w)
      BY <3>3 DEF CheckDead
    <3> QED
      BY <2>3, <3>1, <3>2, <3>3
  <2>4. ~ Crash
    BY DEF Crash
  <2> QED
    BY <2>1, <2>2, <2>3, <2>4 DEF WebhooksNext
<1> QED
  BY <1>1, WebhooksInvariant, PTL DEF WebhooksSpec, DeliveredStays

=============================================================================
