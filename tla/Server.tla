------------------------------- MODULE Server -------------------------------
(***************************************************************************)
(* One process serving HTTP: the router's handling of a request from its   *)
(* first byte to its answer (http.ts), the rate limiter in memory or in    *)
(* Redis, the readiness probe, and the shutdown of main.ts and             *)
(* gracefulShutdown.ts.  Api holds the routes.                             *)
(*                                                                         *)
(* Every request here comes from one address, so the limiter's key is the  *)
(* pattern of its route.  A handler's query holds a client of the pool     *)
(* until the database answers it, which it may never do; those of a guard  *)
(* and of the readiness probe are one step.  A Redis command may reject    *)
(* when Redis is in trouble or was quit.  What a service does is the step  *)
(* Serve, detailed in the other modules.                                   *)
(***************************************************************************)
EXTENDS Api, FiniteSets

CONSTANTS
  Requests,   \* the requests of a behaviour
  Setups,     \* deployments, chosen by Init: the limiter, whether ADMIN_TOKEN is set, the
              \* operations each request may be for, and the faults of the environment
  max,        \* requests allowed per window
  Window,     \* the length of a window
  MaxClock,   \* BOUND on time
  Latency     \* BOUND: the ticks a check in Redis may take before it is timed out

ASSUME ServerAssumption ==
  /\ IsFiniteSet(Requests)
  /\ max \in Nat \ {0} /\ Window \in Nat \ {0} /\ MaxClock \in Nat /\ Latency \in Nat
  /\ \A s \in Setups : /\ s.limiter \in {"off", "memory", "redis"} /\ s.adminToken \in BOOLEAN
                       /\ s.faults \subseteq {"redis", "slow", "stop"}
                       /\ \A r \in Requests : s.offered[r] \subseteq Ops \cup {"OPTIONS", "unmatched"}

VARIABLES
  setup,     \* the deployment
  proc,      \* "up", "stopping", "draining", "exited", "crashed"
  sql,       \* "open", "ending" or "closed": the connection pool
  redis,     \* "open", "quitting" or "closed": this process's connection
  clock,
  counters,  \* the limiter's counters: key -> [count, expires], expires 0 for none
  req,       \* the requests
  admitted   \* history: the time at which the limiter let each request pass, or Never

vars == <<setup, proc, sql, redis, clock, counters, req, admitted>>

Phases == {"idle", "reading", "incr", "pexpire", "pttl", "reapply", "guard", "work", "query", "reply", "done"}

Never == -1

Statuses == 0 .. 599

(* sent is the status on the wire, 0 before any; status the one about to be sent. *)
Request ==
  [phase : Phases, op : Ops \cup {"none", "OPTIONS", "unmatched"}, cred : {"none", "bad", "good"},
   called : 0 .. MaxClock, count : Nat,
   status : Statuses, sent : Statuses, acted : BOOLEAN]

NoRequest == [phase |-> "idle", op |-> "none", cred |-> "none", called |-> 0, count |-> 0,
              status |-> 0, sent |-> 0, acted |-> FALSE]

(* container.ts: probes and scrapes are never limited. *)
skipRoutes == {"GET/healthz", "GET/metrics"}

(* Operations whose handler asks no repository. *)
Static == {"GET/healthz", "GET/version", "GET/api/plans", "GET/api/pricing/quote",
           "GET/openapi.json", "GET/docs"}

Running == proc \in {"up", "stopping", "draining"}

Init ==
  /\ setup \in Setups
  /\ proc = "up" /\ sql = "open" /\ redis = "open" /\ clock = 0
  /\ counters = <<>>
  /\ req = [r \in Requests |-> NoRequest]
  /\ admitted = [r \in Requests |-> Never]

Is(r, phase) == Running /\ req[r].phase = phase
To(r, phase) == req' = [req EXCEPT ![r].phase = phase]

(***************************************************************************)
(* A response is written once.  writeHead throws when the headers are gone *)
(* already; the catch in dispatch writes again and throws again, so the    *)
(* promise that handle discards is rejected and the process exits.         *)
(***************************************************************************)
sendJson(r, status) ==
  IF req[r].sent = 0
  THEN /\ req' = [req EXCEPT ![r].phase = "done", ![r].sent = status]
       /\ UNCHANGED proc
  ELSE proc' = "crashed" /\ UNCHANGED req

(***************************************************************************)
(* Router.handle: the connection.  Credentials matter where they are asked.*)
(***************************************************************************)
Credentials(op) ==
  IF op \in Ops /\ Routes[op].guard # "none" THEN {"none", "bad", "good"} ELSE {"none"}

Arrive(r) ==
  /\ proc \in {"up", "stopping"} /\ req[r].phase = "idle"
  /\ \E op \in setup.offered[r] : \E cred \in Credentials(op) :
       req' = [req EXCEPT ![r].phase = "reading", ![r].op = op, ![r].cred = cred]
  /\ UNCHANGED <<setup, proc, sql, redis, clock, counters, admitted>>

(* The body grows past maxBodyBytes: 413, and the destroyed stream never ends. *)
BodyTooLargeKept(r) ==
  /\ Is(r, "reading") /\ req[r].sent = 0
  /\ req' = [req EXCEPT ![r].sent = 413]
  /\ UNCHANGED <<setup, proc, sql, redis, clock, counters, admitted>>

BodyTooLarge(r) ==
  /\ Is(r, "reading")
  /\ sendJson(r, 413)
  /\ UNCHANGED <<setup, sql, redis, clock, counters, admitted>>

(* The socket is idle for requestTimeoutMs: 503, whatever the handler is waiting for. *)
Timeout(r) ==
  /\ Running /\ "slow" \in setup.faults
  /\ req[r].phase \notin {"idle", "done"} /\ req[r].sent = 0
  /\ req' = [req EXCEPT ![r].phase = IF @ = "reading" THEN "done" ELSE @, ![r].sent = 503]
  /\ UNCHANGED <<setup, proc, sql, redis, clock, counters, admitted>>

(***************************************************************************)
(* Router.dispatch, once the body has ended.                               *)
(***************************************************************************)
Unrouted(r) ==
  /\ Is(r, "reading")
  /\ req[r].op \in {"OPTIONS", "unmatched"}
  /\ sendJson(r, IF req[r].op = "unmatched" THEN 404 ELSE 204)
  /\ UNCHANGED <<setup, sql, redis, clock, counters, admitted>>

Limited(r) == setup.limiter # "off" /\ req[r].op \notin skipRoutes

DispatchUnlimited(r) ==
  /\ Is(r, "reading")
  /\ req[r].op \in Ops /\ ~Limited(r)
  /\ To(r, "guard")
  /\ UNCHANGED <<setup, proc, sql, redis, clock, counters, admitted>>

Live(key) == key \in DOMAIN counters /\ counters[key].expires \notin 1 .. clock

CountOf(key) == IF Live(key) THEN counters[key].count ELSE 0

Put(key, counter) ==
  [k \in DOMAIN counters \cup {key} |-> IF k = key THEN counter ELSE counters[k]]

allowedOnceMore(count) == count <= max + 1

allowed(count) == count <= max

(* setHeader throws outside the try when the headers are gone already. *)
Decide(r, count) ==
  IF req[r].sent # 0 THEN proc' = "crashed" /\ UNCHANGED <<req, admitted>>
  ELSE IF allowed(count)
  THEN /\ To(r, "guard")
       /\ admitted' = [admitted EXCEPT ![r] = clock]
       /\ UNCHANGED proc
  ELSE sendJson(r, 429) /\ UNCHANGED admitted

(* RateLimiter.check: a window starts with its first request. *)
CheckWindow(r) ==
  /\ Is(r, "reading") /\ setup.limiter = "memory"
  /\ req[r].op \in Ops /\ Limited(r)
  /\ LET key == Pattern(req[r].op)
         count == CountOf(key) + 1
         window == [count |-> count,
                    expires |-> IF Live(key) THEN counters[key].expires ELSE clock + Window]
     IN  counters' = Put(key, window) /\ Decide(r, count)
  /\ UNCHANGED <<setup, sql, redis, clock>>

(* RedisRateLimiter.check: the bucket is named by the time of the call... *)
NameBucket(r) ==
  /\ Is(r, "reading") /\ setup.limiter = "redis"
  /\ req[r].op \in Ops /\ Limited(r)
  /\ req' = [req EXCEPT ![r].phase = "incr", ![r].called = clock]
  /\ UNCHANGED <<setup, proc, sql, redis, clock, counters, admitted>>

Bucket(r) == <<Pattern(req[r].op), req[r].called \div Window>>

(* ...counted in Redis, where INCR keeps the expiry of a live key... *)
Incr(r) ==
  /\ Is(r, "incr") /\ redis # "closed"
  /\ LET count == CountOf(Bucket(r)) + 1
         key == [count |-> count,
                 expires |-> IF Live(Bucket(r)) THEN counters[Bucket(r)].expires ELSE 0]
     IN  /\ counters' = Put(Bucket(r), key)
         /\ req' = [req EXCEPT ![r].phase = IF count = 1 THEN "pexpire" ELSE "pttl",
                               ![r].count = count]
  /\ UNCHANGED <<setup, proc, sql, redis, clock, admitted>>

(* ...and given a lifetime by its first caller, or by one who finds it without. *)
Pexpire(r) ==
  /\ Running /\ req[r].phase \in {"pexpire", "reapply"} /\ redis # "closed"
  /\ counters' = IF Live(Bucket(r)) THEN [counters EXCEPT ![Bucket(r)].expires = clock + Window]
                 ELSE counters
  /\ IF req[r].phase = "pexpire" THEN To(r, "pttl") /\ UNCHANGED <<proc, admitted>>
     ELSE Decide(r, req[r].count)
  /\ UNCHANGED <<setup, sql, redis, clock>>

Pttl(r) ==
  /\ Is(r, "pttl") /\ redis # "closed"
  /\ IF Live(Bucket(r)) /\ counters[Bucket(r)].expires # 0
     THEN Decide(r, req[r].count)
     ELSE To(r, "reapply") /\ UNCHANGED <<proc, admitted>>
  /\ UNCHANGED <<setup, sql, redis, clock, counters>>

(* The check is awaited outside the try of dispatch: nothing catches its rejection.  A
   command that was sent before QUIT is answered, one after it is rejected. *)
RedisRejects(r) ==
  /\ Running /\ req[r].phase \in {"incr", "pexpire", "pttl", "reapply"}
  /\ redis # "open" \/ "redis" \in setup.faults
  /\ proc' = "crashed"
  /\ UNCHANGED <<setup, sql, redis, clock, counters, req, admitted>>

(***************************************************************************)
(* The handler.  adminGuard records the access in the audit log and        *)
(* authenticate looks the key up: both fail once the pool has ended.       *)
(***************************************************************************)
Asks(op) == Routes[op].guard \in {"admin", "user", "merchant"}

Guard(r) ==
  /\ Is(r, "guard")
  /\ LET status == refusal(req[r].op, setup.adminToken, req[r].cred)
     IN  CASE status # 0 -> sendJson(r, status)
           [] status = 0 /\ Asks(req[r].op) /\ sql # "open" -> sendJson(r, 500)
           [] OTHER -> To(r, "work") /\ UNCHANGED proc
  /\ UNCHANGED <<setup, sql, redis, clock, counters, admitted>>

(* The row of each readiness check, and the report: only critical checks degrade it. *)
runOne(check) ==
  CASE check = "sql" -> IF sql = "open" THEN BOOLEAN ELSE {FALSE}
    [] check = "redis" -> IF redis = "open" THEN BOOLEAN ELSE {FALSE}
    [] OTHER -> {TRUE}

criticalCore == {"core"}

critical == {"core", "sql"}

report(rows) == IF \E check \in critical : ~rows[check] THEN 503 ELSE 200

ReadyAnswers ==
  {report(rows) : rows \in {f \in [{"core", "sql", "redis"} -> BOOLEAN] :
                              \A check \in DOMAIN f : f[check] \in runOne(check)}}

Answers(op) ==
  CASE op = "GET/readyz" -> ReadyAnswers
    [] op \notin Static /\ sql # "open" -> {500}
    [] OTHER -> {Routes[op].success} \cup Routes[op].refusals

(* A handler asks the database, as often as it likes, and waits for as long as it takes. *)
Query(r) ==
  /\ Is(r, "work") /\ sql = "open"
  /\ req[r].op \notin Static \cup {"GET/readyz"}
  /\ To(r, "query")
  /\ UNCHANGED <<setup, proc, sql, redis, clock, counters, admitted>>

QueryAnswered(r) ==
  /\ Is(r, "query")
  /\ To(r, "work")
  /\ UNCHANGED <<setup, proc, sql, redis, clock, counters, admitted>>

Serve(r) ==
  /\ Is(r, "work")
  /\ \E status \in Answers(req[r].op) :
       req' = [req EXCEPT ![r].phase = "reply", ![r].status = status,
                          ![r].acted = status = Routes[req[r].op].success]
  /\ UNCHANGED <<setup, proc, sql, redis, clock, counters, admitted>>

Reply(r) ==
  /\ Is(r, "reply")
  /\ sendJson(r, req[r].status)
  /\ UNCHANGED <<setup, sql, redis, clock, counters, admitted>>

(***************************************************************************)
(* main.ts and GracefulShutdown.runShutdown.  The stoppers are awaited in  *)
(* order: the watchers, then pg.end, then redis.quit; the server closes    *)
(* last, and only then does timeoutMs start.                               *)
(***************************************************************************)
Signal ==
  /\ proc = "up" /\ "stop" \in setup.faults
  /\ proc' = "stopping"
  /\ UNCHANGED <<setup, sql, redis, clock, counters, req, admitted>>

(* Pool.end refuses new queries and waits for the clients that are out. *)
EndPool ==
  /\ proc = "stopping" /\ sql = "open"
  /\ sql' = "ending"
  /\ UNCHANGED <<setup, proc, redis, clock, counters, req, admitted>>

PoolEnded ==
  /\ proc = "stopping" /\ sql = "ending"
  /\ \A r \in Requests : req[r].phase # "query"
  /\ sql' = "closed"
  /\ UNCHANGED <<setup, proc, redis, clock, counters, req, admitted>>

(* quit waits for the answer of Redis. *)
QuitRedis ==
  /\ proc = "stopping" /\ sql = "closed" /\ redis = "open"
  /\ redis' = "quitting"
  /\ UNCHANGED <<setup, proc, sql, clock, counters, req, admitted>>

RedisQuit ==
  /\ proc = "stopping" /\ redis = "quitting"
  /\ redis' = "closed"
  /\ UNCHANGED <<setup, proc, sql, clock, counters, req, admitted>>

CloseServer ==
  /\ proc = "stopping" /\ redis = "closed"
  /\ proc' = "draining"
  /\ UNCHANGED <<setup, sql, redis, clock, counters, req, admitted>>

(* The last socket closes: a request that was answered no longer holds one. *)
Drained ==
  /\ proc = "draining"
  /\ \A r \in Requests : req[r].phase \in {"idle", "done"} \/ req[r].sent # 0
  /\ proc' = "exited"
  /\ UNCHANGED <<setup, sql, redis, clock, counters, req, admitted>>

(* timeoutMs after the server closed, every socket left is destroyed. *)
ForceIfIdle ==
  /\ proc = "draining" /\ \A r \in Requests : req[r].phase \in {"idle", "done"}
  /\ proc' = "exited"
  /\ UNCHANGED <<setup, sql, redis, clock, counters, req, admitted>>

ForceClose ==
  /\ proc = "draining"
  /\ proc' = "exited"
  /\ UNCHANGED <<setup, sql, redis, clock, counters, req, admitted>>

(* The bucket a check named is at most Latency ticks old when its answers come. *)
Tick ==
  /\ Running /\ clock < MaxClock
  /\ \A r \in Requests :
       req[r].phase \in {"incr", "pexpire", "pttl", "reapply"} /\ req[r].sent = 0 =>
         clock < req[r].called + Latency
  /\ clock' = clock + 1
  /\ UNCHANGED <<setup, proc, sql, redis, counters, req, admitted>>

Step(r) ==
  \/ Arrive(r) \/ BodyTooLarge(r) \/ Timeout(r)
  \/ Unrouted(r) \/ DispatchUnlimited(r) \/ CheckWindow(r)
  \/ NameBucket(r) \/ Incr(r) \/ Pexpire(r) \/ Pttl(r) \/ RedisRejects(r)
  \/ Guard(r) \/ Query(r) \/ QueryAnswered(r) \/ Serve(r) \/ Reply(r)

Next ==
  \/ \E r \in Requests : Step(r)
  \/ Signal \/ EndPool \/ PoolEnded \/ QuitRedis \/ RedisQuit
  \/ CloseServer \/ Drained \/ ForceClose
  \/ Tick

(***************************************************************************)
(* Timers fire and the process takes its own steps; the client, the body,  *)
(* the database, Redis and the handlers owe nothing.                       *)
(***************************************************************************)
Fairness ==
  /\ \A r \in Requests : WF_vars(Timeout(r))
  /\ WF_vars(EndPool) /\ WF_vars(PoolEnded) /\ WF_vars(QuitRedis)
  /\ WF_vars(CloseServer) /\ WF_vars(ForceClose)

Spec == Init /\ [][Next]_vars /\ Fairness

(***************************************************************************)
(* Properties                                                              *)
(***************************************************************************)
(* Every variable has its type. *)
TypeOK ==
  /\ proc \in {"up", "stopping", "draining", "exited", "crashed"}
  /\ sql \in {"open", "ending", "closed"} /\ redis \in {"open", "quitting", "closed"}
  /\ clock \in 0 .. MaxClock
  /\ \A key \in DOMAIN counters : counters[key] \in [count : Nat \ {0}, expires : Nat]
  /\ req \in [Requests -> Request]
  /\ admitted \in [Requests -> (0 .. MaxClock) \cup {Never}]

(* A client told 401, 403, 413 or 429 can repeat the call: nothing was done for it, and
   nothing will be, however long its handler still runs (http.ts, dispatch and handle). *)
RefusedUntouched ==
  \A r \in Requests : req[r].sent \in {401, 403, 413, 429} => ~req[r].acted /\ req[r].phase = "done"

(* The requests for a pattern that the limiter let pass between two times. *)
Passed(key, from, to) ==
  {r \in Requests : Pattern(req[r].op) = key /\ admitted[r] \in from .. to}

(* A fixed window lets two quotas pass around its edge and never more, in memory and in Redis,
   although a Redis bucket is named, counted and given its lifetime in separate calls
   (rateLimiter.ts check, redisRateLimiter.ts check).  It takes Latency = 0: a check that is
   answered after its bucket's key expired is counted from one again. *)
BurstBounded ==
  \A r \in Requests : \A t \in 0 .. MaxClock :
    Cardinality(Passed(Pattern(req[r].op), t, t + Window - 1)) <= 2 * max

(* What is served is what openapi.ts describes: a success has a documented status, an operation
   that declares bearer authentication served a caller who holds a token, and /readyz reports
   ready only while the database answers (routes.ts, openapi.ts, readiness.ts). *)
ServedAsDocumented ==
  [][\A r \in Requests :
       req[r].phase = "work" /\ req'[r].phase = "reply" /\ req'[r].status < 300 =>
         LET op == req[r].op IN
         /\ req'[r].status \in Docs[op].statuses
         /\ Docs[op].secured => req[r].cred = "good"
         /\ op = "GET/readyz" => sql = "open"]_vars

(* The database answers the queries that are in flight, and Redis its QUIT. *)
Answering == []<>(\A r \in Requests : req[r].phase # "query") /\ []<>(redis # "quitting")

(* A signal ends the process as long as the database and Redis answer, whatever its clients and
   handlers wait for otherwise: a body that never ends, an answer nobody reads, a provider that
   hangs (gracefulShutdown.ts runShutdown, main.ts shutdown). *)
ShutdownEnds == Answering => (proc = "stopping" ~> ~Running)

(* "wait up to timeoutMs for in-flight connections to finish.  If they do not, every tracked
   socket is destroyed" (gracefulShutdown.ts:51): a signal ends the process. *)
SignalEnds == proc = "stopping" ~> ~Running

(* A trouble of Redis never crashes the process (redisClient.ts:50). *)
RedisNeverCrashes == proc # "crashed"

(* In-flight requests are drained before the database is closed (main.ts:115). *)
DrainedBeforeClose ==
  [][sql # sql' => \A r \in Requests : req[r].phase \in {"idle", "done"} \/ req[r].sent # 0]_vars
=============================================================================
