------------------------------ MODULE MCServer ------------------------------
(* Deployments for model checking: every route with one request, and three *)
(* requests for the same two routes under each limiter.                    *)
EXTENDS Server

CONSTANTS r1, r2, r3

MCRequests == {r1, r2, r3}

Everything == Ops \cup {"OPTIONS", "unmatched"}

Offer(some, ops) == [r \in MCRequests |-> IF r \in some THEN ops ELSE {}]

Setup(limiter, adminToken, offered, faults) ==
  [limiter |-> limiter, adminToken |-> adminToken, offered |-> offered, faults |-> faults]

Plans == {"GET/api/plans"}
Merchants == {"GET/admin/merchants", "POST/admin/merchants"}
Orders == {"GET/api/orders/:id"}

MCSetups ==
  {Setup("off", b, Offer({r1}, Everything), {"slow", "stop"}) : b \in BOOLEAN}
  \cup {Setup("memory", FALSE, Offer(MCRequests, Merchants), {})}
  \cup {Setup("redis", TRUE, Offer(MCRequests, Plans), {})}
  \cup {Setup("redis", TRUE, Offer({r1, r2}, Plans), {"slow", "stop"})}

StopSetups == {Setup("redis", TRUE, Offer({r1, r2}, Orders), {"slow", "stop"})}

RedisSetups == {Setup("redis", TRUE, Offer({r1}, Plans), {"redis"})}
=============================================================================
