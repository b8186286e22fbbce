-------------------------------- MODULE Api --------------------------------
(***************************************************************************)
(* The route table of routes.ts and the operation table of openapi.ts.     *)
(*                                                                         *)
(* A route is named by its method and pattern.  Of its handler the table   *)
(* keeps what it demands of the caller before it acts (guard), the status  *)
(* of its answer when it succeeds, and the statuses of the errors its own  *)
(* checks and the service behind it raise.  Views and bodies are left out. *)
(* Guards: "none"; "admin" is adminGuard; "user" is users.authenticate on  *)
(* the bearer token; "tenant" is merchantScope, where no key at all is     *)
(* fine; "merchant" is merchantScope where a key is required.              *)
(***************************************************************************)
EXTENDS Integers

(* Rows of the route table: the same for each of some operations. *)
R(ops, guard, success, refusals) ==
  {[op |-> op, guard |-> guard, success |-> success, refusals |-> refusals] : op \in ops}

(* The row of an operation in a table. *)
RowOf(table, op) == CHOOSE row \in table : row.op = op

(***************************************************************************)
(* routes.ts                                                               *)
(***************************************************************************)
SystemRoutes ==
  R({"GET/healthz", "GET/version", "GET/metrics", "GET/api/plans"}, "none", 200, {})
  \cup R({"GET/readyz"}, "none", 200, {503})
  \cup R({"GET/api/pricing/quote"}, "none", 200, {400})

AccountRoutes ==
  R({"POST/api/users/register"}, "none", 201, {400})
  \cup R({"POST/api/users/login"}, "none", 200, {400, 401})
  \cup R({"GET/api/users/me"}, "user", 200, {})
  \cup R({"POST/api/users/me/rotate-key"}, "user", 200, {400})

OrderRoutes ==
  R({"POST/api/orders"}, "tenant", 201, {400, 404, 502})
  \cup R({"GET/api/orders/:id"}, "tenant", 200, {404})
  \cup R({"GET/api/merchant/orders"}, "merchant", 200, {400})
  \cup R({"GET/api/orders/:id/qrcode.svg"}, "none", 200, {400, 404})
  \cup R({"POST/api/orders/:id/sync"}, "none", 200, {404, 409, 502})
  \cup R({"POST/api/orders/:id/refund"}, "none", 201, {400, 404, 409, 502})
  \cup R({"GET/api/orders/:id/refunds"}, "none", 200, {})

NotifyRoutes ==
  R({"POST/api/notify/wechat", "POST/api/notify/alipay",
     "POST/api/notify/wechat/refund"}, "none", 200, {400, 401, 500})

InternalRoutes ==
  R({"POST/internal/usdt/reconcile", "POST/internal/maintenance/sweep",
     "POST/internal/webhooks/process"}, "none", 200, {})

DocsRoutes == R({"GET/openapi.json", "GET/docs"}, "none", 200, {})

ReportRoutes ==
  R({"GET/admin/reports/summary", "GET/admin/reports/orders-summary",
     "GET/admin/orders", "GET/admin/refunds", "GET/admin/orders.csv"}, "admin", 200, {400})
  \cup R({"GET/admin/refunds.csv"}, "admin", 200, {})

MerchantRoutes ==
  R({"POST/admin/merchants"}, "admin", 201, {400, 404})
  \cup R({"GET/admin/merchants"}, "admin", 200, {404})
  \cup R({"POST/admin/merchants/:id/rotate-key"}, "admin", 200, {404})
  \cup R({"POST/admin/merchants/:id/status"}, "admin", 200, {400, 404})

OperatorRoutes ==
  R({"GET/admin/sweeps"}, "admin", 200, {400, 404})
  \cup R({"POST/admin/sweeps/:orderId/retry"}, "admin", 200, {404})
  \cup R({"POST/admin/expiry/run"}, "admin", 200, {})
  \cup R({"POST/admin/reconciliation"}, "admin", 200, {})
  \cup R({"GET/admin/webhooks"}, "admin", 200, {400})
  \cup R({"POST/admin/webhooks/:id/retry"}, "admin", 200, {404})
  \cup R({"GET/admin/audit"}, "admin", 200, {400})

RouteTable ==
  SystemRoutes \cup AccountRoutes \cup OrderRoutes \cup NotifyRoutes \cup InternalRoutes
  \cup DocsRoutes \cup ReportRoutes \cup MerchantRoutes \cup OperatorRoutes

Ops == {row.op : row \in RouteTable}

Routes == [op \in Ops |-> RowOf(RouteTable, op)]

(* The pattern of an operation, named by the first of its operations: one has two methods. *)
Pattern(op) == IF op = "POST/admin/merchants" THEN "GET/admin/merchants" ELSE op

(***************************************************************************)
(* Who passes a guard: the status it refuses with, or 0.  A caller shows   *)
(* no credentials, bad ones or good ones.                                  *)
(***************************************************************************)
requireAdmin(adminToken, cred) ==
  CASE ~adminToken -> 403 [] adminToken /\ cred # "good" -> 401 [] OTHER -> 0

authenticate(cred) == IF cred = "good" THEN 0 ELSE 401

merchantScope(cred) == IF cred = "bad" THEN 401 ELSE 0

refusal(op, adminToken, cred) ==
  CASE Routes[op].guard = "admin" -> requireAdmin(adminToken, cred)
    [] Routes[op].guard \in {"user", "merchant"} -> authenticate(cred)
    [] Routes[op].guard = "tenant" -> merchantScope(cred)
    [] OTHER -> 0

(***************************************************************************)
(* openapi.ts: whether the operation declares bearer authentication, and   *)
(* the statuses it documents.                                              *)
(***************************************************************************)
Doc(ops, secured, statuses) ==
  {[op |-> op, secured |-> secured, statuses |-> statuses] : op \in ops}

SystemDocs ==
  Doc({"GET/healthz", "GET/version", "GET/metrics", "GET/openapi.json", "GET/docs",
       "GET/api/plans"}, FALSE, {200})
  \cup Doc({"GET/readyz"}, FALSE, {200, 503})
  \cup Doc({"GET/api/pricing/quote"}, FALSE, {200, 400})

AccountDocs ==
  Doc({"POST/api/users/register"}, FALSE, {201, 400, 409})
  \cup Doc({"POST/api/users/login"}, FALSE, {200, 400, 401})
  \cup Doc({"GET/api/users/me", "POST/api/users/me/rotate-key"}, TRUE, {200, 401})

OrderDocs ==
  Doc({"POST/api/orders"}, FALSE, {201, 400, 404})
  \cup Doc({"POST/api/orders/:id/refund"}, FALSE, {201, 400, 404})
  \cup Doc({"GET/api/orders/:id", "GET/api/orders/:id/qrcode.svg",
            "POST/api/orders/:id/sync", "GET/api/orders/:id/refunds"}, FALSE, {200, 404})

webhookOperation ==
  Doc({"POST/api/notify/wechat", "POST/api/notify/wechat/refund",
       "POST/api/notify/alipay"}, FALSE, {200, 400})

InternalDocs ==
  Doc({"POST/internal/usdt/reconcile", "POST/internal/maintenance/sweep",
       "POST/internal/webhooks/process"}, FALSE, {200})

ListDocs ==
  Doc({"GET/admin/reports/summary", "GET/admin/reports/orders-summary",
       "GET/admin/orders", "GET/admin/refunds", "GET/admin/merchants",
       "GET/admin/orders.csv", "GET/admin/refunds.csv", "GET/admin/audit"},
      TRUE, {200, 401, 403})
  \cup Doc({"GET/api/merchant/orders"}, FALSE, {200, 401})

TenantDocs ==
  Doc({"POST/admin/merchants"}, TRUE, {201, 401, 403})
  \cup Doc({"POST/admin/merchants/:id/rotate-key", "POST/admin/merchants/:id/status"},
           TRUE, {200, 401, 404})

SweepDocs ==
  Doc({"GET/admin/sweeps", "POST/admin/sweeps/:orderId/retry"}, TRUE, {200, 401, 403, 404})

OperatorDocs ==
  Doc({"GET/admin/webhooks"}, TRUE, {200, 400, 401, 403})
  \cup Doc({"POST/admin/webhooks/:id/retry"}, TRUE, {200, 401, 403, 404})
  \cup Doc({"POST/admin/reconciliation", "POST/admin/expiry/run"}, TRUE, {200, 401, 403})

DocTable ==
  SystemDocs \cup AccountDocs \cup OrderDocs \cup webhookOperation \cup InternalDocs
  \cup ListDocs \cup TenantDocs \cup SweepDocs \cup OperatorDocs

Docs == [op \in {row.op : row \in DocTable} |-> RowOf(DocTable, op)]
=============================================================================
