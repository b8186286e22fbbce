---------------------------- MODULE Subscriptions ----------------------------
(***************************************************************************)
(* SubscriptionService.fulfillOrder, ExpiryService and ExpiryWatcher over  *)
(* the subscription repository: how purchased durations stack, and what a  *)
(* reminder or deactivation pass may do to them.                           *)
(*                                                                         *)
(* Each order is fulfilled under its own order lock, so orders of one user *)
(* are not ordered by any lock, and a pass takes none.  Nor do passes wait *)
(* for one another: the timer starts one while the last is still running,  *)
(* every replica has a timer, and POST /admin/expiry/run runs one more.    *)
(* Time is a clock of plan-duration units.  A row is named by the order    *)
(* that made it.                                                           *)
(***************************************************************************)
EXTENDS Naturals, FiniteSets, Functions

CONSTANTS
  Orders, Users,
  UserOf,          \* [Orders -> Users]
  Days,            \* [Orders -> Nat \ {0}]: plan.durationDays of the order's plan
  Passes,          \* passes that may run beside one another
  reminderWindow,  \* reminderWindowMs
  MaxClock,        \* bound: the clock
  NoRow

Row == [id : Orders, startsAt : Nat, expiresAt : Nat, active : BOOLEAN,
        orderIds : SUBSET Orders, notified : BOOLEAN]

ASSUME SubscriptionsAssumption ==
  /\ IsFiniteSet(Orders)
  /\ UserOf \in [Orders -> Users]
  /\ Days \in [Orders -> Nat \ {0}]
  /\ {reminderWindow, MaxClock} \subseteq Nat
  /\ NoRow \notin Row /\ NoRow \notin Orders

VARIABLES
  clock,
  store,       \* "sql" or "memory": which repository is wired
  serial,      \* fulfilments and passes happen not to overlap; no lock ensures it
  rows,        \* [Orders -> Row \cup {NoRow}]: the table, or the map byId
  activeByUser,\* [Users -> Orders \cup {NoRow}]: the memory store's index
  stage,       \* [Orders -> Stages]: where fulfillOrder is, and how it ended
  seen,        \* [Orders -> [now, sub]]: what it read
  pass,        \* [Passes -> [at, todo, cur]]: the await it is at, rows left, row in hand
  reminded,    \* history: the periods a reminder went out for
  marked,      \* history: the periods whose reminder mark was written
  granted      \* history: [Users -> Nat], until when the orders fulfilled entitle the user

passVars == <<pass, reminded, marked>>
wiring == <<store, serial>>
vars == <<clock, store, serial, rows, activeByUser, stage, seen, pass, reminded, marked, granted>>

Stored == {rows[o] : o \in Orders} \ {NoRow}

\* "refused": fulfillOrder threw, the order stays PAID and nothing fulfils it again.
Stages == {"paid", "read", "done", "refused"}
Awaits == {"idle", "remind", "update", "expire", "notify"}

\* A period is named by the orders that bought it.
Period(r) == <<r.id, r.orderIds>>

Unread == [now |-> 0, sub |-> NoRow]
NoPass == [at |-> "idle", todo |-> {}, cur |-> NoRow]

TypeOK ==
  /\ clock \in 0..MaxClock
  /\ store \in {"sql", "memory"} /\ serial \in BOOLEAN
  /\ Stored \subseteq Row
  /\ activeByUser \in [Users -> Orders \cup {NoRow}]
  /\ stage \in [Orders -> Stages]
  /\ seen \in [Orders -> [now : Nat, sub : Stored \cup Row \cup {NoRow}]]
  /\ \A p \in Passes : pass[p].at \in Awaits
  /\ granted \in [Users -> Nat]

Init ==
  /\ clock = 0
  /\ store \in {"sql", "memory"} /\ serial \in BOOLEAN
  /\ rows = [o \in Orders |-> NoRow]
  /\ activeByUser = [u \in Users |-> NoRow]
  /\ stage = [o \in Orders |-> "paid"]
  /\ seen = [o \in Orders |-> Unread]
  /\ pass = [p \in Passes |-> NoPass]
  /\ reminded = {} /\ marked = {}
  /\ granted = [u \in Users |-> 0]

-----------------------------------------------------------------------------
(* The repository *)

ActiveRows == {r \in Stored : r.active}

\* findActiveByUser: the indexed row, or the row the partial unique index admits.
findActiveByUser(u) ==
  IF store = "memory"
  THEN IF activeByUser[u] = NoRow THEN NoRow ELSE rows[activeByUser[u]]
  ELSE IF \E r \in ActiveRows : UserOf[r.id] = u
       THEN CHOOSE r \in ActiveRows : UserOf[r.id] = u
       ELSE NoRow

\* (mutant: an inactive row is always dropped from the index)
WriteDropping(r) ==
  /\ rows' = [rows EXCEPT ![r.id] = r]
  /\ activeByUser' = [activeByUser EXCEPT ![UserOf[r.id]] = IF r.active THEN r.id ELSE NoRow]

\* The rows a write of r leaves, and the memory store's index.
Write(r) ==
  /\ rows' = [rows EXCEPT ![r.id] = r]
  /\ activeByUser' =
       [activeByUser EXCEPT ![UserOf[r.id]] =
          IF r.active THEN r.id ELSE IF @ = r.id THEN NoRow ELSE @]

\* idx_subscriptions_active_user: SQL refuses a second active row of a user.
Refused(r) ==
  /\ store = "sql" /\ r.active
  /\ \E other \in ActiveRows : other.id # r.id /\ UserOf[other.id] = UserOf[r.id]

-----------------------------------------------------------------------------
(* fulfillOrder *)

Quiet == (\A p \in Passes : pass[p].at = "idle") /\ \A o \in Orders : stage[o] # "read"

\* The clock is read, then the user's active subscription.
FindActive(o) ==
  /\ stage[o] = "paid"
  /\ serial => Quiet
  /\ stage' = [stage EXCEPT ![o] = "read"]
  /\ seen' = [seen EXCEPT ![o] = [now |-> clock, sub |-> findActiveByUser(UserOf[o])]]
  /\ UNCHANGED <<clock, wiring, rows, activeByUser, passVars, granted>>

Later(a, b) == IF a > b THEN a ELSE b

\* (mutant: the renewal starts now although time is left)
GrantedFromNow(o) ==
  LET now == seen[o].now  sub == seen[o].sub IN
  IF sub # NoRow /\ sub.expiresAt > now
  THEN [sub EXCEPT !.expiresAt = now + Days[o], !.orderIds = @ \cup {o},
                   !.active = TRUE, !.notified = FALSE]
  ELSE [id |-> o, startsAt |-> now, expiresAt |-> now + Days[o], active |-> TRUE,
        orderIds |-> {o}, notified |-> FALSE]

\* (mutant: the reminder mark survives a renewal)
GrantedMarked(o) ==
  LET now == seen[o].now  sub == seen[o].sub IN
  IF sub # NoRow /\ sub.expiresAt > now
  THEN [sub EXCEPT !.expiresAt = @ + Days[o], !.orderIds = @ \cup {o}, !.active = TRUE]
  ELSE [id |-> o, startsAt |-> now, expiresAt |-> now + Days[o], active |-> TRUE,
        orderIds |-> {o}, notified |-> FALSE]

\* (mutant: every order gets a row of its own)
GrantedAnew(o) ==
  [id |-> o, startsAt |-> seen[o].now, expiresAt |-> seen[o].now + Days[o], active |-> TRUE,
   orderIds |-> {o}, notified |-> FALSE]

\* A subscription in force is extended from its expiry; otherwise one starts now.
Granted(o) ==
  LET now == seen[o].now  sub == seen[o].sub IN
  IF sub # NoRow /\ sub.expiresAt > now
  THEN [sub EXCEPT !.expiresAt = @ + Days[o], !.orderIds = @ \cup {o},
                   !.active = TRUE, !.notified = FALSE]
  ELSE [id |-> o, startsAt |-> now, expiresAt |-> now + Days[o], active |-> TRUE,
        orderIds |-> {o}, notified |-> FALSE]

\* The subscription is updated or created; the order becomes FULFILLED.
Fulfil(o) ==
  LET r == Granted(o)  u == UserOf[o] IN
  /\ stage[o] = "read"
  /\ ~Refused(r)
  /\ Write(r)
  /\ stage' = [stage EXCEPT ![o] = "done"]
  /\ seen' = [seen EXCEPT ![o] = Unread]
  /\ granted' = [granted EXCEPT ![u] = Later(@, seen[o].now) + Days[o]]
  /\ UNCHANGED <<clock, wiring, passVars>>

\* The write violates the unique index: fulfillOrder throws.
FulfilThrows(o) ==
  /\ stage[o] = "read"
  /\ Refused(Granted(o))
  /\ stage' = [stage EXCEPT ![o] = "refused"]
  /\ seen' = [seen EXCEPT ![o] = Unread]
  /\ UNCHANGED <<clock, wiring, rows, activeByUser, passVars, granted>>

-----------------------------------------------------------------------------
(* runOnce: sendExpiryReminders, then deactivateExpired *)

\* (mutant: reminded or not)
dueForReminderAgain(r, now) == r.expiresAt > now /\ r.expiresAt <= now + reminderWindow

dueForReminder(r, now) ==
  r.expiresAt > now /\ r.expiresAt <= now + reminderWindow /\ ~r.notified

ListExpiring(p) ==
  /\ pass[p].at = "idle"
  /\ serial => Quiet
  /\ pass' = [pass EXCEPT ![p] = [at |-> "remind", cur |-> NoRow,
                                  todo |-> {r \in ActiveRows : dueForReminder(r, clock)}]]
  /\ UNCHANGED <<clock, wiring, rows, activeByUser, stage, seen, reminded, marked, granted>>

\* notify is awaited; then the row as it was listed is marked and written back.
NotifyExpiring(p) ==
  /\ pass[p].at = "remind"
  /\ \E r \in pass[p].todo :
       /\ pass' = [pass EXCEPT ![p] = [at |-> "update", todo |-> pass[p].todo \ {r}, cur |-> r]]
       /\ reminded' = reminded \cup {Period(r)}
  /\ UNCHANGED <<clock, wiring, rows, activeByUser, stage, seen, marked, granted>>

MarkNotified(p) ==
  LET r == [pass[p].cur EXCEPT !.notified = TRUE] IN
  /\ pass[p].at = "update"
  /\ ~Refused(r)
  /\ Write(r)
  /\ marked' = marked \cup {Period(r)}
  /\ pass' = [pass EXCEPT ![p] = [at |-> "remind", todo |-> pass[p].todo, cur |-> NoRow]]
  /\ UNCHANGED <<clock, wiring, stage, seen, reminded, granted>>

\* (mutant: only subscriptions that were reminded are closed)
ListExpiredReminded(p) ==
  /\ pass[p].at = "remind" /\ pass[p].todo = {}
  /\ pass' = [pass EXCEPT ![p] = [at |-> "expire", cur |-> NoRow,
                                  todo |-> {r \in ActiveRows : r.expiresAt <= clock /\ r.notified}]]
  /\ UNCHANGED <<clock, wiring, rows, activeByUser, stage, seen, reminded, marked, granted>>

\* deactivateExpired reads the clock and the active rows again.
ListExpired(p) ==
  /\ pass[p].at = "remind" /\ pass[p].todo = {}
  /\ pass' = [pass EXCEPT ![p] = [at |-> "expire", cur |-> NoRow,
                                  todo |-> {r \in ActiveRows : r.expiresAt <= clock}]]
  /\ UNCHANGED <<clock, wiring, rows, activeByUser, stage, seen, reminded, marked, granted>>

Deactivate(p) ==
  /\ pass[p].at = "expire"
  /\ \E r \in pass[p].todo :
       /\ Write([r EXCEPT !.active = FALSE])
       /\ pass' = [pass EXCEPT ![p] = [at |-> "notify", todo |-> pass[p].todo \ {r}, cur |-> r]]
  /\ UNCHANGED <<clock, wiring, stage, seen, reminded, marked, granted>>

NotifyExpired(p) ==
  /\ pass[p].at = "notify"
  /\ pass' = [pass EXCEPT ![p] = [at |-> "expire", todo |-> pass[p].todo, cur |-> NoRow]]
  /\ UNCHANGED <<clock, wiring, rows, activeByUser, stage, seen, reminded, marked, granted>>

PassEnds(p) ==
  /\ pass[p].at = "expire" /\ pass[p].todo = {}
  /\ pass' = [pass EXCEPT ![p] = NoPass]
  /\ UNCHANGED <<clock, wiring, rows, activeByUser, stage, seen, reminded, marked, granted>>

\* Any await of a pass may reject (the notifier, an update, a listing) or be the
\* one at which the process dies: nothing catches it, and the rest is left undone.
PassFails(p) ==
  /\ pass[p].at # "idle"
  /\ pass' = [pass EXCEPT ![p] = NoPass]
  /\ UNCHANGED <<clock, wiring, rows, activeByUser, stage, seen, reminded, marked, granted>>

Tick ==
  /\ clock < MaxClock
  /\ clock' = clock + 1
  /\ UNCHANGED <<wiring, rows, activeByUser, stage, seen, passVars, granted>>

PassStep(p) ==
  \/ ListExpiring(p) \/ NotifyExpiring(p) \/ MarkNotified(p)
  \/ ListExpired(p) \/ Deactivate(p) \/ NotifyExpired(p) \/ PassEnds(p) \/ PassFails(p)

Next ==
  \/ \E o \in Orders : FindActive(o) \/ Fulfil(o) \/ FulfilThrows(o)
  \/ \E p \in Passes : PassStep(p)
  \/ Tick

MarkRefused(p) ==
  pass[p].at = "update" /\ Refused(pass[p].cur) /\ PassFails(p)

\* Timers keep ticking, and a call that may fail does not always fail: of each kind,
\* some pass's succeeds in the end. One pass may be stuck or fail for ever, but for
\* one whose write the index refuses: that fails at once.
Fairness ==
  /\ \A o \in Orders : WF_vars(Fulfil(o) \/ FulfilThrows(o))
  /\ WF_vars(\E p \in Passes : MarkRefused(p))
  /\ WF_vars(\E p \in Passes : ListExpiring(p) \/ NotifyExpired(p) \/ PassEnds(p))
  /\ SF_vars(\E p \in Passes : NotifyExpiring(p)) /\ SF_vars(\E p \in Passes : MarkNotified(p))
  /\ SF_vars(\E p \in Passes : ListExpired(p)) /\ SF_vars(\E p \in Passes : Deactivate(p))

Spec == Init /\ [][Next]_vars
FairSpec == Spec /\ Fairness

-----------------------------------------------------------------------------
(* Properties *)

\* Every duration granted stays in force: until the time the fulfilled orders of
\* a user entitle to, the user's active subscription reaches exactly that far.
\* fulfillOrder stacks "from whichever is later (now or current expiry)", and no
\* pass takes a renewal back.
PurchasesStack ==
  \A u \in Users :
    granted[u] > clock => /\ findActiveByUser(u) # NoRow
                          /\ findActiveByUser(u).expiresAt = granted[u]

\* The same as long as fulfilments and passes do not overlap, passes failing
\* anywhere: with a lapsed row still active, a renewal creates a second one, and
\* closing the first must not hide the second from findActiveByUser.
PurchasesStackSerially == serial => PurchasesStack

\* SubscriptionService "turns a PAID order into VPN access".
PaidIsFulfilled == serial => \A o \in Orders : stage[o] # "refused"

\* What is left of that: as long as nothing overlaps, a paid order is refused only
\* by SQL, and only where a lapsed subscription of the buyer is still active. A
\* renewal in time, and any order on the memory store, is fulfilled.
RefusedOnlyOverLapsed ==
  [][ \A o \in Orders : serial /\ stage'[o] = "refused" /\ stage[o] # "refused" =>
        /\ store = "sql"
        /\ \E r \in ActiveRows : UserOf[r.id] = UserOf[o] /\ r.expiresAt <= clock ]_vars

\* Whatever is written over whatever, a subscription lasts exactly as long as
\* the orders it lists: no interleaving gives time away or keeps an order on
\* record without its time.
LastsAsListed ==
  \A r \in Stored : r.expiresAt = r.startsAt + SumFunctionOnSet(Days, r.orderIds)

\* sendExpiryReminders: "once per period". The period is named by the orders, not
\* by its end: of two renewals that overwrite one another the second may end on the
\* day the first was reminded of, and is reminded again.
RemindedOnce ==
  [][ \A p \in Passes : pass'[p].at = "update" /\ pass[p].at = "remind"
        => Period(pass'[p].cur) \notin reminded ]_vars

\* What is left of that: once the mark of a period was written, no pass that
\* begins later reminds of it again, whatever renewals, stale writes of other
\* passes and failures came in between. A second reminder needs a pass that
\* listed the row before the mark: one that overlaps, or one after a failure
\* between the reminder and its mark.
MarkEndsReminders ==
  [][ \A p \in Passes : pass[p].at = "idle"
        => \A r \in pass'[p].todo : Period(r) \notin marked ]_vars

\* A reminder mark is about the orders the row lists: a renewal clears it, and a
\* pass that started before the renewal writes it only with the row it reminded
\* of, so no period goes without its reminder because of an older one.
MarkIsOfPeriod ==
  \A r \in Stored : r.notified => Period(r) \in reminded

Lapsed(o) == rows[o] # NoRow /\ rows[o].active /\ rows[o].expiresAt <= clock

\* deactivateExpired: access that has run out is taken away, or renewed.
LapsedIsClosed == \A o \in Orders : Lapsed(o) ~> ~Lapsed(o)

=============================================================================
