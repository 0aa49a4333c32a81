------------------------------ MODULE Exchanges ------------------------------
(***************************************************************************)
(* Exchanges (laundry/services/exchanges.py): a student asks for another   *)
(* student's booking, or offers one of their own for it, and the holder    *)
(* approves or declines.  There is no scheduler: exchanges whose bookings  *)
(* are gone or have started are expired by the requests that come across   *)
(* them.  Calls of the exchange API run next to the requests of Booking    *)
(* and MachineAdmin.                                                       *)
(*                                                                         *)
(* An answer locks the exchange with a query that joins offered_booking, a *)
(* nullable column, so the join is an outer one.  PostgreSQL refuses FOR   *)
(* UPDATE on the nullable side of an outer join, whatever the data, and    *)
(* SQLite has no FOR UPDATE but runs the whole transaction alone.          *)
(***************************************************************************)
EXTENDS MachineAdmin

CONSTANTS
  ExchangeIds,
  Callers,     \* calls of the exchange API in flight at once
  Databases    \* the engines that may be behind the ORM

ASSUME ExchangeAssumption ==
  /\ Databases \subseteq {"postgresql", "sqlite"}
  /\ None \notin ExchangeIds

VARIABLES
  database,  \* the engine of this deployment
  exchange,  \* the Exchange table; a row that was never inserted is "free"
  call,      \* what each call is doing and the values it has read
  crossed    \* history, read by properties only: students who were handed a
             \* booking while a request of theirs or for it was in flight

exchangeVars == <<database, exchange, call, crossed>>
allVars == <<vars, exchangeVars>>

-----------------------------------------------------------------------------
(* Tables *)

\* An exchange is a swap when a booking is offered and a request otherwise.
\* A withdrawn exchange is rejected, with a reason of its own.
ExchangeRow ==
  [ status    : {"free", "pending", "approved", "rejected", "expired", "failed"},
    requester : Students \cup {None},
    holder    : Students \cup {None},
    target    : BookingIds \cup {None},
    offered   : BookingIds \cup {None} ]

FreeExchange ==
  [ status |-> "free", requester |-> None, holder |-> None, target |-> None,
    offered |-> None ]

Pending(x) == exchange[x].status = "pending"

\* Booking b is live, has not started and belongs to student s.
Held(b, s, at) == Live(b) /\ bookings[b].start > at /\ bookings[b].student = s

\* _is_stale
IsStale(x, at) ==
  LET e == exchange[x] IN
  \/ ~Held(e.target, e.holder, at)
  \/ e.offered # None /\ ~Held(e.offered, e.requester, at)

\* What expire_stale_pendings finds for student s.
StalePendings(s, at) ==
  { x \in ExchangeIds :
      Pending(x) /\ s \in {exchange[x].requester, exchange[x].holder} /\ IsStale(x, at) }

-----------------------------------------------------------------------------
(* Calls *)

Answers == {"approve", "reject", "withdraw"}

CallStages == {"idle", "visit", "serve", "approve", "insert"}

Call ==
  [ stage    : CallStages,
    op       : {"list", "offer"} \cup Answers \cup {None},
    student  : Students \cup {None},
    exchange : ExchangeIds \cup {None},       \* the exchange answered
    stale    : SUBSET ExchangeIds,            \* found stale, not yet expired
    row      : ExchangeRow,                   \* the row to insert
    at       : Nat ]                          \* the call's `now`

NoCall ==
  [ stage |-> "idle", op |-> None, student |-> None, exchange |-> None,
    stale |-> {}, row |-> FreeExchange, at |-> 0 ]

CallGoesTo(c, stage) == call' = [call EXCEPT ![c].stage = stage]

CallDone(c) == call' = [call EXCEPT ![c] = NoCall]

\* Every call begins with a query for the student's stale exchanges.
BeginCall(c, s, op, stage, x) ==
  /\ op \in Ops
  /\ call[c].stage = "idle"
  /\ call' = [call EXCEPT ![c] =
       [NoCall EXCEPT !.stage = stage, !.op = op, !.student = s, !.exchange = x,
                      !.stale = StalePendings(s, now), !.at = now]]
  /\ UNCHANGED <<vars, database, exchange, crossed>>

\* exchanges_qs
BeginList(c, s) == BeginCall(c, s, "list", "serve", None)

\* create_exchange up to its checks
BeginOffer(c, s) == CanMutate(s) /\ BeginCall(c, s, "offer", "serve", None)

\* The views of approve, reject and withdraw load the exchange
\* (get_exchange_for_student) before they call the service.  A student who has
\* no part in it or the wrong one is refused, having done what a list does.
BeginAnswer(c, s, op, x) ==
  /\ exchange[x].status # "free"
  /\ s = IF op = "withdraw" THEN exchange[x].requester ELSE exchange[x].holder
  /\ op = "approve" => CanMutate(s)
  /\ BeginCall(c, s, op, "visit", x)

\* _mark_expired: an UPDATE by primary key for each row found, whatever has
\* become of it.
ExpireNext(c) ==
  \E x \in call[c].stale :
    /\ exchange' = [exchange EXCEPT ![x].status = "expired"]
    /\ call' = [call EXCEPT ![c].stale = @ \ {x}]
    /\ UNCHANGED <<vars, database, crossed>>

\* The service takes a new `now` and looks for stale exchanges again.  (Its gate
\* for an approval looks at the student that the request loaded when it passed
\* the same gate, and so never refuses.)
Revisit(c) ==
  LET k == call[c] IN
  /\ k.stage = "visit" /\ k.stale = {}
  /\ call' = [call EXCEPT ![c].stage = "serve", ![c].at = now,
                          ![c].stale = StalePendings(k.student, now)]
  /\ UNCHANGED <<vars, database, exchange, crossed>>

Serving(c) == call[c].stage = "serve" /\ call[c].stale = {}

\* A list is returned, or an offer that fails a check is refused.
FinishCall(c) ==
  /\ Serving(c) /\ call[c].op \in {"list", "offer"}
  /\ CallDone(c)
  /\ UNCHANGED <<vars, database, exchange, crossed>>

-----------------------------------------------------------------------------
(* Creating an exchange *)

\* Bound on the exchanges ever made.
ExchangeLeft ==
  Cardinality({x \in ExchangeIds : exchange[x].status = "free"})
    > Cardinality({c \in Callers : call[c].stage = "insert"})

\* The queries for pending exchanges that offer the same booking, or in which
\* the student asks for the same one.
NotAskedYet(s, target, offered) ==
  \A x \in ExchangeIds :
    Pending(x) =>
      /\ offered # None => exchange[x].offered # offered
      /\ <<exchange[x].requester, exchange[x].target>> # <<s, target>>

\* create_exchange's checks.  The rules are left to the approval.
CheckOffer(c, target, offered) ==
  LET s == call[c].student
      at == call[c].at
      holder == bookings[target].student
  IN
  /\ Serving(c) /\ call[c].op = "offer"
  /\ ExchangeLeft
  /\ holder # s /\ Held(target, holder, at)
  /\ machine[bookings[target].machine].active
  /\ offered # None => Held(offered, s, at)
  /\ NotAskedYet(s, target, offered)
  /\ call' = [call EXCEPT
       ![c].stage = "insert",
       ![c].row = [status |-> "pending", requester |-> s, holder |-> holder,
                   target |-> target, offered |-> offered]]
  /\ UNCHANGED <<vars, database, exchange, crossed>>

\* INSERT, which no constraint of the table can refuse.
InsertOffer(c) ==
  /\ call[c].stage = "insert"
  /\ \E x \in ExchangeIds :
       /\ exchange[x].status = "free"
       /\ exchange' = [exchange EXCEPT ![x] = call[c].row]
  /\ CallDone(c)
  /\ UNCHANGED <<vars, database, crossed>>

-----------------------------------------------------------------------------
(* Answering an exchange *)

\* approve_exchange reads the exchange once more before its transaction.
PrecheckApproval(c) ==
  /\ Serving(c) /\ call[c].op = "approve"
  /\ IF Pending(call[c].exchange) THEN CallGoesTo(c, "approve") ELSE CallDone(c)
  /\ UNCHANGED <<vars, database, exchange, crossed>>

\* Call c is about to open the transaction that answers its exchange.
AtTransaction(c) ==
  \/ call[c].stage = "approve"
  \/ Serving(c) /\ call[c].op \in {"reject", "withdraw"}

\* PostgreSQL raises on the query that locks the exchange: HTTP 500.
LockingRefused(c) ==
  /\ AtTransaction(c)
  /\ database = "postgresql"
  /\ CallDone(c)
  /\ UNCHANGED <<vars, database, exchange, crossed>>

\* On SQLite, BEGIN IMMEDIATE waits until no other transaction writes.
Alone(c) ==
  /\ AtTransaction(c)
  /\ database = "sqlite"
  /\ \A m \in Machines : lock[m] = None

\* The transaction of an answer that hands over nothing.
Resolve(c, status) ==
  /\ exchange' = [exchange EXCEPT ![call[c].exchange].status = status]
  /\ CallDone(c)
  /\ UNCHANGED <<vars, database, crossed>>

\* Somebody else's answer or expiry came first.
AlreadySettled(c) ==
  /\ Alone(c)
  /\ ~Pending(call[c].exchange)
  /\ CallDone(c)
  /\ UNCHANGED <<vars, database, exchange, crossed>>

\* Fault: an answer trusts the status it read before its transaction.
OpenWithoutRecheck(c) == Alone(c) /\ ~IsStale(call[c].exchange, call[c].at)

\* The exchange, read again inside the transaction, is pending and not stale.
Open(c) ==
  Alone(c) /\ Pending(call[c].exchange) /\ ~IsStale(call[c].exchange, call[c].at)

FoundStale(c) ==
  /\ Alone(c)
  /\ Pending(call[c].exchange) /\ IsStale(call[c].exchange, call[c].at)
  /\ Resolve(c, "expired")

\* Fault: a withdrawal has a status of its own, which the column does not know.
DeclineOrWithdraw(c) ==
  /\ call[c].op # "approve"
  /\ Open(c)
  /\ Resolve(c, IF call[c].op = "withdraw" THEN "withdrawn" ELSE "rejected")

\* reject_exchange and withdraw_exchange
Decline(c) == call[c].op # "approve" /\ Open(c) /\ Resolve(c, "rejected")

\* Fault: an approval relies on rules checked when the exchange was made.
MayTakeByGate(s, b, at, exclude) ==
  /\ CanMutate(s)
  /\ machine[bookings[b].machine].active /\ ~machine[bookings[b].machine].offline

\* _eligibility_reason: student s may take over booking b.
MayTake(s, b, at, exclude) ==
  LET m == bookings[b].machine IN
  /\ CanMutate(s)
  /\ machine[m].active /\ ~machine[m].offline
  /\ RulesAllow(bookings, s, m, bookings[b].start, at, exclude)

\* Each side is judged as if what it gives away were gone.
Eligible(x, at) ==
  LET e == exchange[x] IN
  /\ MayTake(e.requester, e.target, at, e.offered)
  /\ e.offered # None => MayTake(e.holder, e.offered, at, e.target)

FailApproval(c) ==
  /\ call[c].op = "approve" /\ Open(c)
  /\ ~Eligible(call[c].exchange, call[c].at)
  /\ Resolve(c, "failed")

\* Fault: the offered booking's new student is not saved.
HandedOverTargetOnly(x) ==
  [bookings EXCEPT ![exchange[x].target].student = exchange[x].requester]

\* The bookings once x is approved.  A swap leaves counts_against_quota alone.
HandedOver(x) ==
  LET e == exchange[x] IN
  [b \in BookingIds |->
    CASE b = e.target /\ e.offered = None ->
           [bookings[b] EXCEPT !.student = e.requester,
                               !.counts = CountsTowardQuota(bookings[b].machine)]
      [] b = e.target /\ e.offered # None -> [bookings[b] EXCEPT !.student = e.requester]
      [] b = e.offered -> [bookings[b] EXCEPT !.student = e.holder]
      [] OTHER -> bookings[b]]

\* Somebody's request that works on what x hands over, or for who receives it.
Crossing(x, s, b) == \E w \in Workers : job[w].student = s \/ job[w].booking = b

HandOver(c) ==
  LET x == call[c].exchange
      e == exchange[x]
  IN
  /\ call[c].op = "approve" /\ Open(c)
  /\ Eligible(x, call[c].at)
  /\ bookings' = HandedOver(x)
  /\ exchange' = [exchange EXCEPT ![x].status = "approved"]
  /\ crossed' = crossed
       \cup (IF Crossing(x, e.requester, e.target) THEN {e.requester} ELSE {})
       \cup (IF e.offered # None /\ Crossing(x, e.holder, e.offered) THEN {e.holder} ELSE {})
  /\ CallDone(c)
  /\ UNCHANGED <<now, machine, lock, barred, job, forced, overlapped, admin, database>>

\* The worker of a call dies before its next write.
CallCrash(c) ==
  /\ "crash" \in Ops
  /\ call[c].stage # "idle"
  /\ CallDone(c)
  /\ UNCHANGED <<vars, database, exchange, crossed>>

-----------------------------------------------------------------------------

BeginStep(c) ==
  \E s \in Students :
    \/ BeginList(c, s)
    \/ BeginOffer(c, s)
    \/ \E op \in Answers, x \in ExchangeIds : BeginAnswer(c, s, op, x)

OfferStep(c) ==
  \/ \E target \in BookingIds, offered \in BookingIds \cup {None} : CheckOffer(c, target, offered)
  \/ InsertOffer(c)

AnswerStep(c) ==
  \/ PrecheckApproval(c)
  \/ LockingRefused(c)
  \/ AlreadySettled(c)
  \/ FoundStale(c)
  \/ Decline(c)
  \/ FailApproval(c)
  \/ HandOver(c)

CallStep(c) ==
  \/ BeginStep(c) \/ ExpireNext(c) \/ Revisit(c) \/ FinishCall(c)
  \/ OfferStep(c) \/ AnswerStep(c) \/ CallCrash(c)

ExchangeInit ==
  /\ AdminInit
  /\ database \in Databases
  /\ exchange = [x \in ExchangeIds |-> FreeExchange]
  /\ call = [c \in Callers |-> NoCall]
  /\ crossed = {}

ExchangeNext ==
  \/ Next /\ UNCHANGED exchangeVars
  \/ \E c \in Callers : CallStep(c)

ExchangeSpec == ExchangeInit /\ [][ExchangeNext]_allVars
=============================================================================
