-------------------------- MODULE BookingProperties --------------------------
(***************************************************************************)
(* What the booking service and machine administration guarantee together, *)
(* and what their documentation says and concurrent requests break.        *)
(***************************************************************************)
EXTENDS MachineAdmin

\* Every variable holds a value of its type.
TypeOK ==
  /\ now \in Nat
  /\ machine \in [Machines -> MachineRow]
  /\ bookings \in [BookingIds -> BookingRow]
  /\ lock \in [Machines -> Workers \cup Admins \cup {None}]
  /\ barred \subseteq Students
  /\ job \in [Workers -> Job]
  /\ forced \subseteq BookingIds
  /\ overlapped \subseteq Students
  /\ admin \in [Admins -> AdminJob]

\* Two live bookings never overlap on one machine (SMOKE.md:142, "A machine can
\* never be held by two students at once"), although every check of a claim
\* except the last is made on values another request may have changed, and
\* although a change of hours re-cuts the grid under existing bookings.
NoDoubleBooking ==
  \A b, c \in BookingIds :
    /\ b # c
    /\ Live(b) /\ Live(c)
    /\ bookings[b].machine = bookings[c].machine
    => \/ bookings[b].end =< bookings[c].start
       \/ bookings[c].end =< bookings[b].start

\* The unique index is the last line of defence the comment at
\* laundry/services/booking.py:291 calls it: no claim that holds its machine's
\* row lock and has passed the overlap check can still run into it.
IndexNeverFires ==
  \A w \in Workers :
    job[w].stage = "write" => IndexAllows(job[w].machine, job[w].start, job[w].booking)

-----------------------------------------------------------------------------
(* The inductive invariant behind the two invariants above *)

\* A request past its first step knows the rows it works on.
RequestsNameRows ==
  /\ \A w \in Workers :
       /\ job[w].stage \in {"claim", "write"} => job[w].machine \in Machines
       /\ job[w].stage \in {"cancel", "committee"} => job[w].booking \in BookingIds
  /\ \A a \in Admins :
       /\ admin[a].stage # "idle" => admin[a].machine \in Machines /\ admin[a].row \in MachineRow
       /\ admin[a].stage = "toggle" => admin[a].offline \in BOOLEAN

\* A booking somebody works on was inserted before.
RowsExist ==
  /\ \A w \in Workers :
       job[w].booking # None => bookings[job[w].booking].status # "free"
  /\ \A a \in Admins : \A b \in admin[a].ids : bookings[b].status # "free"

SlotOf(r) == [start |-> r.start, end |-> r.end]

\* The interval of a live booking, and the one a claim wants, is a slot of some
\* grid, be it one the machine no longer has.
SlotsOnGrids ==
  /\ \A b \in BookingIds :
       Live(b) => bookings[b].machine \in Machines /\ SlotOf(bookings[b]) \in UNION Grids
  /\ \A w \in Workers :
       job[w].stage \in {"claim", "write"} => SlotOf(job[w]) \in UNION Grids

\* Between its overlap query and its COMMIT a claim holds its machine's row, and
\* what the query found free is still free.
WritersHoldTheSlot ==
  \A w \in Workers :
    LET j == job[w] IN
    j.stage = "write" =>
      /\ lock[j.machine] = w
      /\ Overlapping(j.machine, j.start, j.end, j.booking) = {}

\* The transaction that takes a machine offline, from its save to its COMMIT.
TakingOffline(a) ==
  admin[a].stage = "drop" /\ admin[a].offline = TRUE /\ ~admin[a].row.offline

\* It holds the machine's row and has listed every live future booking.
OfflineListsAll ==
  \A a \in Admins :
    /\ admin[a].stage = "sweep" => admin[a].row.offline
    /\ admin[a].stage \in {"hours", "strand"} => admin[a].offline = None
    /\ TakingOffline(a) =>
         /\ lock[admin[a].machine] = a
         /\ FutureBookings(admin[a].machine) \subseteq admin[a].ids

\* Administration locks a machine's row for nothing else.
AdminsLockToTakeOffline ==
  \A a \in Admins, m \in Machines :
    lock[m] = a => TakingOffline(a) /\ admin[a].machine = m

\* What every step of the system preserves.
IInv ==
  /\ TypeOK
  /\ RequestsNameRows
  /\ RowsExist
  /\ SlotsOnGrids
  /\ WritersHoldTheSlot
  /\ NoDoubleBooking
  /\ OfflineListsAll
  /\ AdminsLockToTakeOffline

-----------------------------------------------------------------------------
(* What a step may never do, histories and progress *)

\* A cancelled booking stays cancelled.  A move that read the booking before it
\* was cancelled still writes its columns, and must not bring it back.  This is
\* what ImplementsSlotClaims says of cancelled bookings, in the table's terms.
CancelledIsFinal ==
  [][\A b \in BookingIds :
       bookings[b].status = "cancelled" => bookings'[b].status = "cancelled"]_vars

\* The weeks in which some slot starts.
Weeks == {QuotaWeek(slot.start) : slot \in UNION Grids}

\* A student exceeds a weekly quota only by having had two requests in flight
\* at once: one request at a time, the unlocked quota check is exact whatever
\* other students and the committee do meanwhile.
QuotaHeldWithoutOverlap ==
  \A s \in Students \ overlapped, k \in Kinds, week \in Weeks :
    (k = "washer" \/ DryerCap) =>
      QuotaUsed(bookings, s, k, week, None) =< QuotaLimit

\* A cancelled booking uses up quota only if it was a late cancellation, unless
\* the institute cancelled it or its student had two requests in flight at once:
\* the flags a move or a cancellation writes were computed from an earlier read.
CancelledCountsOnlyIfLate ==
  \A b \in BookingIds :
    /\ bookings[b].status = "cancelled" /\ bookings[b].counts
    /\ bookings[b].student \notin overlapped /\ b \notin forced
    => bookings[b].late

\* A request about to save a machine that was offline when it was loaded.
LoadedOffline(a, m) ==
  /\ admin[a].stage \in {"toggle", "patch"}
  /\ admin[a].machine = m /\ admin[a].row.offline

\* set_machine_offline saves the machine before it lists the bookings to cancel,
\* so no claim can slip in between: a step that turns a machine offline leaves no
\* live future booking on it, not even one whose claim was running.  The single
\* exception is an administrator who had loaded the machine while it was offline,
\* before another brought it back: that save turns it offline again and cancels
\* nothing, whether it is a toggle or a PATCH that writes every column.
OfflineCancelsAll ==
  [][\A m \in Machines :
       ~machine[m].offline /\ machine'[m].offline =>
         \/ FutureBookings(m)' = {}
         \/ \E a \in Admins : LoadedOffline(a, m) /\ admin'[a] # admin[a]]_vars

\* A claim that waits for its machine's row lock is settled in the end, however
\* many moves and administration requests compete for the same row, and although
\* any of them may die while it holds the lock.
ClaimsSettle ==
  \A w \in Workers : job[w].stage = "claim" ~> job[w].stage \notin {"claim", "write"}

\* An administration request, which may need the row lock several times over and
\* goes through up to three stages, ends in the same circumstances.
AdminRequestsEnd ==
  \A a \in Admins : admin[a].stage # "idle" ~> admin[a].stage = "idle"

PlaceOf(r) == [machine |-> r.machine, slot |-> SlotOf(r)]

\* What the booking table shows of the claims.
Shown(row) ==
  CASE row.status = "live" -> [state |-> "held", place |-> PlaceOf(row)]
    [] row.status = "cancelled" -> [state |-> "gone", place |-> None]
    [] OTHER -> [state |-> "fresh", place |-> None]

ClaimView == [b \in BookingIds |-> Shown(bookings[b])]

Implemented ==
  INSTANCE SlotClaims WITH Claims <- BookingIds, Slots <- UNION Grids, claim <- ClaimView

\* The booking table implements atomic, exclusive claims.
ImplementsSlotClaims == Implemented!Spec

-----------------------------------------------------------------------------
(* What the documentation says without a proviso, and concurrent requests   *)
(* refute.                                                                  *)

\* base/apidocs.py:32-35: every booking path enforces the weekly quota.  Two
\* requests of one student both read it before either has written.
QuotaHeld ==
  \A s \in Students, k \in Kinds, week \in Weeks :
    QuotaUsed(bookings, s, k, week, None) =< QuotaLimit

\* base/apidocs.py:187-189: a booking fails if the machine is offline.  The claim
\* transaction does not look at is_offline again once it has the machine's row.
OfflineRefusesClaims ==
  [][\A b \in BookingIds :
       LET m == bookings'[b].machine IN
       /\ bookings'[b].status = "live" /\ bookings'[b] # bookings[b]
       => ~machine[m].offline]_vars

\* laundry/services/machines.py:77-78: a cancellation by the institute never
\* counts against quota and is never marked late.  A move that read the booking
\* before writes its flag afterwards.
ForcedNeverCounts ==
  \A b \in forced : ~bookings[b].counts /\ ~bookings[b].late
=============================================================================
