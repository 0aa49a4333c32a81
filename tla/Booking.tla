------------------------------- MODULE Booking -------------------------------
(***************************************************************************)
(* The booking service: students create, move and cancel bookings, and the *)
(* committee cancels one (laundry/services/booking.py and                  *)
(* laundry/views/admin_bookings.py).                                       *)
(*                                                                         *)
(* Each request runs in a worker.  What a request reads before its         *)
(* transaction is one step, and the values it keeps (its job) may be stale *)
(* when a later step writes.  A claim locks the row of the machine it      *)
(* wants, looks for an overlapping live booking and writes; the lock is    *)
(* held between those statements, and every other transaction may run      *)
(* there.  This is PostgreSQL at READ COMMITTED, the deployed database;    *)
(* SQLite, which runs a whole transaction alone, has a subset of these     *)
(* behaviours.                                                             *)
(***************************************************************************)
EXTENDS FairnessRules

CONSTANTS
  Students, Machines, BookingIds,
  Workers,   \* requests of students and of the committee in flight at once
  Admins,    \* machine-administration requests in flight at once
  None,      \* SQL NULL, and "nobody"
  Grids,     \* the slot grids an operating window and a slot length can derive
  MaxTime,   \* bound on the clock
  Ops        \* the kinds of request that arrive

ASSUME BookingAssumption ==
  /\ None \notin Students \cup Machines \cup BookingIds \cup Workers \cup Admins
  /\ None \notin BOOLEAN
  /\ Workers \cap Admins = {}
  /\ Kind \in [Machines -> Kinds]
  /\ MaxTime \in Nat
  /\ \A grid \in Grids : grid \subseteq [start : Nat, end : Nat]
  /\ \A grid \in Grids : \A slot \in grid : slot.start < slot.end

VARIABLES
  now,       \* timezone.now()
  machine,   \* the Machine table
  bookings,  \* the Booking table; a row that was never inserted is "free"
  lock,      \* who holds the row lock of each machine
  barred,    \* students assert_can_mutate refuses: unverified or suspended
  job,       \* what each worker is doing and the values it has read
  \* history variables, read by properties only
  forced,    \* bookings the institute cancelled
  overlapped \* students who had two requests in flight at once

bookingVars == <<now, machine, bookings, lock, barred, job, forced, overlapped>>

-----------------------------------------------------------------------------
(* Tables *)

MachineRow == [active : BOOLEAN, offline : BOOLEAN, grid : Grids]

\* status stands for cancelled_at: "live" when it is null.
BookingRow ==
  [ status  : {"free", "live", "cancelled"},
    student : Students \cup {None},
    machine : Machines \cup {None},
    start   : Nat,
    end     : Nat,
    counts  : BOOLEAN,    \* counts_against_quota
    late    : BOOLEAN ]   \* is_late_cancel

FreeRow ==
  [ status |-> "free", student |-> None, machine |-> None, start |-> 0, end |-> 0,
    counts |-> FALSE, late |-> FALSE ]

Live(b) == bookings[b].status = "live"

\* Fault: a cancellation that leaves counts_against_quota as it is.
CancelledRowStillCounting(row, late, counts) ==
  [row EXCEPT !.status = "cancelled", !.late = late]

\* A cancellation's UPDATE: cancelled_at, is_late_cancel, counts_against_quota.
CancelledRow(row, late, counts) ==
  [row EXCEPT !.status = "cancelled", !.late = late, !.counts = counts]

\* Fault: two bookings clash only when they start together.
OverlappingSameStart(m, start, end, exclude) ==
  { b \in BookingIds \ {exclude} :
      Live(b) /\ bookings[b].machine = m /\ bookings[b].start = start }

\* overlapping_bookings: live bookings of m that intersect [start, end).
Overlapping(m, start, end, exclude) ==
  { b \in BookingIds \ {exclude} :
      /\ Live(b)
      /\ bookings[b].machine = m
      /\ bookings[b].start < end
      /\ bookings[b].end > start }

\* Fault: a transaction that ends without freeing its locks.
ReleasedNever(x) == lock

\* COMMIT or ROLLBACK frees the row locks of transaction x.
Released(x) == [m \in Machines |-> IF lock[m] = x THEN None ELSE lock[m]]

\* The partial unique index uniq_active_booking_machine_start.
IndexAllows(m, start, exclude) ==
  \A b \in BookingIds \ {exclude} :
    Live(b) => <<bookings[b].machine, bookings[b].start>> # <<m, start>>

-----------------------------------------------------------------------------
(* Jobs *)

Stages == {"idle", "batch", "claim", "write", "cancel", "committee"}

Job ==
  [ stage   : Stages,
    student : Students \cup {None},
    booking : BookingIds \cup {None},   \* None while a new row is to be inserted
    machine : Machines \cup {None},     \* the claim's machine and interval
    start   : Nat,
    end     : Nat,
    counts  : BOOLEAN,                  \* the flags to write
    late    : BOOLEAN,
    at      : Nat ]                     \* the request's `now`

NoJob ==
  [ stage |-> "idle", student |-> None, booking |-> None, machine |-> None,
    start |-> 0, end |-> 0, counts |-> FALSE, late |-> FALSE, at |-> 0 ]

\* assert_can_mutate, the gate of every request of a student.
CanMutate(s) == s \notin barred

Creating(w) == job[w].stage \in {"claim", "write"} /\ job[w].booking = None

\* Bound on the bookings ever made: a claim starts only if a row is left for it.
RowLeft ==
  Cardinality({b \in BookingIds : bookings[b].status = "free"})
    > Cardinality({w \in Workers : Creating(w)})

\* Student s sends a request that worker w takes, with the job it read.
Begin(w, s, op, newJob) ==
  /\ op \in Ops
  /\ job[w].stage = "idle"
  /\ job' = [job EXCEPT ![w] = newJob]
  /\ overlapped' = IF \E v \in Workers : job[v].student = s
                   THEN overlapped \cup {s} ELSE overlapped

\* create_bookings goes on with the next item of the batch, with the same `now`.
NextItem(w) ==
  [NoJob EXCEPT !.stage = "batch", !.student = job[w].student, !.at = job[w].at]

\* Where a claim goes when it is settled: a create to its next item, a move ends.
AfterClaim(w) == IF job[w].booking = None THEN NextItem(w) ELSE NoJob

Init ==
  /\ now = 0
  /\ machine \in [Machines -> [active : {TRUE}, offline : BOOLEAN, grid : Grids]]
  /\ bookings = [b \in BookingIds |-> FreeRow]
  /\ lock = [m \in Machines |-> None]
  /\ barred = {}
  /\ job = [w \in Workers |-> NoJob]
  /\ forced = {}
  /\ overlapped = {}

-----------------------------------------------------------------------------
(* Creating bookings *)

\* create_bookings: the gate, once for the whole batch.
BeginCreate(w, s) ==
  /\ CanMutate(s)
  /\ Begin(w, s, "create", [NoJob EXCEPT !.stage = "batch", !.student = s, !.at = now])
  /\ UNCHANGED <<now, machine, bookings, lock, barred, forced>>

\* What both kinds of claim require of the machine and the slot they want.
Bookable(m, slot) ==
  machine[m].active /\ ~machine[m].offline /\ slot \in machine[m].grid

\* _create_one up to its transaction: one item passes every check.  An item that
\* is refused here changes nothing and the batch goes on.
CheckItem(w, m, slot) ==
  /\ job[w].stage = "batch"
  /\ RowLeft
  /\ Bookable(m, slot)
  /\ RulesAllow(bookings, job[w].student, m, slot.start, job[w].at, None)
  /\ job' = [job EXCEPT ![w].stage = "claim", ![w].machine = m,
                        ![w].start = slot.start, ![w].end = slot.end,
                        ![w].counts = CountsTowardQuota(m)]
  /\ UNCHANGED <<now, machine, bookings, lock, barred, forced, overlapped>>

\* The batch has no further item: the response is sent.
FinishBatch(w) ==
  /\ job[w].stage = "batch"
  /\ job' = [job EXCEPT ![w] = NoJob]
  /\ UNCHANGED <<now, machine, bookings, lock, barred, forced, overlapped>>

-----------------------------------------------------------------------------
(* Moving a booking: get_own_booking and move_booking up to its transaction *)

BeginMove(w, s, b, m, slot) ==
  /\ CanMutate(s)
  /\ Live(b) /\ bookings[b].student = s /\ bookings[b].start > now
  /\ Bookable(m, slot)
  /\ Kind[m] = Kind[bookings[b].machine]
  /\ <<m, slot.start>> # <<bookings[b].machine, bookings[b].start>>
  /\ RulesAllow(bookings, s, m, slot.start, now, b)
  /\ Begin(w, s, "move",
       [NoJob EXCEPT !.stage = "claim", !.student = s, !.booking = b, !.machine = m,
                     !.start = slot.start, !.end = slot.end,
                     !.counts = CountsTowardQuota(m), !.at = now])
  /\ UNCHANGED <<now, machine, bookings, lock, barred, forced>>

-----------------------------------------------------------------------------
(* The claim transaction, the same for a create and a move *)

\* Fault: the overlap query without select_for_update before it.
CheckWithoutLock(w) ==
  LET j == job[w] IN
  /\ j.stage = "claim"
  /\ Overlapping(j.machine, j.start, j.end, j.booking) = {}
  /\ job' = [job EXCEPT ![w].stage = "write"]
  /\ UNCHANGED <<now, machine, bookings, lock, barred, forced, overlapped>>

\* _lock_machine waits for the row lock; the overlap query that follows finds
\* the interval free.
LockAndCheck(w) ==
  LET j == job[w] IN
  /\ j.stage = "claim"
  /\ lock[j.machine] = None
  /\ Overlapping(j.machine, j.start, j.end, j.booking) = {}
  /\ lock' = [lock EXCEPT ![j.machine] = w]
  /\ job' = [job EXCEPT ![w].stage = "write"]
  /\ UNCHANGED <<now, machine, bookings, barred, forced, overlapped>>

\* The same query finds a booking: SLOT_TAKEN, and the transaction ends.
SlotTaken(w) ==
  LET j == job[w] IN
  /\ j.stage = "claim"
  /\ lock[j.machine] = None
  /\ Overlapping(j.machine, j.start, j.end, j.booking) # {}
  /\ job' = [job EXCEPT ![w] = AfterClaim(w)]
  /\ UNCHANGED <<now, machine, bookings, lock, barred, forced, overlapped>>

\* Fault: save() without update_fields writes the stale cancelled_at as well.
ClaimedRowInFull(row, j) ==
  [row EXCEPT !.status = "live", !.machine = j.machine, !.start = j.start,
              !.end = j.end, !.counts = j.counts, !.late = FALSE]

\* The row a claim writes: save(update_fields=...) of a move leaves student and
\* cancelled_at as they are in the table.
ClaimedRow(row, j) ==
  [row EXCEPT !.machine = j.machine, !.start = j.start, !.end = j.end,
              !.counts = j.counts, !.late = FALSE]

NewRow(j) ==
  ClaimedRow([FreeRow EXCEPT !.status = "live", !.student = j.student], j)

\* INSERT and COMMIT.  An IntegrityError of the unique index inserts nothing.
WriteCreate(w) ==
  LET j == job[w] IN
  /\ j.stage = "write" /\ j.booking = None
  /\ \E b \in BookingIds :
       /\ bookings[b].status = "free"
       /\ bookings' = IF IndexAllows(j.machine, j.start, None)
                      THEN [bookings EXCEPT ![b] = NewRow(j)] ELSE bookings
  /\ lock' = Released(w)
  /\ job' = [job EXCEPT ![w] = AfterClaim(w)]
  /\ UNCHANGED <<now, machine, barred, forced, overlapped>>

\* UPDATE and COMMIT, whatever has become of the booking since it was read.
WriteMove(w) ==
  LET j == job[w] IN
  /\ j.stage = "write" /\ j.booking # None
  /\ bookings' = IF Live(j.booking) => IndexAllows(j.machine, j.start, j.booking)
                 THEN [bookings EXCEPT ![j.booking] = ClaimedRow(@, j)] ELSE bookings
  /\ lock' = Released(w)
  /\ job' = [job EXCEPT ![w] = AfterClaim(w)]
  /\ UNCHANGED <<now, machine, barred, forced, overlapped>>

-----------------------------------------------------------------------------
(* Cancelling a booking *)

\* get_own_booking and cancel_booking up to its save, which computes the flags
\* from the row as it was read.
BeginCancel(w, s, b) ==
  /\ CanMutate(s)
  /\ Live(b) /\ bookings[b].student = s /\ bookings[b].start > now
  /\ LET late == IsLateCancel(bookings[b].start, now)
     IN Begin(w, s, "cancel",
          [NoJob EXCEPT !.stage = "cancel", !.student = s, !.booking = b,
                        !.late = late, !.counts = late /\ bookings[b].counts,
                        !.at = now])
  /\ UNCHANGED <<now, machine, bookings, lock, barred, forced>>

SaveCancel(w) ==
  /\ job[w].stage = "cancel"
  /\ bookings' = [bookings EXCEPT
       ![job[w].booking] = CancelledRow(@, job[w].late, job[w].counts)]
  /\ job' = [job EXCEPT ![w] = NoJob]
  /\ UNCHANGED <<now, machine, lock, barred, forced, overlapped>>

\* admin_cancel_booking: the checks on the row the view loaded, then the write.
BeginCommitteeCancel(w, b) ==
  /\ "committee" \in Ops
  /\ job[w].stage = "idle"
  /\ Live(b) /\ bookings[b].start > now
  /\ job' = [job EXCEPT ![w] = [NoJob EXCEPT !.stage = "committee", !.booking = b]]
  /\ UNCHANGED <<now, machine, bookings, lock, barred, forced, overlapped>>

SaveCommitteeCancel(w) ==
  /\ job[w].stage = "committee"
  /\ bookings' = [bookings EXCEPT ![job[w].booking] = CancelledRow(@, FALSE, FALSE)]
  /\ forced' = forced \cup {job[w].booking}
  /\ job' = [job EXCEPT ![w] = NoJob]
  /\ UNCHANGED <<now, machine, lock, barred, overlapped>>

-----------------------------------------------------------------------------
(* The environment *)

\* A worker dies or its connection drops before COMMIT: the transaction rolls
\* back and PostgreSQL frees its locks.
Crash(w) ==
  /\ "crash" \in Ops
  /\ job[w].stage # "idle"
  /\ lock' = Released(w)
  /\ job' = [job EXCEPT ![w] = NoJob]
  /\ UNCHANGED <<now, machine, bookings, barred, forced, overlapped>>

\* An administrator suspends a student.
Suspend(s) ==
  /\ "suspend" \in Ops
  /\ s \notin barred
  /\ barred' = barred \cup {s}
  /\ UNCHANGED <<now, machine, bookings, lock, job, forced, overlapped>>

\* The suspension is lifted or has run out.
Unsuspend(s) ==
  /\ s \in barred
  /\ barred' = barred \ {s}
  /\ UNCHANGED <<now, machine, bookings, lock, job, forced, overlapped>>

Tick ==
  /\ now < MaxTime
  /\ now' = now + 1
  /\ UNCHANGED <<machine, bookings, lock, barred, job, forced, overlapped>>

CreateStep(w) ==
  \/ \E s \in Students : BeginCreate(w, s)
  \/ \E m \in Machines : \E slot \in machine[m].grid : CheckItem(w, m, slot)
  \/ FinishBatch(w)

MoveStep(w) ==
  \E s \in Students, b \in BookingIds, m \in Machines :
    \E slot \in machine[m].grid : BeginMove(w, s, b, m, slot)

ClaimStep(w) == LockAndCheck(w) \/ SlotTaken(w) \/ WriteCreate(w) \/ WriteMove(w)

CancelStep(w) ==
  \/ \E s \in Students, b \in BookingIds : BeginCancel(w, s, b)
  \/ SaveCancel(w)
  \/ \E b \in BookingIds : BeginCommitteeCancel(w, b)
  \/ SaveCommitteeCancel(w)

WorkerStep(w) ==
  CreateStep(w) \/ MoveStep(w) \/ ClaimStep(w) \/ CancelStep(w) \/ Crash(w)

EnvironmentStep == Tick \/ \E s \in Students : Suspend(s) \/ Unsuspend(s)

BookingNext == EnvironmentStep \/ \E w \in Workers : WorkerStep(w)
=============================================================================
