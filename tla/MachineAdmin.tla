---------------------------- MODULE MachineAdmin ----------------------------
(***************************************************************************)
(* Machine administration next to the booking service: taking a machine    *)
(* offline and back, editing it, changing its hours and removing it        *)
(* (MachineViewSet in laundry/views/admin.py, laundry/services/machines.py *)
(* and the previews of laundry/services/admin_ops.py).                     *)
(*                                                                         *)
(* A request loads the machine first, so the row it works on may be stale. *)
(* An UPDATE of the machine row needs the same row lock as a claim.        *)
(***************************************************************************)
EXTENDS Booking

VARIABLE admin   \* what each administration request is doing

vars == <<bookingVars, admin>>

AdminStages ==
  {"idle", "toggle", "patch", "hours", "retire", "sweep", "strand", "drop"}

AdminJob ==
  [ stage   : AdminStages,
    machine : Machines \cup {None},
    row     : MachineRow \cup {None},         \* the machine as it was loaded
    offline : BOOLEAN \cup {None},            \* the is_offline asked for, if any
    cancel  : BOOLEAN,                        \* cancel_outside
    ids     : SUBSET BookingIds ]             \* the bookings listed so far

NoAdminJob ==
  [ stage |-> "idle", machine |-> None, row |-> None, offline |-> None,
    cancel |-> FALSE, ids |-> {} ]

AdminInit == Init /\ admin = [a \in Admins |-> NoAdminJob]

-----------------------------------------------------------------------------
(* Queries *)

\* The bookings a forced cancellation takes: live, on m, not started.
FutureBookings(m) ==
  { b \in BookingIds : Live(b) /\ bookings[b].machine = m /\ bookings[b].start > now }

\* upcoming_bookings_for_machine, which feeds the previews: live, not ended.
UpcomingBookings(m) ==
  { b \in BookingIds : Live(b) /\ bookings[b].machine = m /\ bookings[b].end > now }

\* hours_change_impact: those whose start is not on the grid proposed.
HoursImpact(m, grid) ==
  { b \in UpcomingBookings(m) : \A slot \in grid : slot.start # bookings[b].start }

-----------------------------------------------------------------------------
(* Loading the machine *)

BeginAdmin(a, op, newJob) ==
  /\ op \in Ops
  /\ admin[a].stage = "idle"
  /\ admin' = [admin EXCEPT ![a] = newJob]
  /\ UNCHANGED bookingVars

\* get_object: the job starts with a copy of the row.
Loaded(m, stage) ==
  [NoAdminJob EXCEPT !.stage = stage, !.machine = m, !.row = machine[m]]

\* The actions `offline` and `online`.
BeginToggle(a, m, offline) ==
  BeginAdmin(a, "toggle", [Loaded(m, "toggle") EXCEPT !.offline = offline])

\* perform_update of a PATCH, which may or may not name is_offline.
BeginPatch(a, m, offline) ==
  BeginAdmin(a, "patch", [Loaded(m, "patch") EXCEPT !.offline = offline])

\* The action `hours`, with the impact it computes.  The probe has the proposed
\* window and the machine's present slot length, so its grid is not the one to be
\* saved when the request changes the slot length too.
BeginHours(a, m, grid, probe, cancel) ==
  BeginAdmin(a, "hours",
    [Loaded(m, "hours") EXCEPT !.row.grid = grid, !.cancel = cancel,
                               !.ids = HoursImpact(m, probe)])

\* perform_destroy.
BeginRetire(a, m) == BeginAdmin(a, "retire", Loaded(m, "retire"))

-----------------------------------------------------------------------------
(* Saving the machine *)

AdminGoesTo(a, stage) == admin' = [admin EXCEPT ![a].stage = stage]

AdminDone(a) == admin' = [admin EXCEPT ![a] = NoAdminJob]

SaveMachine(m, row) ==
  /\ lock[m] = None
  /\ machine' = [machine EXCEPT ![m] = row]
  /\ UNCHANGED <<now, bookings, lock, barred, job, forced, overlapped>>

\* serializer.save() writes every column of the row that was loaded, with the
\* fields the PATCH names changed, is_offline excepted; set_machine_offline
\* follows when the PATCH names that one.
SavePatch(a) ==
  LET j == admin[a] IN
  /\ j.stage = "patch"
  /\ \E grid \in Grids, active \in BOOLEAN :
       SaveMachine(j.machine, [j.row EXCEPT !.grid = grid, !.active = active])
  /\ IF j.offline = None THEN AdminDone(a) ELSE AdminGoesTo(a, "toggle")

\* MachineHoursSerializer.save writes the hours alone.  The stranded bookings
\* are kept unless the request says otherwise.
SaveHours(a) ==
  LET j == admin[a] IN
  /\ j.stage = "hours"
  /\ SaveMachine(j.machine, [machine[j.machine] EXCEPT !.grid = j.row.grid])
  /\ IF j.cancel /\ j.ids # {} THEN AdminGoesTo(a, "strand") ELSE AdminDone(a)

\* A machine that was loaded online is taken offline next; one that was offline
\* has its bookings cancelled directly, outside a transaction.
SaveRetired(a) ==
  LET j == admin[a] IN
  /\ j.stage = "retire"
  /\ SaveMachine(j.machine, [machine[j.machine] EXCEPT !.active = FALSE])
  /\ admin' = [admin EXCEPT ![a].stage = IF j.row.offline THEN "sweep" ELSE "toggle",
                            ![a].offline = TRUE]

\* set_machine_offline when it cancels nothing: the machine comes online, or
\* the row that was loaded was offline already.
SaveToggle(a) ==
  LET j == admin[a] IN
  /\ j.stage = "toggle"
  /\ j.offline = TRUE => j.row.offline
  /\ SaveMachine(j.machine, [machine[j.machine] EXCEPT !.offline = j.offline])
  /\ AdminDone(a)

-----------------------------------------------------------------------------
(* Cancelling the bookings of a machine *)

\* Fault: the bookings are listed before the save has the row lock.
TakeOfflineListingFirst(a) ==
  LET j == admin[a] IN
  /\ j.stage = "toggle"
  /\ j.offline = TRUE /\ ~j.row.offline
  /\ lock' = [lock EXCEPT ![j.machine] = a]
  /\ admin' = [admin EXCEPT ![a].stage = "drop", ![a].ids = FutureBookings(j.machine)]
  /\ UNCHANGED <<now, machine, bookings, barred, job, forced, overlapped>>

\* set_machine_offline from online to offline: the save takes the row lock, and
\* the query lists the future bookings while the transaction holds it.
TakeOffline(a) ==
  LET j == admin[a] IN
  /\ j.stage = "toggle"
  /\ j.offline = TRUE /\ ~j.row.offline
  /\ lock[j.machine] = None
  /\ lock' = [lock EXCEPT ![j.machine] = a]
  /\ admin' = [admin EXCEPT ![a].stage = "drop", ![a].ids = FutureBookings(j.machine)]
  /\ UNCHANGED <<now, machine, bookings, barred, job, forced, overlapped>>

\* cancel_future_bookings_for_machine called by perform_destroy.
ListFuture(a) ==
  /\ admin[a].stage = "sweep"
  /\ admin' = [admin EXCEPT ![a].stage = "drop", ![a].ids = FutureBookings(admin[a].machine)]
  /\ UNCHANGED bookingVars

\* cancel_bookings_outside_hours: of the ids shown, those still live, in the
\* future and on the machine.
ListStranded(a) ==
  /\ admin[a].stage = "strand"
  /\ admin' = [admin EXCEPT
       ![a].stage = "drop",
       ![a].ids = admin[a].ids \cap FutureBookings(admin[a].machine)]
  /\ UNCHANGED bookingVars

\* The UPDATE by id of the listed rows, whatever they have become, and COMMIT.
\* The offline transaction publishes is_offline and frees the row lock.
Drop(a) ==
  LET j == admin[a] IN
  /\ j.stage = "drop"
  /\ bookings' = [b \in BookingIds |->
       IF b \in j.ids THEN CancelledRow(bookings[b], FALSE, FALSE) ELSE bookings[b]]
  /\ forced' = forced \cup j.ids
  /\ machine' = IF lock[j.machine] = a
                THEN [machine EXCEPT ![j.machine].offline = TRUE] ELSE machine
  /\ lock' = Released(a)
  /\ AdminDone(a)
  /\ UNCHANGED <<now, barred, job, overlapped>>

\* The worker of an administration request dies; its transaction rolls back.
AdminCrash(a) ==
  /\ "crash" \in Ops
  /\ admin[a].stage # "idle"
  /\ lock' = Released(a)
  /\ AdminDone(a)
  /\ UNCHANGED <<now, machine, bookings, barred, job, forced, overlapped>>

LoadStep(a) ==
  \E m \in Machines :
    \/ \E offline \in BOOLEAN : BeginToggle(a, m, offline)
    \/ \E offline \in BOOLEAN \cup {None} : BeginPatch(a, m, offline)
    \/ \E grid, probe \in Grids, cancel \in BOOLEAN : BeginHours(a, m, grid, probe, cancel)
    \/ BeginRetire(a, m)

SaveStep(a) == SavePatch(a) \/ SaveHours(a) \/ SaveRetired(a) \/ SaveToggle(a)

DropStep(a) == TakeOffline(a) \/ ListFuture(a) \/ ListStranded(a) \/ Drop(a)

AdminStep(a) == LoadStep(a) \/ SaveStep(a) \/ DropStep(a) \/ AdminCrash(a)

Next ==
  \/ BookingNext /\ UNCHANGED admin
  \/ \E a \in Admins : AdminStep(a)

Spec == AdminInit /\ [][Next]_vars

-----------------------------------------------------------------------------
(* Fairness: a request that has arrived runs on without waiting for anybody *)
(* but the holder of a row lock (weak fairness), and PostgreSQL queues the  *)
(* waiters of a row lock, so none is passed over for ever (strong fairness).*)
(* Nothing obliges a request to arrive or a batch to have another item.     *)

Commits(w) == WriteCreate(w) \/ WriteMove(w) \/ SaveCancel(w) \/ SaveCommitteeCancel(w)

FairWorker(w) ==
  /\ WF_vars(Commits(w) /\ UNCHANGED admin)
  /\ SF_vars((LockAndCheck(w) \/ SlotTaken(w)) /\ UNCHANGED admin)

FairAdmin(a) ==
  /\ WF_vars(ListFuture(a) \/ ListStranded(a) \/ Drop(a))
  /\ SF_vars(SaveStep(a) \/ TakeOffline(a))

FairSpec ==
  /\ Spec
  /\ \A w \in Workers : FairWorker(w)
  /\ \A a \in Admins : FairAdmin(a)
=============================================================================
