---------------------------- MODULE BookingProofs ----------------------------
(***************************************************************************)
(* Proofs, for any number of students, machines, bookings and requests,    *)
(* that the booking service and machine administration keep IInv, and what *)
(* follows from it.  Each lemma has one step per action of Next.           *)
(***************************************************************************)
EXTENDS BookingProperties, TLAPS

-----------------------------------------------------------------------------
(* Facts about the values the actions compute *)

\* The flags a claim and a cancellation write are Booleans.
LEMMA FlagsBoolean ==
  /\ \A m : CountsTowardQuota(m) \in BOOLEAN
  /\ \A start, at : IsLateCancel(start, at) \in BOOLEAN
BY DEF CountsTowardQuota, IsLateCancel

\* Every slot of a grid is an interval of positive length.
LEMMA SlotsOrdered ==
  ASSUME NEW grid \in Grids, NEW slot \in grid
  PROVE  slot.start \in Nat /\ slot.end \in Nat /\ slot.start < slot.end
BY BookingAssumption

LEMMA NoJobTyped == NoJob \in Job
BY DEF NoJob, Job, Stages

LEMMA ClaimTyped ==
  ASSUME NEW j \in Job, NEW m \in Machines, NEW start \in Nat, NEW end \in Nat,
         NEW counts \in BOOLEAN
  PROVE  [j EXCEPT !.stage = "claim", !.machine = m, !.start = start, !.end = end,
                   !.counts = counts] \in Job
BY DEF Job, Stages

LEMMA AfterClaimTyped ==
  ASSUME job \in [Workers -> Job], NEW w \in Workers
  PROVE  AfterClaim(w) \in Job /\ AfterClaim(w).stage \in {"idle", "batch"}
BY DEF AfterClaim, NextItem, NoJob, Job, Stages

\* The rows that a claim and a cancellation write are booking rows.
LEMMA ClaimedRowTyped ==
  ASSUME NEW row \in BookingRow, NEW j \in Job, j.machine \in Machines
  PROVE  ClaimedRow(row, j) \in BookingRow
<1>1. j.start \in Nat /\ j.end \in Nat /\ j.counts \in BOOLEAN
  BY DEF Job
<1> QED
  BY <1>1 DEF ClaimedRow, BookingRow

LEMMA CancelledRowTyped ==
  ASSUME NEW row \in BookingRow, NEW late \in BOOLEAN, NEW counts \in BOOLEAN
  PROVE  CancelledRow(row, late, counts) \in BookingRow
BY DEF CancelledRow, BookingRow

LEMMA NewRowTyped ==
  ASSUME NEW j \in Job, j.machine \in Machines
  PROVE  NewRow(j) \in BookingRow
<1>1. [FreeRow EXCEPT !.status = "live", !.student = j.student] \in BookingRow
  BY DEF FreeRow, BookingRow, Job
<1> QED
  BY <1>1, ClaimedRowTyped DEF NewRow

\* A commit or a rollback of x takes no lock from anybody else.
LEMMA ReleasedTyped ==
  ASSUME lock \in [Machines -> Workers \cup Admins \cup {None}], NEW x
  PROVE  /\ Released(x) \in [Machines -> Workers \cup Admins \cup {None}]
         /\ \A m \in Machines : lock[m] # x => Released(x)[m] = lock[m]
BY DEF Released

-----------------------------------------------------------------------------
(* Type correctness *)

LEMMA InitTyped == AdminInit => TypeOK /\ RequestsNameRows
<1> SUFFICES ASSUME AdminInit PROVE TypeOK /\ RequestsNameRows
  OBVIOUS
<1> USE DEF AdminInit, Init
<1>1. machine \in [Machines -> MachineRow]
  BY DEF MachineRow
<1>2. bookings \in [BookingIds -> BookingRow]
  BY DEF FreeRow, BookingRow
<1>3. job \in [Workers -> Job]
  BY NoJobTyped
<1>4. admin \in [Admins -> AdminJob]
  BY DEF NoAdminJob, AdminJob, AdminStages
<1>5. RequestsNameRows
  BY DEF RequestsNameRows, NoJob, NoAdminJob
<1> QED
  BY <1>1, <1>2, <1>3, <1>4, <1>5 DEF TypeOK

\* What a worker or the environment does keeps every variable in its type.
LEMMA BookingTyped ==
  ASSUME TypeOK, RequestsNameRows, BookingNext, UNCHANGED admin
  PROVE  TypeOK'
<1> USE DEF TypeOK
<1>1. ASSUME Tick PROVE TypeOK'
  BY <1>1 DEF Tick
<1>2. ASSUME NEW s \in Students, Suspend(s) \/ Unsuspend(s) PROVE TypeOK'
  BY <1>2 DEF Suspend, Unsuspend
<1>3. ASSUME NEW w \in Workers, NEW s \in Students, BeginCreate(w, s) PROVE TypeOK'
  <2>1. [NoJob EXCEPT !.stage = "batch", !.student = s, !.at = now] \in Job
    BY DEF NoJob, Job, Stages
  <2> QED
    BY <1>3, <2>1 DEF BeginCreate, Begin
<1>4. ASSUME NEW w \in Workers, NEW m \in Machines, NEW slot \in machine[m].grid,
             CheckItem(w, m, slot)
      PROVE  TypeOK'
  <2>1. slot.start \in Nat /\ slot.end \in Nat
    BY SlotsOrdered DEF MachineRow
  <2> DEFINE j == [job[w] EXCEPT !.stage = "claim", !.machine = m, !.start = slot.start,
                                 !.end = slot.end, !.counts = CountsTowardQuota(m)]
  <2>2. j \in Job
    BY <2>1, FlagsBoolean, ClaimTyped
  <2>3. job' = [job EXCEPT ![w] = j]
    BY <1>4 DEF CheckItem
  <2> QED
    BY <1>4, <2>2, <2>3 DEF CheckItem
<1>5. ASSUME NEW w \in Workers, FinishBatch(w) PROVE TypeOK'
  BY <1>5, NoJobTyped DEF FinishBatch
<1>6. ASSUME NEW w \in Workers, NEW s \in Students, NEW b \in BookingIds,
             NEW m \in Machines, NEW slot \in machine[m].grid,
             BeginMove(w, s, b, m, slot)
      PROVE  TypeOK'
  <2>1. slot.start \in Nat /\ slot.end \in Nat
    BY SlotsOrdered DEF MachineRow
  <2>2. [NoJob EXCEPT !.stage = "claim", !.student = s, !.booking = b, !.machine = m,
                      !.start = slot.start, !.end = slot.end,
                      !.counts = CountsTowardQuota(m), !.at = now] \in Job
    BY <2>1, FlagsBoolean DEF NoJob, Job, Stages
  <2> QED
    BY <1>6, <2>2 DEF BeginMove, Begin
<1>7. ASSUME NEW w \in Workers, LockAndCheck(w) PROVE TypeOK'
  <2>1. job' \in [Workers -> Job]
    BY <1>7 DEF LockAndCheck, Job, Stages
  <2> QED
    BY <1>7, <2>1 DEF LockAndCheck
<1>8. ASSUME NEW w \in Workers, SlotTaken(w) PROVE TypeOK'
  BY <1>8, AfterClaimTyped DEF SlotTaken
<1>9. ASSUME NEW w \in Workers, WriteCreate(w) PROVE TypeOK'
  <2>1. job[w].machine \in Machines
    BY <1>9 DEF WriteCreate, RequestsNameRows
  <2>2. NewRow(job[w]) \in BookingRow
    BY <2>1, NewRowTyped
  <2> QED
    BY <1>9, <2>2, AfterClaimTyped, ReleasedTyped DEF WriteCreate
<1>10. ASSUME NEW w \in Workers, WriteMove(w) PROVE TypeOK'
  <2>1. job[w].machine \in Machines
    BY <1>10 DEF WriteMove, RequestsNameRows
  <2>2. \A b \in BookingIds : ClaimedRow(bookings[b], job[w]) \in BookingRow
    BY <2>1, ClaimedRowTyped
  <2> QED
    BY <1>10, <2>2, AfterClaimTyped, ReleasedTyped DEF WriteMove
<1>11. ASSUME NEW w \in Workers, NEW s \in Students, NEW b \in BookingIds,
              BeginCancel(w, s, b)
       PROVE  TypeOK'
  <2> DEFINE late == IsLateCancel(bookings[b].start, now)
  <2>1. late \in BOOLEAN /\ (late /\ bookings[b].counts) \in BOOLEAN
    BY FlagsBoolean
  <2>2. [NoJob EXCEPT !.stage = "cancel", !.student = s, !.booking = b, !.late = late,
                      !.counts = late /\ bookings[b].counts, !.at = now] \in Job
    BY <2>1 DEF NoJob, Job, Stages
  <2> QED
    BY <1>11, <2>2 DEF BeginCancel, Begin
<1>12. ASSUME NEW w \in Workers, SaveCancel(w) PROVE TypeOK'
  <2>1. \A b \in BookingIds :
          CancelledRow(bookings[b], job[w].late, job[w].counts) \in BookingRow
    <3>1. job[w].late \in BOOLEAN /\ job[w].counts \in BOOLEAN
      BY DEF Job
    <3> QED
      BY <3>1, CancelledRowTyped
  <2>2. job[w].booking \in BookingIds
    BY <1>12 DEF SaveCancel, RequestsNameRows
  <2> QED
    BY <1>12, <2>1, <2>2, NoJobTyped DEF SaveCancel
<1>13. ASSUME NEW w \in Workers, NEW b \in BookingIds, BeginCommitteeCancel(w, b)
       PROVE  TypeOK'
  <2>1. [NoJob EXCEPT !.stage = "committee", !.booking = b] \in Job
    BY DEF NoJob, Job, Stages
  <2> QED
    BY <1>13, <2>1 DEF BeginCommitteeCancel
<1>14. ASSUME NEW w \in Workers, SaveCommitteeCancel(w) PROVE TypeOK'
  <2>1. \A b \in BookingIds : CancelledRow(bookings[b], FALSE, FALSE) \in BookingRow
    BY CancelledRowTyped
  <2>2. job[w].booking \in BookingIds
    BY <1>14 DEF SaveCommitteeCancel, RequestsNameRows
  <2> QED
    BY <1>14, <2>1, <2>2, NoJobTyped DEF SaveCommitteeCancel
<1>15. ASSUME NEW w \in Workers, Crash(w) PROVE TypeOK'
  BY <1>15, NoJobTyped, ReleasedTyped DEF Crash
<1> QED
  BY <1>1, <1>2, <1>3, <1>4, <1>5, <1>6, <1>7, <1>8, <1>9, <1>10, <1>11, <1>12,
     <1>13, <1>14, <1>15
  DEF BookingNext, EnvironmentStep, WorkerStep, CreateStep, MoveStep, ClaimStep,
      CancelStep

\* So does what an administration request does.
LEMMA LoadedTyped ==
  ASSUME TypeOK, NEW m \in Machines, NEW stage \in AdminStages
  PROVE  /\ Loaded(m, stage) \in AdminJob
         /\ Loaded(m, stage).stage = stage
         /\ Loaded(m, stage).machine = m
         /\ Loaded(m, stage).row \in MachineRow
         /\ Loaded(m, stage).row = machine[m]
BY DEF TypeOK, Loaded, NoAdminJob, AdminJob, AdminStages

LEMMA NoAdminJobTyped == NoAdminJob \in AdminJob /\ NoAdminJob.stage = "idle"
BY DEF NoAdminJob, AdminJob, AdminStages

LEMMA AdminTyped ==
  ASSUME TypeOK, RequestsNameRows, NEW a \in Admins, AdminStep(a)
  PROVE  TypeOK'
<1> USE DEF TypeOK
<1>1. ASSUME NEW m \in Machines, NEW offline \in BOOLEAN, BeginToggle(a, m, offline)
      PROVE  TypeOK'
  <2>1. Loaded(m, "toggle") \in AdminJob
    BY LoadedTyped DEF AdminStages
  <2>2. [Loaded(m, "toggle") EXCEPT !.offline = offline] \in AdminJob
    BY <2>1 DEF AdminJob
  <2> QED
    BY <1>1, <2>2 DEF BeginToggle, BeginAdmin, bookingVars
<1>2. ASSUME NEW m \in Machines, NEW offline \in BOOLEAN \cup {None},
             BeginPatch(a, m, offline)
      PROVE  TypeOK'
  <2>1. Loaded(m, "patch") \in AdminJob
    BY LoadedTyped DEF AdminStages
  <2>2. [Loaded(m, "patch") EXCEPT !.offline = offline] \in AdminJob
    BY <2>1 DEF AdminJob
  <2> QED
    BY <1>2, <2>2 DEF BeginPatch, BeginAdmin, bookingVars
<1>3. ASSUME NEW m \in Machines, NEW grid \in Grids, NEW probe \in Grids,
             NEW cancel \in BOOLEAN, BeginHours(a, m, grid, probe, cancel)
      PROVE  TypeOK'
  <2>1. HoursImpact(m, probe) \subseteq BookingIds
    BY DEF HoursImpact, UpcomingBookings
  <2> DEFINE load == Loaded(m, "hours")
  <2>2. load \in AdminJob /\ load.row \in MachineRow
    BY LoadedTyped DEF AdminStages
  <2>3. [load.row EXCEPT !.grid = grid] \in MachineRow
    BY <2>2 DEF MachineRow
  <2> HIDE DEF load
  <2>4. [load EXCEPT !.row.grid = grid, !.cancel = cancel,
                     !.ids = HoursImpact(m, probe)] \in AdminJob
    BY <2>1, <2>2, <2>3 DEF AdminJob
  <2> QED
    BY <1>3, <2>4 DEF BeginHours, BeginAdmin, bookingVars, load
<1>4. ASSUME NEW m \in Machines, BeginRetire(a, m) PROVE TypeOK'
  <2>1. Loaded(m, "retire") \in AdminJob
    BY LoadedTyped DEF AdminStages
  <2> QED
    BY <1>4, <2>1 DEF BeginRetire, BeginAdmin, bookingVars
<1>5. ASSUME SavePatch(a) PROVE TypeOK'
  <2>1. \A grid \in Grids, active \in BOOLEAN :
          [admin[a].row EXCEPT !.grid = grid, !.active = active] \in MachineRow
    BY <1>5 DEF SavePatch, RequestsNameRows, MachineRow
  <2>2. machine' \in [Machines -> MachineRow]
    <3>1. PICK row \in MachineRow : SaveMachine(admin[a].machine, row)
      BY <1>5, <2>1 DEF SavePatch
    <3> QED
      BY <3>1 DEF SaveMachine
  <2>3. admin' \in [Admins -> AdminJob]
    BY <1>5, NoAdminJobTyped
    DEF SavePatch, AdminDone, AdminGoesTo, AdminJob, AdminStages
  <2> QED
    BY <1>5, <2>2, <2>3 DEF SavePatch, SaveMachine
<1>6. ASSUME SaveHours(a) PROVE TypeOK'
  <2>1. /\ admin[a].machine \in Machines
        /\ admin[a].row.grid \in Grids
    BY <1>6 DEF SaveHours, RequestsNameRows, MachineRow
  <2>2. machine' \in [Machines -> MachineRow]
    BY <1>6, <2>1 DEF SaveHours, SaveMachine, MachineRow
  <2>3. admin' \in [Admins -> AdminJob]
    BY <1>6, NoAdminJobTyped
    DEF SaveHours, AdminDone, AdminGoesTo, AdminJob, AdminStages
  <2> QED
    BY <1>6, <2>2, <2>3 DEF SaveHours, SaveMachine
<1>7. ASSUME SaveRetired(a) PROVE TypeOK'
  <2>1. admin[a].machine \in Machines
    BY <1>7 DEF SaveRetired, RequestsNameRows
  <2>2. machine' \in [Machines -> MachineRow]
    BY <1>7, <2>1 DEF SaveRetired, SaveMachine, MachineRow
  <2>3. PICK stage \in {"sweep", "toggle"} :
          admin' = [admin EXCEPT ![a] = [admin[a] EXCEPT !.stage = stage, !.offline = TRUE]]
    BY <1>7 DEF SaveRetired
  <2>4. [admin[a] EXCEPT !.stage = stage, !.offline = TRUE] \in AdminJob
    BY DEF AdminJob, AdminStages
  <2>5. admin' \in [Admins -> AdminJob]
    BY <2>3, <2>4
  <2> QED
    BY <1>7, <2>2, <2>5 DEF SaveRetired, SaveMachine
<1>8. ASSUME SaveToggle(a) PROVE TypeOK'
  <2>1. admin[a].machine \in Machines /\ admin[a].offline \in BOOLEAN
    BY <1>8 DEF SaveToggle, RequestsNameRows
  <2>2. machine' \in [Machines -> MachineRow]
    BY <1>8, <2>1 DEF SaveToggle, SaveMachine, MachineRow
  <2> QED
    BY <1>8, <2>2, NoAdminJobTyped DEF SaveToggle, SaveMachine, AdminDone
<1>9. ASSUME TakeOffline(a) PROVE TypeOK'
  <2>1. \A m : FutureBookings(m) \subseteq BookingIds
    BY DEF FutureBookings
  <2> DEFINE j == [admin[a] EXCEPT !.stage = "drop", !.ids = FutureBookings(admin[a].machine)]
  <2>2. j \in AdminJob
    BY <2>1 DEF AdminJob, AdminStages
  <2>3. admin' = [admin EXCEPT ![a] = j]
    BY <1>9 DEF TakeOffline
  <2> QED
    BY <1>9, <2>2, <2>3 DEF TakeOffline
<1>10. ASSUME ListFuture(a) \/ ListStranded(a) PROVE TypeOK'
  <2>1. \A m : FutureBookings(m) \subseteq BookingIds
    BY DEF FutureBookings
  <2>2. admin' \in [Admins -> AdminJob]
    BY <1>10, <2>1 DEF ListFuture, ListStranded, AdminJob, AdminStages
  <2> QED
    BY <1>10, <2>2 DEF ListFuture, ListStranded, bookingVars
<1>11. ASSUME Drop(a) PROVE TypeOK'
  <2>1. bookings' \in [BookingIds -> BookingRow]
    BY <1>11, CancelledRowTyped DEF Drop
  <2>2. machine' \in [Machines -> MachineRow]
    BY <1>11 DEF Drop, MachineRow
  <2>3. forced' \subseteq BookingIds
    BY <1>11 DEF Drop, AdminJob
  <2> QED
    BY <1>11, <2>1, <2>2, <2>3, NoAdminJobTyped, ReleasedTyped DEF Drop, AdminDone
<1>12. ASSUME AdminCrash(a) PROVE TypeOK'
  BY <1>12, NoAdminJobTyped, ReleasedTyped DEF AdminCrash, AdminDone
<1> QED
  BY <1>1, <1>2, <1>3, <1>4, <1>5, <1>6, <1>7, <1>8, <1>9, <1>10, <1>11, <1>12
  DEF AdminStep, LoadStep, SaveStep, DropStep

-----------------------------------------------------------------------------
(* Requests name rows *)

LEMMA WorkersNameRows ==
  ASSUME TypeOK, RequestsNameRows, BookingNext, UNCHANGED admin
  PROVE  RequestsNameRows'
<1> USE DEF TypeOK, RequestsNameRows
<1>1. CASE EnvironmentStep
  BY <1>1 DEF EnvironmentStep, Tick, Suspend, Unsuspend
<1>2. ASSUME NEW w \in Workers, CreateStep(w) PROVE RequestsNameRows'
  <2>1. ASSUME NEW s \in Students, BeginCreate(w, s) PROVE RequestsNameRows'
    BY <2>1 DEF BeginCreate, Begin, NoJob
  <2>2. ASSUME NEW m \in Machines, NEW slot \in machine[m].grid, CheckItem(w, m, slot)
        PROVE  RequestsNameRows'
    BY <2>2 DEF CheckItem, Job
  <2>3. CASE FinishBatch(w)
    BY <2>3 DEF FinishBatch, NoJob
  <2> QED
    BY <1>2, <2>1, <2>2, <2>3 DEF CreateStep
<1>3. ASSUME NEW w \in Workers, MoveStep(w) PROVE RequestsNameRows'
  BY <1>3 DEF MoveStep, BeginMove, Begin, NoJob
<1>4. ASSUME NEW w \in Workers, ClaimStep(w) PROVE RequestsNameRows'
  <2>1. CASE LockAndCheck(w)
    BY <2>1 DEF LockAndCheck, Job
  <2>2. CASE SlotTaken(w)
    BY <2>2, AfterClaimTyped DEF SlotTaken
  <2>3. CASE WriteCreate(w) \/ WriteMove(w)
    BY <2>3, AfterClaimTyped DEF WriteCreate, WriteMove
  <2> QED
    BY <1>4, <2>1, <2>2, <2>3 DEF ClaimStep
<1>5. ASSUME NEW w \in Workers, CancelStep(w) PROVE RequestsNameRows'
  <2>1. ASSUME NEW s \in Students, NEW b \in BookingIds, BeginCancel(w, s, b)
        PROVE  RequestsNameRows'
    BY <2>1 DEF BeginCancel, Begin, NoJob
  <2>2. CASE SaveCancel(w) \/ SaveCommitteeCancel(w)
    <3>1. job' = [job EXCEPT ![w] = NoJob]
      BY <2>2 DEF SaveCancel, SaveCommitteeCancel
    <3> QED
      BY <3>1 DEF NoJob
  <2>3. ASSUME NEW b \in BookingIds, BeginCommitteeCancel(w, b) PROVE RequestsNameRows'
    BY <2>3 DEF BeginCommitteeCancel, NoJob
  <2> QED
    BY <1>5, <2>1, <2>2, <2>3 DEF CancelStep
<1>6. ASSUME NEW w \in Workers, Crash(w) PROVE RequestsNameRows'
  BY <1>6 DEF Crash, NoJob
<1> QED
  BY <1>1, <1>2, <1>3, <1>4, <1>5, <1>6 DEF BookingNext, WorkerStep

LEMMA AdminsNameRows ==
  ASSUME TypeOK, RequestsNameRows, NEW a \in Admins, AdminStep(a)
  PROVE  RequestsNameRows'
<1> USE DEF TypeOK, RequestsNameRows
<1>1. CASE LoadStep(a)
  <2>1. PICK m \in Machines :
          \/ \E offline \in BOOLEAN : BeginToggle(a, m, offline)
          \/ \E offline \in BOOLEAN \cup {None} : BeginPatch(a, m, offline)
          \/ \E grid, probe \in Grids, cancel \in BOOLEAN :
               BeginHours(a, m, grid, probe, cancel)
          \/ BeginRetire(a, m)
    BY <1>1 DEF LoadStep
  <2>2. machine[m] \in MachineRow /\ UNCHANGED job
    BY <2>1 DEF BeginToggle, BeginPatch, BeginHours, BeginRetire, BeginAdmin, bookingVars
  <2>3. ASSUME NEW offline \in BOOLEAN, BeginToggle(a, m, offline)
        PROVE  RequestsNameRows'
    BY <2>2, <2>3 DEF BeginToggle, BeginAdmin, Loaded, NoAdminJob, bookingVars
  <2>4. ASSUME NEW offline \in BOOLEAN \cup {None}, BeginPatch(a, m, offline)
        PROVE  RequestsNameRows'
    BY <2>2, <2>4 DEF BeginPatch, BeginAdmin, Loaded, NoAdminJob, bookingVars
  <2>5. ASSUME NEW grid \in Grids, NEW probe \in Grids, NEW cancel \in BOOLEAN,
               BeginHours(a, m, grid, probe, cancel)
        PROVE  RequestsNameRows'
    <3>1. [machine[m] EXCEPT !.grid = grid] \in MachineRow
      BY <2>2 DEF MachineRow
    <3> QED
      BY <2>2, <2>5, <3>1 DEF BeginHours, BeginAdmin, Loaded, NoAdminJob, bookingVars
  <2>6. CASE BeginRetire(a, m)
    BY <2>2, <2>6 DEF BeginRetire, BeginAdmin, Loaded, NoAdminJob, bookingVars
  <2> QED
    BY <2>1, <2>3, <2>4, <2>5, <2>6
<1>2. CASE SaveStep(a)
  <2>1. CASE SavePatch(a)
    BY <2>1 DEF SavePatch, SaveMachine, AdminDone, AdminGoesTo, NoAdminJob, AdminJob
  <2>2. CASE SaveHours(a)
    BY <2>2 DEF SaveHours, SaveMachine, AdminDone, AdminGoesTo, NoAdminJob, AdminJob
  <2>3. CASE SaveRetired(a)
    <3>1. PICK stage \in {"sweep", "toggle"} :
            admin' = [admin EXCEPT ![a] = [admin[a] EXCEPT !.stage = stage, !.offline = TRUE]]
      BY <2>3 DEF SaveRetired
    <3>2. UNCHANGED job /\ admin[a].stage = "retire"
      BY <2>3 DEF SaveRetired, SaveMachine
    <3> DEFINE j == [admin[a] EXCEPT !.stage = stage, !.offline = TRUE]
    <3>3. j.machine = admin[a].machine /\ j.row = admin[a].row /\ j.offline = TRUE
      BY DEF AdminJob
    <3>4. j.machine \in Machines /\ j.row \in MachineRow /\ j.offline \in BOOLEAN
      BY <3>2, <3>3
    <3> QED
      BY <3>1, <3>2, <3>4
  <2>4. CASE SaveToggle(a)
    BY <2>4 DEF SaveToggle, SaveMachine, AdminDone, NoAdminJob
  <2> QED
    BY <1>2, <2>1, <2>2, <2>3, <2>4 DEF SaveStep
<1>3. CASE DropStep(a)
  <2>1. CASE TakeOffline(a)
    BY <2>1 DEF TakeOffline, AdminJob
  <2>2. CASE ListFuture(a) \/ ListStranded(a)
    BY <2>2 DEF ListFuture, ListStranded, AdminJob, bookingVars
  <2>3. CASE Drop(a)
    BY <2>3 DEF Drop, AdminDone, NoAdminJob
  <2> QED
    BY <1>3, <2>1, <2>2, <2>3 DEF DropStep
<1>4. CASE AdminCrash(a)
  BY <1>4 DEF AdminCrash, AdminDone, NoAdminJob
<1> QED
  BY <1>1, <1>2, <1>3, <1>4 DEF AdminStep

-----------------------------------------------------------------------------
(* What the steps that claim nothing leave alone *)

\* Administration requests leave workers alone, and bookings but for cancelling
\* them; they lock a row that is free and unlock none but their own.
LEMMA AdminKeepsJobs ==
  ASSUME TypeOK, NEW a \in Admins, AdminStep(a)
  PROVE  /\ UNCHANGED job
         /\ \A b \in BookingIds : Live(b)' => bookings'[b] = bookings[b]
         /\ \A b \in BookingIds :
              \/ bookings'[b] = bookings[b]
              \/ \E late, counts : bookings'[b] = CancelledRow(bookings[b], late, counts)
         /\ \A m \in Machines : lock[m] \notin {None, a} => lock'[m] = lock[m]
         /\ UNCHANGED now
<1> USE DEF TypeOK
<1>1. CASE LoadStep(a)
  BY <1>1 DEF LoadStep, BeginToggle, BeginPatch, BeginHours, BeginRetire, BeginAdmin,
              bookingVars, Live
<1>2. CASE SaveStep(a)
  BY <1>2 DEF SaveStep, SavePatch, SaveHours, SaveRetired, SaveToggle, SaveMachine, Live
<1>3. CASE TakeOffline(a)
  BY <1>3 DEF TakeOffline, Live
<1>4. CASE ListFuture(a) \/ ListStranded(a)
  BY <1>4 DEF ListFuture, ListStranded, bookingVars, Live
<1>5. CASE Drop(a)
  <2>1. UNCHANGED <<now, job>> /\ lock' = Released(a)
    BY <1>5 DEF Drop
  <2>2. \A row \in BookingRow : CancelledRow(row, FALSE, FALSE).status = "cancelled"
    BY DEF CancelledRow, BookingRow
  <2>3. \A b \in BookingIds :
          bookings'[b] \in {bookings[b], CancelledRow(bookings[b], FALSE, FALSE)}
    BY <1>5 DEF Drop
  <2> QED
    BY <2>1, <2>2, <2>3, ReleasedTyped DEF Live
<1>6. CASE AdminCrash(a)
  BY <1>6, ReleasedTyped DEF AdminCrash, Live
<1> QED
  BY <1>1, <1>2, <1>3, <1>4, <1>5, <1>6 DEF AdminStep, DropStep

\* Nor do worker steps other than those of a claim touch a place, or the claims
\* and the locks of other workers.
LEMMA QuietStep ==
  ASSUME TypeOK, NEW w \in Workers,
         \/ \E s \in Students : BeginCreate(w, s)
         \/ FinishBatch(w) \/ SlotTaken(w) \/ CancelStep(w) \/ Crash(w)
  PROVE  /\ \A b \in BookingIds : Live(b)' => bookings'[b] = bookings[b]
         /\ \A b \in BookingIds :
              \/ bookings'[b] = bookings[b]
              \/ \E late, counts : bookings'[b] = CancelledRow(bookings[b], late, counts)
         /\ \A v \in Workers : job'[v].stage \in {"claim", "write"} => job'[v] = job[v]
         /\ \A m \in Machines, v \in Workers : job'[v].stage = "write" /\ lock[m] = v => lock'[m] = v
         /\ \A m \in Machines : lock[m] # w => lock'[m] = lock[m]
         /\ UNCHANGED now
<1> USE DEF TypeOK
<1> DEFINE Quiet(newJob) ==
      /\ job' = [job EXCEPT ![w] = newJob] /\ newJob.stage \notin {"claim", "write"}
<1>1. ASSUME NEW newJob, Quiet(newJob)
      PROVE  \A v \in Workers : job'[v].stage \in {"claim", "write"} => v # w /\ job'[v] = job[v]
  BY <1>1
<1>2. NoJob.stage = "idle" /\ AfterClaim(w).stage \in {"idle", "batch"}
  BY AfterClaimTyped DEF NoJob
<1>3. \A row \in BookingRow : \A late, counts : CancelledRow(row, late, counts).status = "cancelled"
  BY DEF CancelledRow, BookingRow
<1>4. ASSUME NEW s \in Students, BeginCreate(w, s)
      PROVE  UNCHANGED <<now, bookings, lock>> /\ \E newJob : Quiet(newJob)
  <2>1. [NoJob EXCEPT !.stage = "batch", !.student = s, !.at = now].stage = "batch"
    BY DEF NoJob
  <2> QED
    BY <1>4, <2>1 DEF BeginCreate, Begin
<1>5. CASE FinishBatch(w) \/ SlotTaken(w)
  <2>1. UNCHANGED <<now, bookings, lock>> /\ \E newJob : Quiet(newJob)
    BY <1>2, <1>5 DEF FinishBatch, SlotTaken
  <2> QED
    BY <1>1, <2>1 DEF Live
<1>6. ASSUME NEW s \in Students, NEW b \in BookingIds, BeginCancel(w, s, b)
      PROVE  UNCHANGED <<now, bookings, lock>> /\ \E newJob : Quiet(newJob)
  <2> DEFINE late == IsLateCancel(bookings[b].start, now)
  <2>1. [NoJob EXCEPT !.stage = "cancel", !.student = s, !.booking = b, !.late = late,
                      !.counts = late /\ bookings[b].counts, !.at = now].stage = "cancel"
    BY DEF NoJob
  <2> QED
    BY <1>6, <2>1 DEF BeginCancel, Begin
<1>7. ASSUME NEW b \in BookingIds, BeginCommitteeCancel(w, b)
      PROVE  UNCHANGED <<now, bookings, lock>> /\ \E newJob : Quiet(newJob)
  <2>1. [NoJob EXCEPT !.stage = "committee", !.booking = b].stage = "committee"
    BY DEF NoJob
  <2> QED
    BY <1>7, <2>1 DEF BeginCommitteeCancel
<1>8. CASE SaveCancel(w) \/ SaveCommitteeCancel(w)
  <2>1. /\ Quiet(NoJob) /\ UNCHANGED <<now, lock>>
        /\ \E late, counts :
             bookings' = [bookings EXCEPT
               ![job[w].booking] = CancelledRow(bookings[job[w].booking], late, counts)]
    BY <1>2, <1>8 DEF SaveCancel, SaveCommitteeCancel
  <2>2. PICK late, counts :
          bookings' = [bookings EXCEPT
            ![job[w].booking] = CancelledRow(bookings[job[w].booking], late, counts)]
    BY <2>1
  <2>3. \A b \in BookingIds :
          bookings'[b] \in {bookings[b], CancelledRow(bookings[b], late, counts)}
    BY <2>2
  <2> QED
    BY <1>1, <1>3, <2>1, <2>3 DEF Live
<1>9. CASE Crash(w)
  <2>1. Quiet(NoJob) /\ UNCHANGED <<now, bookings>> /\ lock' = Released(w)
    BY <1>2, <1>9 DEF Crash
  <2> QED
    BY <1>1, <2>1, ReleasedTyped DEF Live
<1> QED
  BY <1>1, <1>4, <1>5, <1>6, <1>7, <1>8, <1>9 DEF CancelStep, Live

-----------------------------------------------------------------------------
(* Claims and live bookings have slots of some grid *)

\* A slot of a grid is an interval of positive length.
LEMMA GridSlots ==
  ASSUME NEW r, SlotOf(r) \in UNION Grids
  PROVE  r.start < r.end
<1>1. PICK grid \in Grids : SlotOf(r) \in grid
  OBVIOUS
<1>2. SlotOf(r).start < SlotOf(r).end
  BY <1>1, SlotsOrdered
<1> QED
  BY <1>2 DEF SlotOf

\* A slot on the present grid of a machine is a slot of some grid.
LEMMA OwnGridSlot ==
  ASSUME TypeOK, NEW m \in Machines, NEW slot \in machine[m].grid
  PROVE  [start |-> slot.start, end |-> slot.end] \in UNION Grids
<1>1. machine[m].grid \in Grids
  BY DEF TypeOK, MachineRow
<1>2. slot \in [start : Nat, end : Nat]
  BY <1>1, BookingAssumption
<1>3. slot = [start |-> slot.start, end |-> slot.end]
  BY <1>2
<1> QED
  BY <1>1, <1>3

\* The row a claim writes has the machine and the slot of the claim.
LEMMA WrittenPlace ==
  ASSUME NEW w \in Workers, TypeOK
  PROVE  /\ NewRow(job[w]).machine = job[w].machine
         /\ NewRow(job[w]).start = job[w].start /\ NewRow(job[w]).end = job[w].end
         /\ \A row \in BookingRow :
              /\ ClaimedRow(row, job[w]).machine = job[w].machine
              /\ ClaimedRow(row, job[w]).start = job[w].start
              /\ ClaimedRow(row, job[w]).end = job[w].end
              /\ ClaimedRow(row, job[w]).status = row.status
              /\ ClaimedRow(row, job[w]).student = row.student
BY DEF NewRow, ClaimedRow, FreeRow, BookingRow

LEMMA GridsStep ==
  ASSUME TypeOK, RequestsNameRows, SlotsOnGrids,
         (BookingNext /\ UNCHANGED admin) \/ \E a \in Admins : AdminStep(a)
  PROVE  SlotsOnGrids'
<1> USE DEF TypeOK, SlotsOnGrids
<1>1. \* Nothing but a claim gives a booking or a request a place.
      ASSUME \A b \in BookingIds : Live(b)' => bookings'[b] = bookings[b],
             \A w \in Workers : job'[w].stage \in {"claim", "write"} => job'[w] = job[w]
      PROVE  SlotsOnGrids'
  BY <1>1 DEF Live, SlotOf
<1>2. ASSUME NEW w \in Workers, CreateStep(w) PROVE SlotsOnGrids'
  <2>1. ASSUME NEW m \in Machines, NEW slot \in machine[m].grid, CheckItem(w, m, slot)
        PROVE  SlotsOnGrids'
    <3>1. [start |-> slot.start, end |-> slot.end] \in UNION Grids
      BY OwnGridSlot
    <3>2. /\ job'[w].start = slot.start /\ job'[w].end = slot.end
          /\ \A v \in Workers \ {w} : job'[v] = job[v]
          /\ UNCHANGED bookings
      BY <2>1 DEF CheckItem, Job
    <3> QED
      BY <3>1, <3>2 DEF Live, SlotOf
  <2>2. CASE (\E s \in Students : BeginCreate(w, s)) \/ FinishBatch(w)
    BY <2>2, <1>1, QuietStep
  <2> QED
    BY <1>2, <2>1, <2>2 DEF CreateStep
<1>3. ASSUME NEW w \in Workers, MoveStep(w) PROVE SlotsOnGrids'
  <2>1. PICK s \in Students, b \in BookingIds, m \in Machines :
          \E slot \in machine[m].grid : BeginMove(w, s, b, m, slot)
    BY <1>3 DEF MoveStep
  <2>2. PICK slot \in machine[m].grid : BeginMove(w, s, b, m, slot)
    BY <2>1
  <2>3. [start |-> slot.start, end |-> slot.end] \in UNION Grids
    BY OwnGridSlot
  <2>4. /\ job'[w].start = slot.start /\ job'[w].end = slot.end
        /\ \A v \in Workers \ {w} : job'[v] = job[v]
        /\ UNCHANGED bookings
    BY <2>2 DEF BeginMove, Begin, NoJob
  <2> QED
    BY <2>3, <2>4 DEF Live, SlotOf
<1>4. ASSUME NEW w \in Workers, ClaimStep(w) PROVE SlotsOnGrids'
  <2>1. CASE LockAndCheck(w)
    <3>1. /\ UNCHANGED bookings
          /\ \A v \in Workers : SlotOf(job'[v]) = SlotOf(job[v])
          /\ \A v \in Workers : job'[v].stage \in {"claim", "write"}
                                  => job[v].stage \in {"claim", "write"}
      BY <2>1 DEF LockAndCheck, Job, SlotOf
    <3> QED
      BY <3>1 DEF Live, SlotOf
  <2>2. CASE SlotTaken(w)
    BY <2>2, <1>1, QuietStep
  <2>3. ASSUME job[w].stage = "write", NEW b \in BookingIds,
               \A c \in BookingIds \ {b} : bookings'[c] = bookings[c],
               \/ bookings'[b] = bookings[b]
               \/ /\ bookings'[b].machine = job[w].machine
                  /\ bookings'[b].start = job[w].start
                  /\ bookings'[b].end = job[w].end,
               job' = [job EXCEPT ![w] = AfterClaim(w)]
        PROVE  SlotsOnGrids'
    <3>1. job[w].machine \in Machines /\ SlotOf(job[w]) \in UNION Grids
      BY <2>3 DEF RequestsNameRows
    <3>2. job'[w].stage \notin {"claim", "write"} /\ \A v \in Workers \ {w} : job'[v] = job[v]
      BY <2>3, AfterClaimTyped
    <3> QED
      BY <2>3, <3>1, <3>2 DEF Live, SlotOf
  <2>4. CASE WriteCreate(w)
    <3>1. PICK b \in BookingIds :
            bookings' \in {bookings, [bookings EXCEPT ![b] = NewRow(job[w])]}
      BY <2>4 DEF WriteCreate
    <3> QED
      BY <2>3, <2>4, <3>1, WrittenPlace DEF WriteCreate
  <2>5. CASE WriteMove(w)
    <3> DEFINE b == job[w].booking
    <3>1. /\ b \in BookingIds
          /\ bookings' \in {bookings, [bookings EXCEPT ![b] = ClaimedRow(bookings[b], job[w])]}
      BY <2>5 DEF WriteMove, Job
    <3> QED
      BY <2>3, <2>5, <3>1, WrittenPlace DEF WriteMove
  <2> QED
    BY <1>4, <2>1, <2>2, <2>4, <2>5 DEF ClaimStep
<1>5. ASSUME NEW w \in Workers, CancelStep(w) \/ Crash(w) PROVE SlotsOnGrids'
  BY <1>1, <1>5, QuietStep
<1>6. CASE EnvironmentStep
  BY <1>6, <1>1 DEF EnvironmentStep, Tick, Suspend, Unsuspend
<1>7. ASSUME NEW a \in Admins, AdminStep(a) PROVE SlotsOnGrids'
  BY <1>1, <1>7, AdminKeepsJobs
<1> QED
  BY <1>2, <1>3, <1>4, <1>5, <1>6, <1>7 DEF BookingNext, WorkerStep

-----------------------------------------------------------------------------
(* Exclusion: a writer holds the row lock of its machine and its slot is    *)
(* free, and no two live bookings of a machine overlap.                     *)

Exclusion == WritersHoldTheSlot /\ NoDoubleBooking

\* A step that gives nobody a place, makes nobody a writer and takes no writer's
\* lock preserves it.
LEMMA NothingTaken ==
  ASSUME TypeOK, RequestsNameRows, Exclusion,
         \A b \in BookingIds : Live(b)' => bookings'[b] = bookings[b],
         \A w \in Workers :
           job'[w].stage = "write" =>
             job'[w] = job[w] /\ lock'[job[w].machine] = lock[job[w].machine]
  PROVE  Exclusion'
<1> USE DEF Exclusion
<1>1. \A b \in BookingIds : Live(b)' => Live(b) /\ bookings'[b] = bookings[b]
  BY DEF Live
<1>2. NoDoubleBooking'
  BY <1>1 DEF NoDoubleBooking
<1>3. WritersHoldTheSlot'
  <2> SUFFICES ASSUME NEW w \in Workers, job'[w].stage = "write"
               PROVE  /\ lock'[job'[w].machine] = w
                      /\ Overlapping(job[w].machine, job[w].start, job[w].end,
                                     job[w].booking)' = {}
    BY DEF WritersHoldTheSlot
  <2>1. /\ lock[job[w].machine] = w
        /\ Overlapping(job[w].machine, job[w].start, job[w].end, job[w].booking) = {}
    BY DEF WritersHoldTheSlot
  <2> QED
    BY <1>1, <2>1 DEF Overlapping
<1> QED
  BY <1>2, <1>3

\* Two writers hold different machines.
LEMMA WritersApart ==
  ASSUME WritersHoldTheSlot, NEW v \in Workers, NEW w \in Workers, v # w,
         job[v].stage = "write", job[w].stage = "write"
  PROVE  job[v].machine # job[w].machine
BY DEF WritersHoldTheSlot

\* A claim that gets the lock sees every booking, and no other writer is on its
\* machine.
LEMMA LockPreserves ==
  ASSUME TypeOK, RequestsNameRows, Exclusion, NEW w \in Workers, LockAndCheck(w)
  PROVE  Exclusion'
<1> DEFINE m == job[w].machine
<1>1. /\ m \in Machines /\ lock[m] = None
      /\ Overlapping(m, job[w].start, job[w].end, job[w].booking) = {}
      /\ lock' = [lock EXCEPT ![m] = w] /\ UNCHANGED bookings
  BY DEF LockAndCheck, RequestsNameRows
<1>2. job'[w] = [job[w] EXCEPT !.stage = "write"] /\ \A v \in Workers \ {w} : job'[v] = job[v]
  BY DEF LockAndCheck, TypeOK
<1>3. /\ job'[w].machine = m /\ job'[w].start = job[w].start
      /\ job'[w].end = job[w].end /\ job'[w].booking = job[w].booking
  BY <1>2 DEF TypeOK, Job
<1>4. lock'[m] = w /\ \A n \in Machines \ {m} : lock'[n] = lock[n]
  BY <1>1 DEF TypeOK
<1>5. NoDoubleBooking'
  BY <1>1 DEF Exclusion, NoDoubleBooking, Live
<1>6. ASSUME NEW v \in Workers, job'[v].stage = "write"
      PROVE  /\ lock'[job'[v].machine] = v
             /\ Overlapping(job[v].machine, job[v].start, job[v].end, job[v].booking)' = {}
  <2>1. CASE v = w
    BY <1>1, <1>3, <1>4, <2>1 DEF Overlapping, Live
  <2>2. CASE v # w
    <3>1. /\ job'[v] = job[v] /\ job[v].machine \in Machines /\ lock[job[v].machine] = v
          /\ Overlapping(job[v].machine, job[v].start, job[v].end, job[v].booking) = {}
      BY <1>2, <1>6, <2>2 DEF Exclusion, WritersHoldTheSlot, RequestsNameRows
    <3>2. job[v].machine # m
      BY <1>1, <3>1, BookingAssumption
    <3> QED
      BY <1>1, <1>4, <3>1, <3>2 DEF Overlapping, Live
  <2> QED
    BY <2>1, <2>2
<1> QED
  BY <1>5, <1>6 DEF Exclusion, WritersHoldTheSlot

\* The write of a claim puts one booking, at most, where the claim's overlap query
\* found nothing.  The writers that remain are on other machines.
LEMMA WritePreserves ==
  ASSUME TypeOK, RequestsNameRows, SlotsOnGrids, Exclusion,
         NEW w \in Workers, job[w].stage = "write",
         NEW b \in BookingIds, job[w].booking \in {b, None},
         bookings' = bookings \/ bookings' = [bookings EXCEPT ![b] = bookings'[b]],
         \/ bookings'[b] = bookings[b]
         \/ /\ bookings'[b].machine = job[w].machine
            /\ bookings'[b].start = job[w].start
            /\ bookings'[b].end = job[w].end,
         lock' = Released(w), job' = [job EXCEPT ![w] = AfterClaim(w)]
  PROVE  Exclusion'
<1> DEFINE j == job[w]
<1>1. /\ lock[j.machine] = w /\ Overlapping(j.machine, j.start, j.end, j.booking) = {}
      /\ WritersHoldTheSlot /\ NoDoubleBooking
  BY DEF Exclusion, WritersHoldTheSlot
<1>2. \A c \in BookingIds \ {b} : bookings'[c] = bookings[c]
  BY DEF TypeOK
<1>3. \A v \in Workers : job'[v].stage = "write" => v # w /\ job'[v] = job[v]
  BY AfterClaimTyped DEF TypeOK
<1>4. CASE bookings'[b] = bookings[b]
  <2>1. ASSUME NEW v \in Workers, job'[v].stage = "write"
        PROVE  job'[v] = job[v] /\ lock'[job[v].machine] = lock[job[v].machine]
    <3>1. v # w /\ job'[v] = job[v]
      BY <1>3, <2>1
    <3>2. job[v].machine \in Machines /\ lock[job[v].machine] = v
      BY <1>1, <2>1, <3>1 DEF WritersHoldTheSlot, RequestsNameRows
    <3> QED
      BY <3>1, <3>2, ReleasedTyped DEF TypeOK
  <2> QED
    BY <1>2, <1>4, <2>1, NothingTaken
<1>5. CASE /\ bookings'[b].machine = j.machine
           /\ bookings'[b].start = j.start /\ bookings'[b].end = j.end
  <2>1. ASSUME NEW c \in BookingIds \ {b}, Live(c)', bookings'[c].machine = j.machine
        PROVE  bookings'[c].end =< j.start \/ j.end =< bookings'[c].start
    <3>1. Live(c) /\ bookings'[c] = bookings[c]
      BY <1>2, <2>1 DEF Live
    <3>2. c # j.booking
      BY <2>1, BookingAssumption
    <3>3. ~(bookings[c].start < j.end /\ bookings[c].end > j.start)
      BY <1>1, <2>1, <3>1, <3>2 DEF Overlapping
    <3>4. /\ bookings[c].start \in Nat /\ bookings[c].end \in Nat
          /\ j.start \in Nat /\ j.end \in Nat
      BY DEF TypeOK, BookingRow, Job
    <3> QED
      BY <3>1, <3>3, <3>4
  <2>2. NoDoubleBooking'
    <3> SUFFICES ASSUME NEW c \in BookingIds, NEW d \in BookingIds, c # d,
                        Live(c)', Live(d)', bookings'[c].machine = bookings'[d].machine
                 PROVE  \/ bookings'[c].end =< bookings'[d].start
                        \/ bookings'[d].end =< bookings'[c].start
      BY DEF NoDoubleBooking
    <3>1. CASE c = b
      BY <1>5, <2>1, <3>1
    <3>2. CASE d = b
      BY <1>5, <2>1, <3>2
    <3>3. CASE c # b /\ d # b
      BY <1>1, <1>2, <3>3 DEF NoDoubleBooking, Live
    <3> QED
      BY <3>1, <3>2, <3>3
  <2>3. ASSUME NEW v \in Workers, job'[v].stage = "write"
        PROVE  /\ lock'[job'[v].machine] = v
               /\ Overlapping(job[v].machine, job[v].start, job[v].end, job[v].booking)' = {}
    <3>1. v # w /\ job'[v] = job[v]
      BY <1>3, <2>3
    <3>2. /\ job[v].machine \in Machines /\ lock[job[v].machine] = v
          /\ Overlapping(job[v].machine, job[v].start, job[v].end, job[v].booking) = {}
      BY <1>1, <2>3, <3>1 DEF WritersHoldTheSlot, RequestsNameRows
    <3>3. job[v].machine # j.machine
      BY <1>1, <2>3, <3>1, WritersApart
    <3>4. lock'[job[v].machine] = v
      BY <3>1, <3>2, ReleasedTyped DEF TypeOK
    <3>5. Overlapping(job[v].machine, job[v].start, job[v].end, job[v].booking)' = {}
      BY <1>2, <1>5, <3>1, <3>2, <3>3 DEF Overlapping, Live
    <3> QED
      BY <3>1, <3>4, <3>5
  <2> QED
    BY <2>2, <2>3 DEF Exclusion, WritersHoldTheSlot
<1> QED
  BY <1>4, <1>5

LEMMA ClaimPreserves ==
  ASSUME TypeOK, RequestsNameRows, SlotsOnGrids, Exclusion,
         NEW w \in Workers, ClaimStep(w)
  PROVE  Exclusion'
<1>1. CASE LockAndCheck(w)
  BY <1>1, LockPreserves
<1>2. CASE SlotTaken(w)
  <2>1. \A v \in Workers : job'[v].stage = "write" => job'[v] = job[v] /\ UNCHANGED lock
    BY <1>2, QuietStep DEF SlotTaken
  <2> QED
    BY <1>2, <2>1, NothingTaken, QuietStep
<1>3. CASE WriteCreate(w)
  <2>1. PICK b \in BookingIds :
          bookings' = IF IndexAllows(job[w].machine, job[w].start, None)
                      THEN [bookings EXCEPT ![b] = NewRow(job[w])] ELSE bookings
    BY <1>3 DEF WriteCreate
  <2>2. /\ NewRow(job[w]).machine = job[w].machine
        /\ NewRow(job[w]).start = job[w].start /\ NewRow(job[w]).end = job[w].end
    BY DEF NewRow, ClaimedRow, FreeRow
  <2>3. \/ bookings' = bookings
        \/ bookings'[b] = NewRow(job[w]) /\ bookings' = [bookings EXCEPT ![b] = bookings'[b]]
    BY <2>1 DEF TypeOK
  <2>4. /\ job[w].stage = "write" /\ job[w].booking = None
        /\ lock' = Released(w) /\ job' = [job EXCEPT ![w] = AfterClaim(w)]
    BY <1>3 DEF WriteCreate
  <2> QED
    BY <2>2, <2>3, <2>4, WritePreserves
<1>4. CASE WriteMove(w)
  <2> DEFINE b == job[w].booking
  <2>1. /\ job[w].stage = "write" /\ b \in BookingIds
        /\ lock' = Released(w) /\ job' = [job EXCEPT ![w] = AfterClaim(w)]
    BY <1>4 DEF WriteMove, TypeOK, Job
  <2>2. /\ ClaimedRow(bookings[b], job[w]).machine = job[w].machine
        /\ ClaimedRow(bookings[b], job[w]).start = job[w].start
        /\ ClaimedRow(bookings[b], job[w]).end = job[w].end
    BY <2>1 DEF ClaimedRow, TypeOK, BookingRow
  <2>3. \/ bookings' = bookings
        \/ /\ bookings'[b] = ClaimedRow(bookings[b], job[w])
           /\ bookings' = [bookings EXCEPT ![b] = bookings'[b]]
    BY <1>4, <2>1 DEF WriteMove, TypeOK
  <2> QED
    BY <2>1, <2>2, <2>3, WritePreserves
<1> QED
  BY <1>1, <1>2, <1>3, <1>4 DEF ClaimStep

LEMMA ExclusionStep ==
  ASSUME TypeOK, RequestsNameRows, SlotsOnGrids, Exclusion,
         (BookingNext /\ UNCHANGED admin) \/ \E a \in Admins : AdminStep(a)
  PROVE  Exclusion'
<1>1. \* A step that leaves places and claims as they are, and the locks of writers.
      ASSUME \A b \in BookingIds : Live(b)' => bookings'[b] = bookings[b],
             \A v \in Workers : job'[v].stage = "write" => job'[v] = job[v],
             \A m \in Machines, v \in Workers :
               job'[v].stage = "write" /\ lock[m] = v => lock'[m] = v
      PROVE  Exclusion'
  <2>1. \A v \in Workers :
          job'[v].stage = "write" => job[v].machine \in Machines /\ lock[job[v].machine] = v
    BY <1>1 DEF Exclusion, WritersHoldTheSlot, RequestsNameRows
  <2> QED
    BY <1>1, <2>1, NothingTaken
<1>2. CASE EnvironmentStep
  BY <1>1, <1>2 DEF EnvironmentStep, Tick, Suspend, Unsuspend
<1>3. ASSUME NEW w \in Workers, CreateStep(w) PROVE Exclusion'
  <2>1. ASSUME NEW m \in Machines, NEW slot \in machine[m].grid, CheckItem(w, m, slot)
        PROVE  Exclusion'
    <3>1. UNCHANGED <<bookings, lock>> /\ \A v \in Workers \ {w} : job'[v] = job[v]
      BY <2>1 DEF CheckItem, TypeOK
    <3>2. job'[w].stage = "claim"
      BY <2>1 DEF CheckItem, TypeOK, Job
    <3> QED
      BY <1>1, <3>1, <3>2
  <2> QED
    BY <1>1, <1>3, <2>1, QuietStep DEF CreateStep
<1>4. ASSUME NEW w \in Workers, MoveStep(w) PROVE Exclusion'
  <2>1. UNCHANGED <<bookings, lock>> /\ \A v \in Workers \ {w} : job'[v] = job[v]
    BY <1>4 DEF MoveStep, BeginMove, Begin, TypeOK
  <2>2. job'[w].stage = "claim"
    BY <1>4 DEF MoveStep, BeginMove, Begin, NoJob, TypeOK
  <2> QED
    BY <1>1, <2>1, <2>2
<1>5. ASSUME NEW w \in Workers, ClaimStep(w) PROVE Exclusion'
  BY <1>5, ClaimPreserves
<1>6. ASSUME NEW w \in Workers, CancelStep(w) \/ Crash(w) PROVE Exclusion'
  BY <1>1, <1>6, QuietStep
<1>7. ASSUME NEW a \in Admins, AdminStep(a) PROVE Exclusion'
  <2>1. \A v \in Workers : v \notin {None, a}
    BY BookingAssumption
  <2> QED
    BY <1>1, <1>7, <2>1, AdminKeepsJobs
<1> QED
  BY <1>2, <1>3, <1>4, <1>5, <1>6, <1>7 DEF BookingNext, WorkerStep

-----------------------------------------------------------------------------
(* What becomes of a row: inserted once, and cancelled for good *)

LEMMA StatusStep ==
  ASSUME TypeOK, RequestsNameRows,
         (BookingNext /\ UNCHANGED admin) \/ \E a \in Admins : AdminStep(a)
  PROVE  \A b \in BookingIds :
           /\ bookings[b].status # "free" => bookings'[b].status # "free"
           /\ bookings[b].status = "cancelled" => bookings'[b].status = "cancelled"
<1> USE DEF TypeOK
<1>1. \A row \in BookingRow : \A late, counts :
        CancelledRow(row, late, counts).status = "cancelled"
  BY DEF CancelledRow, BookingRow
<1>2. ASSUME NEW w \in Workers, CreateStep(w) \/ MoveStep(w) \/ CancelStep(w) \/ Crash(w),
             NEW b \in BookingIds
      PROVE  \/ bookings'[b] = bookings[b]
             \/ \E late, counts : bookings'[b] = CancelledRow(bookings[b], late, counts)
  <2>1. CASE CreateStep(w)
    <3>1. CASE \E m \in Machines : \E slot \in machine[m].grid : CheckItem(w, m, slot)
      BY <3>1 DEF CheckItem
    <3> QED
      BY <2>1, <3>1, QuietStep DEF CreateStep
  <2>2. CASE MoveStep(w)
    BY <2>2 DEF MoveStep, BeginMove
  <2>3. CASE CancelStep(w) \/ Crash(w)
    BY <2>3, QuietStep
  <2> QED
    BY <1>2, <2>1, <2>2, <2>3
<1>3. ASSUME NEW w \in Workers, ClaimStep(w), NEW b \in BookingIds
      PROVE  /\ bookings[b].status # "free" => bookings'[b].status # "free"
             /\ bookings[b].status = "cancelled" => bookings'[b].status = "cancelled"
  <2>1. CASE LockAndCheck(w) \/ SlotTaken(w)
    BY <2>1 DEF LockAndCheck, SlotTaken
  <2>2. CASE WriteCreate(w)
    <3>1. PICK c \in BookingIds :
            /\ bookings[c].status = "free"
            /\ bookings' \in {bookings, [bookings EXCEPT ![c] = NewRow(job[w])]}
      BY <2>2 DEF WriteCreate
    <3>2. NewRow(job[w]).status = "live"
      BY DEF NewRow, ClaimedRow, FreeRow
    <3> QED
      BY <3>1, <3>2
  <2>3. CASE WriteMove(w)
    <3> DEFINE c == job[w].booking
    <3>1. bookings' \in {bookings, [bookings EXCEPT ![c] = ClaimedRow(bookings[c], job[w])]}
      BY <2>3 DEF WriteMove
    <3> QED
      BY <3>1, WrittenPlace
  <2> QED
    BY <1>3, <2>1, <2>2, <2>3 DEF ClaimStep
<1>4. CASE EnvironmentStep
  BY <1>4 DEF EnvironmentStep, Tick, Suspend, Unsuspend
<1>5. ASSUME NEW a \in Admins, AdminStep(a), NEW b \in BookingIds
      PROVE  \/ bookings'[b] = bookings[b]
             \/ \E late, counts : bookings'[b] = CancelledRow(bookings[b], late, counts)
  BY <1>5, AdminKeepsJobs
<1> QED
  BY <1>1, <1>2, <1>3, <1>4, <1>5 DEF BookingNext, WorkerStep

LEMMA RowsExistStep ==
  ASSUME TypeOK, TypeOK', RequestsNameRows, RowsExist,
         (BookingNext /\ UNCHANGED admin) \/ \E a \in Admins : AdminStep(a)
  PROVE  RowsExist'
<1> USE DEF TypeOK, RowsExist
<1> DEFINE InUse(b) == bookings[b].status # "free"
<1>1. \* Requests take up bookings that are in use.
      ASSUME \A w \in Workers, b \in BookingIds :
               job'[w].booking = b => job[w].booking = b \/ InUse(b),
             \A a \in Admins, b \in BookingIds :
               b \in admin'[a].ids => b \in admin[a].ids \/ InUse(b)
      PROVE  RowsExist'
  <2>1. \A b \in BookingIds : InUse(b) => bookings'[b].status # "free"
    BY StatusStep
  <2>2. /\ \A w \in Workers : job'[w].booking \in BookingIds \cup {None}
        /\ \A a \in Admins : admin'[a].ids \subseteq BookingIds
    BY DEF Job, AdminJob
  <2>3. \A w \in Workers, b \in BookingIds : job'[w].booking = b => InUse(b)
    BY <1>1, BookingAssumption
  <2>4. \A a \in Admins, b \in BookingIds : b \in admin'[a].ids => InUse(b)
    BY <1>1
  <2> QED
    BY <2>1, <2>2, <2>3, <2>4
<1>2. CASE EnvironmentStep /\ UNCHANGED admin
  BY <1>1, <1>2 DEF EnvironmentStep, Tick, Suspend, Unsuspend
<1>3. ASSUME NEW w \in Workers, WorkerStep(w), UNCHANGED admin PROVE RowsExist'
  <2>1. \* The bookings of other workers stay as they are.
        ASSUME NEW j, job' = [job EXCEPT ![w] = j],
               j.booking \in {None, job[w].booking} \/ (j.booking \in BookingIds /\ InUse(j.booking))
        PROVE  RowsExist'
    BY <1>1, <1>3, <2>1, BookingAssumption
  <2>2. NoJob.booking = None /\ NextItem(w).booking = None /\ AfterClaim(w).booking = None
    BY DEF NoJob, NextItem, AfterClaim
  <2>3. CASE CreateStep(w)
    <3>1. ASSUME NEW s \in Students, BeginCreate(w, s) PROVE RowsExist'
      <4>1. [NoJob EXCEPT !.stage = "batch", !.student = s, !.at = now].booking = None
        BY DEF NoJob
      <4> QED
        BY <2>1, <3>1, <4>1 DEF BeginCreate, Begin
    <3>2. ASSUME NEW m \in Machines, NEW slot \in machine[m].grid, CheckItem(w, m, slot)
          PROVE  RowsExist'
      <4> DEFINE j == [job[w] EXCEPT !.stage = "claim", !.machine = m, !.start = slot.start,
                                     !.end = slot.end, !.counts = CountsTowardQuota(m)]
      <4>1. j.booking = job[w].booking /\ job' = [job EXCEPT ![w] = j]
        BY <3>2 DEF CheckItem, Job
      <4> QED
        BY <2>1, <4>1
    <3>3. CASE FinishBatch(w)
      BY <2>1, <2>2, <3>3 DEF FinishBatch
    <3> QED
      BY <2>3, <3>1, <3>2, <3>3 DEF CreateStep
  <2>4. CASE MoveStep(w)
    <3>1. PICK s \in Students, b \in BookingIds, m \in Machines :
            \E slot \in machine[m].grid : BeginMove(w, s, b, m, slot)
      BY <2>4 DEF MoveStep
    <3>2. PICK slot \in machine[m].grid : BeginMove(w, s, b, m, slot)
      BY <3>1
    <3> DEFINE j == [NoJob EXCEPT !.stage = "claim", !.student = s, !.booking = b,
                                  !.machine = m, !.start = slot.start, !.end = slot.end,
                                  !.counts = CountsTowardQuota(m), !.at = now]
    <3>3. j.booking = b /\ InUse(b) /\ job' = [job EXCEPT ![w] = j]
      BY <3>2 DEF BeginMove, Begin, NoJob, Live
    <3> QED
      BY <2>1, <3>3
  <2>5. CASE ClaimStep(w)
    <3>1. CASE LockAndCheck(w)
      <4>1. /\ [job[w] EXCEPT !.stage = "write"].booking = job[w].booking
            /\ job' = [job EXCEPT ![w] = [job[w] EXCEPT !.stage = "write"]]
        BY <3>1 DEF LockAndCheck, Job
      <4> QED
        BY <2>1, <4>1
    <3>2. CASE SlotTaken(w) \/ WriteCreate(w) \/ WriteMove(w)
      BY <2>1, <2>2, <3>2 DEF SlotTaken, WriteCreate, WriteMove
    <3> QED
      BY <2>5, <3>1, <3>2 DEF ClaimStep
  <2>6. CASE CancelStep(w)
    <3>1. ASSUME NEW s \in Students, NEW b \in BookingIds, BeginCancel(w, s, b)
          PROVE  RowsExist'
      <4> DEFINE late == IsLateCancel(bookings[b].start, now)
      <4> DEFINE j == [NoJob EXCEPT !.stage = "cancel", !.student = s, !.booking = b,
                                    !.late = late, !.counts = late /\ bookings[b].counts,
                                    !.at = now]
      <4>1. j.booking = b /\ InUse(b) /\ job' = [job EXCEPT ![w] = j]
        BY <3>1 DEF BeginCancel, Begin, NoJob, Live
      <4> HIDE DEF j, late
      <4> QED
        BY <2>1, <4>1
    <3>2. ASSUME NEW b \in BookingIds, BeginCommitteeCancel(w, b) PROVE RowsExist'
      <4> DEFINE j == [NoJob EXCEPT !.stage = "committee", !.booking = b]
      <4>1. j.booking = b /\ InUse(b) /\ job' = [job EXCEPT ![w] = j]
        BY <3>2 DEF BeginCommitteeCancel, NoJob, Live
      <4> QED
        BY <2>1, <4>1
    <3>3. CASE SaveCancel(w) \/ SaveCommitteeCancel(w)
      BY <2>1, <2>2, <3>3 DEF SaveCancel, SaveCommitteeCancel
    <3> QED
      BY <2>6, <3>1, <3>2, <3>3 DEF CancelStep
  <2>7. CASE Crash(w)
    BY <2>1, <2>2, <2>7 DEF Crash
  <2> QED
    BY <1>3, <2>3, <2>4, <2>5, <2>6, <2>7 DEF WorkerStep
<1>4. ASSUME NEW a \in Admins, AdminStep(a) PROVE RowsExist'
  <2>1. UNCHANGED job
    BY <1>4, AdminKeepsJobs
  <2>2. \* Only its own list changes, and only live bookings are listed anew.
        ASSUME NEW j, admin' = [admin EXCEPT ![a] = j],
               \A b \in BookingIds : b \in j.ids => b \in admin[a].ids \/ InUse(b)
        PROVE  RowsExist'
    BY <1>1, <2>1, <2>2
  <2>3. \A m, grid :
          \A b \in HoursImpact(m, grid) \cup FutureBookings(m) : InUse(b)
    BY DEF HoursImpact, UpcomingBookings, FutureBookings, Live
  <2>4. NoAdminJob.ids = {} /\ \A m, stage : Loaded(m, stage).ids = {}
    BY DEF NoAdminJob, Loaded
  <2>5. CASE LoadStep(a)
    <3>1. PICK m \in Machines :
            \/ \E offline \in BOOLEAN : BeginToggle(a, m, offline)
            \/ \E offline \in BOOLEAN \cup {None} : BeginPatch(a, m, offline)
            \/ \E grid, probe \in Grids, cancel \in BOOLEAN :
                 BeginHours(a, m, grid, probe, cancel)
            \/ BeginRetire(a, m)
      BY <2>5 DEF LoadStep
    <3>2. ASSUME NEW offline, BeginToggle(a, m, offline) \/ BeginPatch(a, m, offline)
          PROVE  RowsExist'
      <4>1. PICK stage \in {"toggle", "patch"} :
              admin' = [admin EXCEPT ![a] = [Loaded(m, stage) EXCEPT !.offline = offline]]
        BY <3>2 DEF BeginToggle, BeginPatch, BeginAdmin
      <4>2. [Loaded(m, stage) EXCEPT !.offline = offline].ids = {}
        BY DEF Loaded, NoAdminJob
      <4> QED
        BY <2>2, <4>1, <4>2
    <3>3. ASSUME NEW grid \in Grids, NEW probe \in Grids, NEW cancel \in BOOLEAN,
                 BeginHours(a, m, grid, probe, cancel)
          PROVE  RowsExist'
      <4> DEFINE j == [Loaded(m, "hours") EXCEPT !.row.grid = grid, !.cancel = cancel,
                                                 !.ids = HoursImpact(m, probe)]
      <4>1. j.ids = HoursImpact(m, probe) /\ admin' = [admin EXCEPT ![a] = j]
        BY <3>3 DEF BeginHours, BeginAdmin, Loaded, NoAdminJob
      <4>2. \A b \in BookingIds : b \in j.ids => InUse(b)
        BY <2>3, <4>1
      <4> HIDE DEF j
      <4> QED
        BY <2>2, <4>1, <4>2
    <3>4. CASE BeginRetire(a, m)
      BY <2>2, <2>4, <3>4 DEF BeginRetire, BeginAdmin
    <3> QED
      BY <3>1, <3>2, <3>3, <3>4
  <2>6. ASSUME NEW stage, AdminGoesTo(a, stage) PROVE RowsExist'
    <3>1. /\ [admin[a] EXCEPT !.stage = stage].ids = admin[a].ids
          /\ admin' = [admin EXCEPT ![a] = [admin[a] EXCEPT !.stage = stage]]
      BY <2>6 DEF AdminGoesTo, AdminJob
    <3> QED
      BY <2>2, <3>1
  <2>7. CASE AdminDone(a)
    BY <2>2, <2>4, <2>7 DEF AdminDone
  <2>8. CASE SaveStep(a)
    <3>1. CASE SavePatch(a) \/ SaveHours(a) \/ SaveToggle(a)
      BY <2>6, <2>7, <3>1 DEF SavePatch, SaveHours, SaveToggle
    <3>2. CASE SaveRetired(a)
      <4>1. PICK stage \in {"sweep", "toggle"} :
              admin' = [admin EXCEPT ![a] = [admin[a] EXCEPT !.stage = stage, !.offline = TRUE]]
        BY <3>2 DEF SaveRetired
      <4>2. [admin[a] EXCEPT !.stage = stage, !.offline = TRUE].ids = admin[a].ids
        BY DEF AdminJob
      <4> QED
        BY <2>2, <4>1, <4>2
    <3> QED
      BY <2>8, <3>1, <3>2 DEF SaveStep
  <2>9. ASSUME NEW ids, \A b \in BookingIds : b \in ids => InUse(b),
               admin' = [admin EXCEPT ![a] = [admin[a] EXCEPT !.stage = "drop", !.ids = ids]]
        PROVE  RowsExist'
    <3>1. [admin[a] EXCEPT !.stage = "drop", !.ids = ids].ids = ids
      BY DEF AdminJob
    <3> QED
      BY <2>2, <2>9, <3>1
  <2>10. CASE DropStep(a)
    <3> DEFINE future == FutureBookings(admin[a].machine)
    <3>1. /\ \A b \in BookingIds : b \in future => InUse(b)
          /\ \A b \in BookingIds : b \in admin[a].ids \cap future => InUse(b)
      BY <2>3
    <3>2. TakeOffline(a) \/ ListFuture(a) =>
            admin' = [admin EXCEPT ![a] = [admin[a] EXCEPT !.stage = "drop", !.ids = future]]
      BY DEF TakeOffline, ListFuture
    <3>3. ListStranded(a) =>
            admin' = [admin EXCEPT
              ![a] = [admin[a] EXCEPT !.stage = "drop", !.ids = admin[a].ids \cap future]]
      BY DEF ListStranded
    <3> HIDE DEF future
    <3>4. CASE TakeOffline(a) \/ ListFuture(a)
      BY <2>9, <3>4, <3>1, <3>2
    <3>5. CASE ListStranded(a)
      BY <2>9, <3>5, <3>1, <3>3
    <3>6. CASE Drop(a)
      BY <2>7, <3>6 DEF Drop
    <3> QED
      BY <2>10, <3>4, <3>5, <3>6 DEF DropStep
  <2>11. CASE AdminCrash(a)
    BY <2>7, <2>11 DEF AdminCrash
  <2> QED
    BY <1>4, <2>5, <2>8, <2>10, <2>11 DEF AdminStep
<1> QED
  BY <1>2, <1>3, <1>4 DEF BookingNext

-----------------------------------------------------------------------------
(* Taking a machine offline: while the transaction holds the row lock, no   *)
(* live future booking is added to those it has listed.                     *)

\* A future booking of a machine stays what it was, or is one no more.
LEMMA FutureShrinks ==
  ASSUME TypeOK, TypeOK', NEW m \in Machines, now =< now',
         \A b \in BookingIds :
           Live(b)' /\ bookings'[b].machine = m => bookings'[b] = bookings[b]
  PROVE  FutureBookings(m)' \subseteq FutureBookings(m)
<1> SUFFICES ASSUME NEW b \in BookingIds, Live(b)', bookings'[b].machine = m,
                    bookings'[b].start > now'
             PROVE  Live(b) /\ bookings[b].machine = m /\ bookings[b].start > now
  BY DEF FutureBookings
<1>1. bookings'[b] = bookings[b] /\ bookings[b].start \in Nat
  BY DEF TypeOK, BookingRow
<1> QED
  BY <1>1 DEF TypeOK, Live

\* Workers take no lock from an administrator and put no booking on a machine
\* whose row an administrator has locked.
LEMMA WorkersRespectLocks ==
  ASSUME TypeOK, TypeOK', RequestsNameRows, WritersHoldTheSlot, BookingNext,
         NEW a \in Admins, NEW m \in Machines, lock[m] = a
  PROVE  lock'[m] = a /\ FutureBookings(m)' \subseteq FutureBookings(m)
<1> USE DEF TypeOK
<1>1. a # None /\ \A w \in Workers : w # a
  BY BookingAssumption
<1>2. CASE EnvironmentStep
  <2>1. now =< now' /\ UNCHANGED <<bookings, lock>>
    BY <1>2 DEF EnvironmentStep, Tick, Suspend, Unsuspend
  <2> QED
    BY <2>1, FutureShrinks
<1>3. ASSUME NEW w \in Workers,
             UNCHANGED <<now, bookings, lock>>
      PROVE  lock'[m] = a /\ FutureBookings(m)' \subseteq FutureBookings(m)
  BY <1>3, FutureShrinks
<1>4. ASSUME NEW w \in Workers, CreateStep(w) \/ MoveStep(w) \/ CancelStep(w) \/ Crash(w)
      PROVE  lock'[m] = a /\ FutureBookings(m)' \subseteq FutureBookings(m)
  <2>1. CASE \/ \E s \in Students : BeginCreate(w, s)
             \/ FinishBatch(w) \/ CancelStep(w) \/ Crash(w)
    <3>1. /\ \A b \in BookingIds : Live(b)' => bookings'[b] = bookings[b]
          /\ lock'[m] = a /\ now =< now'
      BY <1>1, <2>1, QuietStep
    <3> QED
      BY <3>1, FutureShrinks
  <2>2. CASE \E n \in Machines : \E slot \in machine[n].grid : CheckItem(w, n, slot)
    <3>1. UNCHANGED <<now, bookings, lock>>
      BY <2>2 DEF CheckItem
    <3> QED
      BY <1>3, <3>1
  <2>3. CASE MoveStep(w)
    <3>1. UNCHANGED <<now, bookings, lock>>
      BY <2>3 DEF MoveStep, BeginMove
    <3> QED
      BY <1>3, <3>1
  <2> QED
    BY <1>4, <2>1, <2>2, <2>3 DEF CreateStep
<1>5. ASSUME NEW w \in Workers, ClaimStep(w)
      PROVE  lock'[m] = a /\ FutureBookings(m)' \subseteq FutureBookings(m)
  <2>1. CASE LockAndCheck(w)
    <3>1. /\ lock[job[w].machine] = None /\ UNCHANGED <<now, bookings>>
          /\ lock' = [lock EXCEPT ![job[w].machine] = w]
      BY <2>1 DEF LockAndCheck
    <3> QED
      BY <1>1, <3>1, FutureShrinks
  <2>2. CASE SlotTaken(w)
    BY <1>3, <2>2 DEF SlotTaken
  <2>3. CASE WriteCreate(w) \/ WriteMove(w)
    <3>1. job[w].stage = "write" /\ lock' = Released(w) /\ UNCHANGED now
      BY <2>3 DEF WriteCreate, WriteMove
    <3>2. job[w].machine # m
      BY <1>1, <3>1 DEF WritersHoldTheSlot
    <3>3. lock'[m] = a
      BY <1>1, <3>1, ReleasedTyped
    <3>4. \A b \in BookingIds :
            \/ bookings'[b] = bookings[b]
            \/ bookings'[b].machine = job[w].machine
      BY <2>3, WrittenPlace DEF WriteCreate, WriteMove
    <3> QED
      BY <3>1, <3>2, <3>3, <3>4, FutureShrinks
  <2> QED
    BY <1>5, <2>1, <2>2, <2>3 DEF ClaimStep
<1> QED
  BY <1>2, <1>4, <1>5 DEF BookingNext, WorkerStep

\* What OfflineListsAll says of one administration request.
Lists(a) ==
  /\ admin[a].stage = "sweep" => admin[a].row.offline
  /\ admin[a].stage \in {"hours", "strand"} => admin[a].offline = None
  /\ TakingOffline(a) =>
       /\ lock[admin[a].machine] = a
       /\ FutureBookings(admin[a].machine) \subseteq admin[a].ids

\* A request whose machine stays locked keeps its list.
LEMMA KeepsListing ==
  ASSUME RequestsNameRows, NEW a \in Admins, Lists(a), admin'[a] = admin[a],
         \A m \in Machines :
           lock[m] = a => lock'[m] = a /\ FutureBookings(m)' \subseteq FutureBookings(m)
  PROVE  Lists(a)'
<1> DEFINE m == admin[a].machine
<1>1. TakingOffline(a)' <=> TakingOffline(a)
  BY DEF TakingOffline
<1>2. ASSUME TakingOffline(a)
      PROVE  lock'[admin[a].machine] = a /\ FutureBookings(admin[a].machine)' \subseteq admin[a].ids
  <2>1. PICK n \in Machines : n = admin[a].machine
    BY <1>2 DEF RequestsNameRows, TakingOffline
  <2>2. lock[n] = a /\ FutureBookings(n) \subseteq admin[a].ids
    BY <1>2, <2>1 DEF Lists
  <2> QED
    BY <2>1, <2>2 DEF FutureBookings
<1> QED
  BY <1>1, <1>2 DEF Lists

LEMMA OwnListing ==
  ASSUME TypeOK, RequestsNameRows, NEW a \in Admins, Lists(a), AdminStep(a)
  PROVE  Lists(a)'
<1> USE DEF TypeOK
<1>1. \* The stages that say nothing of a list.
      ASSUME admin'[a].stage \in {"idle", "toggle", "patch", "retire"}
      PROVE  Lists(a)'
  BY <1>1 DEF Lists, TakingOffline
<1>2. CASE AdminDone(a)
  BY <1>1, <1>2, NoAdminJobTyped DEF AdminDone
<1>3. CASE LoadStep(a)
  <2>1. PICK m \in Machines :
          \/ \E offline \in BOOLEAN : BeginToggle(a, m, offline)
          \/ \E offline \in BOOLEAN \cup {None} : BeginPatch(a, m, offline)
          \/ \E grid, probe \in Grids, cancel \in BOOLEAN :
               BeginHours(a, m, grid, probe, cancel)
          \/ BeginRetire(a, m)
    BY <1>3 DEF LoadStep
  <2>2. CASE \E offline : BeginToggle(a, m, offline) \/ BeginPatch(a, m, offline)
    BY <1>1, <2>2 DEF BeginToggle, BeginPatch, BeginAdmin, Loaded, NoAdminJob
  <2>3. CASE \E grid, probe \in Grids, cancel \in BOOLEAN : BeginHours(a, m, grid, probe, cancel)
    <3>1. admin'[a].stage = "hours" /\ admin'[a].offline = None
      BY <2>3 DEF BeginHours, BeginAdmin, Loaded, NoAdminJob
    <3> QED
      BY <3>1 DEF Lists, TakingOffline
  <2>4. CASE BeginRetire(a, m)
    BY <1>1, <2>4 DEF BeginRetire, BeginAdmin, Loaded, NoAdminJob
  <2> QED
    BY <2>1, <2>2, <2>3, <2>4
<1>4. CASE SavePatch(a)
  <2>1. CASE AdminGoesTo(a, "toggle")
    BY <1>1, <2>1 DEF AdminGoesTo, AdminJob
  <2> QED
    BY <1>2, <1>4, <2>1 DEF SavePatch
<1>5. CASE SaveHours(a)
  <2>1. CASE AdminGoesTo(a, "strand")
    <3>1. admin[a].offline = None
      BY <1>5 DEF SaveHours, Lists
    <3>2. admin'[a].stage = "strand" /\ admin'[a].offline = None
      BY <2>1, <3>1 DEF AdminGoesTo, AdminJob
    <3> QED
      BY <3>2 DEF Lists, TakingOffline
  <2> QED
    BY <1>2, <1>5, <2>1 DEF SaveHours
<1>6. CASE SaveRetired(a)
  <2>1. admin'[a] = [admin[a] EXCEPT !.stage = IF admin[a].row.offline THEN "sweep" ELSE "toggle",
                                     !.offline = TRUE]
    BY <1>6 DEF SaveRetired
  <2>2. /\ admin'[a].row = admin[a].row
        /\ admin'[a].stage = "toggle" \/ (admin'[a].stage = "sweep" /\ admin[a].row.offline)
    BY <2>1 DEF AdminJob
  <2> QED
    BY <2>2 DEF Lists, TakingOffline
<1>7. CASE SaveToggle(a) \/ Drop(a) \/ AdminCrash(a)
  BY <1>2, <1>7 DEF SaveToggle, Drop, AdminCrash
<1>8. CASE TakeOffline(a)
  <2>1. PICK m \in Machines : m = admin[a].machine
    BY <1>8 DEF TakeOffline, RequestsNameRows
  <2> DEFINE future == FutureBookings(m)
  <2>2. /\ admin' = [admin EXCEPT ![a] = [admin[a] EXCEPT !.stage = "drop", !.ids = future]]
        /\ lock' = [lock EXCEPT ![m] = a]
    BY <1>8, <2>1 DEF TakeOffline
  <2>3. FutureBookings(m)' = future
    BY <1>8 DEF TakeOffline, FutureBookings, Live
  <2> HIDE DEF future
  <2>4. /\ admin'[a].stage = "drop" /\ admin'[a].machine = m /\ admin'[a].ids = future
        /\ lock'[m] = a
    BY <2>1, <2>2 DEF AdminJob
  <2>5. FutureBookings(admin[a].machine)' = FutureBookings(m)'
    BY <2>4 DEF FutureBookings
  <2> QED
    BY <2>3, <2>4, <2>5 DEF Lists
<1>9. CASE ListFuture(a) \/ ListStranded(a)
  <2>1. /\ admin'[a].stage = "drop"
        /\ admin'[a].row = admin[a].row /\ admin'[a].offline = admin[a].offline
    BY <1>9 DEF ListFuture, ListStranded, AdminJob
  <2>2. admin[a].row.offline \/ admin[a].offline = None
    BY <1>9 DEF ListFuture, ListStranded, Lists
  <2>3. None # TRUE
    BY BookingAssumption
  <2> QED
    BY <2>1, <2>2, <2>3 DEF Lists, TakingOffline
<1> QED
  BY <1>3, <1>4, <1>5, <1>6, <1>7, <1>8, <1>9 DEF AdminStep, SaveStep, DropStep

LEMMA OfflineStep ==
  ASSUME TypeOK, TypeOK', RequestsNameRows, WritersHoldTheSlot, OfflineListsAll,
         (BookingNext /\ UNCHANGED admin) \/ \E a \in Admins : AdminStep(a)
  PROVE  OfflineListsAll'
<1> SUFFICES ASSUME NEW a \in Admins PROVE Lists(a)'
  BY DEF OfflineListsAll, Lists
<1>1. Lists(a)
  BY DEF OfflineListsAll, Lists
<1>2. CASE BookingNext /\ UNCHANGED admin
  BY <1>1, <1>2, WorkersRespectLocks, KeepsListing
<1>3. CASE AdminStep(a)
  BY <1>1, <1>3, OwnListing
<1>4. ASSUME NEW c \in Admins \ {a}, AdminStep(c) PROVE Lists(a)'
  <2>1. admin'[a] = admin[a]
    <3>1. LoadStep(c) => admin'[a] = admin[a]
      BY DEF LoadStep, BeginToggle, BeginPatch, BeginHours, BeginRetire, BeginAdmin, TypeOK
    <3>2. SaveStep(c) => admin'[a] = admin[a]
      BY DEF SaveStep, SavePatch, SaveHours, SaveRetired, SaveToggle, AdminDone,
             AdminGoesTo, TypeOK
    <3>3. DropStep(c) \/ AdminCrash(c) => admin'[a] = admin[a]
      BY DEF DropStep, TakeOffline, ListFuture, ListStranded, Drop, AdminCrash,
             AdminDone, TypeOK
    <3> QED
      BY <1>4, <3>1, <3>2, <3>3 DEF AdminStep
  <2>2. a # None
    BY BookingAssumption
  <2>3. ASSUME NEW m \in Machines, lock[m] = a
        PROVE  lock'[m] = a /\ FutureBookings(m)' \subseteq FutureBookings(m)
    <3>1. /\ \A b \in BookingIds : Live(b)' => bookings'[b] = bookings[b]
          /\ lock'[m] = lock[m] /\ now' = now
      BY <1>4, <2>2, <2>3, AdminKeepsJobs
    <3>2. now =< now'
      BY <3>1 DEF TypeOK
    <3> QED
      BY <2>3, <3>1, <3>2, FutureShrinks
  <2> QED
    BY <1>1, <2>1, <2>3, KeepsListing
<1> QED
  BY <1>2, <1>3, <1>4

\* Nobody but the transaction that takes a machine offline locks its row for the
\* administration, and the request goes nowhere while it does.
LEMMA AdminLocksStep ==
  ASSUME TypeOK, AdminsLockToTakeOffline,
         (BookingNext /\ UNCHANGED admin) \/ \E a \in Admins : AdminStep(a)
  PROVE  AdminsLockToTakeOffline'
<1> USE DEF TypeOK
<1> SUFFICES ASSUME NEW a \in Admins, NEW m \in Machines, lock'[m] = a
             PROVE  (TakingOffline(a) /\ admin[a].machine = m)'
  BY DEF AdminsLockToTakeOffline, TakingOffline
<1>1. a # None /\ \A w \in Workers : w # a
  BY BookingAssumption
<1>2. \* A request that rests while the row stays its own.
      ASSUME lock[m] = a, admin'[a] = admin[a]
      PROVE  (TakingOffline(a) /\ admin[a].machine = m)'
  BY <1>2 DEF AdminsLockToTakeOffline, TakingOffline
<1>3. ASSUME BookingNext, UNCHANGED admin PROVE lock[m] = a
  <2>1. CASE EnvironmentStep
    BY <2>1 DEF EnvironmentStep, Tick, Suspend, Unsuspend
  <2>2. ASSUME NEW w \in Workers, WorkerStep(w) PROVE lock[m] = a
    <3>1. CreateStep(w) => UNCHANGED lock
      BY DEF CreateStep, BeginCreate, CheckItem, FinishBatch
    <3>2. MoveStep(w) => UNCHANGED lock
      BY DEF MoveStep, BeginMove
    <3>3. ClaimStep(w) =>
            \/ UNCHANGED lock \/ lock' = Released(w)
            \/ lock' = [lock EXCEPT ![job[w].machine] = w]
      BY DEF ClaimStep, LockAndCheck, SlotTaken, WriteCreate, WriteMove
    <3>4. CancelStep(w) => UNCHANGED lock
      BY DEF CancelStep, BeginCancel, SaveCancel, BeginCommitteeCancel, SaveCommitteeCancel
    <3>5. Crash(w) => lock' = Released(w)
      BY DEF Crash
    <3>6. \/ UNCHANGED lock \/ lock' = Released(w)
          \/ lock' = [lock EXCEPT ![job[w].machine] = w]
      BY <2>2, <3>1, <3>2, <3>3, <3>4, <3>5 DEF WorkerStep
    <3> QED
      BY <1>1, <3>6 DEF Released
  <2> QED
    BY <1>3, <2>1, <2>2 DEF BookingNext
<1>4. ASSUME NEW c \in Admins, AdminStep(c)
      PROVE  (TakingOffline(a) /\ admin[a].machine = m)'
  <2>1. CASE LoadStep(c)
    <3>1. admin[c].stage = "idle" /\ UNCHANGED lock
          /\ \A d \in Admins \ {c} : admin'[d] = admin[d]
      BY <2>1 DEF LoadStep, BeginToggle, BeginPatch, BeginHours, BeginRetire, BeginAdmin,
                  bookingVars
    <3> QED
      BY <1>2, <3>1 DEF AdminsLockToTakeOffline, TakingOffline
  <2>2. CASE SaveStep(c)
    <3>1. admin[c].stage \in {"patch", "hours", "retire", "toggle"} /\ UNCHANGED lock
          /\ \A d \in Admins \ {c} : admin'[d] = admin[d]
      BY <2>2 DEF SaveStep, SavePatch, SaveHours, SaveRetired, SaveToggle, SaveMachine,
                  AdminDone, AdminGoesTo
    <3> QED
      BY <1>2, <3>1 DEF AdminsLockToTakeOffline, TakingOffline
  <2>3. CASE ListFuture(c) \/ ListStranded(c)
    <3>1. admin[c].stage \in {"sweep", "strand"} /\ UNCHANGED lock
          /\ \A d \in Admins \ {c} : admin'[d] = admin[d]
      BY <2>3 DEF ListFuture, ListStranded, bookingVars
    <3> QED
      BY <1>2, <3>1 DEF AdminsLockToTakeOffline, TakingOffline
  <2>4. CASE Drop(c) \/ AdminCrash(c)
    <3>1. lock' = Released(c) /\ \A d \in Admins \ {c} : admin'[d] = admin[d]
      BY <2>4 DEF Drop, AdminCrash, AdminDone
    <3>2. lock[m] = a /\ a # c
      BY <1>1, <3>1 DEF Released
    <3> QED
      BY <1>2, <3>1, <3>2
  <2>5. CASE TakeOffline(c)
    <3>1. /\ admin[c].stage = "toggle" /\ admin[c].offline = TRUE /\ ~admin[c].row.offline
          /\ lock' = [lock EXCEPT ![admin[c].machine] = c]
          /\ \A d \in Admins \ {c} : admin'[d] = admin[d]
      BY <2>5 DEF TakeOffline
    <3>2. /\ admin'[c].stage = "drop" /\ admin'[c].machine = admin[c].machine
          /\ admin'[c].offline = TRUE /\ ~admin'[c].row.offline
      BY <2>5, <3>1 DEF TakeOffline, AdminJob
    <3>3. CASE a = c
      <4>1. lock[m] # a
        BY <3>1, <3>3 DEF AdminsLockToTakeOffline, TakingOffline
      <4> QED
        BY <3>1, <3>2, <3>3, <4>1 DEF TakingOffline
    <3>4. CASE a # c
      BY <1>2, <3>1, <3>4
    <3> QED
      BY <3>3, <3>4
  <2> QED
    BY <1>4, <2>1, <2>2, <2>3, <2>4, <2>5 DEF AdminStep, DropStep
<1> QED
  BY <1>2, <1>3, <1>4

-----------------------------------------------------------------------------
(* The inductive invariant *)

LEMMA InitEstablishes == AdminInit => IInv
<1> SUFFICES ASSUME AdminInit PROVE IInv
  OBVIOUS
<1>1. TypeOK /\ RequestsNameRows
  BY InitTyped
<1>2. (\A b \in BookingIds : ~Live(b)) /\ \A w \in Workers : job[w].stage = "idle"
  BY DEF AdminInit, Init, FreeRow, NoJob, Live
<1>3. RowsExist
  BY DEF AdminInit, Init, RowsExist, NoJob, NoAdminJob
<1>4. OfflineListsAll
  BY DEF AdminInit, OfflineListsAll, TakingOffline, NoAdminJob
<1>5. AdminsLockToTakeOffline
  BY BookingAssumption DEF AdminInit, Init, AdminsLockToTakeOffline
<1> QED
  BY <1>1, <1>2, <1>3, <1>4, <1>5 DEF IInv, SlotsOnGrids, WritersHoldTheSlot, NoDoubleBooking

LEMMA NextPreserves == IInv /\ [Next]_vars => IInv'
<1> SUFFICES ASSUME IInv, [Next]_vars PROVE IInv'
  OBVIOUS
<1> USE DEF IInv
<1>1. CASE Next
  <2>1. (BookingNext /\ UNCHANGED admin) \/ \E a \in Admins : AdminStep(a)
    BY <1>1 DEF Next
  <2>2. TypeOK'
    BY <2>1, BookingTyped, AdminTyped
  <2>3. RequestsNameRows'
    BY <2>1, WorkersNameRows, AdminsNameRows
  <2>4. SlotsOnGrids'
    BY <2>1, GridsStep
  <2>5. Exclusion'
    BY <2>1, ExclusionStep DEF Exclusion
  <2>6. RowsExist'
    BY <2>1, <2>2, RowsExistStep
  <2>7. OfflineListsAll'
    BY <2>1, <2>2, OfflineStep
  <2>8. AdminsLockToTakeOffline'
    BY <2>1, AdminLocksStep
  <2> QED
    BY <2>2, <2>3, <2>4, <2>5, <2>6, <2>7, <2>8 DEF Exclusion
<1>2. CASE UNCHANGED vars
  <2> USE <1>2 DEF vars, bookingVars
  <2>1. TypeOK' /\ RequestsNameRows'
    BY DEF TypeOK, RequestsNameRows
  <2>2. SlotsOnGrids' /\ NoDoubleBooking'
    BY DEF SlotsOnGrids, NoDoubleBooking, Live
  <2>3. WritersHoldTheSlot'
    BY DEF WritersHoldTheSlot, Overlapping, Live
  <2>4. RowsExist'
    BY DEF RowsExist
  <2>5. OfflineListsAll'
    BY DEF OfflineListsAll, TakingOffline, FutureBookings, Live
  <2>6. AdminsLockToTakeOffline'
    BY DEF AdminsLockToTakeOffline, TakingOffline
  <2> QED
    BY <2>1, <2>2, <2>3, <2>4, <2>5, <2>6
<1> QED
  BY <1>1, <1>2

\* Every reachable state satisfies the inductive invariant.
THEOREM Invariance == Spec => []IInv
<1>1. AdminInit => IInv
  BY InitEstablishes
<1>2. IInv /\ [Next]_vars => IInv'
  BY NextPreserves
<1> QED
  BY <1>1, <1>2, PTL DEF Spec

\* Every variable keeps its type.
THEOREM TypeCorrect == Spec => []TypeOK
BY Invariance, PTL DEF IInv

\* A machine is never held by two students at once, however many requests run,
\* are moved, cancelled or die, and however often the grid is cut anew.
THEOREM Exclusive == Spec => []NoDoubleBooking
BY Invariance, PTL DEF IInv

\* The unique index never stops a claim: the row lock and the overlap query have
\* done so before.
THEOREM IndexIdle == Spec => []IndexNeverFires
<1>1. IInv => IndexNeverFires
  <2> SUFFICES ASSUME IInv, NEW w \in Workers, job[w].stage = "write",
                      NEW b \in BookingIds \ {job[w].booking}, Live(b),
                      bookings[b].machine = job[w].machine,
                      bookings[b].start = job[w].start
               PROVE  FALSE
    BY DEF IndexNeverFires, IndexAllows
  <2>1. b \notin Overlapping(job[w].machine, job[w].start, job[w].end, job[w].booking)
    BY DEF IInv, WritersHoldTheSlot
  <2>2. job[w].start < job[w].end /\ bookings[b].start < bookings[b].end
    BY GridSlots DEF IInv, SlotsOnGrids
  <2>3. bookings[b].end > job[w].start
    BY <2>2 DEF IInv, TypeOK, BookingRow, Job
  <2> QED
    BY <2>1, <2>2, <2>3 DEF Overlapping
<1> QED
  BY <1>1, Invariance, PTL

-----------------------------------------------------------------------------
(* What a step may never do *)

\* A cancelled booking stays cancelled, whatever a move, a cancellation or an
\* administrator read of it before.
THEOREM CancelledStays == Spec => CancelledIsFinal
<1>1. IInv /\ [Next]_vars =>
        [\A b \in BookingIds :
           bookings[b].status = "cancelled" => bookings'[b].status = "cancelled"]_vars
  BY StatusStep DEF IInv, Next
<1> QED
  BY <1>1, Invariance, PTL DEF Spec, CancelledIsFinal

LEMMA WorkersKeepMachines == BookingNext => UNCHANGED machine
<1>1. EnvironmentStep => UNCHANGED machine
  BY DEF EnvironmentStep, Tick, Suspend, Unsuspend
<1>2. ASSUME NEW w \in Workers, CreateStep(w) \/ MoveStep(w) \/ Crash(w)
      PROVE  UNCHANGED machine
  <2>1. CASE CreateStep(w)
    BY <2>1 DEF CreateStep, BeginCreate, CheckItem, FinishBatch
  <2>2. CASE MoveStep(w)
    BY <2>2 DEF MoveStep, BeginMove
  <2> QED
    BY <1>2, <2>1, <2>2 DEF Crash
<1>3. \A w \in Workers : ClaimStep(w) => UNCHANGED machine
  BY DEF ClaimStep, LockAndCheck, SlotTaken, WriteCreate, WriteMove
<1>4. \A w \in Workers : CancelStep(w) => UNCHANGED machine
  BY DEF CancelStep, BeginCancel, SaveCancel, BeginCommitteeCancel, SaveCommitteeCancel
<1> QED
  BY <1>1, <1>2, <1>3, <1>4 DEF BookingNext, WorkerStep

\* What turns a machine offline: the commit that cancels what is booked on it, or
\* the save of a request that had loaded it offline.
LEMMA TurnsOffline ==
  ASSUME TypeOK, RequestsNameRows, NEW c \in Admins, AdminStep(c),
         NEW m \in Machines, ~machine[m].offline, machine'[m].offline
  PROVE  \/ Drop(c) /\ lock[m] = c /\ admin[c].machine = m
         \/ LoadedOffline(c, m) /\ admin'[c] # admin[c]
<1> USE DEF TypeOK
<1>1. CASE LoadStep(c) \/ AdminCrash(c) \/ TakeOffline(c) \/ ListFuture(c) \/ ListStranded(c)
  BY <1>1 DEF LoadStep, BeginToggle, BeginPatch, BeginHours, BeginRetire, BeginAdmin,
              bookingVars, AdminCrash, TakeOffline, ListFuture, ListStranded
<1>2. CASE SavePatch(c)
  <2>1. admin[c].stage = "patch" /\ admin[c].machine \in Machines /\ admin[c].row \in MachineRow
    BY <1>2 DEF SavePatch, RequestsNameRows
  <2>2. PICK grid \in Grids, active \in BOOLEAN :
          machine' = [machine EXCEPT ![admin[c].machine] =
                        [admin[c].row EXCEPT !.grid = grid, !.active = active]]
    BY <1>2 DEF SavePatch, SaveMachine
  <2>3. admin[c].machine = m /\ admin[c].row.offline
    BY <2>1, <2>2 DEF MachineRow
  <2>4. admin'[c].stage # "patch"
    BY <1>2 DEF SavePatch, AdminDone, AdminGoesTo, NoAdminJob, AdminJob
  <2> QED
    BY <2>1, <2>3, <2>4 DEF LoadedOffline
<1>3. CASE SaveHours(c) \/ SaveRetired(c)
  <2>1. PICK n \in Machines :
          \/ \E grid : machine' = [machine EXCEPT ![n] = [machine[n] EXCEPT !.grid = grid]]
          \/ machine' = [machine EXCEPT ![n] = [machine[n] EXCEPT !.active = FALSE]]
    BY <1>3 DEF SaveHours, SaveRetired, SaveMachine, RequestsNameRows
  <2>2. \A n2 \in Machines : machine'[n2].offline = machine[n2].offline
    BY <2>1 DEF MachineRow
  <2> QED
    BY <2>2
<1>4. CASE SaveToggle(c)
  <2>1. /\ admin[c].stage = "toggle" /\ admin[c].machine \in Machines
        /\ admin[c].offline = TRUE => admin[c].row.offline
        /\ admin[c].offline \in BOOLEAN
        /\ machine' = [machine EXCEPT ![admin[c].machine] =
                         [machine[admin[c].machine] EXCEPT !.offline = admin[c].offline]]
    BY <1>4 DEF SaveToggle, SaveMachine, RequestsNameRows
  <2>2. admin[c].machine = m /\ admin[c].offline = TRUE
    BY <2>1 DEF MachineRow
  <2>3. admin'[c].stage = "idle"
    BY <1>4 DEF SaveToggle, AdminDone, NoAdminJob
  <2> QED
    BY <2>1, <2>2, <2>3 DEF LoadedOffline
<1>5. CASE Drop(c)
  <2>1. admin[c].machine = m /\ lock[m] = c
    BY <1>5 DEF Drop, RequestsNameRows
  <2> QED
    BY <1>5, <2>1
<1> QED
  BY <1>1, <1>2, <1>3, <1>4, <1>5 DEF AdminStep, SaveStep, DropStep

\* The step that turns a machine offline leaves no live future booking on it,
\* unless its request had loaded the machine offline (set_machine_offline,
\* perform_update).
THEOREM OfflineComplete == Spec => OfflineCancelsAll
<1> DEFINE Complete ==
      \A m \in Machines :
        ~machine[m].offline /\ machine'[m].offline =>
          \/ FutureBookings(m)' = {}
          \/ \E a \in Admins : LoadedOffline(a, m) /\ admin'[a] # admin[a]
<1>1. ASSUME IInv, Next PROVE Complete
  <2> SUFFICES ASSUME NEW m \in Machines, ~machine[m].offline, machine'[m].offline,
                      ~\E a \in Admins : LoadedOffline(a, m) /\ admin'[a] # admin[a]
               PROVE  FutureBookings(m)' = {}
    OBVIOUS
  <2> USE <1>1
  <2>1. TypeOK /\ RequestsNameRows /\ OfflineListsAll /\ AdminsLockToTakeOffline
    BY DEF IInv
  <2>2. PICK a \in Admins : AdminStep(a)
    BY WorkersKeepMachines DEF Next
  <2>3. Drop(a) /\ lock[m] = a /\ admin[a].machine = m
    BY <2>1, <2>2, TurnsOffline
  <2>4. FutureBookings(m) \subseteq admin[a].ids
    BY <2>1, <2>3 DEF AdminsLockToTakeOffline, OfflineListsAll
  <2>5. \A row \in BookingRow : CancelledRow(row, FALSE, FALSE).status = "cancelled"
    BY DEF CancelledRow, BookingRow
  <2>6. \A b \in BookingIds :
          /\ b \in admin[a].ids => bookings'[b].status = "cancelled"
          /\ b \notin admin[a].ids => bookings'[b] = bookings[b]
    BY <2>1, <2>3, <2>5 DEF Drop, TypeOK
  <2>7. UNCHANGED now
    BY <2>3 DEF Drop
  <2> QED
    BY <2>4, <2>6, <2>7 DEF FutureBookings, Live
<1>2. IInv /\ [Next]_vars => [Complete]_vars
  BY <1>1
<1> QED
  BY <1>2, Invariance, PTL DEF Spec, OfflineCancelsAll

-----------------------------------------------------------------------------
(* The booking table implements exclusive claims *)

\* Steps other than the two writes of a claim do nothing to a row but cancel it.
LEMMA OnlyCancels ==
  ASSUME TypeOK, RequestsNameRows, RowsExist,
         (BookingNext /\ UNCHANGED admin) \/ \E a \in Admins : AdminStep(a)
  PROVE  \/ \E w \in Workers : WriteCreate(w) \/ WriteMove(w)
         \/ \A b \in BookingIds :
              \/ bookings'[b] = bookings[b]
              \/ bookings[b].status # "free" /\ bookings'[b].status = "cancelled"
<1> USE DEF TypeOK
<1> DEFINE Cancels ==
      \A b \in BookingIds :
        \/ bookings'[b] = bookings[b]
        \/ bookings[b].status # "free" /\ bookings'[b].status = "cancelled"
<1>1. \A row \in BookingRow : \A late, counts : CancelledRow(row, late, counts).status = "cancelled"
  BY DEF CancelledRow, BookingRow
<1>2. UNCHANGED bookings => Cancels
  OBVIOUS
<1>3. ASSUME NEW w \in Workers, SaveCancel(w) \/ SaveCommitteeCancel(w) PROVE Cancels
  <2> DEFINE b == job[w].booking
  <2>1. b \in BookingIds /\ bookings[b].status # "free"
    <3>1. job[w].stage \in {"cancel", "committee"}
      BY <1>3 DEF SaveCancel, SaveCommitteeCancel
    <3>2. b \in BookingIds
      BY <3>1 DEF RequestsNameRows
    <3> QED
      BY <3>2, BookingAssumption DEF RowsExist
  <2>2. \E late, counts : bookings' = [bookings EXCEPT ![b] = CancelledRow(bookings[b], late, counts)]
    BY <1>3 DEF SaveCancel, SaveCommitteeCancel
  <2> QED
    BY <1>1, <2>1, <2>2
<1>4. ASSUME NEW a \in Admins, Drop(a) PROVE Cancels
  BY <1>1, <1>4 DEF Drop, RowsExist
<1>5. CASE EnvironmentStep
  BY <1>2, <1>5 DEF EnvironmentStep, Tick, Suspend, Unsuspend
<1>6. ASSUME NEW w \in Workers, CreateStep(w) \/ MoveStep(w) \/ Crash(w) PROVE Cancels
  <2>1. CASE CreateStep(w)
    BY <1>2, <2>1 DEF CreateStep, BeginCreate, CheckItem, FinishBatch
  <2>2. CASE MoveStep(w)
    BY <1>2, <2>2 DEF MoveStep, BeginMove
  <2> QED
    BY <1>2, <1>6, <2>1, <2>2 DEF Crash
<1>7. ASSUME NEW w \in Workers, CancelStep(w) PROVE Cancels
  BY <1>2, <1>3, <1>7 DEF CancelStep, BeginCancel, BeginCommitteeCancel
<1>8. ASSUME NEW w \in Workers, LockAndCheck(w) \/ SlotTaken(w) PROVE Cancels
  BY <1>2, <1>8 DEF LockAndCheck, SlotTaken
<1>9. ASSUME NEW a \in Admins, AdminStep(a) PROVE Cancels
  <2>1. CASE LoadStep(a)
    BY <1>2, <2>1 DEF LoadStep, BeginToggle, BeginPatch, BeginHours, BeginRetire, BeginAdmin,
                      bookingVars
  <2>2. CASE SaveStep(a)
    BY <1>2, <2>2 DEF SaveStep, SavePatch, SaveHours, SaveRetired, SaveToggle, SaveMachine
  <2>3. CASE DropStep(a) \/ AdminCrash(a)
    BY <1>2, <1>4, <2>3 DEF DropStep, TakeOffline, ListFuture, ListStranded, AdminCrash,
                            bookingVars
  <2> QED
    BY <1>9, <2>1, <2>2, <2>3 DEF AdminStep
<1> QED
  BY <1>5, <1>6, <1>7, <1>8, <1>9 DEF BookingNext, WorkerStep, ClaimStep

\* Inserting a row is all that a step does to the owners of bookings.
LEMMA RowsKeepStudents ==
  ASSUME TypeOK, RequestsNameRows, RowsExist,
         (BookingNext /\ UNCHANGED admin) \/ \E a \in Admins : AdminStep(a)
  PROVE  \/ \E w \in Workers : WriteCreate(w)
         \/ \A b \in BookingIds :
              /\ bookings'[b].student = bookings[b].student
              /\ bookings'[b].status = "free" <=> bookings[b].status = "free"
<1> USE DEF TypeOK
<1> DEFINE Kept(b) ==
      /\ bookings'[b].student = bookings[b].student
      /\ bookings'[b].status = "free" <=> bookings[b].status = "free"
<1>1. \A row \in BookingRow : \A late, counts :
        CancelledRow(row, late, counts).student = row.student
  BY DEF CancelledRow, BookingRow
<1>2. ASSUME NEW b \in BookingIds,
             bookings'[b] = bookings[b]
               \/ \E late, counts : bookings'[b] = CancelledRow(bookings[b], late, counts)
      PROVE  bookings'[b].student = bookings[b].student
  BY <1>1, <1>2
<1>3. CASE \E w \in Workers : WriteMove(w)
  <2>1. PICK w \in Workers : WriteMove(w)
    BY <1>3
  <2> DEFINE c == job[w].booking
  <2>2. bookings' \in {bookings, [bookings EXCEPT ![c] = ClaimedRow(bookings[c], job[w])]}
    BY <2>1 DEF WriteMove
  <2> QED
    BY <2>2, WrittenPlace
<1>4. CASE /\ ~\E w \in Workers : WriteCreate(w) \/ WriteMove(w)
           /\ \A b \in BookingIds :
                \/ bookings'[b] = bookings[b]
                \/ bookings[b].status # "free" /\ bookings'[b].status = "cancelled"
  <2>1. \A b \in BookingIds : bookings'[b].status = "free" <=> bookings[b].status = "free"
    BY <1>4
  <2>2. ASSUME NEW b \in BookingIds
        PROVE  \/ bookings'[b] = bookings[b]
               \/ \E late, counts : bookings'[b] = CancelledRow(bookings[b], late, counts)
    <3>1. ASSUME NEW w \in Workers, CreateStep(w) PROVE bookings'[b] = bookings[b]
      BY <3>1 DEF CreateStep, BeginCreate, CheckItem, FinishBatch
    <3>2. ASSUME NEW w \in Workers, MoveStep(w) PROVE bookings'[b] = bookings[b]
      BY <3>2 DEF MoveStep, BeginMove
    <3>3. ASSUME NEW w \in Workers, ClaimStep(w) PROVE bookings'[b] = bookings[b]
      BY <1>4, <3>3 DEF ClaimStep, LockAndCheck, SlotTaken
    <3>4. CASE EnvironmentStep
      BY <3>4 DEF EnvironmentStep, Tick, Suspend, Unsuspend
    <3> QED
      BY <3>1, <3>2, <3>3, <3>4, QuietStep, AdminKeepsJobs DEF BookingNext, WorkerStep
  <2> QED
    BY <1>2, <2>1, <2>2
<1> QED
  BY <1>3, <1>4, OnlyCancels

LEMMA ShownCases ==
  ASSUME TypeOK, NEW b \in BookingIds
  PROVE  /\ ClaimView[b] = Shown(bookings[b])
         /\ Live(b) => Shown(bookings[b]) = Implemented!Held(PlaceOf(bookings[b]))
         /\ bookings[b].status = "cancelled" => Shown(bookings[b]) = Implemented!Gone
         /\ bookings[b].status = "free" => Shown(bookings[b]) = Implemented!Fresh
         /\ Implemented!IsHeld(b) <=> Live(b)
BY DEF TypeOK, BookingRow, ClaimView, Shown, Live, Implemented!Held, Implemented!Gone,
       Implemented!Fresh, Implemented!IsHeld

\* Cancelled rows are released claims.
LEMMA CancelsRelease ==
  ASSUME TypeOK, TypeOK',
         \A b \in BookingIds :
           \/ bookings'[b] = bookings[b]
           \/ bookings[b].status # "free" /\ bookings'[b].status = "cancelled"
  PROVE  Implemented!Next
<1> DEFINE S == {b \in BookingIds : Live(b) /\ bookings'[b].status = "cancelled"}
<1>1. \A b \in S : Implemented!IsHeld(b)
  BY ShownCases
<1>2. ASSUME NEW b \in BookingIds
      PROVE  ClaimView'[b] = IF b \in S THEN Implemented!Gone ELSE ClaimView[b]
  <2>1. ClaimView'[b] = Shown(bookings'[b]) /\ ClaimView[b] = Shown(bookings[b])
    BY DEF ClaimView
  <2>2. bookings'[b].status = "cancelled" => Shown(bookings'[b]) = Implemented!Gone
    BY DEF Shown, Implemented!Gone
  <2>3. bookings[b].status = "cancelled" => Shown(bookings[b]) = Implemented!Gone
    BY DEF Shown, Implemented!Gone
  <2>4. bookings[b].status \in {"free", "live", "cancelled"}
    BY DEF TypeOK, BookingRow
  <2> QED
    BY <2>1, <2>2, <2>3, <2>4 DEF Live
<1>3. ClaimView' = [b \in BookingIds |-> IF b \in S THEN Implemented!Gone ELSE ClaimView[b]]
  BY <1>2 DEF ClaimView
<1>4. Implemented!Release(S)
  BY <1>1, <1>3 DEF Implemented!Release
<1>5. S \in SUBSET BookingIds
  OBVIOUS
<1> QED
  BY <1>4, <1>5 DEF Implemented!Next

\* The write of a claim takes a vacant place, or shifts a booking to one.
LEMMA WriteTakes ==
  ASSUME IInv, TypeOK', NEW w \in Workers, job[w].stage = "write",
         NEW b \in BookingIds, bookings[b].status \in {"free", "live"},
         job[w].booking \in {b, None},
         bookings' = [bookings EXCEPT ![b] = bookings'[b]],
         Live(b)', PlaceOf(bookings'[b]) = PlaceOf(job[w])
  PROVE  Implemented!Next
<1> USE DEF IInv
<1> DEFINE p == PlaceOf(job[w])
<1>1. p \in Implemented!Place
  BY DEF PlaceOf, Implemented!Place, RequestsNameRows, SlotsOnGrids
<1>2. ASSUME NEW d \in BookingIds \ {b}, Implemented!IsHeld(d),
             ClaimView[d].place.machine = p.machine
      PROVE  ~Implemented!Intersect(ClaimView[d].place.slot, p.slot)
  <2>1. Live(d) /\ ClaimView[d] = Implemented!Held(PlaceOf(bookings[d]))
    BY <1>2, ShownCases
  <2>2. bookings[d].machine = job[w].machine
    BY <1>2, <2>1 DEF Implemented!Held, PlaceOf
  <2>3. d # job[w].booking
    BY BookingAssumption
  <2>4. ~(bookings[d].start < job[w].end /\ bookings[d].end > job[w].start)
    BY <2>1, <2>2, <2>3 DEF WritersHoldTheSlot, Overlapping
  <2> QED
    BY <2>1, <2>4 DEF Implemented!Held, Implemented!Intersect, PlaceOf, SlotOf
<1>3. Implemented!Vacant(p, b)
  BY <1>2 DEF Implemented!Vacant
<1>4. ClaimView' = [ClaimView EXCEPT ![b] = Implemented!Held(p)]
  <2>1. Shown(bookings'[b]) = Implemented!Held(p)
    BY DEF Shown, Live, Implemented!Held
  <2>2. \A d \in BookingIds \ {b} : bookings'[d] = bookings[d]
    BY DEF TypeOK
  <2> QED
    BY <2>1, <2>2 DEF ClaimView
<1>5. CASE bookings[b].status = "free"
  <2>1. ClaimView[b] = Implemented!Fresh
    BY <1>5, ShownCases
  <2>2. Implemented!Take(b, p)
    BY <1>3, <1>4, <2>1 DEF Implemented!Take
  <2> QED
    BY <1>1, <2>2 DEF Implemented!Next
<1>6. CASE bookings[b].status = "live"
  <2>1. Implemented!IsHeld(b)
    BY <1>6, ShownCases DEF Live
  <2>2. Implemented!Shift(b, p)
    BY <1>3, <1>4, <2>1 DEF Implemented!Shift
  <2> QED
    BY <1>1, <2>2 DEF Implemented!Next
<1> QED
  BY <1>5, <1>6

LEMMA StepRefines ==
  ASSUME IInv, TypeOK', Next
  PROVE  Implemented!Next
<1> USE DEF IInv
<1>1. CASE \A b \in BookingIds :
             \/ bookings'[b] = bookings[b]
             \/ bookings[b].status # "free" /\ bookings'[b].status = "cancelled"
  BY <1>1, CancelsRelease
<1>2. ASSUME NEW w \in Workers, WriteCreate(w) PROVE Implemented!Next
  <2>1. PICK b \in BookingIds :
          /\ bookings[b].status = "free"
          /\ bookings' \in {bookings, [bookings EXCEPT ![b] = NewRow(job[w])]}
    BY <1>2 DEF WriteCreate
  <2>2. NewRow(job[w]).status = "live" /\ PlaceOf(NewRow(job[w])) = PlaceOf(job[w])
    BY WrittenPlace DEF NewRow, ClaimedRow, FreeRow, PlaceOf, SlotOf
  <2>3. CASE bookings' = [bookings EXCEPT ![b] = NewRow(job[w])]
    <3>1. bookings'[b] = NewRow(job[w])
      BY <2>3 DEF TypeOK
    <3>2. job[w].stage = "write" /\ job[w].booking = None
      BY <1>2 DEF WriteCreate
    <3>3. bookings' = [bookings EXCEPT ![b] = bookings'[b]]
      BY <2>3, <3>1
    <3> QED
      BY <2>1, <2>2, <3>1, <3>2, <3>3, WriteTakes DEF Live
  <2> QED
    BY <1>1, <2>1, <2>3
<1>3. ASSUME NEW w \in Workers, WriteMove(w) PROVE Implemented!Next
  <2> DEFINE b == job[w].booking
  <2>1. /\ job[w].stage = "write" /\ b \in BookingIds /\ bookings[b].status # "free"
        /\ bookings' \in {bookings, [bookings EXCEPT ![b] = ClaimedRow(bookings[b], job[w])]}
    BY <1>3, BookingAssumption DEF WriteMove, RowsExist, TypeOK, Job
  <2>2. /\ ClaimedRow(bookings[b], job[w]).status = bookings[b].status
        /\ PlaceOf(ClaimedRow(bookings[b], job[w])) = PlaceOf(job[w])
    BY <2>1, WrittenPlace DEF TypeOK, PlaceOf, SlotOf
  <2>3. CASE bookings' = [bookings EXCEPT ![b] = ClaimedRow(bookings[b], job[w])]
    <3>1. bookings'[b] = ClaimedRow(bookings[b], job[w])
      BY <2>1, <2>3 DEF TypeOK
    <3>2. CASE bookings[b].status = "live"
      <4>1. bookings' = [bookings EXCEPT ![b] = bookings'[b]]
        BY <2>3, <3>1
      <4> QED
        BY <2>1, <2>2, <3>1, <3>2, <4>1, WriteTakes DEF Live
    <3>3. CASE bookings[b].status = "cancelled"
      BY <1>1, <2>1, <2>2, <2>3, <3>1, <3>3 DEF TypeOK
    <3> QED
      BY <2>1, <3>2, <3>3 DEF TypeOK, BookingRow
  <2> QED
    BY <1>1, <2>1, <2>3
<1> QED
  BY <1>1, <1>2, <1>3, OnlyCancels DEF Next

\* Requests, locks and stale reads behave like claims that take, shift and release
\* places atomically and never share one.
THEOREM Implements == Spec => ImplementsSlotClaims
<1>1. AdminInit => Implemented!Init
  <2> SUFFICES ASSUME AdminInit PROVE Implemented!Init
    OBVIOUS
  <2>1. \A b \in BookingIds : Shown(bookings[b]) = Implemented!Fresh
    BY DEF AdminInit, Init, FreeRow, Shown, Implemented!Fresh
  <2> QED
    BY <2>1 DEF Implemented!Init, ClaimView
<1>2. IInv /\ IInv' /\ [Next]_vars => [Implemented!Next]_ClaimView
  <2>1. ASSUME IInv, IInv', Next PROVE Implemented!Next
    BY <2>1, StepRefines DEF IInv
  <2>2. UNCHANGED vars => UNCHANGED ClaimView
    BY DEF vars, bookingVars, ClaimView
  <2> QED
    BY <2>1, <2>2
<1> QED
  BY <1>1, <1>2, Invariance, PTL DEF Spec, ImplementsSlotClaims, Implemented!Spec

=============================================================================
