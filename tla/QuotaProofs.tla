----------------------------- MODULE QuotaProofs -----------------------------
(***************************************************************************)
(* Proofs, for any number of students, machines, bookings and requests,    *)
(* that a student whose requests never overlapped stays within the weekly  *)
(* quotas, and that a cancelled booking of theirs uses up quota only if it *)
(* was cancelled late: the quota check and the flags are computed from an  *)
(* unlocked read, and what other requests do in between cannot spoil them. *)
(***************************************************************************)
EXTENDS BookingProofs, FiniteSetTheorems

-----------------------------------------------------------------------------
(* The invariant *)

\* The kinds of machine that have a weekly quota.
Counted(k) == k = "washer" \/ DryerCap

\* The tables with finitely many rows in use.
InUse(t) == {b \in BookingIds : t[b].status # "free"}

Tables == {t \in [BookingIds -> BookingRow] : IsFiniteSet(InUse(t))}

\* Two requests of one student are noticed.
Solo ==
  \A v, w \in Workers :
    v # w /\ job[v].student = job[w].student /\ job[v].student \in Students
      => job[v].student \in overlapped

(***************************************************************************)
(* What follows is about a booking table t, the bookings f the institute   *)
(* cancelled, a job j, and a set X of students who are set aside: those    *)
(* whose requests overlapped here, and where bookings change hands those   *)
(* who received one in the middle of a request as well.                    *)
(***************************************************************************)

\* The requests that go on to write a booking of their student.
Acting(j) == j.stage \in {"batch", "claim", "write", "cancel"}

\* Whatever has happened since a request began, it works for its student, on a
\* booking that is theirs or of a student set aside, and marks a cancellation as
\* counting only if it is late.
JobOwned(t, j, X) ==
  /\ Acting(j) => j.student \in Students
  /\ j.stage = "batch" => j.booking = None
  /\ Acting(j) /\ j.booking # None => t[j.booking].student \in {j.student} \cup X
  /\ j.stage = "cancel" => (j.counts => j.late)

\* The verdict of the quota check still stands when the claim writes, and a late
\* cancellation gives nothing back that its booking did not use up already, unless
\* the booking is somebody else's by now.
JobExact(t, f, j) ==
  LET row == t[j.booking] IN
  (j.booking # None => row.student = j.student) =>
    /\ j.stage \in {"claim", "write"} /\ j.booking # None =>
         row.status = "live" \/ j.booking \in f
    /\ j.stage \in {"claim", "write"} /\ j.counts =>
         QuotaUsed(t, j.student, Kind[j.machine], QuotaWeek(j.start), j.booking) < QuotaLimit
    /\ j.stage = "cancel" /\ j.counts /\ CountsTowardQuota(row.machine) =>
         QuotaUsed(t, j.student, Kind[row.machine], QuotaWeek(row.start), j.booking) < QuotaLimit

JobSound(t, f, j, X) == JobOwned(t, j, X) /\ (j.student \notin X => JobExact(t, f, j))

\* QuotaHeldWithoutOverlap and CancelledCountsOnlyIfLate, but for the set aside.
QuotaHeldBut(t, X) ==
  \A s \in Students \ X, k \in Kinds, week \in Weeks :
    Counted(k) => QuotaUsed(t, s, k, week, None) =< QuotaLimit

FlagsHeldBut(t, f, X) ==
  \A b \in BookingIds :
    /\ t[b].status = "cancelled" /\ t[b].counts
    /\ t[b].student \notin X /\ b \notin f
    => t[b].late

Sound(t, f, jobs, X) ==
  /\ t \in Tables
  /\ \A w \in Workers : JobSound(t, f, jobs[w], X)
  /\ QuotaHeldBut(t, X)
  /\ FlagsHeldBut(t, f, X)

QuotaInv ==
  /\ IInv
  /\ Solo
  /\ Sound(bookings, forced, job, overlapped)

-----------------------------------------------------------------------------
(* Counting the rows of a table that use up a quota *)

LEMMA RowsFinite ==
  ASSUME NEW t \in Tables, NEW s, NEW k, NEW week, NEW x
  PROVE  /\ IsFiniteSet(QuotaRows(t, s, k, week, x))
         /\ QuotaUsed(t, s, k, week, x) \in Nat
<1>1. QuotaRows(t, s, k, week, x) \subseteq InUse(t)
  BY DEF QuotaRows, Tables, InUse
<1>2. IsFiniteSet(QuotaRows(t, s, k, week, x))
  BY <1>1, FS_Subset DEF Tables
<1> QED
  BY <1>2, FS_CardinalityType DEF QuotaUsed

\* Fewer rows use up less.
LEMMA FewerRows ==
  ASSUME NEW t \in Tables, NEW s, NEW k, NEW week, NEW x,
         NEW T \in SUBSET QuotaRows(t, s, k, week, x)
  PROVE  /\ IsFiniteSet(T) /\ Cardinality(T) \in Nat
         /\ Cardinality(T) =< QuotaUsed(t, s, k, week, x)
<1>1. IsFiniteSet(T) /\ Cardinality(T) =< QuotaUsed(t, s, k, week, x)
  BY RowsFinite, FS_Subset DEF QuotaUsed
<1> QED
  BY <1>1, FS_CardinalityType

\* A student who gets one row more, and may have given one away, stays within the
\* limit if there was room without what was given away.
LEMMA RoomForOne ==
  ASSUME NEW t \in Tables, NEW u, NEW s, NEW k, NEW week, NEW c, NEW x,
         QuotaRows(u, s, k, week, None) \ {c} \subseteq QuotaRows(t, s, k, week, x),
         QuotaUsed(t, s, k, week, None) =< QuotaLimit,
         c \in QuotaRows(u, s, k, week, None) => QuotaUsed(t, s, k, week, x) < QuotaLimit
  PROVE  QuotaUsed(u, s, k, week, None) =< QuotaLimit
<1> DEFINE written == QuotaRows(u, s, k, week, None)
           rest == written \ {c}
<1>1. /\ rest \subseteq QuotaRows(t, s, k, week, None)
      /\ rest \subseteq QuotaRows(t, s, k, week, x)
  BY BookingAssumption DEF QuotaRows, Tables
<1> HIDE DEF rest
<1>2. IsFiniteSet(rest) /\ Cardinality(rest) \in Nat
  BY <1>1, FewerRows
<1>3. QuotaLimit \in Nat
  BY RulesAssumption
<1>4. CASE c \in written
  <2>1. QuotaUsed(t, s, k, week, x) < QuotaLimit /\ QuotaUsed(t, s, k, week, x) \in Nat
    BY <1>4, RowsFinite
  <2>2. Cardinality(rest) =< QuotaUsed(t, s, k, week, x)
    BY <1>1, FewerRows
  <2>3. written = rest \cup {c}
    BY <1>4 DEF rest
  <2> HIDE DEF written
  <2>4. Cardinality(written) = Cardinality(rest) + 1
    BY <1>2, <2>3, FS_AddElement DEF rest
  <2>5. Cardinality(written) =< QuotaLimit
    BY <1>2, <1>3, <2>1, <2>2, <2>4
  <2> QED
    BY <2>5 DEF QuotaUsed, written
<1>5. CASE c \notin written
  <2>1. written \subseteq QuotaRows(t, s, k, week, None)
    BY <1>1, <1>5 DEF rest
  <2>2. /\ Cardinality(written) \in Nat
        /\ Cardinality(written) =< QuotaUsed(t, s, k, week, None)
    BY <2>1, FewerRows
  <2>3. QuotaUsed(t, s, k, week, None) \in Nat
    BY RowsFinite
  <2>4. Cardinality(written) =< QuotaLimit
    BY <1>3, <2>2, <2>3
  <2> QED
    BY <2>4 DEF QuotaUsed
<1> QED
  BY <1>4, <1>5

\* A row that uses up quota leaves room for itself.
LEMMA RoomForItself ==
  ASSUME NEW t \in Tables, NEW s, NEW k, NEW week,
         NEW c \in QuotaRows(t, s, k, week, None),
         QuotaUsed(t, s, k, week, None) =< QuotaLimit
  PROVE  QuotaUsed(t, s, k, week, c) < QuotaLimit
<1> DEFINE all == QuotaRows(t, s, k, week, None)
<1>1. QuotaRows(t, s, k, week, c) = all \ {c}
  BY BookingAssumption DEF QuotaRows, Tables
<1>2. IsFiniteSet(all) /\ Cardinality(all) \in Nat /\ Cardinality(all) =< QuotaLimit
  BY RowsFinite DEF QuotaUsed
<1> HIDE DEF all
<1>3. c \in all
  BY DEF all
<1>4. Cardinality(all \ {c}) = Cardinality(all) - 1
  BY <1>2, <1>3, FS_RemoveElement
<1>5. Cardinality(all \ {c}) < QuotaLimit
  BY <1>2, <1>4, RulesAssumption
<1> QED
  BY <1>1, <1>5 DEF QuotaUsed

-----------------------------------------------------------------------------
(* What a step spares *)

OwnRow(row, s) == row.status # "free" /\ row.student = s

\* All that a step may do to the rows of s is to cancel some for the institute.
Spared(s) ==
  \A b \in BookingIds :
    \/ bookings'[b] = bookings[b]
    \/ ~OwnRow(bookings[b], s) /\ ~OwnRow(bookings'[b], s)
    \/ /\ b \in forced' /\ bookings[b].status # "free"
       /\ bookings'[b] = CancelledRow(bookings[b], FALSE, FALSE)

LEMMA CancelledRowFields ==
  ASSUME NEW row \in BookingRow, NEW late \in BOOLEAN, NEW counts \in BOOLEAN
  PROVE  LET r == CancelledRow(row, late, counts)
         IN  /\ r.status = "cancelled" /\ r.late = late /\ r.counts = counts
             /\ r.student = row.student /\ r.machine = row.machine /\ r.start = row.start
BY DEF CancelledRow, BookingRow

\* A student whose rows are spared uses up no more than before.
LEMMA SparedUseNoMore ==
  ASSUME bookings \in Tables, bookings' \in Tables, NEW s, Spared(s),
         NEW k, NEW week, NEW x
  PROVE  QuotaUsed(bookings', s, k, week, x) =< QuotaUsed(bookings, s, k, week, x)
<1>1. \A row \in BookingRow : ~CancelledRow(row, FALSE, FALSE).counts
  BY CancelledRowFields
<1>2. QuotaRows(bookings', s, k, week, x) \subseteq QuotaRows(bookings, s, k, week, x)
  BY <1>1 DEF QuotaRows, Tables, Spared, OwnRow
<1> QED
  BY <1>2, FewerRows DEF QuotaUsed

\* Their verdicts stay right.
LEMMA SparedKeepsExact ==
  ASSUME bookings \in Tables, bookings' \in Tables, forced \subseteq forced',
         NEW j \in Job, j.booking # None => bookings[j.booking].status # "free",
         j.stage = "cancel" => j.booking # None,
         j.booking # None =>
           bookings'[j.booking].student = bookings[j.booking].student,
         Spared(j.student), JobExact(bookings, forced, j)
  PROVE  JobExact(bookings', forced', j)
<1> SUFFICES ASSUME j.booking # None => bookings'[j.booking].student = j.student
             PROVE  JobExact(bookings', forced', j)
  BY DEF JobExact
<1> DEFINE s == j.student
<1>1. \A k, week, x :
        /\ QuotaUsed(bookings, s, k, week, x) \in Nat
        /\ QuotaUsed(bookings', s, k, week, x) \in Nat
        /\ QuotaUsed(bookings', s, k, week, x) =< QuotaUsed(bookings, s, k, week, x)
  BY RowsFinite, SparedUseNoMore
<1>2. \A k, week, x :
        QuotaUsed(bookings, s, k, week, x) < QuotaLimit
          => QuotaUsed(bookings', s, k, week, x) < QuotaLimit
  BY <1>1, RulesAssumption
<1>3. ASSUME j.booking # None
      PROVE  /\ bookings'[j.booking].machine = bookings[j.booking].machine
             /\ bookings'[j.booking].start = bookings[j.booking].start
             /\ bookings'[j.booking] # bookings[j.booking] => j.booking \in forced'
  <2>1. j.booking \in BookingIds
    BY <1>3 DEF Job
  <2>2. OwnRow(bookings[j.booking], s)
    BY <1>3 DEF OwnRow
  <2>3. bookings[j.booking] \in BookingRow
    BY <2>1 DEF Tables
  <2> QED
    BY <2>1, <2>2, <2>3, CancelledRowFields DEF Spared
<1>4. ASSUME j.stage \in {"claim", "write"}, j.booking # None
      PROVE  bookings'[j.booking].status = "live" \/ j.booking \in forced'
  BY <1>3, <1>4 DEF JobExact
<1>5. ASSUME j.stage \in {"claim", "write"}, j.counts
      PROVE  QuotaUsed(bookings', s, Kind[j.machine], QuotaWeek(j.start), j.booking) < QuotaLimit
  BY <1>2, <1>5 DEF JobExact
<1>6. ASSUME j.stage = "cancel", j.counts, CountsTowardQuota(bookings'[j.booking].machine)
      PROVE  QuotaUsed(bookings', s, Kind[bookings'[j.booking].machine],
                       QuotaWeek(bookings'[j.booking].start), j.booking) < QuotaLimit
  BY <1>2, <1>3, <1>6 DEF JobExact
<1> QED
  BY <1>4, <1>5, <1>6 DEF JobExact

\* They stay within their quotas, and their cancelled rows count only if late.
LEMMA SparedKeepsQuota ==
  ASSUME bookings \in Tables, bookings' \in Tables, NEW X, QuotaHeldBut(bookings, X),
         NEW s \in Students \ X, Spared(s),
         NEW k \in Kinds, NEW week \in Weeks, Counted(k)
  PROVE  QuotaUsed(bookings', s, k, week, None) =< QuotaLimit
<1>1. QuotaUsed(bookings, s, k, week, None) =< QuotaLimit
  BY DEF QuotaHeldBut
<1>2. /\ QuotaUsed(bookings, s, k, week, None) \in Nat
      /\ QuotaUsed(bookings', s, k, week, None) \in Nat
  BY RowsFinite
<1> QED
  BY <1>1, <1>2, SparedUseNoMore, RulesAssumption

LEMMA SparedKeepsFlags ==
  ASSUME NEW X, FlagsHeldBut(bookings, forced, X), forced \subseteq forced',
         NEW b \in BookingIds, Spared(bookings'[b].student),
         bookings'[b].status = "cancelled", bookings'[b].counts,
         bookings'[b].student \notin X, b \notin forced'
  PROVE  bookings'[b].late
<1>1. bookings'[b] = bookings[b]
  BY DEF Spared, OwnRow
<1> QED
  BY <1>1 DEF FlagsHeldBut

-----------------------------------------------------------------------------
(* What each step does to rows and requests that are not its own *)

LEMMA NewRowFields ==
  ASSUME NEW j \in Job
  PROVE  /\ NewRow(j).status = "live" /\ NewRow(j).student = j.student
         /\ NewRow(j).machine = j.machine /\ NewRow(j).start = j.start
         /\ NewRow(j).counts = j.counts
BY DEF NewRow, ClaimedRow, FreeRow, Job

LEMMA ClaimedRowFields ==
  ASSUME NEW row \in BookingRow, NEW j \in Job
  PROVE  LET r == ClaimedRow(row, j)
         IN  /\ r.status = row.status /\ r.student = row.student
             /\ r.machine = j.machine /\ r.start = j.start /\ r.counts = j.counts
BY DEF ClaimedRow, BookingRow, Job

\* A row in use keeps its student, and at most one row comes into use.
LEMMA StudentsKept ==
  ASSUME IInv, TypeOK', bookings \in Tables,
         (BookingNext /\ UNCHANGED admin) \/ \E a \in Admins : AdminStep(a)
  PROVE  /\ bookings' \in Tables
         /\ \A b \in InUse(bookings) : bookings'[b].student = bookings[b].student
<1> USE DEF IInv, TypeOK, InUse
<1>1. /\ \E c \in BookingIds \cup {None} : InUse(bookings') \subseteq InUse(bookings) \cup {c}
      /\ \A b \in InUse(bookings) : bookings'[b].student = bookings[b].student
  <2>1. CASE \E w \in Workers : WriteCreate(w)
    <3>1. PICK w \in Workers, c \in BookingIds :
            /\ bookings[c].status = "free"
            /\ bookings' \in {bookings, [bookings EXCEPT ![c] = NewRow(job[w])]}
      BY <2>1 DEF WriteCreate
    <3>2. \A b \in BookingIds \ {c} : bookings'[b] = bookings[b]
      BY <3>1
    <3> QED
      BY <3>1, <3>2
  <2>2. CASE \A b \in BookingIds :
               /\ bookings'[b].student = bookings[b].student
               /\ bookings'[b].status = "free" <=> bookings[b].status = "free"
    BY <2>2
  <2> QED
    BY <2>1, <2>2, RowsKeepStudents
<1>2. PICK c \in BookingIds \cup {None} : InUse(bookings') \subseteq InUse(bookings) \cup {c}
  BY <1>1
<1> HIDE DEF InUse
<1>3. IsFiniteSet(InUse(bookings) \cup {c})
  BY FS_AddElement DEF Tables
<1>4. IsFiniteSet(InUse(bookings'))
  BY <1>2, <1>3, FS_Subset
<1> QED
  BY <1>1, <1>4 DEF Tables

LEMMA AdminSpares ==
  ASSUME IInv, NEW a \in Admins, AdminStep(a)
  PROVE  /\ \A s : Spared(s)
         /\ forced \subseteq forced'
         /\ UNCHANGED <<job, overlapped>>
<1> USE DEF Spared
<1>1. CASE LoadStep(a)
  BY <1>1 DEF LoadStep, BeginToggle, BeginPatch, BeginHours, BeginRetire, BeginAdmin,
              bookingVars
<1>2. CASE SaveStep(a)
  BY <1>2 DEF SaveStep, SavePatch, SaveHours, SaveRetired, SaveToggle, SaveMachine
<1>3. CASE TakeOffline(a) \/ ListFuture(a) \/ ListStranded(a) \/ AdminCrash(a)
  BY <1>3 DEF TakeOffline, ListFuture, ListStranded, AdminCrash, bookingVars
<1>4. CASE Drop(a)
  <2>1. \A b \in admin[a].ids : bookings[b].status # "free"
    BY DEF IInv, RowsExist
  <2> QED
    BY <1>4, <2>1 DEF Drop
<1> QED
  BY <1>1, <1>2, <1>3, <1>4 DEF AdminStep, DropStep

\* A step of one request leaves the others' jobs alone, and writes bookings only
\* when it commits.
LEMMA OthersWait ==
  ASSUME TypeOK, NEW w \in Workers, WorkerStep(w)
  PROVE  /\ \A v \in Workers \ {w} : job'[v] = job[v]
         /\ forced \subseteq forced' /\ overlapped \subseteq overlapped'
         /\ Commits(w) \/ UNCHANGED <<bookings, forced>>
<1> USE DEF TypeOK, Begin
<1>1. CASE CreateStep(w)
  BY <1>1 DEF CreateStep, BeginCreate, CheckItem, FinishBatch
<1>2. CASE MoveStep(w)
  BY <1>2 DEF MoveStep, BeginMove
<1>3. CASE ClaimStep(w)
  BY <1>3 DEF ClaimStep, LockAndCheck, SlotTaken, WriteCreate, WriteMove, Commits
<1>4. CASE CancelStep(w)
  BY <1>4 DEF CancelStep, BeginCancel, SaveCancel, BeginCommitteeCancel,
              SaveCommitteeCancel, Commits
<1>5. CASE Crash(w)
  BY <1>5 DEF Crash
<1> QED
  BY <1>1, <1>2, <1>3, <1>4, <1>5 DEF WorkerStep

\* A request spares everybody but its own student and those set aside.
LEMMA WorkerSpares ==
  ASSUME IInv, NEW w \in Workers, WorkerStep(w), NEW X, JobOwned(bookings, job[w], X)
  PROVE  /\ \A s : s # job[w].student /\ s \notin X => Spared(s)
         /\ Commits(w) \/ \A s : Spared(s)
<1> USE DEF IInv, TypeOK
<1>1. CASE UNCHANGED bookings
  BY <1>1 DEF Spared
<1>2. CASE WriteCreate(w)
  <2>1. PICK c \in BookingIds :
          /\ bookings[c].status = "free"
          /\ bookings' \in {bookings, [bookings EXCEPT ![c] = NewRow(job[w])]}
    BY <1>2 DEF WriteCreate
  <2>2. NewRow(job[w]).student = job[w].student
    BY NewRowFields
  <2> QED
    BY <1>2, <2>1, <2>2 DEF Spared, OwnRow, Commits
<1>3. CASE WriteMove(w)
  <2> DEFINE c == job[w].booking
  <2>1. /\ c \in BookingIds
        /\ bookings' \in {bookings, [bookings EXCEPT ![c] = ClaimedRow(bookings[c], job[w])]}
    BY <1>3 DEF WriteMove, Job
  <2>2. bookings[c].student \in {job[w].student} \cup X
    BY <1>3 DEF WriteMove, JobOwned, Acting
  <2>3. ClaimedRow(bookings[c], job[w]).student = bookings[c].student
    BY <2>1, <2>2, ClaimedRowFields
  <2> QED
    BY <1>3, <2>1, <2>2, <2>3 DEF Spared, OwnRow, Commits
<1>4. CASE SaveCancel(w)
  <2> DEFINE c == job[w].booking
             row == CancelledRow(bookings[c], job[w].late, job[w].counts)
  <2>1. c \in BookingIds /\ bookings' = [bookings EXCEPT ![c] = row]
    BY <1>4 DEF SaveCancel, RequestsNameRows
  <2>2. bookings[c].student \in {job[w].student} \cup X
    BY <1>4, <2>1, BookingAssumption DEF SaveCancel, JobOwned, Acting
  <2>3. row.student = bookings[c].student
    BY <2>1, <2>2, CancelledRowFields DEF Job
  <2> HIDE DEF row
  <2> QED
    BY <1>4, <2>1, <2>2, <2>3 DEF Spared, OwnRow, Commits
<1>5. CASE SaveCommitteeCancel(w)
  <2> DEFINE c == job[w].booking
  <2>1. /\ c \in BookingIds /\ c \in forced'
        /\ bookings' = [bookings EXCEPT ![c] = CancelledRow(bookings[c], FALSE, FALSE)]
    BY <1>5 DEF SaveCommitteeCancel, RequestsNameRows
  <2>2. bookings[c].status # "free"
    BY <2>1, BookingAssumption DEF RowsExist
  <2> QED
    BY <2>1, <2>2 DEF Spared
<1> QED
  BY <1>1, <1>2, <1>3, <1>4, <1>5, OthersWait DEF Commits

-----------------------------------------------------------------------------
(* What a request does to itself *)

\* A request changes its student only by beginning, which a second one notices.
LEMMA SoloStep ==
  ASSUME TypeOK, Solo, NEW w \in Workers, WorkerStep(w)
  PROVE  Solo'
<1> USE DEF TypeOK
<1>1. ASSUME NEW s, NEW op, NEW newJob, Begin(w, s, op, newJob), newJob.student = s
      PROVE  \/ job'[w].student \in {job[w].student, None}
             \/ \A v \in Workers \ {w} :
                  job[v].student = job'[w].student => job'[w].student \in overlapped'
  BY <1>1 DEF Begin
<1>2. \/ job'[w].student \in {job[w].student, None}
      \/ \A v \in Workers \ {w} :
           job[v].student = job'[w].student => job'[w].student \in overlapped'
  <2>1. CASE \E s \in Students : BeginCreate(w, s)
    <3>1. PICK s \in Students : BeginCreate(w, s)
      BY <2>1
    <3>2. [NoJob EXCEPT !.stage = "batch", !.student = s, !.at = now].student = s
      BY DEF NoJob
    <3> QED
      BY <1>1, <3>1, <3>2 DEF BeginCreate
  <2>2. CASE MoveStep(w)
    <3>1. PICK s \in Students, b \in BookingIds, m \in Machines :
            \E slot \in machine[m].grid : BeginMove(w, s, b, m, slot)
      BY <2>2 DEF MoveStep
    <3>2. PICK slot \in machine[m].grid : BeginMove(w, s, b, m, slot)
      BY <3>1
    <3>3. [NoJob EXCEPT !.stage = "claim", !.student = s, !.booking = b, !.machine = m,
                        !.start = slot.start, !.end = slot.end,
                        !.counts = CountsTowardQuota(m), !.at = now].student = s
      BY DEF NoJob
    <3> QED
      BY <1>1, <3>2, <3>3 DEF BeginMove
  <2>3. CASE \E s \in Students, b \in BookingIds : BeginCancel(w, s, b)
    <3>1. PICK s \in Students, b \in BookingIds : BeginCancel(w, s, b)
      BY <2>3
    <3> DEFINE late == IsLateCancel(bookings[b].start, now)
    <3>2. [NoJob EXCEPT !.stage = "cancel", !.student = s, !.booking = b, !.late = late,
                        !.counts = late /\ bookings[b].counts, !.at = now].student = s
      BY DEF NoJob
    <3> QED
      BY <1>1, <3>1, <3>2 DEF BeginCancel
  <2>4. NoJob.student = None /\ AfterClaim(w).student \in {job[w].student, None}
    BY DEF NoJob, AfterClaim, NextItem
  <2>5. CASE \E m \in Machines : \E slot \in machine[m].grid : CheckItem(w, m, slot)
    BY <2>5 DEF CheckItem, Job
  <2>6. CASE FinishBatch(w) \/ SaveCancel(w) \/ SaveCommitteeCancel(w) \/ Crash(w)
    BY <2>4, <2>6 DEF FinishBatch, SaveCancel, SaveCommitteeCancel, Crash
  <2>7. CASE LockAndCheck(w)
    BY <2>7 DEF LockAndCheck, Job
  <2>8. CASE SlotTaken(w) \/ WriteCreate(w) \/ WriteMove(w)
    BY <2>4, <2>8 DEF SlotTaken, WriteCreate, WriteMove
  <2>9. CASE \E b \in BookingIds : BeginCommitteeCancel(w, b)
    BY <2>9 DEF BeginCommitteeCancel, NoJob
  <2> QED
    BY <2>1, <2>2, <2>3, <2>5, <2>6, <2>7, <2>8, <2>9
    DEF WorkerStep, CreateStep, ClaimStep, CancelStep
<1> QED
  BY <1>2, OthersWait, BookingAssumption DEF Solo

\* The quota and the week of a booking that is about to be made or cancelled are
\* among those the limit is about.
LEMMA PlaceHasQuota ==
  ASSUME NEW m \in Machines, NEW start \in Nat, NEW end \in Nat,
         [start |-> start, end |-> end] \in UNION Grids
  PROVE  /\ Kind[m] \in Kinds /\ QuotaWeek(start) \in Weeks
         /\ CountsTowardQuota(m) <=> Counted(Kind[m])
<1>1. QuotaWeek([start |-> start, end |-> end].start) \in Weeks
  BY DEF Weeks
<1> QED
  BY <1>1, BookingAssumption DEF CountsTowardQuota, Counted

LEMMA NoJobSound ==
  /\ NoJob.stage = "idle"
  /\ \A w \in Workers :
       /\ AfterClaim(w).stage \in {"idle", "batch"}
       /\ AfterClaim(w).stage = "batch" =>
            AfterClaim(w).student = job[w].student /\ AfterClaim(w).booking = None
BY DEF NoJob, AfterClaim, NextItem

\* Steps after which a request is at rest or at the next item of its batch.
LEMMA SettledSound ==
  ASSUME TypeOK, NEW w \in Workers, NEW X, NEW Y, JobOwned(bookings, job[w], X),
         \/ \E s \in Students : BeginCreate(w, s)
         \/ FinishBatch(w) \/ SlotTaken(w) \/ WriteCreate(w) \/ WriteMove(w)
         \/ SaveCancel(w) \/ SaveCommitteeCancel(w) \/ Crash(w)
         \/ \E b \in BookingIds : BeginCommitteeCancel(w, b)
  PROVE  JobSound(bookings', forced', job'[w], Y)
<1> USE DEF TypeOK
<1>1. /\ job'[w].stage \in {"idle", "batch", "committee"}
      /\ job'[w].stage = "batch" => job'[w].student \in Students /\ job'[w].booking = None
  <2>1. ASSUME NEW s \in Students, BeginCreate(w, s)
        PROVE  job'[w].stage = "batch" /\ job'[w].student = s /\ job'[w].booking = None
    BY <2>1 DEF BeginCreate, Begin, NoJob
  <2>2. CASE FinishBatch(w) \/ SaveCancel(w) \/ SaveCommitteeCancel(w) \/ Crash(w)
    BY <2>2, NoJobSound DEF FinishBatch, SaveCancel, SaveCommitteeCancel, Crash
  <2>3. CASE SlotTaken(w) \/ WriteCreate(w) \/ WriteMove(w)
    <3>1. job[w].stage \in {"claim", "write"} /\ job'[w] = AfterClaim(w)
      BY <2>3 DEF SlotTaken, WriteCreate, WriteMove
    <3> QED
      BY <3>1, NoJobSound DEF JobOwned, Acting
  <2>4. ASSUME NEW b \in BookingIds, BeginCommitteeCancel(w, b)
        PROVE  job'[w].stage = "committee"
    BY <2>4 DEF BeginCommitteeCancel, NoJob
  <2> QED
    BY <2>1, <2>2, <2>3, <2>4
<1> QED
  BY <1>1 DEF JobSound, JobOwned, JobExact, Acting

\* A claim starts from a verdict that is right for its student.
LEMMA CheckSound ==
  ASSUME TypeOK, NEW w \in Workers, NEW X, NEW Y, JobOwned(bookings, job[w], X),
         NEW m \in Machines, NEW slot \in machine[m].grid, CheckItem(w, m, slot)
  PROVE  JobSound(bookings', forced', job'[w], Y)
<1> USE DEF TypeOK
<1>1. /\ job'[w].stage = "claim" /\ job'[w].machine = m /\ job'[w].start = slot.start
      /\ job'[w].counts = CountsTowardQuota(m)
      /\ job'[w].student = job[w].student /\ job'[w].booking = None
  BY DEF CheckItem, Job, JobOwned
<1>2. job[w].student \in Students
  BY DEF CheckItem, JobOwned, Acting
<1>3. CountsTowardQuota(m) =>
        QuotaUsed(bookings, job[w].student, Kind[m], QuotaWeek(slot.start), None) < QuotaLimit
  BY DEF CheckItem, RulesAllow
<1>4. UNCHANGED bookings
  BY DEF CheckItem
<1> QED
  BY <1>1, <1>2, <1>3, <1>4 DEF JobSound, JobOwned, JobExact, Acting

LEMMA MoveSound ==
  ASSUME TypeOK, NEW w \in Workers, NEW Y, NEW s \in Students, NEW b \in BookingIds,
         NEW m \in Machines, NEW slot \in machine[m].grid, BeginMove(w, s, b, m, slot)
  PROVE  JobSound(bookings', forced', job'[w], Y)
<1> USE DEF TypeOK
<1>1. /\ job'[w].stage = "claim" /\ job'[w].machine = m /\ job'[w].start = slot.start
      /\ job'[w].counts = CountsTowardQuota(m)
      /\ job'[w].student = s /\ job'[w].booking = b
  BY DEF BeginMove, Begin, NoJob
<1>2. bookings[b].status = "live" /\ bookings[b].student = s
  BY DEF BeginMove, Live
<1>3. CountsTowardQuota(m) =>
        QuotaUsed(bookings, s, Kind[m], QuotaWeek(slot.start), b) < QuotaLimit
  BY DEF BeginMove, RulesAllow
<1>4. UNCHANGED bookings
  BY DEF BeginMove
<1> QED
  BY <1>1, <1>2, <1>3, <1>4 DEF JobSound, JobOwned, JobExact, Acting

LEMMA LockSound ==
  ASSUME TypeOK, NEW w \in Workers, NEW X, NEW Y, X \subseteq Y,
         JobSound(bookings, forced, job[w], X), LockAndCheck(w)
  PROVE  JobSound(bookings', forced', job'[w], Y)
<1>1. /\ job[w].stage = "claim" /\ job'[w] = [job[w] EXCEPT !.stage = "write"]
      /\ UNCHANGED <<bookings, forced>>
  BY DEF LockAndCheck, TypeOK
<1>2. /\ job'[w].stage = "write" /\ job'[w].machine = job[w].machine
      /\ job'[w].start = job[w].start /\ job'[w].counts = job[w].counts
      /\ job'[w].student = job[w].student /\ job'[w].booking = job[w].booking
  BY <1>1 DEF TypeOK, Job
<1>3. JobOwned(bookings', job'[w], Y)
  BY <1>1, <1>2 DEF JobSound, JobOwned, Acting
<1>4. JobExact(bookings, forced, job[w]) => JobExact(bookings', forced', job'[w])
  BY <1>1, <1>2 DEF JobExact
<1> QED
  BY <1>2, <1>3, <1>4 DEF JobSound

\* A cancellation that will count is of a booking that counts already.
LEMMA CancelSound ==
  ASSUME IInv, bookings \in Tables, NEW X, NEW Y, X \subseteq Y, QuotaHeldBut(bookings, X),
         NEW w \in Workers, NEW s \in Students, NEW b \in BookingIds, BeginCancel(w, s, b)
  PROVE  JobSound(bookings', forced', job'[w], Y)
<1> USE DEF IInv, TypeOK
<1> DEFINE row == bookings[b]
<1>1. /\ job'[w].stage = "cancel" /\ job'[w].student = s /\ job'[w].booking = b
      /\ job'[w].late = IsLateCancel(row.start, now)
      /\ job'[w].counts = (IsLateCancel(row.start, now) /\ row.counts)
  BY DEF BeginCancel, Begin, NoJob
<1>2. Live(b) /\ row.student = s /\ UNCHANGED bookings
  BY DEF BeginCancel
<1>3. ASSUME s \notin X, row.counts, CountsTowardQuota(row.machine)
      PROVE  QuotaUsed(bookings, s, Kind[row.machine], QuotaWeek(row.start), b) < QuotaLimit
  <2>1. /\ row.machine \in Machines /\ row.start \in Nat /\ row.end \in Nat
        /\ [start |-> row.start, end |-> row.end] \in UNION Grids
    BY <1>2 DEF SlotsOnGrids, SlotOf, BookingRow
  <2>2. /\ Kind[row.machine] \in Kinds /\ QuotaWeek(row.start) \in Weeks
        /\ Counted(Kind[row.machine])
    BY <1>3, <2>1, PlaceHasQuota
  <2>3. QuotaUsed(bookings, s, Kind[row.machine], QuotaWeek(row.start), None) =< QuotaLimit
    BY <1>3, <2>2 DEF QuotaHeldBut
  <2>4. b \in QuotaRows(bookings, s, Kind[row.machine], QuotaWeek(row.start), None)
    BY <1>2, <1>3, BookingAssumption DEF QuotaRows, Live
  <2> QED
    BY <2>3, <2>4, RoomForItself
<1>4. JobOwned(bookings', job'[w], Y)
  BY <1>1, <1>2 DEF JobOwned, Acting
<1>5. ASSUME s \notin Y PROVE JobExact(bookings', forced', job'[w])
  <2>1. job'[w].counts => row.counts
    BY <1>1
  <2>2. ASSUME job'[w].counts, CountsTowardQuota(row.machine)
        PROVE  QuotaUsed(bookings, s, Kind[row.machine], QuotaWeek(row.start), b) < QuotaLimit
    BY <1>3, <1>5, <2>1, <2>2
  <2> QED
    BY <1>1, <1>2, <2>2 DEF JobExact
<1> QED
  BY <1>1, <1>4, <1>5 DEF JobSound

LEMMA OwnJobSound ==
  ASSUME IInv, bookings \in Tables, NEW X, NEW Y, X \subseteq Y, QuotaHeldBut(bookings, X),
         NEW w \in Workers, WorkerStep(w), JobSound(bookings, forced, job[w], X)
  PROVE  JobSound(bookings', forced', job'[w], Y)
<1>1. CASE \E s \in Students, b \in BookingIds : BeginCancel(w, s, b)
  BY <1>1, CancelSound
<1>2. CASE LockAndCheck(w)
  BY <1>2, LockSound DEF IInv
<1>3. CASE MoveStep(w)
  BY <1>3, MoveSound DEF IInv, MoveStep
<1>4. CASE \E m \in Machines : \E slot \in machine[m].grid : CheckItem(w, m, slot)
  BY <1>4, CheckSound DEF IInv, JobSound
<1> QED
  BY <1>1, <1>2, <1>3, <1>4, SettledSound
  DEF IInv, JobSound, WorkerStep, CreateStep, ClaimStep, CancelStep

-----------------------------------------------------------------------------
(* What a request writes into a booking of its student *)

\* The row written by a request whose student has no other one in flight: there
\* is room for it if it counts, and if it is cancelled it counts only when late.
WrittenSoundly(w) ==
  \E c \in BookingIds, x \in BookingIds \cup {None} :
    /\ x \in {c, None}
    /\ \A b \in BookingIds \ {c} : bookings'[b] = bookings[b]
    /\ LET row == bookings'[c] IN
       /\ row # bookings[c] /\ row.counts /\ CountsTowardQuota(row.machine) =>
            QuotaUsed(bookings, job[w].student, Kind[row.machine], QuotaWeek(row.start), x)
              < QuotaLimit
       /\ row # bookings[c] /\ row.status = "cancelled" /\ row.counts =>
            row.late \/ c \in forced'

LEMMA CommitSound ==
  ASSUME IInv, NEW w \in Workers, Commits(w), NEW X, JobSound(bookings, forced, job[w], X),
         job[w].student \notin X
  PROVE  WrittenSoundly(w) \/ Spared(job[w].student)
<1> USE DEF IInv, TypeOK, JobSound
<1> DEFINE j == job[w]
           s == j.student
<1>1. CASE WriteCreate(w)
  <2>1. PICK c \in BookingIds : bookings' \in {bookings, [bookings EXCEPT ![c] = NewRow(j)]}
    BY <1>1 DEF WriteCreate
  <2>2. j.counts => QuotaUsed(bookings, s, Kind[j.machine], QuotaWeek(j.start), None) < QuotaLimit
    BY <1>1 DEF WriteCreate, JobExact
  <2>3. /\ \A b \in BookingIds \ {c} : bookings'[b] = bookings[b]
        /\ bookings'[c] \in {bookings[c], NewRow(j)}
    BY <2>1
  <2> DEFINE row == bookings'[c]
  <2>4. row # bookings[c] =>
          /\ row.counts = j.counts /\ row.machine = j.machine /\ row.start = j.start
          /\ row.status = "live"
    BY <2>3, NewRowFields
  <2>5. row # bookings[c] /\ row.counts /\ CountsTowardQuota(row.machine) =>
          QuotaUsed(bookings, s, Kind[row.machine], QuotaWeek(row.start), None) < QuotaLimit
    BY <2>2, <2>4
  <2>6. \E x \in BookingIds \cup {None} : x = None
    OBVIOUS
  <2> QED
    BY <2>3, <2>4, <2>5, <2>6 DEF WrittenSoundly
<1>2. CASE WriteMove(w)
  <2> DEFINE c == j.booking
  <2>1. /\ c \in BookingIds /\ j.stage = "write"
        /\ bookings' \in {bookings, [bookings EXCEPT ![c] = ClaimedRow(bookings[c], j)]}
    BY <1>2 DEF WriteMove, Job
  <2>2. /\ \A b \in BookingIds \ {c} : bookings'[b] = bookings[b]
        /\ bookings'[c] \in {bookings[c], ClaimedRow(bookings[c], j)}
        /\ UNCHANGED forced
    BY <1>2, <2>1 DEF WriteMove
  <2>3. CASE bookings[c].student = s
    <3>1. /\ j.counts => QuotaUsed(bookings, s, Kind[j.machine], QuotaWeek(j.start), c) < QuotaLimit
          /\ bookings[c].status = "live" \/ c \in forced
      BY <2>1, <2>3, BookingAssumption DEF JobExact
    <3> QED
      BY <2>1, <2>2, <3>1, ClaimedRowFields DEF WrittenSoundly
  <2>4. CASE bookings[c].student # s
    <3>1. bookings'[c].student = bookings[c].student
      BY <2>1, <2>2, ClaimedRowFields
    <3> QED
      BY <2>2, <2>4, <3>1 DEF Spared, OwnRow
  <2> QED
    BY <2>3, <2>4
<1>3. CASE SaveCancel(w)
  <2> DEFINE c == j.booking
             row == CancelledRow(bookings[c], j.late, j.counts)
  <2>1. /\ c \in BookingIds /\ j.stage = "cancel"
        /\ bookings' = [bookings EXCEPT ![c] = row]
    BY <1>3 DEF SaveCancel, RequestsNameRows
  <2>2. /\ row.machine = bookings[c].machine /\ row.start = bookings[c].start
        /\ row.counts = j.counts /\ row.late = j.late
        /\ row.student = bookings[c].student
    BY <2>1, CancelledRowFields DEF Job
  <2> HIDE DEF row
  <2>3. /\ \A b \in BookingIds \ {c} : bookings'[b] = bookings[b]
        /\ bookings'[c] = row
    BY <2>1
  <2>4. CASE bookings[c].student = s
    <3>1. /\ j.counts => j.late
          /\ j.counts /\ CountsTowardQuota(bookings[c].machine) =>
               QuotaUsed(bookings, s, Kind[bookings[c].machine], QuotaWeek(bookings[c].start), c)
                 < QuotaLimit
      BY <2>1, <2>4 DEF JobOwned, JobExact
    <3> QED
      BY <2>1, <2>2, <2>3, <3>1 DEF WrittenSoundly
  <2>5. CASE bookings[c].student # s
    BY <2>2, <2>3, <2>5 DEF Spared, OwnRow
  <2> QED
    BY <2>4, <2>5
<1>4. CASE SaveCommitteeCancel(w)
  <2> DEFINE c == j.booking
  <2>1. /\ c \in BookingIds /\ c \in forced'
        /\ bookings' = [bookings EXCEPT ![c] = CancelledRow(bookings[c], FALSE, FALSE)]
    BY <1>4 DEF SaveCommitteeCancel, RequestsNameRows
  <2>2. bookings[c].status # "free"
    BY <2>1, BookingAssumption DEF RowsExist
  <2> QED
    BY <2>1, <2>2 DEF Spared
<1> QED
  BY <1>1, <1>2, <1>3, <1>4 DEF Commits

-----------------------------------------------------------------------------
(* Every step is sound *)

LEMMA SoundStarts == AdminInit => Solo /\ Sound(bookings, forced, job, overlapped)
<1> SUFFICES ASSUME AdminInit PROVE Solo /\ Sound(bookings, forced, job, overlapped)
  OBVIOUS
<1> USE DEF AdminInit, Init
<1>1. \A b \in BookingIds : bookings[b].status = "free"
  BY DEF FreeRow
<1>2. bookings \in Tables
  <2>1. InUse(bookings) = {}
    BY <1>1 DEF InUse
  <2> QED
    BY <2>1, FS_EmptySet, InitTyped DEF Tables, TypeOK
<1>3. \A w \in Workers : job[w].stage = "idle" /\ job[w].student = None
  BY DEF NoJob
<1>4. Solo
  BY <1>3, BookingAssumption DEF Solo
<1>5. \A w \in Workers : JobSound(bookings, forced, job[w], overlapped)
  BY <1>3 DEF JobSound, JobOwned, JobExact, Acting
<1>6. FlagsHeldBut(bookings, forced, overlapped)
  BY <1>1 DEF FlagsHeldBut
<1>7. QuotaHeldBut(bookings, overlapped)
  <2>1. \A s, k, week : QuotaRows(bookings, s, k, week, None) = {}
    BY <1>1 DEF QuotaRows
  <2> QED
    BY <2>1, FS_EmptySet, RulesAssumption DEF QuotaHeldBut, QuotaUsed
<1> QED
  BY <1>2, <1>4, <1>5, <1>6, <1>7 DEF Sound

\* A request that took no step is as sound as before.
LEMMA WaitingSound ==
  ASSUME IInv, NEW X, NEW Y, X \subseteq Y, Sound(bookings, forced, job, X),
         bookings' \in Tables,
         \A b \in InUse(bookings) : bookings'[b].student = bookings[b].student,
         forced \subseteq forced', NEW v \in Workers, job'[v] = job[v],
         job[v].student \in Students \ Y => Spared(job[v].student)
  PROVE  JobSound(bookings', forced', job'[v], Y)
<1> DEFINE j == job[v]
<1>1. j \in Job /\ JobSound(bookings, forced, j, X) /\ bookings \in Tables
  BY DEF IInv, TypeOK, Sound
<1>2. j.booking # None =>
        /\ bookings[j.booking].status # "free"
        /\ bookings'[j.booking].student = bookings[j.booking].student
  BY <1>1 DEF IInv, RowsExist, InUse, Job
<1>3. j.stage = "cancel" => j.booking # None
  BY BookingAssumption DEF IInv, RequestsNameRows
<1>4. JobOwned(bookings', j, Y)
  BY <1>1, <1>2 DEF JobSound, JobOwned, Acting
<1>5. ASSUME j.student \notin Y PROVE JobExact(bookings', forced', j)
  <2>1. CASE j.student \in Students
    <3>1. JobExact(bookings, forced, j) /\ Spared(j.student)
      BY <1>1, <1>5, <2>1 DEF JobSound
    <3> QED
      BY <1>1, <1>2, <1>3, <3>1, SparedKeepsExact
  <2>2. CASE j.student \notin Students
    BY <1>4, <2>2 DEF JobOwned, JobExact, Acting
  <2> QED
    BY <2>1, <2>2
<1> QED
  BY <1>4, <1>5 DEF JobSound

\* A step that spares everybody, and no request takes.
LEMMA SparingStep ==
  ASSUME IInv, Solo, NEW X, NEW Y, X \subseteq Y, Sound(bookings, forced, job, X),
         bookings' \in Tables,
         \A b \in InUse(bookings) : bookings'[b].student = bookings[b].student,
         forced \subseteq forced', UNCHANGED <<job, overlapped>>, \A s : Spared(s)
  PROVE  Solo' /\ Sound(bookings', forced', job', Y)
<1>1. Solo'
  BY DEF Solo
<1>2. \A w \in Workers : JobSound(bookings', forced', job'[w], Y)
  BY WaitingSound
<1>3. FlagsHeldBut(bookings', forced', Y)
  BY SparedKeepsFlags DEF Sound, FlagsHeldBut
<1>4. QuotaHeldBut(bookings', Y)
  BY SparedKeepsQuota DEF Sound, QuotaHeldBut
<1> QED
  BY <1>1, <1>2, <1>3, <1>4 DEF Sound

\* A step of a request.
LEMMA WorkerStepSound ==
  ASSUME IInv, TypeOK', Solo, NEW X, NEW Y, overlapped \subseteq X, X \subseteq Y,
         Sound(bookings, forced, job, X),
         NEW w \in Workers, WorkerStep(w), UNCHANGED admin
  PROVE  Solo' /\ Sound(bookings', forced', job', Y)
<1> DEFINE own == job[w].student
<1>1. /\ bookings \in Tables /\ bookings' \in Tables
      /\ \A b \in InUse(bookings) : bookings'[b].student = bookings[b].student
  BY StudentsKept DEF Sound, BookingNext
<1>2. \A v \in Workers : JobSound(bookings, forced, job[v], X)
  BY DEF Sound
<1>3. (\A v \in Workers \ {w} : job'[v] = job[v]) /\ forced \subseteq forced'
  BY OthersWait DEF IInv
<1>4. \A s : s \notin X => Spared(s) \/ (s = own /\ Commits(w))
  BY <1>2, WorkerSpares DEF JobSound
<1>5. ASSUME NEW s, s \notin X, ~Spared(s)
      PROVE  s = own /\ WrittenSoundly(w)
  BY <1>2, <1>4, <1>5, CommitSound
<1>6. Solo'
  BY SoloStep DEF IInv
<1>7. ASSUME NEW v \in Workers PROVE JobSound(bookings', forced', job'[v], Y)
  <2>1. CASE v = w
    BY <1>1, <1>2, <2>1, OwnJobSound DEF Sound
  <2>2. CASE v # w
    <3>1. ASSUME job[v].student \in Students \ Y PROVE Spared(job[v].student)
      <4>1. job[v].student # own
        BY <2>2, <3>1 DEF Solo
      <4> QED
        BY <1>4, <3>1, <4>1
    <3> QED
      BY <1>1, <1>3, <2>2, <3>1, WaitingSound
  <2> QED
    BY <2>1, <2>2
<1>8. ASSUME NEW s \in Students \ Y, NEW k \in Kinds, NEW week \in Weeks, Counted(k)
      PROVE  QuotaUsed(bookings', s, k, week, None) =< QuotaLimit
  <2>1. CASE Spared(s)
    BY <1>1, <1>8, <2>1, SparedKeepsQuota DEF Sound
  <2>2. CASE ~Spared(s)
    <3>1. s = own /\ WrittenSoundly(w)
      BY <1>5, <1>8, <2>2
    <3>2. PICK c \in BookingIds, x \in BookingIds \cup {None} :
            /\ x \in {c, None}
            /\ \A b \in BookingIds \ {c} : bookings'[b] = bookings[b]
            /\ LET row == bookings'[c] IN
               row # bookings[c] /\ row.counts /\ CountsTowardQuota(row.machine) =>
                 QuotaUsed(bookings, s, Kind[row.machine], QuotaWeek(row.start), x) < QuotaLimit
      BY <3>1 DEF WrittenSoundly
    <3>3. bookings'[c] # bookings[c]
      BY <2>2, <3>2 DEF Spared
    <3>4. c \in QuotaRows(bookings', s, k, week, None) =>
            QuotaUsed(bookings, s, k, week, x) < QuotaLimit
      BY <1>8, <3>2, <3>3 DEF QuotaRows, CountsTowardQuota, Counted
    <3>5. QuotaUsed(bookings, s, k, week, None) =< QuotaLimit
      BY <1>8 DEF Sound, QuotaHeldBut
    <3>6. QuotaRows(bookings', s, k, week, None) \ {c} \subseteq QuotaRows(bookings, s, k, week, x)
      BY <1>1, <3>2, BookingAssumption DEF QuotaRows, Tables
    <3> QED
      BY <1>1, <3>4, <3>5, <3>6, RoomForOne
  <2> QED
    BY <2>1, <2>2
<1>9. ASSUME NEW b \in BookingIds, bookings'[b].status = "cancelled", bookings'[b].counts,
             bookings'[b].student \notin Y, b \notin forced'
      PROVE  bookings'[b].late
  <2>1. CASE Spared(bookings'[b].student)
    BY <1>3, <1>9, <2>1, SparedKeepsFlags DEF Sound
  <2>2. CASE ~Spared(bookings'[b].student)
    <3>1. WrittenSoundly(w)
      BY <1>5, <1>9, <2>2
    <3>2. bookings'[b] # bookings[b] => bookings'[b].late \/ b \in forced'
      BY <1>9, <3>1 DEF WrittenSoundly
    <3>3. bookings'[b] = bookings[b] => bookings'[b].late
      BY <1>3, <1>9 DEF Sound, FlagsHeldBut
    <3> QED
      BY <1>9, <3>2, <3>3
  <2> QED
    BY <2>1, <2>2
<1>10. QuotaHeldBut(bookings', Y) /\ FlagsHeldBut(bookings', forced', Y)
  BY <1>8, <1>9 DEF QuotaHeldBut, FlagsHeldBut
<1> QED
  BY <1>1, <1>6, <1>7, <1>10 DEF Sound

\* Any step of bookings and machine administration.
LEMMA NextSound ==
  ASSUME IInv, TypeOK', Solo, NEW X, NEW Y, overlapped \subseteq X, X \subseteq Y,
         Sound(bookings, forced, job, X), [Next]_vars
  PROVE  Solo' /\ Sound(bookings', forced', job', Y)
<1>1. ASSUME NEW a \in Admins, AdminStep(a)
      PROVE  Solo' /\ Sound(bookings', forced', job', Y)
  <2>1. /\ bookings' \in Tables
        /\ \A b \in InUse(bookings) : bookings'[b].student = bookings[b].student
    BY <1>1, StudentsKept DEF Sound
  <2>2. /\ \A s : Spared(s)
        /\ forced \subseteq forced' /\ UNCHANGED <<job, overlapped>>
    BY <1>1, AdminSpares
  <2> QED
    BY <2>1, <2>2, SparingStep
<1>2. ASSUME UNCHANGED <<bookings, job, forced, overlapped>>
      PROVE  Solo' /\ Sound(bookings', forced', job', Y)
  <2>1. bookings' \in Tables
    BY <1>2 DEF Sound
  <2>2. \A s : Spared(s)
    BY <1>2 DEF Spared
  <2> QED
    BY <1>2, <2>1, <2>2, SparingStep
<1>3. EnvironmentStep => UNCHANGED <<bookings, job, forced, overlapped>>
  BY DEF EnvironmentStep, Tick, Suspend, Unsuspend
<1> QED
  BY <1>1, <1>2, <1>3, WorkerStepSound DEF Next, BookingNext, vars, bookingVars

\* Whoever is set aside stays so.
LEMMA OverlapsStay == IInv /\ [Next]_vars => overlapped \subseteq overlapped'
<1> SUFFICES ASSUME IInv, [Next]_vars PROVE overlapped \subseteq overlapped'
  OBVIOUS
<1>1. ASSUME NEW w \in Workers, WorkerStep(w) PROVE overlapped \subseteq overlapped'
  BY <1>1, OthersWait DEF IInv
<1>2. ASSUME NEW a \in Admins, AdminStep(a) PROVE overlapped \subseteq overlapped'
  BY <1>2, AdminSpares
<1> QED
  BY <1>1, <1>2
  DEF Next, BookingNext, EnvironmentStep, Tick, Suspend, Unsuspend, vars, bookingVars

-----------------------------------------------------------------------------
(* The theorems *)

LEMMA QuotaStep == QuotaInv /\ [Next]_vars => QuotaInv'
<1> SUFFICES ASSUME QuotaInv, [Next]_vars PROVE QuotaInv'
  OBVIOUS
<1> USE DEF QuotaInv
<1>1. IInv'
  BY NextPreserves
<1>2. overlapped \subseteq overlapped'
  BY OverlapsStay
<1>3. Solo' /\ Sound(bookings', forced', job', overlapped')
  BY <1>1, <1>2, NextSound DEF IInv
<1> QED
  BY <1>1, <1>3

\* Every reachable state satisfies the invariant of this module.
THEOREM QuotaInvariance == Spec => []QuotaInv
<1>1. AdminInit => QuotaInv
  BY InitEstablishes, SoundStarts DEF QuotaInv
<1> QED
  BY <1>1, QuotaStep, PTL DEF Spec

\* The quota check of laundry/services/rules.py is made before the transaction and
\* under no lock.  For a student with one request in flight at a time it is exact
\* all the same, whatever other students, the committee and administrators do.
THEOREM QuotaHeldAlone == Spec => []QuotaHeldWithoutOverlap
<1>1. QuotaInv => QuotaHeldWithoutOverlap
  BY DEF QuotaInv, Sound, QuotaHeldBut, QuotaHeldWithoutOverlap, Counted
<1> QED
  BY <1>1, QuotaInvariance, PTL

\* The flags cancel_booking writes were computed from an earlier read of the row;
\* in the same circumstances a cancelled booking counts only if it was late.
THEOREM OnlyLateOnesCount == Spec => []CancelledCountsOnlyIfLate
<1>1. QuotaInv => CancelledCountsOnlyIfLate
  BY DEF QuotaInv, Sound, FlagsHeldBut, CancelledCountsOnlyIfLate
<1> QED
  BY <1>1, QuotaInvariance, PTL
=============================================================================
