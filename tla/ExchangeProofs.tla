--------------------------- MODULE ExchangeProofs ---------------------------
(***************************************************************************)
(* Proofs, for any number of students, bookings, exchanges and calls, that *)
(* exchanges leave the guarantees of the booking service as they are, and  *)
(* that bookings change hands only through deals concluded once, whole,    *)
(* by those who have what they give (BookingDeals) and within the quotas.  *)
(***************************************************************************)
EXTENDS ExchangeProperties, QuotaProofs

-----------------------------------------------------------------------------
(* The invariant *)

\* A row that was inserted belongs to somebody.
RowsAreOwned ==
  \A b \in BookingIds : bookings[b].status = "free" <=> bookings[b].student = None

\* Whoever may insert a row is a student.
ClaimsHaveStudents ==
  \A w \in Workers :
    job[w].stage \in {"batch", "claim", "write"} => job[w].student \in Students

\* The terms of an exchange that was inserted, or is about to be.
Agreed(e) ==
  /\ e.status # "free"
  /\ e.requester \in Students /\ e.holder \in Students /\ e.requester # e.holder
  /\ e.target \in BookingIds

\* A call knows what it works on.
CallKnows(k) ==
  /\ k.stage # "idle" => k.student \in Students
  /\ k.stage \in {"visit", "approve"} \/ (k.stage = "serve" /\ k.op \in Answers) =>
       k.exchange \in ExchangeIds /\ exchange[k.exchange].status # "free"
  /\ \A x \in k.stale : exchange[x].status # "free"
  /\ k.stage = "insert" => Agreed(k.row) /\ k.row.status = "pending"

ExchangeInv ==
  /\ IInv
  /\ ExchangeTypeOK
  /\ RowsAreOwned
  /\ ClaimsHaveStudents
  /\ \A x \in ExchangeIds : exchange[x].status # "free" => Agreed(exchange[x])
  /\ \A c \in Callers : CallKnows(call[c])

LEMMA FreeExchangeIsARow == FreeExchange \in ExchangeRow
BY DEF FreeExchange, ExchangeRow

LEMMA NoCallIsACall == NoCall \in Call /\ NoCall.stage = "idle" /\ NoCall.stale = {}
BY FreeExchangeIsARow DEF NoCall, Call, CallStages

LEMMA ExchangeStarts == ExchangeInit => ExchangeInv
<1> SUFFICES ASSUME ExchangeInit PROVE ExchangeInv
  OBVIOUS
<1>1. IInv
  BY InitEstablishes DEF ExchangeInit
<1>2. ExchangeTypeOK
  BY FreeExchangeIsARow, NoCallIsACall DEF ExchangeInit, ExchangeTypeOK
<1>3. RowsAreOwned
  BY DEF ExchangeInit, AdminInit, Init, RowsAreOwned, FreeRow
<1>4. ClaimsHaveStudents
  BY DEF ExchangeInit, AdminInit, Init, ClaimsHaveStudents, NoJob
<1>5. \A x \in ExchangeIds : exchange[x].status = "free"
  BY DEF ExchangeInit, FreeExchange
<1>6. \A c \in Callers : CallKnows(call[c])
  BY NoCallIsACall DEF ExchangeInit, CallKnows
<1> QED
  BY <1>1, <1>2, <1>3, <1>4, <1>5, <1>6 DEF ExchangeInv

-----------------------------------------------------------------------------
(* Requests of Booking and MachineAdmin *)

LEMMA InsertsOwnedRow ==
  ASSUME TypeOK, RequestsNameRows, ClaimsHaveStudents, NEW w \in Workers, WriteCreate(w)
  PROVE  \/ bookings' = bookings
         \/ \E b \in BookingIds, s \in Students :
              /\ bookings[b].status = "free"
              /\ bookings' = [bookings EXCEPT ![b] = NewRow(job[w])]
              /\ NewRow(job[w]).student = s /\ NewRow(job[w]).status = "live"
<1>1. PICK b \in BookingIds :
        /\ bookings[b].status = "free"
        /\ bookings' \in {bookings, [bookings EXCEPT ![b] = NewRow(job[w])]}
  BY DEF WriteCreate
<1>2. job[w].student \in Students
  BY DEF WriteCreate, ClaimsHaveStudents
<1>3. NewRow(job[w]).student = job[w].student /\ NewRow(job[w]).status = "live"
  BY DEF NewRow, ClaimedRow, FreeRow
<1> QED
  BY <1>1, <1>2, <1>3

LEMMA ClaimsStep ==
  ASSUME TypeOK, ClaimsHaveStudents,
         (BookingNext /\ UNCHANGED admin) \/ \E a \in Admins : AdminStep(a)
  PROVE  ClaimsHaveStudents'
<1> USE DEF TypeOK, ClaimsHaveStudents
<1>1. CASE EnvironmentStep
  BY <1>1 DEF EnvironmentStep, Tick, Suspend, Unsuspend
<1>2. ASSUME NEW w \in Workers, NEW k, job' = [job EXCEPT ![w] = k],
             k.stage \in {"batch", "claim", "write"} => k.student \in Students
      PROVE  ClaimsHaveStudents'
  BY <1>2
<1>3. NoJob.stage = "idle"
  BY DEF NoJob
<1>4. ASSUME NEW w \in Workers, CreateStep(w) PROVE ClaimsHaveStudents'
  <2>1. ASSUME NEW s \in Students, BeginCreate(w, s) PROVE ClaimsHaveStudents'
    <3>1. [NoJob EXCEPT !.stage = "batch", !.student = s, !.at = now].student = s
      BY DEF NoJob
    <3> QED
      BY <1>2, <2>1, <3>1 DEF BeginCreate, Begin
  <2>2. ASSUME NEW m \in Machines, NEW slot \in machine[m].grid, CheckItem(w, m, slot)
        PROVE  ClaimsHaveStudents'
    BY <2>2 DEF CheckItem, Job
  <2>3. CASE FinishBatch(w)
    BY <1>2, <1>3, <2>3 DEF FinishBatch
  <2> QED
    BY <1>4, <2>1, <2>2, <2>3 DEF CreateStep
<1>5. ASSUME NEW w \in Workers, MoveStep(w) PROVE ClaimsHaveStudents'
  <2>1. PICK s \in Students, b \in BookingIds, m \in Machines :
          \E slot \in machine[m].grid : BeginMove(w, s, b, m, slot)
    BY <1>5 DEF MoveStep
  <2>2. PICK slot \in machine[m].grid : BeginMove(w, s, b, m, slot)
    BY <2>1
  <2> DEFINE k == [NoJob EXCEPT !.stage = "claim", !.student = s, !.booking = b, !.machine = m,
                     !.start = slot.start, !.end = slot.end,
                     !.counts = CountsTowardQuota(m), !.at = now]
  <2>3. k.student = s
    BY DEF NoJob
  <2>4. job' = [job EXCEPT ![w] = k]
    BY <2>2 DEF BeginMove, Begin
  <2> HIDE DEF k
  <2> QED
    BY <1>2, <2>3, <2>4
<1>6. ASSUME NEW w \in Workers, ClaimStep(w) PROVE ClaimsHaveStudents'
  <2>1. CASE LockAndCheck(w)
    BY <2>1 DEF LockAndCheck, Job
  <2>2. CASE SlotTaken(w) \/ WriteCreate(w) \/ WriteMove(w)
    <3>1. job[w].stage \in {"claim", "write"} /\ job' = [job EXCEPT ![w] = AfterClaim(w)]
      BY <2>2 DEF SlotTaken, WriteCreate, WriteMove
    <3>2. AfterClaim(w).stage = "batch" => AfterClaim(w).student = job[w].student
      BY DEF AfterClaim, NextItem, NoJob
    <3>3. AfterClaim(w).stage \in {"idle", "batch"}
      BY AfterClaimTyped
    <3> QED
      BY <1>2, <3>1, <3>2, <3>3
  <2> QED
    BY <1>6, <2>1, <2>2 DEF ClaimStep
<1>7. ASSUME NEW w \in Workers, CancelStep(w) PROVE ClaimsHaveStudents'
  <2>1. ASSUME NEW s \in Students, NEW b \in BookingIds, BeginCancel(w, s, b)
        PROVE  ClaimsHaveStudents'
    <3> DEFINE late == IsLateCancel(bookings[b].start, now)
               k == [NoJob EXCEPT !.stage = "cancel", !.student = s, !.booking = b,
                       !.late = late, !.counts = late /\ bookings[b].counts, !.at = now]
    <3>1. k.stage = "cancel" /\ job' = [job EXCEPT ![w] = k]
      BY <2>1 DEF BeginCancel, Begin, NoJob
    <3> HIDE DEF k
    <3> QED
      BY <1>2, <3>1
  <2>2. CASE SaveCancel(w) \/ SaveCommitteeCancel(w)
    BY <1>2, <1>3, <2>2 DEF SaveCancel, SaveCommitteeCancel
  <2>3. ASSUME NEW b \in BookingIds, BeginCommitteeCancel(w, b) PROVE ClaimsHaveStudents'
    <3>1. [NoJob EXCEPT !.stage = "committee", !.booking = b].stage = "committee"
      BY DEF NoJob
    <3> QED
      BY <1>2, <2>3, <3>1 DEF BeginCommitteeCancel
  <2> QED
    BY <1>7, <2>1, <2>2, <2>3 DEF CancelStep
<1>8. ASSUME NEW w \in Workers, Crash(w) PROVE ClaimsHaveStudents'
  BY <1>2, <1>3, <1>8 DEF Crash
<1>9. ASSUME NEW a \in Admins, AdminStep(a) PROVE ClaimsHaveStudents'
  BY <1>9, AdminKeepsJobs
<1> QED
  BY <1>1, <1>4, <1>5, <1>6, <1>7, <1>8, <1>9 DEF BookingNext, WorkerStep

LEMMA BookingStepKeeps ==
  ASSUME ExchangeInv, Next, UNCHANGED exchangeVars
  PROVE  ExchangeInv'
<1> USE DEF ExchangeInv
<1>1. (BookingNext /\ UNCHANGED admin) \/ \E a \in Admins : AdminStep(a)
  BY DEF Next
<1>2. IInv'
  BY NextPreserves
<1>3. ClaimsHaveStudents'
  BY <1>1, ClaimsStep DEF IInv
<1>4. RowsAreOwned'
  <2>1. CASE \E w \in Workers : WriteCreate(w)
    <3>1. PICK w \in Workers : WriteCreate(w)
      BY <2>1
    <3>2. CASE bookings' = bookings
      BY <3>2 DEF RowsAreOwned
    <3>3. ASSUME NEW b \in BookingIds, NEW s \in Students,
                 bookings' = [bookings EXCEPT ![b] = NewRow(job[w])],
                 NewRow(job[w]).student = s, NewRow(job[w]).status = "live"
          PROVE  RowsAreOwned'
      BY <3>3, BookingAssumption DEF RowsAreOwned, IInv, TypeOK
    <3> QED
      BY <3>1, <3>2, <3>3, InsertsOwnedRow DEF IInv
  <2>2. CASE \A b \in BookingIds :
               /\ bookings'[b].student = bookings[b].student
               /\ bookings'[b].status = "free" <=> bookings[b].status = "free"
    BY <2>2 DEF RowsAreOwned
  <2> QED
    BY <1>1, <2>1, <2>2, RowsKeepStudents DEF IInv
<1> QED
  BY <1>2, <1>3, <1>4 DEF exchangeVars, ExchangeTypeOK, CallKnows

-----------------------------------------------------------------------------
(* Calls *)

\* A call goes on, and at most one exchange is written.
LEMMA CallKeeps ==
  ASSUME ExchangeInv, NEW c \in Callers, NEW k \in Call, CallKnows(k),
         call' = [call EXCEPT ![c] = k], crossed' \subseteq Students,
         \/ exchange' = exchange
         \/ \E x \in ExchangeIds, e \in ExchangeRow :
              Agreed(e) /\ exchange' = [exchange EXCEPT ![x] = e]
  PROVE  /\ ExchangeTypeOK'
         /\ \A x \in ExchangeIds : exchange'[x].status # "free" => Agreed(exchange'[x])
         /\ \A d \in Callers : CallKnows(call[d])'
<1> USE DEF ExchangeInv, ExchangeTypeOK
<1>1. exchange' \in [ExchangeIds -> ExchangeRow]
  OBVIOUS
<1>2. \A x \in ExchangeIds : exchange[x].status # "free" => exchange'[x].status # "free"
  BY DEF Agreed
<1>3. \A x \in ExchangeIds : exchange'[x].status # "free" => Agreed(exchange'[x])
  OBVIOUS
<1>4. ASSUME NEW d \in Callers PROVE CallKnows(call[d])'
  <2>1. call'[d] \in Call /\ CallKnows(call'[d])
    OBVIOUS
  <2>2. call'[d].stale \subseteq ExchangeIds
    BY <2>1 DEF Call
  <2> QED
    BY <1>2, <2>1, <2>2 DEF CallKnows, Agreed
<1> QED
  BY <1>1, <1>3, <1>4

LEMMA StaleOnesExist ==
  ASSUME NEW s, NEW at
  PROVE  /\ StalePendings(s, at) \subseteq ExchangeIds
         /\ \A x \in StalePendings(s, at) : exchange[x].status # "free"
BY DEF StalePendings, Pending

\* The steps that read, and those that settle an exchange without handing
\* anything over, leave the booking service alone.
LEMMA CallStepKeeps ==
  ASSUME ExchangeInv, NEW c \in Callers, CallStep(c), ~HandOver(c)
  PROVE  ExchangeInv' /\ UNCHANGED vars
<1> USE DEF ExchangeInv
<1>0. /\ call[c] \in Call /\ CallKnows(call[c]) /\ call \in [Callers -> Call]
      /\ exchange \in [ExchangeIds -> ExchangeRow] /\ crossed \subseteq Students
      /\ now \in Nat
  BY DEF ExchangeTypeOK, IInv, TypeOK
<1> DEFINE Fine ==
      /\ UNCHANGED vars /\ crossed' \subseteq Students
      /\ \E k \in Call : CallKnows(k) /\ call' = [call EXCEPT ![c] = k]
      /\ \/ exchange' = exchange
         \/ \E x \in ExchangeIds, e \in ExchangeRow :
              Agreed(e) /\ exchange' = [exchange EXCEPT ![x] = e]
<1>1. ASSUME Fine PROVE ExchangeInv' /\ UNCHANGED vars
  <2>1. /\ ExchangeTypeOK'
        /\ \A x \in ExchangeIds : exchange'[x].status # "free" => Agreed(exchange'[x])
        /\ \A d \in Callers : CallKnows(call[d])'
    BY <1>1, CallKeeps
  <2>2. IInv'
    BY <1>1, NextPreserves
  <2>3. bookings' = bookings /\ job' = job
    BY <1>1 DEF vars, bookingVars
  <2> QED
    BY <1>1, <2>1, <2>2, <2>3 DEF RowsAreOwned, ClaimsHaveStudents
<1>2. CallKnows(NoCall) /\ NoCall \in Call
  BY NoCallIsACall DEF CallKnows
<1>3. CallDone(c) => \E k \in Call : CallKnows(k) /\ call' = [call EXCEPT ![c] = k]
  BY <1>2 DEF CallDone
<1>4. ASSUME NEW s \in Students, NEW op \in {"list", "offer"} \cup Answers,
             NEW stage \in {"visit", "serve"}, NEW x \in ExchangeIds \cup {None},
             stage = "visit" \/ op \in Answers => x \in ExchangeIds /\ exchange[x].status # "free",
             BeginCall(c, s, op, stage, x)
      PROVE  Fine
  <2> DEFINE k == [NoCall EXCEPT !.stage = stage, !.op = op, !.student = s, !.exchange = x,
                                 !.stale = StalePendings(s, now), !.at = now]
  <2>1. /\ k \in Call /\ k.stage = stage /\ k.op = op /\ k.student = s /\ k.exchange = x
        /\ k.stale = StalePendings(s, now)
    BY <1>0, NoCallIsACall, StaleOnesExist DEF Call, CallStages
  <2>2. call' = [call EXCEPT ![c] = k]
    BY <1>4 DEF BeginCall
  <2>3. UNCHANGED <<vars, exchange, crossed>>
    BY <1>4 DEF BeginCall
  <2> HIDE DEF k
  <2>4. CallKnows(k)
    BY <1>4, <2>1, StaleOnesExist DEF CallKnows
  <2> QED
    BY <1>0, <2>1, <2>2, <2>3, <2>4
<1>5. CASE BeginStep(c)
  <2>1. ASSUME NEW s \in Students, BeginList(c, s) \/ BeginOffer(c, s) PROVE Fine
    BY <1>4, <2>1 DEF BeginList, BeginOffer, Answers
  <2>2. ASSUME NEW s \in Students, NEW op \in Answers, NEW x \in ExchangeIds,
               BeginAnswer(c, s, op, x)
        PROVE  Fine
    BY <1>4, <2>2 DEF BeginAnswer
  <2> QED
    BY <1>1, <1>5, <2>1, <2>2 DEF BeginStep
<1>6. CASE ExpireNext(c)
  <2>1. PICK x \in call[c].stale :
          /\ exchange' = [exchange EXCEPT ![x].status = "expired"]
          /\ call' = [call EXCEPT ![c].stale = call[c].stale \ {x}]
    BY <1>0, <1>6 DEF ExpireNext
  <2>2. x \in ExchangeIds /\ Agreed(exchange[x])
    BY <1>0, <2>1 DEF CallKnows, Call
  <2> DEFINE e == [exchange[x] EXCEPT !.status = "expired"]
             k == [call[c] EXCEPT !.stale = call[c].stale \ {x}]
  <2>3. e \in ExchangeRow /\ Agreed(e)
    BY <1>0, <2>2 DEF ExchangeRow, Agreed
  <2>4. k \in Call /\ CallKnows(k)
    BY <1>0 DEF Call, CallKnows
  <2>5. exchange' = [exchange EXCEPT ![x] = e] /\ call' = [call EXCEPT ![c] = k]
    BY <1>0, <2>1, <2>2
  <2>6. UNCHANGED <<vars, crossed>>
    BY <1>6 DEF ExpireNext
  <2> HIDE DEF e, k
  <2> QED
    BY <1>0, <1>1, <2>2, <2>3, <2>4, <2>5, <2>6
<1>7. CASE Revisit(c)
  <2>1. UNCHANGED <<vars, exchange, crossed>>
    BY <1>7 DEF Revisit
  <2>2. CASE CallDone(c)
    BY <1>0, <1>1, <1>3, <2>1, <2>2
  <2>3. CASE ~CallDone(c)
    <3> DEFINE k == [call[c] EXCEPT !.stage = "serve", !.at = now,
                                    !.stale = StalePendings(call[c].student, now)]
    <3>1. call[c].stage = "visit" /\ call' = [call EXCEPT ![c] = k]
      BY <1>0, <1>7, <2>3 DEF Revisit
    <3>2. /\ k \in Call /\ k.stage = "serve" /\ k.student = call[c].student
          /\ k.exchange = call[c].exchange /\ k.stale = StalePendings(call[c].student, now)
      BY <1>0, StaleOnesExist DEF Call, CallStages
    <3> HIDE DEF k
    <3>3. CallKnows(k)
      BY <1>0, <3>1, <3>2, StaleOnesExist DEF CallKnows
    <3> QED
      BY <1>0, <1>1, <2>1, <3>1, <3>2, <3>3
  <2> QED
    BY <2>2, <2>3
<1>8. CASE FinishCall(c) \/ LockingRefused(c) \/ AlreadySettled(c) \/ CallCrash(c)
  <2>1. CallDone(c) /\ UNCHANGED <<vars, exchange, crossed>>
    BY <1>8 DEF FinishCall, LockingRefused, AlreadySettled, CallCrash
  <2> QED
    BY <1>0, <1>1, <1>3, <2>1
<1>9. ASSUME NEW target \in BookingIds, NEW offered \in BookingIds \cup {None},
             CheckOffer(c, target, offered)
      PROVE  Fine
  <2> DEFINE s == call[c].student
             e == [status |-> "pending", requester |-> s, holder |-> bookings[target].student,
                   target |-> target, offered |-> offered]
             k == [call[c] EXCEPT !.stage = "insert", !.row = e]
  <2>1. /\ call[c].stage = "serve" /\ bookings[target].student # s /\ Live(target)
        /\ UNCHANGED <<vars, exchange, crossed>>
    BY <1>9 DEF CheckOffer, Serving, Held
  <2>2. s \in Students /\ bookings[target].student \in Students
    <3>1. bookings[target] \in BookingRow /\ bookings[target].student # None
      BY <2>1 DEF IInv, TypeOK, RowsAreOwned, Live
    <3> QED
      BY <1>0, <2>1, <3>1 DEF CallKnows, BookingRow
  <2>3. e \in ExchangeRow /\ Agreed(e) /\ e.status = "pending"
    BY <2>1, <2>2 DEF ExchangeRow, Agreed
  <2>4. call' = [call EXCEPT ![c] = k]
    BY <1>0, <1>9 DEF CheckOffer
  <2> HIDE DEF e
  <2>5. k \in Call /\ k.stage = "insert" /\ k.row = e /\ k.stale = call[c].stale /\ k.student = s
    BY <1>0, <2>3 DEF Call, CallStages
  <2> HIDE DEF k
  <2>6. CallKnows(k)
    BY <1>0, <2>2, <2>3, <2>5 DEF CallKnows
  <2> QED
    BY <1>0, <2>1, <2>4, <2>5, <2>6
<1>10. CASE InsertOffer(c)
  <2>1. call[c].row \in ExchangeRow /\ Agreed(call[c].row)
    BY <1>0, <1>10 DEF InsertOffer, CallKnows, Call
  <2> QED
    BY <1>0, <1>1, <1>3, <1>10, <2>1 DEF InsertOffer
<1>11. CASE PrecheckApproval(c)
  <2>1. UNCHANGED <<vars, exchange, crossed>>
    BY <1>11 DEF PrecheckApproval
  <2>2. CASE CallDone(c)
    BY <1>0, <1>1, <1>3, <2>1, <2>2
  <2>3. CASE ~CallDone(c)
    <3> DEFINE k == [call[c] EXCEPT !.stage = "approve"]
    <3>1. call' = [call EXCEPT ![c] = k] /\ call[c].stage = "serve" /\ call[c].op \in Answers
      BY <1>0, <1>11, <2>3 DEF PrecheckApproval, CallGoesTo, Serving, Answers
    <3>2. k \in Call /\ CallKnows(k)
      BY <1>0, <3>1 DEF Call, CallStages, CallKnows
    <3> HIDE DEF k
    <3> QED
      BY <1>0, <1>1, <2>1, <3>1, <3>2
  <2> QED
    BY <2>2, <2>3
<1>12. CASE FoundStale(c) \/ Decline(c) \/ FailApproval(c)
  <2> DEFINE x == call[c].exchange
  <2>1. PICK status \in {"expired", "rejected", "failed"} : Resolve(c, status)
    BY <1>12 DEF FoundStale, Decline, FailApproval
  <2>2. AtTransaction(c)
    BY <1>12 DEF FoundStale, Decline, FailApproval, Alone, Open
  <2>3. x \in ExchangeIds /\ Agreed(exchange[x])
    BY <1>0, <2>2 DEF AtTransaction, Serving, CallKnows, Answers
  <2> DEFINE e == [exchange[x] EXCEPT !.status = status]
  <2>4. e \in ExchangeRow /\ Agreed(e)
    BY <1>0, <2>3 DEF ExchangeRow, Agreed
  <2>5. exchange' = [exchange EXCEPT ![x] = e] /\ CallDone(c) /\ UNCHANGED <<vars, crossed>>
    BY <1>0, <2>1, <2>3 DEF Resolve
  <2> HIDE DEF e
  <2> QED
    BY <1>0, <1>1, <1>3, <2>3, <2>4, <2>5
<1> QED
  BY <1>1, <1>5, <1>6, <1>7, <1>8, <1>9, <1>10, <1>11, <1>12
     DEF CallStep, OfferStep, AnswerStep

-----------------------------------------------------------------------------
(* Handing over *)

\* A step that changes students and flags alone leaves the claims as they are.
LEMMA SameClaims ==
  ASSUME IInv, bookings' \in [BookingIds -> BookingRow],
         \A b \in BookingIds :
           /\ bookings'[b].status = bookings[b].status
           /\ bookings'[b].machine = bookings[b].machine
           /\ bookings'[b].start = bookings[b].start
           /\ bookings'[b].end = bookings[b].end,
         UNCHANGED <<now, machine, lock, barred, job, forced, overlapped, admin>>
  PROVE  IInv'
<1> USE DEF IInv
<1>1. TypeOK' /\ RequestsNameRows'
  BY DEF TypeOK, RequestsNameRows
<1>2. \A b \in BookingIds : Live(b)' <=> Live(b)
  BY DEF Live
<1>3. RowsExist'
  BY BookingAssumption DEF RowsExist, TypeOK, Job, AdminJob
<1>4. SlotsOnGrids'
  BY <1>2 DEF SlotsOnGrids, SlotOf
<1>5. ASSUME NEW m, NEW start, NEW end, NEW exclude
      PROVE  Overlapping(m, start, end, exclude)' = Overlapping(m, start, end, exclude)
  BY <1>2 DEF Overlapping
<1>6. WritersHoldTheSlot'
  BY <1>5 DEF WritersHoldTheSlot
<1>7. NoDoubleBooking'
  BY <1>2 DEF NoDoubleBooking
<1>8. \A m : FutureBookings(m)' = FutureBookings(m)
  BY <1>2 DEF FutureBookings
<1>9. OfflineListsAll'
  BY <1>8 DEF OfflineListsAll, TakingOffline
<1>10. AdminsLockToTakeOffline'
  BY DEF AdminsLockToTakeOffline, TakingOffline
<1> QED
  BY <1>1, <1>3, <1>4, <1>6, <1>7, <1>9, <1>10

\* What an approval writes.
LEMMA HandOverEffect ==
  ASSUME ExchangeInv, NEW c \in Callers, HandOver(c)
  PROVE  \E x \in ExchangeIds :
           /\ Pending(x) /\ Agreed(exchange[x])
           /\ exchange[x].offered \in BookingIds \cup {None}
           /\ exchange[x].offered # exchange[x].target
           /\ bookings[exchange[x].target].student = exchange[x].holder
           /\ exchange[x].offered # None =>
                bookings[exchange[x].offered].student = exchange[x].requester
           /\ bookings' = HandedOver(x)
           /\ exchange' = [exchange EXCEPT ![x].status = "approved"]
           /\ CallDone(c)
           /\ UNCHANGED <<now, machine, lock, barred, job, forced, overlapped, admin>>
           /\ crossed' \subseteq Students
<1> USE DEF ExchangeInv
<1> DEFINE x == call[c].exchange
<1>1. /\ Pending(x) /\ ~IsStale(x, call[c].at) /\ AtTransaction(c)
      /\ bookings' = HandedOver(x) /\ exchange' = [exchange EXCEPT ![x].status = "approved"]
      /\ CallDone(c)
      /\ UNCHANGED <<now, machine, lock, barred, job, forced, overlapped, admin>>
  BY DEF HandOver, Open, Alone
<1>2. x \in ExchangeIds /\ Agreed(exchange[x]) /\ exchange[x] \in ExchangeRow
  BY <1>1 DEF AtTransaction, Serving, CallKnows, Answers, ExchangeTypeOK
<1>3. /\ bookings[exchange[x].target].student = exchange[x].holder
      /\ exchange[x].offered # None =>
           bookings[exchange[x].offered].student = exchange[x].requester
  BY <1>1 DEF IsStale, Held
<1>4. exchange[x].offered # exchange[x].target
  BY <1>2, <1>3, BookingAssumption DEF Agreed
<1>5. crossed' \subseteq Students
  BY <1>2 DEF HandOver, Agreed, ExchangeTypeOK
<1>6. exchange[x].offered \in BookingIds \cup {None}
  BY <1>2 DEF ExchangeRow
<1> QED
  BY <1>1, <1>2, <1>3, <1>4, <1>5, <1>6

\* The rows that it writes.
LEMMA HandedOverRows ==
  ASSUME TypeOK, NEW x \in ExchangeIds, Agreed(exchange[x]),
         exchange[x].offered \in BookingIds \cup {None},
         exchange[x].offered # exchange[x].target, NEW b \in BookingIds
  PROVE  /\ HandedOver(x)[b] \in BookingRow
         /\ HandedOver(x)[b].status = bookings[b].status
         /\ HandedOver(x)[b].machine = bookings[b].machine
         /\ HandedOver(x)[b].start = bookings[b].start
         /\ HandedOver(x)[b].end = bookings[b].end
         /\ HandedOver(x)[b].student =
              IF b = exchange[x].target THEN exchange[x].requester
              ELSE IF b = exchange[x].offered THEN exchange[x].holder
              ELSE bookings[b].student
<1> DEFINE e == exchange[x]
           row == bookings[b]
<1>1. row \in BookingRow /\ e.requester \in Students /\ e.holder \in Students /\ None \notin BookingIds
  BY BookingAssumption DEF TypeOK, Agreed
<1> HIDE DEF row
<1>2. CASE b = e.target /\ e.offered = None
  <2> DEFINE counts == CountsTowardQuota(row.machine)
  <2>1. HandedOver(x)[b] = [row EXCEPT !.student = e.requester, !.counts = counts]
    BY <1>2 DEF HandedOver, row
  <2>2. counts \in BOOLEAN
    BY FlagsBoolean
  <2> HIDE DEF counts
  <2> QED
    BY <1>1, <1>2, <2>1, <2>2 DEF BookingRow, row
<1>3. CASE b = e.target /\ e.offered # None
  <2>1. HandedOver(x)[b] = [row EXCEPT !.student = e.requester]
    BY <1>3 DEF HandedOver, row
  <2> QED
    BY <1>1, <1>3, <2>1 DEF BookingRow, row
<1>4. CASE b # e.target /\ b = e.offered
  <2>1. HandedOver(x)[b] = [row EXCEPT !.student = e.holder]
    BY <1>4 DEF HandedOver, row
  <2> QED
    BY <1>1, <1>4, <2>1 DEF BookingRow, row
<1>5. CASE b # e.target /\ b # e.offered
  <2>1. HandedOver(x)[b] = row
    BY <1>5 DEF HandedOver, row
  <2> QED
    BY <1>1, <1>5, <2>1 DEF row
<1> QED
  BY <1>2, <1>3, <1>4, <1>5

LEMMA HandOverKeeps ==
  ASSUME ExchangeInv, NEW c \in Callers, HandOver(c)
  PROVE  ExchangeInv'
<1> USE DEF ExchangeInv
<1>1. PICK x \in ExchangeIds :
        /\ Pending(x) /\ Agreed(exchange[x])
        /\ exchange[x].offered \in BookingIds \cup {None}
        /\ exchange[x].offered # exchange[x].target
        /\ bookings[exchange[x].target].student = exchange[x].holder
        /\ exchange[x].offered # None =>
             bookings[exchange[x].offered].student = exchange[x].requester
        /\ bookings' = HandedOver(x)
        /\ exchange' = [exchange EXCEPT ![x].status = "approved"]
        /\ CallDone(c)
        /\ UNCHANGED <<now, machine, lock, barred, job, forced, overlapped, admin>>
        /\ crossed' \subseteq Students
  BY HandOverEffect
<1>2. ASSUME NEW b \in BookingIds
      PROVE  /\ bookings'[b] \in BookingRow
             /\ bookings'[b].status = bookings[b].status
             /\ bookings'[b].machine = bookings[b].machine
             /\ bookings'[b].start = bookings[b].start
             /\ bookings'[b].end = bookings[b].end
             /\ bookings'[b].student =
                  IF b = exchange[x].target THEN exchange[x].requester
                  ELSE IF b = exchange[x].offered THEN exchange[x].holder
                  ELSE bookings[b].student
  BY <1>1, HandedOverRows DEF IInv
<1>3. bookings' \in [BookingIds -> BookingRow]
  <2>1. DOMAIN bookings' = BookingIds /\ bookings' = [b \in BookingIds |-> bookings'[b]]
    BY <1>1 DEF HandedOver
  <2> QED
    BY <1>2, <2>1
<1>4. IInv'
  BY <1>1, <1>2, <1>3, SameClaims
<1>5. RowsAreOwned'
  <2>1. ASSUME NEW b \in BookingIds, b = exchange[x].target \/ b = exchange[x].offered
        PROVE  bookings[b].student # None /\ bookings'[b].student # None
    BY <1>1, <1>2, <2>1, BookingAssumption DEF Agreed
  <2> QED
    BY <1>2, <2>1 DEF RowsAreOwned
<1>6. ClaimsHaveStudents'
  BY <1>1 DEF ClaimsHaveStudents
<1>7. exchange' = [exchange EXCEPT ![x] = [exchange[x] EXCEPT !.status = "approved"]]
      /\ [exchange[x] EXCEPT !.status = "approved"] \in ExchangeRow
      /\ Agreed([exchange[x] EXCEPT !.status = "approved"])
  <2>1. exchange[x] \in ExchangeRow /\ exchange \in [ExchangeIds -> ExchangeRow]
    BY DEF ExchangeTypeOK
  <2> QED
    BY <1>1, <2>1 DEF ExchangeRow, Agreed
<1>8. CallKnows(NoCall) /\ NoCall \in Call
  BY NoCallIsACall DEF CallKnows
<1>9. /\ ExchangeTypeOK'
      /\ \A y \in ExchangeIds : exchange'[y].status # "free" => Agreed(exchange'[y])
      /\ \A d \in Callers : CallKnows(call[d])'
  BY <1>1, <1>7, <1>8, CallKeeps DEF CallDone
<1> QED
  BY <1>4, <1>5, <1>6, <1>9

LEMMA ExchangeStep == ExchangeInv /\ [ExchangeNext]_allVars => ExchangeInv'
<1> SUFFICES ASSUME ExchangeInv, [ExchangeNext]_allVars PROVE ExchangeInv'
  OBVIOUS
<1>1. CASE ExchangeNext
  BY <1>1, BookingStepKeeps, CallStepKeeps, HandOverKeeps DEF ExchangeNext
<1>2. CASE UNCHANGED allVars
  <2>1. UNCHANGED vars /\ UNCHANGED exchangeVars /\ bookings' = bookings /\ job' = job
    BY <1>2 DEF allVars, vars, bookingVars
  <2>2. IInv'
    BY <2>1, NextPreserves DEF ExchangeInv
  <2> QED
    BY <2>1, <2>2 DEF ExchangeInv, exchangeVars, ExchangeTypeOK, RowsAreOwned,
                      ClaimsHaveStudents, CallKnows
<1> QED
  BY <1>1, <1>2

-----------------------------------------------------------------------------
(* Deals *)

DealVars == <<Owner, DealState, DealTerms>>

\* The state in which a deal is shown for an exchange of this status.
ShownAs(status) ==
  CASE status = "free" -> "none" [] status = "pending" -> "open" [] OTHER -> "closed"

LEMMA ViewIsShown ==
  /\ DealState = [x \in ExchangeIds |-> ShownAs(exchange[x].status)]
  /\ DealState' = [x \in ExchangeIds |-> ShownAs(exchange'[x].status)]
BY DEF DealState, ShownAs

\* Settling an exchange that is pending closes its deal, and settling one again
\* shows nothing.
LEMMA SettledDeal ==
  ASSUME ExchangeTypeOK, NEW x \in ExchangeIds, exchange[x].status # "free",
         NEW status \in {"approved", "rejected", "expired", "failed"},
         exchange' = [exchange EXCEPT ![x].status = status]
  PROVE  IF Pending(x) THEN Dealt!Close(x) ELSE UNCHANGED <<DealState, DealTerms>>
<1>1. exchange \in [ExchangeIds -> ExchangeRow]
  BY DEF ExchangeTypeOK
<1>2. \A y \in ExchangeIds \ {x} : exchange'[y] = exchange[y]
  BY <1>1
<1>3. exchange'[x].status = status /\ TermsOf(exchange'[x]) = TermsOf(exchange[x])
  BY <1>1 DEF ExchangeRow, TermsOf
<1>4. DealTerms' = DealTerms
  BY <1>2, <1>3 DEF DealTerms, TermsOf
<1>5. \A y \in ExchangeIds \ {x} : ShownAs(exchange'[y].status) = ShownAs(exchange[y].status)
  BY <1>2
<1>6. ShownAs(exchange'[x].status) = "closed"
  BY <1>3 DEF ShownAs
<1>7. DealState' = [DealState EXCEPT ![x] = "closed"]
  BY <1>5, <1>6, ViewIsShown
<1>8. DealState[x] = IF Pending(x) THEN "open" ELSE "closed"
  BY ViewIsShown DEF ShownAs, Pending
<1>9. CASE Pending(x)
  BY <1>4, <1>7, <1>8, <1>9 DEF Dealt!Close
<1>10. CASE ~Pending(x)
  <2>1. DealState' = DealState
    BY <1>7, <1>8, <1>10, ViewIsShown
  <2> QED
    BY <1>4, <1>10, <2>1
<1> QED
  BY <1>9, <1>10

LEMMA BookingStepDeals ==
  ASSUME ExchangeInv, Next, UNCHANGED exchangeVars
  PROVE  [Dealt!Next]_DealVars
<1> USE DEF ExchangeInv
<1> USE DEF DealVars
<1>1. DealState' = DealState /\ DealTerms' = DealTerms
  BY DEF DealState, DealTerms, exchangeVars, TermsOf
<1>2. (BookingNext /\ UNCHANGED admin) \/ \E a \in Admins : AdminStep(a)
  BY DEF Next
<1>3. CASE \E w \in Workers : WriteCreate(w)
  <2>1. PICK w \in Workers : WriteCreate(w)
    BY <1>3
  <2>2. CASE bookings' = bookings
    BY <1>1, <2>2 DEF Owner
  <2>3. ASSUME NEW b \in BookingIds, NEW s \in Students,
               bookings[b].status = "free",
               bookings' = [bookings EXCEPT ![b] = NewRow(job[w])], NewRow(job[w]).student = s
        PROVE  Dealt!Acquire(b, s)
    <3>1. bookings \in [BookingIds -> BookingRow] /\ bookings[b].student = None
      BY <2>3 DEF IInv, TypeOK, RowsAreOwned
    <3>2. Owner[b] = None /\ Owner' = [Owner EXCEPT ![b] = s]
      BY <2>3, <3>1 DEF Owner
    <3> QED
      BY <1>1, <3>2 DEF Dealt!Acquire
  <2> QED
    BY <2>1, <2>2, <2>3, InsertsOwnedRow DEF IInv, Dealt!Next
<1>4. CASE \A b \in BookingIds : bookings'[b].student = bookings[b].student
  <2>1. Owner' = Owner
    BY <1>4 DEF Owner
  <2> QED
    BY <1>1, <2>1
<1> QED
  BY <1>2, <1>3, <1>4, RowsKeepStudents DEF IInv

\* What a call that hands over nothing does to the exchanges.
LEMMA CallStepSettles ==
  ASSUME ExchangeInv, NEW c \in Callers, CallStep(c), ~HandOver(c)
  PROVE  \/ exchange' = exchange
         \/ \E x \in ExchangeIds, e \in ExchangeRow :
              /\ exchange[x].status = "free"
              /\ Agreed(e) /\ e.status = "pending"
              /\ exchange' = [exchange EXCEPT ![x] = e]
         \/ \E x \in ExchangeIds, status \in {"expired", "rejected", "failed"} :
              /\ exchange[x].status # "free"
              /\ exchange' = [exchange EXCEPT ![x].status = status]
<1> USE DEF ExchangeInv
<1>0. call[c] \in Call /\ CallKnows(call[c])
  BY DEF ExchangeTypeOK
<1>1. CASE ExpireNext(c)
  <2>1. PICK x \in call[c].stale : exchange' = [exchange EXCEPT ![x].status = "expired"]
    BY <1>1 DEF ExpireNext
  <2>2. x \in ExchangeIds /\ exchange[x].status # "free"
    BY <1>0 DEF CallKnows, Call
  <2> QED
    BY <2>1, <2>2
<1>2. CASE InsertOffer(c)
  <2>1. call[c].row \in ExchangeRow /\ Agreed(call[c].row) /\ call[c].row.status = "pending"
    BY <1>0, <1>2 DEF InsertOffer, CallKnows, Call
  <2> QED
    BY <1>2, <2>1 DEF InsertOffer
<1>3. CASE FoundStale(c) \/ Decline(c) \/ FailApproval(c)
  <2>1. PICK status \in {"expired", "rejected", "failed"} : Resolve(c, status)
    BY <1>3 DEF FoundStale, Decline, FailApproval
  <2>2. AtTransaction(c)
    BY <1>3 DEF FoundStale, Decline, FailApproval, Alone, Open
  <2>3. call[c].exchange \in ExchangeIds /\ exchange[call[c].exchange].status # "free"
    BY <1>0, <2>2 DEF AtTransaction, Serving, CallKnows, Answers
  <2> QED
    BY <2>1, <2>3 DEF Resolve
<1>4. CASE BeginStep(c)
  BY <1>4 DEF BeginStep, BeginList, BeginOffer, BeginAnswer, BeginCall
<1>5. CASE Revisit(c) \/ FinishCall(c) \/ LockingRefused(c) \/ AlreadySettled(c)
             \/ CallCrash(c) \/ PrecheckApproval(c)
  BY <1>5 DEF Revisit, FinishCall, LockingRefused, AlreadySettled, CallCrash, PrecheckApproval
<1>6. ASSUME NEW target, NEW offered, CheckOffer(c, target, offered) PROVE exchange' = exchange
  BY <1>6 DEF CheckOffer
<1> QED
  BY <1>1, <1>2, <1>3, <1>4, <1>5, <1>6 DEF CallStep, OfferStep, AnswerStep

LEMMA CallStepDeals ==
  ASSUME ExchangeInv, NEW c \in Callers, CallStep(c), ~HandOver(c)
  PROVE  [Dealt!Next]_DealVars
<1> USE DEF DealVars
<1>0. ExchangeTypeOK
  BY DEF ExchangeInv
<1>1. Owner' = Owner
  <2>1. UNCHANGED vars
    BY CallStepKeeps
  <2> QED
    BY <2>1 DEF Owner, vars, bookingVars
<1>2. CASE exchange' = exchange
  <2>1. DealState' = DealState /\ DealTerms' = DealTerms
    BY <1>2 DEF DealState, DealTerms, TermsOf
  <2> QED
    BY <1>1, <2>1
<1>3. ASSUME NEW x \in ExchangeIds, NEW e \in ExchangeRow,
             exchange[x].status = "free", Agreed(e), e.status = "pending",
             exchange' = [exchange EXCEPT ![x] = e]
      PROVE  Dealt!Propose(x, TermsOf(e)) /\ TermsOf(e) \in Dealt!Terms
  <2>0. exchange'[x] = e /\ \A y \in ExchangeIds \ {x} : exchange'[y] = exchange[y]
    BY <1>0, <1>3 DEF ExchangeTypeOK
  <2>1. DealState[x] = "none" /\ DealState' = [DealState EXCEPT ![x] = "open"]
    BY <1>3, <2>0, ViewIsShown DEF ShownAs
  <2>2. DealTerms' = [DealTerms EXCEPT ![x] = TermsOf(e)]
    <3>1. \A y \in ExchangeIds \ {x} : DealTerms'[y] = DealTerms[y]
      BY <2>0 DEF DealTerms, TermsOf
    <3>2. DealTerms'[x] = TermsOf(e)
      BY <1>3, <2>0 DEF DealTerms, TermsOf
    <3> QED
      BY <3>1, <3>2 DEF DealTerms
  <2>3. TermsOf(e).requester # TermsOf(e).holder /\ TermsOf(e) \in Dealt!Terms
    BY <1>3 DEF TermsOf, Agreed, ExchangeRow, Dealt!Terms
  <2> QED
    BY <1>1, <2>1, <2>2, <2>3 DEF Dealt!Propose
<1>4. ASSUME NEW x \in ExchangeIds, NEW status \in {"expired", "rejected", "failed"},
             exchange[x].status # "free",
             exchange' = [exchange EXCEPT ![x].status = status]
      PROVE  Dealt!CallOff(x) \/ UNCHANGED DealVars
  <2>1. IF Pending(x) THEN Dealt!Close(x) ELSE UNCHANGED <<DealState, DealTerms>>
    BY <1>0, <1>4, SettledDeal
  <2> QED
    BY <1>1, <2>1 DEF Dealt!CallOff
<1> QED
  BY <1>2, <1>3, <1>4, CallStepSettles DEF Dealt!Next

LEMMA HandOverDeals ==
  ASSUME ExchangeInv, NEW c \in Callers, HandOver(c)
  PROVE  Dealt!Next
<1> USE DEF ExchangeInv
<1>1. PICK x \in ExchangeIds :
        /\ Pending(x) /\ Agreed(exchange[x])
        /\ exchange[x].offered \in BookingIds \cup {None}
        /\ exchange[x].offered # exchange[x].target
        /\ bookings[exchange[x].target].student = exchange[x].holder
        /\ exchange[x].offered # None =>
             bookings[exchange[x].offered].student = exchange[x].requester
        /\ bookings' = HandedOver(x)
        /\ exchange' = [exchange EXCEPT ![x].status = "approved"]
  BY HandOverEffect
<1>2. ASSUME NEW b \in BookingIds
      PROVE  bookings'[b].student =
               IF b = exchange[x].target THEN exchange[x].requester
               ELSE IF b = exchange[x].offered THEN exchange[x].holder
               ELSE bookings[b].student
  BY <1>1, HandedOverRows DEF IInv
<1>3. Dealt!Close(x)
  BY <1>1, SettledDeal DEF Pending
<1>4. PICK t : t = DealTerms[x]
  OBVIOUS
<1>5. t = TermsOf(exchange[x])
  BY <1>1, <1>4 DEF Pending, DealTerms
<1>6. /\ t.target = exchange[x].target /\ t.offered = exchange[x].offered
      /\ t.requester = exchange[x].requester /\ t.holder = exchange[x].holder
  BY <1>5 DEF TermsOf
<1>7. Dealt!Keepable(t)
  BY <1>1, <1>6 DEF Dealt!Keepable, Owner, Agreed
<1>8. Owner' = Dealt!Traded(t)
  <2>1. ASSUME NEW b \in BookingIds
        PROVE  bookings'[b].student = Dealt!Traded(t)[b]
    <3>1. CASE b = t.target
      BY <1>1, <1>2, <1>6, <3>1 DEF Dealt!Traded
    <3>2. CASE b = t.offered
      BY <1>1, <1>2, <1>6, <3>2 DEF Dealt!Traded
    <3>3. CASE b # t.target /\ b # t.offered
      BY <1>2, <1>6, <3>3 DEF Dealt!Traded, Owner
    <3> QED
      BY <3>1, <3>2, <3>3
  <2> QED
    BY <2>1 DEF Dealt!Traded, Owner
<1> QED
  BY <1>3, <1>4, <1>7, <1>8 DEF Dealt!Next, Dealt!Conclude

-----------------------------------------------------------------------------
(* The theorems *)

\* Whatever calls of the exchange API, requests, crashes and administrators'
\* actions cross, what the steps of Exchanges rely on of the tables stays true.
THEOREM ExchangeInvariance == ExchangeSpec => []ExchangeInv
BY ExchangeStarts, ExchangeStep, PTL DEF ExchangeSpec

\* Every variable of Exchanges keeps its type.
THEOREM ExchangeTypes == ExchangeSpec => []ExchangeTypeOK
<1>1. ExchangeInv => ExchangeTypeOK
  BY DEF ExchangeInv
<1> QED
  BY <1>1, ExchangeInvariance, PTL

\* No machine is given to two live bookings at one time although approvals
\* rewrite bookings without the lock that requests claim slots under.
THEOREM ExclusiveWithExchanges == ExchangeSpec => []NoDoubleBooking
<1>1. ExchangeInv => NoDoubleBooking
  BY DEF ExchangeInv, IInv
<1> QED
  BY <1>1, ExchangeInvariance, PTL

\* Bookings change hands only through exchanges that are concluded once, whole,
\* and while both sides still have what they give.
THEOREM DealsImplemented == ExchangeSpec => ImplementsBookingDeals
<1>1. ExchangeInit => Dealt!Init
  <2> SUFFICES ASSUME ExchangeInit PROVE Dealt!Init
    OBVIOUS
  <2>1. Owner = [b \in BookingIds |-> None]
    BY DEF ExchangeInit, AdminInit, Init, Owner, FreeRow
  <2>2. \A x \in ExchangeIds : exchange[x].status = "free"
    BY DEF ExchangeInit, FreeExchange
  <2>3. DealState = [x \in ExchangeIds |-> "none"]
    BY <2>2, ViewIsShown DEF ShownAs
  <2>4. DealTerms = [x \in ExchangeIds |-> None]
    BY <2>2 DEF DealTerms
  <2> QED
    BY <2>1, <2>3, <2>4 DEF Dealt!Init
<1>2. ExchangeInv /\ [ExchangeNext]_allVars => [Dealt!Next]_DealVars
  <2> SUFFICES ASSUME ExchangeInv, [ExchangeNext]_allVars
               PROVE  [Dealt!Next]_DealVars
    OBVIOUS
  <2>1. CASE ExchangeNext
    BY <2>1, BookingStepDeals, CallStepDeals, HandOverDeals DEF ExchangeNext
  <2>2. CASE UNCHANGED allVars
    BY <2>2 DEF allVars, vars, bookingVars, exchangeVars, DealVars, Owner, DealState, DealTerms, TermsOf
  <2> QED
    BY <2>1, <2>2
<1> QED
  BY <1>1, <1>2, ExchangeInvariance, PTL DEF ExchangeSpec, ImplementsBookingDeals, Dealt!Spec, DealVars

-----------------------------------------------------------------------------
(***************************************************************************)
(* Exchanges keep the weekly quotas of both sides: an approval judges each *)
(* side by its rows as they are then, and whoever has a request in flight, *)
(* or receives a booking that somebody's request is working on, is the     *)
(* only one it can surprise.                                               *)
(***************************************************************************)

SetAside == overlapped \cup crossed

CrossInv ==
  /\ ExchangeInv
  /\ Solo
  /\ Sound(bookings, forced, job, SetAside)

-----------------------------------------------------------------------------
(* What an approval does to rows and students *)

\* Table u is table t after booking `target` went to `requester`, and booking
\* `offered`, if there is one, to `holder`.
HandsOver(t, u, requester, holder, target, offered) ==
  /\ requester # holder /\ target \in BookingIds /\ target # offered
  /\ offered \in BookingIds \cup {None}
  /\ \A b \in BookingIds \ {target, offered} : u[b] = t[b]
  /\ \A b \in BookingIds :
       /\ u[b].status = t[b].status /\ u[b].machine = t[b].machine /\ u[b].start = t[b].start
       /\ b \in {target, offered} => t[b].status = "live"
  /\ u[target].student = requester
  /\ offered # None => u[offered].student = holder

\* There is room for booking b with student s, who gives booking x away for it.
RoomFor(t, s, b, x) ==
  LET row == t[b] IN
  CountsTowardQuota(row.machine) =>
    QuotaUsed(t, s, Kind[row.machine], QuotaWeek(row.start), x) < QuotaLimit

\* Somebody's request works for s or on b.
Surprises(s, b) == \E w \in Workers : job[w].student = s \/ job[w].booking = b

LEMMA ApprovalEffect ==
  ASSUME ExchangeInv, NEW c \in Callers, HandOver(c)
  PROVE  \E requester \in Students, holder \in Students, target \in BookingIds,
            offered \in BookingIds \cup {None} :
           /\ HandsOver(bookings, bookings', requester, holder, target, offered)
           /\ RoomFor(bookings, requester, target, offered)
           /\ Surprises(requester, target) => requester \in crossed'
           /\ offered # None =>
                /\ RoomFor(bookings, holder, offered, target)
                /\ Surprises(holder, offered) => holder \in crossed'
<1> DEFINE x == call[c].exchange
           e == exchange[x]
<1>1. x \in ExchangeIds /\ Agreed(e) /\ e \in ExchangeRow
  BY DEF HandOver, Open, Alone, AtTransaction, ExchangeInv, Serving, CallKnows, Answers,
         ExchangeTypeOK
<1>2. /\ ~IsStale(x, call[c].at) /\ Eligible(x, call[c].at) /\ bookings' = HandedOver(x)
      /\ crossed' = crossed
           \cup (IF Crossing(x, e.requester, e.target) THEN {e.requester} ELSE {})
           \cup (IF e.offered # None /\ Crossing(x, e.holder, e.offered)
                 THEN {e.holder} ELSE {})
  BY DEF HandOver, Open
<1>3. /\ e.requester \in Students /\ e.holder \in Students /\ e.requester # e.holder
      /\ e.target \in BookingIds /\ e.offered \in BookingIds \cup {None}
  BY <1>1 DEF Agreed, ExchangeRow
<1>4. /\ Live(e.target) /\ bookings[e.target].student = e.holder
      /\ e.offered # None =>
           Live(e.offered) /\ bookings[e.offered].student = e.requester
  BY <1>2 DEF IsStale, Held
<1>5. e.offered # e.target
  BY <1>3, <1>4, BookingAssumption
<1>6. HandsOver(bookings, bookings', e.requester, e.holder, e.target, e.offered)
  <2>1. \A b \in BookingIds \ {e.target, e.offered} : bookings'[b] = bookings[b]
    BY <1>2 DEF HandedOver
  <2>2. \A b \in BookingIds :
          /\ bookings'[b].status = bookings[b].status
          /\ bookings'[b].machine = bookings[b].machine
          /\ bookings'[b].start = bookings[b].start
          /\ bookings'[b].student =
               IF b = e.target THEN e.requester
               ELSE IF b = e.offered THEN e.holder
               ELSE bookings[b].student
    BY <1>1, <1>2, <1>3, <1>5, HandedOverRows DEF ExchangeInv, IInv
  <2>3. e.offered # None => e.offered \in BookingIds
    BY <1>3
  <2>4. /\ bookings'[e.target].student = e.requester
        /\ e.offered # None => bookings'[e.offered].student = e.holder
    BY <1>3, <1>5, <2>2, <2>3
  <2>5. \A b \in BookingIds : b \in {e.target, e.offered} => bookings[b].status = "live"
    <3>1. None \notin BookingIds
      BY BookingAssumption
    <3> QED
      BY <1>4, <3>1 DEF Live
  <2> QED
    BY <1>3, <1>5, <2>1, <2>2, <2>4, <2>5 DEF HandsOver
<1>7. /\ RoomFor(bookings, e.requester, e.target, e.offered)
      /\ e.offered # None => RoomFor(bookings, e.holder, e.offered, e.target)
  BY <1>2 DEF Eligible, MayTake, RulesAllow, RoomFor
<1>8. /\ Surprises(e.requester, e.target) => e.requester \in crossed'
      /\ e.offered # None /\ Surprises(e.holder, e.offered) => e.holder \in crossed'
  BY <1>2 DEF Crossing, Surprises
<1> QED
  BY <1>3, <1>6, <1>7, <1>8

\* Both sides, and everybody else, stay within the limit.
LEMMA HandOverKeepsQuota ==
  ASSUME NEW t \in Tables, NEW u \in Tables, NEW requester, NEW holder, NEW target,
         NEW offered, HandsOver(t, u, requester, holder, target, offered),
         RoomFor(t, requester, target, offered),
         offered # None => RoomFor(t, holder, offered, target),
         NEW s, NEW k, NEW week, Counted(k),
         QuotaUsed(t, s, k, week, None) =< QuotaLimit
  PROVE  QuotaUsed(u, s, k, week, None) =< QuotaLimit
<1> USE DEF HandsOver
<1>1. None \notin BookingIds
  BY BookingAssumption
<1>2. CASE s = requester
  <2>1. QuotaRows(u, s, k, week, None) \ {target} \subseteq QuotaRows(t, s, k, week, offered)
    BY <1>1, <1>2 DEF QuotaRows, Tables
  <2>2. target \in QuotaRows(u, s, k, week, None) =>
          QuotaUsed(t, s, k, week, offered) < QuotaLimit
    BY <1>2 DEF QuotaRows, RoomFor, CountsTowardQuota, Counted
  <2> QED
    BY <2>1, <2>2, RoomForOne
<1>3. CASE s = holder /\ offered # None
  <2>1. QuotaRows(u, s, k, week, None) \ {offered} \subseteq QuotaRows(t, s, k, week, target)
    BY <1>1, <1>3 DEF QuotaRows, Tables
  <2>2. offered \in QuotaRows(u, s, k, week, None) =>
          QuotaUsed(t, s, k, week, target) < QuotaLimit
    BY <1>3 DEF QuotaRows, RoomFor, CountsTowardQuota, Counted
  <2> QED
    BY <2>1, <2>2, RoomForOne
<1>4. CASE s # requester /\ ~(s = holder /\ offered # None)
  <2>1. QuotaRows(u, s, k, week, None) \ {target} \subseteq QuotaRows(t, s, k, week, None)
    BY <1>1, <1>4 DEF QuotaRows, Tables
  <2>2. target \notin QuotaRows(u, s, k, week, None)
    BY <1>4 DEF QuotaRows
  <2> QED
    BY <2>1, <2>2, RoomForOne
<1> QED
  BY <1>2, <1>3, <1>4

\* Those an approval does not set aside have no request that it could surprise.
LEMMA HandOverKeepsJobs ==
  ASSUME NEW t \in Tables, NEW u \in Tables, NEW requester, NEW holder, NEW target,
         NEW offered, HandsOver(t, u, requester, holder, target, offered),
         NEW X, NEW Y, X \subseteq Y, NEW j \in Job,
         requester \notin Y => j.student # requester /\ j.booking # target,
         offered # None /\ holder \notin Y => j.student # holder /\ j.booking # offered,
         j.stage = "cancel" => j.booking # None, NEW f, JobSound(t, f, j, X)
  PROVE  JobSound(u, f, j, Y)
<1> USE DEF HandsOver, JobSound
<1>1. None \notin BookingIds /\ j.booking \in BookingIds \cup {None}
  BY BookingAssumption DEF Job
<1>2. JobOwned(u, j, Y)
  <2>1. ASSUME j.booking # None, t[j.booking].student \in {j.student} \cup X
        PROVE  u[j.booking].student \in {j.student} \cup Y
    <3>1. CASE j.booking = target
      BY <3>1
    <3>2. CASE j.booking = offered
      BY <2>1, <3>2
    <3>3. CASE j.booking \notin {target, offered}
      BY <1>1, <2>1, <3>3
    <3> QED
      BY <3>1, <3>2, <3>3
  <2> QED
    BY <2>1 DEF JobOwned
<1>3. ASSUME j.student \notin Y, j.booking # None => u[j.booking].student = j.student
      PROVE  /\ j.booking # None => u[j.booking] = t[j.booking]
             /\ j.student # requester /\ ~(j.student = holder /\ offered # None)
  BY <1>1, <1>3
<1>4. ASSUME j.student # requester /\ ~(j.student = holder /\ offered # None),
             NEW k, NEW week, NEW x, QuotaUsed(t, j.student, k, week, x) < QuotaLimit
      PROVE  QuotaUsed(u, j.student, k, week, x) < QuotaLimit
  <2>1. QuotaRows(u, j.student, k, week, x) \subseteq QuotaRows(t, j.student, k, week, x)
    BY <1>1, <1>4 DEF QuotaRows, Tables
  <2>2. /\ QuotaUsed(u, j.student, k, week, x) \in Nat
        /\ QuotaUsed(t, j.student, k, week, x) \in Nat
        /\ QuotaUsed(u, j.student, k, week, x) =< QuotaUsed(t, j.student, k, week, x)
    BY <2>1, FewerRows, RowsFinite DEF QuotaUsed
  <2> QED
    BY <1>4, <2>2, RulesAssumption
<1>5. ASSUME j.student \notin Y, j.booking # None => u[j.booking].student = j.student
      PROVE  JobExact(u, f, j)
  <2>1. JobExact(t, f, j) /\ (j.booking # None => t[j.booking].student = j.student)
    BY <1>3, <1>5
  <2>2. j.stage \in {"claim", "write"} /\ j.booking # None =>
          u[j.booking].status = "live" \/ j.booking \in f
    BY <1>3, <1>5, <2>1 DEF JobExact
  <2>3. j.stage \in {"claim", "write"} /\ j.counts =>
          QuotaUsed(u, j.student, Kind[j.machine], QuotaWeek(j.start), j.booking) < QuotaLimit
    BY <1>3, <1>4, <1>5, <2>1 DEF JobExact
  <2>4. j.stage = "cancel" /\ j.counts /\ CountsTowardQuota(u[j.booking].machine) =>
          QuotaUsed(u, j.student, Kind[u[j.booking].machine],
                    QuotaWeek(u[j.booking].start), j.booking) < QuotaLimit
    BY <1>3, <1>4, <1>5, <2>1 DEF JobExact
  <2> QED
    BY <2>2, <2>3, <2>4 DEF JobExact
<1>6. ASSUME j.student \notin Y PROVE JobExact(u, f, j)
  BY <1>5, <1>6 DEF JobExact
<1> QED
  BY <1>2, <1>6

-----------------------------------------------------------------------------
(* Every step *)

LEMMA HandOverSound ==
  ASSUME CrossInv, NEW c \in Callers, HandOver(c)
  PROVE  CrossInv'
<1> USE DEF CrossInv
<1>1. PICK requester \in Students, holder \in Students, target \in BookingIds,
           offered \in BookingIds \cup {None} :
        /\ HandsOver(bookings, bookings', requester, holder, target, offered)
        /\ RoomFor(bookings, requester, target, offered)
        /\ Surprises(requester, target) => requester \in crossed'
        /\ offered # None =>
             /\ RoomFor(bookings, holder, offered, target)
             /\ Surprises(holder, offered) => holder \in crossed'
  BY ApprovalEffect
<1>2. ExchangeInv'
  BY HandOverKeeps
<1>3. UNCHANGED <<job, forced, overlapped>> /\ SetAside \subseteq SetAside'
  BY DEF HandOver, SetAside
<1>4. bookings \in Tables /\ bookings' \in Tables
  <2>1. InUse(bookings') = InUse(bookings)
    BY <1>1 DEF HandsOver, InUse
  <2> QED
    BY <1>2, <2>1 DEF ExchangeInv, IInv, TypeOK, Sound, Tables
<1>5. Solo'
  BY <1>3 DEF Solo
<1>6. ASSUME NEW w \in Workers PROVE JobSound(bookings', forced', job'[w], SetAside')
  <2>1. job[w] \in Job /\ (job[w].stage = "cancel" => job[w].booking # None)
    BY BookingAssumption DEF ExchangeInv, IInv, TypeOK, RequestsNameRows
  <2>2. JobSound(bookings, forced, job[w], SetAside)
    BY DEF Sound
  <2>3. /\ requester \notin SetAside' => job[w].student # requester /\ job[w].booking # target
        /\ offered # None /\ holder \notin SetAside' =>
             job[w].student # holder /\ job[w].booking # offered
    BY <1>1 DEF Surprises, SetAside
  <2>4. JobSound(bookings', forced, job[w], SetAside')
    BY <1>1, <1>3, <1>4, <2>1, <2>2, <2>3, HandOverKeepsJobs
  <2> QED
    BY <1>3, <2>4
<1>7. QuotaHeldBut(bookings', SetAside')
  <2>1. ASSUME NEW s \in Students \ SetAside', NEW k \in Kinds, NEW week \in Weeks, Counted(k)
        PROVE  QuotaUsed(bookings', s, k, week, None) =< QuotaLimit
    <3>1. QuotaUsed(bookings, s, k, week, None) =< QuotaLimit
      BY <1>3, <2>1 DEF Sound, QuotaHeldBut
    <3> QED
      BY <1>1, <1>4, <2>1, <3>1, HandOverKeepsQuota
  <2> QED
    BY <2>1 DEF QuotaHeldBut
<1>8. FlagsHeldBut(bookings', forced', SetAside')
  <2>1. ASSUME NEW b \in BookingIds, bookings'[b].status = "cancelled"
        PROVE  bookings'[b] = bookings[b]
    BY <1>1, <2>1 DEF HandsOver
  <2> QED
    BY <1>3, <2>1 DEF Sound, FlagsHeldBut
<1> QED
  BY <1>2, <1>4, <1>5, <1>6, <1>7, <1>8 DEF Sound

LEMMA CrossedGrows ==
  ASSUME NEW c \in Callers, CallStep(c)
  PROVE  crossed \subseteq crossed'
<1>1. CASE BeginStep(c) \/ ExpireNext(c) \/ Revisit(c) \/ FinishCall(c) \/ CallCrash(c)
  BY <1>1 DEF BeginStep, BeginList, BeginOffer, BeginAnswer, BeginCall, ExpireNext, Revisit,
              FinishCall, CallCrash
<1>2. CASE OfferStep(c)
  BY <1>2 DEF OfferStep, CheckOffer, InsertOffer
<1>3. CASE AnswerStep(c)
  BY <1>3 DEF AnswerStep, PrecheckApproval, LockingRefused, AlreadySettled, FoundStale,
              Decline, FailApproval, HandOver, Resolve
<1> QED
  BY <1>1, <1>2, <1>3 DEF CallStep

LEMMA CrossStep == CrossInv /\ [ExchangeNext]_allVars => CrossInv'
<1> SUFFICES ASSUME CrossInv, [ExchangeNext]_allVars PROVE CrossInv'
  OBVIOUS
<1> USE DEF CrossInv
<1>1. ExchangeInv' /\ IInv /\ TypeOK'
  BY ExchangeStep DEF ExchangeInv, IInv
<1>2. CASE \E c \in Callers : HandOver(c)
  BY <1>2, HandOverSound
<1>3. ASSUME [Next]_vars, SetAside \subseteq SetAside' PROVE CrossInv'
  <2>1. Solo' /\ Sound(bookings', forced', job', SetAside')
    BY <1>1, <1>3, NextSound DEF SetAside
  <2> QED
    BY <1>1, <2>1
<1>4. ASSUME [Next]_vars, UNCHANGED crossed PROVE SetAside \subseteq SetAside'
  BY <1>1, <1>4, OverlapsStay DEF SetAside
<1>5. ASSUME NEW c \in Callers, CallStep(c), ~HandOver(c) PROVE CrossInv'
  <2>1. UNCHANGED vars
    BY <1>5, CallStepKeeps
  <2>2. SetAside \subseteq SetAside'
    BY <1>5, <2>1, CrossedGrows DEF SetAside, vars, bookingVars
  <2> QED
    BY <1>3, <2>1, <2>2
<1> QED
  BY <1>2, <1>3, <1>4, <1>5 DEF ExchangeNext, allVars, exchangeVars

-----------------------------------------------------------------------------
(* The theorems *)

\* Every reachable state satisfies the invariant of this module.
THEOREM CrossInvariance == ExchangeSpec => []CrossInv
<1>1. ExchangeInit => CrossInv
  <2> SUFFICES ASSUME ExchangeInit PROVE CrossInv
    OBVIOUS
  <2>1. Solo /\ Sound(bookings, forced, job, overlapped)
    BY SoundStarts DEF ExchangeInit
  <2>2. SetAside = overlapped
    BY DEF ExchangeInit, SetAside
  <2> QED
    BY <2>1, <2>2, ExchangeStarts DEF CrossInv
<1> QED
  BY <1>1, CrossStep, PTL DEF ExchangeSpec

\* approve_exchange judges both sides by the rules as they are then, each as if
\* what it gives away were gone, under no lock that a booking request would heed.
\* Nobody exceeds a quota by it but those whose own requests it crossed.
THEOREM QuotaHeldAcrossDeals == ExchangeSpec => []QuotaHeldUnlessCrossed
<1>1. CrossInv => QuotaHeldUnlessCrossed
  BY DEF CrossInv, Sound, SetAside, QuotaHeldBut, QuotaHeldUnlessCrossed, Counted
<1> QED
  BY <1>1, CrossInvariance, PTL
=============================================================================
