---------------------------- MODULE ServiceProofs ---------------------------
(***************************************************************************)
(* Proofs, for any number of requests, tickets and tries, that tickets are *)
(* numbered in the order they are raised, that a try at a number is lost   *)
(* only to another ticket, and that a ticket's status, its time of         *)
(* resolution, its thread and its notification agree whenever nobody is at *)
(* work on it.                                                             *)
(*                                                                         *)
(* Last, that MCServices runs the views, the grants, the tickets, the first*)
(* page and the chart side by side, each as its own specification has it.  *)
(***************************************************************************)
EXTENDS MCServices, ViewProofs, GrantProofs

-----------------------------------------------------------------------------
(* Numbering *)

TicketRow == [number : 0..(MaxTickets + 1), status : Statuses \cup {"none"}, stamped : BOOLEAN]
RaiseRow == [stage : {"none", "number", "create", "tell", "refused"},
             number : Nat, tries : 0..MaxTries, id : 0..MaxTickets]
DeskRow == [stage : {"none", "save", "stamp", "log", "tell"}, id : 0..MaxTickets, row : TicketRow]

\* The tickets are numbered from one without a gap.
InOrder ==
  \A t \in Ids :
    /\ ticket[t].number \in {0, t}
    /\ ticket[t].number = 0 => \A u \in Ids : u > t => ticket[u].number = 0

\* What a committee request has loaded carries the number of its ticket.
DeskIsRaised(o) ==
  desk[o].stage # "none" =>
    /\ desk[o].id \in Raised
    /\ desk[o].stage \in {"save", "stamp"} => desk[o].row.number = desk[o].id

\* A number that a student's request holds was free when it was computed; if it
\* is taken, somebody else's ticket took it, and that has been counted.
RaiseIsCounted(r) ==
  /\ raise[r].stage \in {"none", "tell"} => raise[r].tries = 0
  /\ raise[r].tries =< beaten[r]
  /\ raise[r].stage \in {"number", "create"} => raise[r].tries < MaxTries
  /\ raise[r].stage = "create" =>
       /\ raise[r].number = 1 \/ raise[r].number - 1 \in Raised
       /\ raise[r].number >= 1
       /\ raise[r].number \in Raised => raise[r].tries + 1 =< beaten[r]
  /\ raise[r].stage = "tell" => raise[r].id \in Raised

NumberInv ==
  /\ TicketTypeOK
  /\ desk \in [Officers -> DeskRow]
  /\ InOrder
  /\ \A o \in Officers : DeskIsRaised(o)
  /\ \A r \in Raisers : RaiseIsCounted(r)

LEMMA NumbersAreRaised == NumberInv => Numbers = Raised
BY DEF NumberInv, InOrder, Numbers, Raised, Ids

LEMMA NumberStarts == TicketInit => NumberInv
BY TicketAssumption
   DEF TicketInit, NumberInv, TicketTypeOK, InOrder, DeskIsRaised, RaiseIsCounted, NoTicket,
       AtRest, Away, Ids, Statuses, DeskRow, TicketRow

\* A request of a student goes on and no ticket is written.
LEMMA RaiseKeeps ==
  ASSUME NumberInv, NEW r \in Raisers, NEW x \in RaiseRow,
         raise' = [raise EXCEPT ![r] = x], beaten' \in [Raisers -> Nat],
         \A q \in Raisers \ {r} : beaten'[q] = beaten[q],
         mixed' \subseteq Ids, told' \in [Ids -> Statuses \cup {"none"}],
         RaiseIsCounted(r)',
         UNCHANGED <<wants, ticket, thread, desk>>
  PROVE  NumberInv'
<1>1. TicketTypeOK'
  BY DEF NumberInv, TicketTypeOK, RaiseRow
<1>2. Raised' = Raised /\ InOrder'
  BY DEF NumberInv, Raised, InOrder
<1>3. \A o \in Officers : DeskIsRaised(o)'
  BY <1>2 DEF NumberInv, DeskIsRaised
<1>4. \A q \in Raisers \ {r} : RaiseIsCounted(q)'
  BY <1>2 DEF NumberInv, RaiseIsCounted, TicketTypeOK
<1> QED
  BY <1>1, <1>2, <1>3, <1>4 DEF NumberInv

\* A request of the committee goes on; a ticket that it writes keeps its number.
LEMMA DeskKeeps ==
  ASSUME NumberInv, NEW o \in Officers, NEW x \in DeskRow,
         desk' = [desk EXCEPT ![o] = x],
         x.stage # "none" => x.id \in Raised /\ (x.stage \in {"save", "stamp"} => x.row.number = x.id),
         ticket' \in [Ids -> TicketRow],
         \A t \in Ids : ticket'[t].number = ticket[t].number,
         thread' \in [Ids -> Statuses \cup {"none"}], told' \in [Ids -> Statuses \cup {"none"}],
         mixed' \subseteq Ids,
         UNCHANGED <<wants, raise, beaten>>
  PROVE  NumberInv'
<1>1. TicketTypeOK' /\ desk' \in [Officers -> DeskRow]
  BY DEF NumberInv, TicketTypeOK, DeskRow, TicketRow
<1>2. Raised' = Raised /\ InOrder'
  BY DEF NumberInv, Raised, InOrder
<1>3. \A p \in Officers : DeskIsRaised(p)'
  BY <1>2 DEF NumberInv, DeskIsRaised
<1>4. \A q \in Raisers : RaiseIsCounted(q)'
  BY <1>2 DEF NumberInv, RaiseIsCounted
<1> QED
  BY <1>1, <1>2, <1>3, <1>4 DEF NumberInv

LEMMA AtRestIsARow == AtRest \in RaiseRow /\ AtRest.stage = "none" /\ AtRest.tries = 0
BY TicketAssumption DEF AtRest, RaiseRow

LEMMA AwayIsARow == Away \in DeskRow /\ Away.stage = "none"
<1>1. NoTicket \in TicketRow
  BY TicketAssumption DEF NoTicket, TicketRow
<1> QED
  BY <1>1, TicketAssumption DEF Away, DeskRow

LEMMA RaiseStepsKeep ==
  ASSUME NumberInv, NEW r \in Raisers,
         \/ BeginRaise(r) \/ NextNumber(r) \/ NumberTaken(r)
         \/ TellRaised(r) \/ LeaveRefused(r) \/ RaiserDies(r)
  PROVE  NumberInv'
<1>0. /\ raise \in [Raisers -> RaiseRow] /\ raise[r] \in RaiseRow
      /\ beaten \in [Raisers -> Nat] /\ mixed \subseteq Ids
      /\ told \in [Ids -> Statuses \cup {"none"}] /\ MaxTries \in Nat \ {0}
      /\ RaiseIsCounted(r)
  BY TicketAssumption DEF NumberInv, TicketTypeOK, RaiseRow
<1>1. CASE BeginRaise(r)
  <2> DEFINE x == [AtRest EXCEPT !.stage = "number"]
  <2>1. x \in RaiseRow /\ x.stage = "number" /\ x.tries = 0
    BY AtRestIsARow DEF RaiseRow
  <2>2. raise' = [raise EXCEPT ![r] = x] /\ beaten' = [beaten EXCEPT ![r] = 0]
        /\ UNCHANGED <<wants, ticket, thread, told, desk, mixed>>
    BY <1>1 DEF BeginRaise
  <2> HIDE DEF x
  <2>3. raise'[r] = x /\ beaten'[r] = 0 /\ beaten' \in [Raisers -> Nat]
        /\ \A q \in Raisers \ {r} : beaten'[q] = beaten[q]
    BY <1>0, <2>2
  <2>4. RaiseIsCounted(r)'
    BY <1>0, <2>1, <2>3 DEF RaiseIsCounted
  <2> QED
    BY <1>0, <2>1, <2>2, <2>3, <2>4, RaiseKeeps
<1>2. CASE NextNumber(r)
  <2>1. PICK n \in 1..(MaxTickets + 1) :
          /\ \A m \in Numbers : m < n
          /\ n = 1 \/ n - 1 \in Numbers
          /\ raise' = [raise EXCEPT ![r].stage = "create", ![r].number = n]
    BY <1>2 DEF NextNumber
  <2>2. n \notin Raised /\ (n = 1 \/ n - 1 \in Raised) /\ n \in Nat /\ n >= 1
    BY <2>1, NumbersAreRaised, TicketAssumption
  <2> DEFINE x == [raise[r] EXCEPT !.stage = "create", !.number = n]
  <2>3. /\ x \in RaiseRow /\ x.stage = "create" /\ x.number = n /\ x.tries = raise[r].tries
    BY <1>0, <2>2 DEF RaiseRow
  <2>4. raise' = [raise EXCEPT ![r] = x]
    BY <1>0, <2>1
  <2>5. raise[r].stage = "number" /\ UNCHANGED <<wants, ticket, thread, told, desk, beaten, mixed>>
    BY <1>2 DEF NextNumber
  <2> HIDE DEF x
  <2>6. raise'[r] = x /\ Raised' = Raised
    BY <1>0, <2>4, <2>5 DEF Raised
  <2>7. RaiseIsCounted(r)'
    BY <1>0, <2>2, <2>3, <2>5, <2>6 DEF RaiseIsCounted
  <2> QED
    BY <1>0, <2>3, <2>4, <2>5, <2>7, RaiseKeeps
<1>3. CASE NumberTaken(r)
  <2> DEFINE next == IF raise[r].tries + 1 < MaxTries THEN "number" ELSE "refused"
             x == [raise[r] EXCEPT !.stage = next, !.tries = raise[r].tries + 1]
  <2>1. raise[r].stage = "create" /\ raise[r].number \in Raised
    BY <1>3, NumbersAreRaised DEF NumberTaken
  <2>2. raise[r].tries + 1 \in 0..MaxTries /\ raise[r].tries + 1 =< beaten[r]
    BY <1>0, <2>1 DEF RaiseIsCounted, RaiseRow
  <2>3. raise' = [raise EXCEPT ![r] = x]
    BY <1>0, <1>3 DEF NumberTaken
  <2>4. UNCHANGED <<wants, ticket, thread, told, desk, beaten, mixed>>
    BY <1>3 DEF NumberTaken
  <2>5. next \in {"number", "refused"} /\ (next = "number" => raise[r].tries + 1 < MaxTries)
    OBVIOUS
  <2> HIDE DEF next
  <2>6. x \in RaiseRow /\ x.stage = next /\ x.tries = raise[r].tries + 1
    BY <1>0, <2>2, <2>5 DEF RaiseRow
  <2> HIDE DEF x
  <2>7. raise'[r] = x
    BY <1>0, <2>3
  <2>8. RaiseIsCounted(r)'
    BY <2>2, <2>4, <2>5, <2>6, <2>7 DEF RaiseIsCounted
  <2> QED
    BY <1>0, <2>3, <2>4, <2>6, <2>8, RaiseKeeps
<1>4. CASE TellRaised(r) \/ LeaveRefused(r) \/ RaiserDies(r)
  <2>1. raise' = [raise EXCEPT ![r] = AtRest] /\ UNCHANGED <<wants, ticket, thread, desk, beaten>>
    BY <1>4 DEF TellRaised, LeaveRefused, RaiserDies
  <2>2. told' \in [Ids -> Statuses \cup {"none"}] /\ mixed' \subseteq Ids
    BY <1>0, <1>4 DEF TellRaised, LeaveRefused, RaiserDies, Tell, Statuses, RaiseIsCounted, Raised
  <2>3. raise'[r] = AtRest
    BY <1>0, <2>1
  <2>4. RaiseIsCounted(r)'
    BY <1>0, <2>1, <2>3, AtRestIsARow DEF RaiseIsCounted
  <2> QED
    BY <1>0, <2>1, <2>2, <2>4, AtRestIsARow, RaiseKeeps
<1> QED
  BY <1>1, <1>2, <1>3, <1>4

\* The number that was free when it was computed, and is free now, is the next.
LEMMA CreateEffect ==
  ASSUME NumberInv, NEW r \in Raisers, CreateTicket(r)
  PROVE  \E t \in Ids :
           /\ t \notin Raised /\ raise[r].number = t
           /\ \A u \in Ids : u < t => u \in Raised
           /\ \A u \in Ids : u > t => u \notin Raised
           /\ ticket' = [ticket EXCEPT ![t] =
                [number |-> t, status |-> "open", stamped |-> FALSE]]
           /\ thread' = [thread EXCEPT ![t] = "open"]
           /\ raise' = [raise EXCEPT ![r] = [AtRest EXCEPT !.stage = "tell", !.id = t]]
<1>1. PICK t \in Ids :
        /\ Raised = 1..(t - 1)
        /\ ticket' = [ticket EXCEPT ![t] =
             [number |-> raise[r].number, status |-> "open", stamped |-> FALSE]]
        /\ thread' = [thread EXCEPT ![t] = "open"]
        /\ raise' = [raise EXCEPT ![r] = [AtRest EXCEPT !.stage = "tell", !.id = t]]
  BY DEF CreateTicket
<1>2. raise[r].stage = "create" /\ raise[r].number \notin Raised
  BY NumbersAreRaised DEF CreateTicket
<1>3. raise[r].number = t
  BY <1>1, <1>2, TicketAssumption DEF NumberInv, RaiseIsCounted, TicketTypeOK, Ids
<1>4. /\ t \notin Raised
      /\ \A u \in Ids : u < t => u \in Raised
      /\ \A u \in Ids : u > t => u \notin Raised
  BY <1>1, TicketAssumption DEF Ids
<1>5. ticket' = [ticket EXCEPT ![t] = [number |-> t, status |-> "open", stamped |-> FALSE]]
  BY <1>1, <1>3
<1> QED
  BY <1>1, <1>3, <1>4, <1>5

LEMMA CreateKeeps ==
  ASSUME NumberInv, NEW r \in Raisers, CreateTicket(r)
  PROVE  NumberInv'
<1>1. PICK t \in Ids :
        /\ t \notin Raised /\ raise[r].number = t
        /\ \A u \in Ids : u < t => u \in Raised
        /\ \A u \in Ids : u > t => u \notin Raised
        /\ ticket' = [ticket EXCEPT ![t] =
             [number |-> t, status |-> "open", stamped |-> FALSE]]
        /\ thread' = [thread EXCEPT ![t] = "open"]
        /\ raise' = [raise EXCEPT ![r] = [AtRest EXCEPT !.stage = "tell", !.id = t]]
  BY CreateEffect
<1>2. beaten' = [q \in Raisers |->
        IF q # r /\ raise[q].stage \in {"number", "create"} THEN beaten[q] + 1
        ELSE IF q = r THEN 0 ELSE beaten[q]]
      /\ UNCHANGED <<wants, told, desk, mixed>>
  BY DEF CreateTicket
<1>3. /\ ticket \in [Ids -> TicketRow] /\ raise \in [Raisers -> RaiseRow]
      /\ beaten \in [Raisers -> Nat] /\ thread \in [Ids -> Statuses \cup {"none"}]
      /\ \A u \in Ids : u \in Nat \ {0} /\ u =< MaxTickets
  BY TicketAssumption DEF NumberInv, TicketTypeOK, RaiseRow, TicketRow, Ids
<1> DEFINE x == [AtRest EXCEPT !.stage = "tell", !.id = t]
<1>4. x \in RaiseRow /\ x.stage = "tell" /\ x.id = t /\ x.tries = 0
  <2>1. t \in 0..MaxTickets
    BY TicketAssumption DEF Ids
  <2> QED
    BY <2>1, AtRestIsARow DEF RaiseRow
<1>5. raise' = [raise EXCEPT ![r] = x]
  BY <1>1
<1> HIDE DEF x
<1>6. /\ raise' \in [Raisers -> RaiseRow] /\ raise'[r] = x
      /\ \A q \in Raisers \ {r} : raise'[q] = raise[q]
  BY <1>3, <1>4, <1>5
<1>7. /\ ticket'[t].number = t /\ t # 0
      /\ \A u \in Ids \ {t} : ticket'[u] = ticket[u]
  BY <1>1, <1>3
<1>8. ticket' \in [Ids -> TicketRow]
  <2>1. [number |-> t, status |-> "open", stamped |-> FALSE] \in TicketRow
    BY <1>3, TicketAssumption DEF TicketRow, Statuses
  <2> QED
    BY <1>1, <1>3, <2>1
<1>9. Raised' = Raised \cup {t}
  BY <1>7 DEF Raised
<1>10. beaten' \in [Raisers -> Nat] /\ beaten'[r] = 0
  BY <1>2, <1>3
<1>11. thread' \in [Ids -> Statuses \cup {"none"}]
  BY <1>1, <1>3 DEF Statuses
<1>12. TicketTypeOK'
  BY <1>2, <1>6, <1>8, <1>10, <1>11 DEF NumberInv, TicketTypeOK, RaiseRow, TicketRow
<1>13. InOrder'
  BY <1>1, <1>3, <1>7 DEF NumberInv, InOrder, Raised
<1>14. \A o \in Officers : DeskIsRaised(o)'
  BY <1>2, <1>9 DEF NumberInv, DeskIsRaised
<1>15. RaiseIsCounted(r)'
  BY <1>4, <1>6, <1>9, <1>10 DEF RaiseIsCounted
<1>16. ASSUME NEW q \in Raisers \ {r} PROVE RaiseIsCounted(q)'
  <2>1. RaiseIsCounted(q) /\ raise'[q] = raise[q] /\ raise[q] \in RaiseRow /\ beaten[q] \in Nat
    BY <1>3, <1>6 DEF NumberInv
  <2>2. CASE raise[q].stage \in {"number", "create"}
    <3>1. beaten'[q] = beaten[q] + 1
      BY <1>2, <2>2
    <3> QED
      BY <1>9, <2>1, <2>2, <3>1 DEF RaiseIsCounted, RaiseRow
  <2>3. CASE raise[q].stage \notin {"number", "create"}
    <3>1. beaten'[q] = beaten[q]
      BY <1>2, <2>3
    <3> QED
      BY <1>9, <2>1, <2>3, <3>1 DEF RaiseIsCounted
  <2> QED
    BY <2>2, <2>3
<1> QED
  BY <1>2, <1>12, <1>13, <1>14, <1>15, <1>16 DEF NumberInv

LEMMA DeskStepsKeep ==
  ASSUME NumberInv, NEW o \in Officers, DeskStep(o)
  PROVE  NumberInv'
<1>0. /\ desk \in [Officers -> DeskRow] /\ desk[o] \in DeskRow /\ DeskIsRaised(o)
      /\ ticket \in [Ids -> TicketRow] /\ mixed \subseteq Ids
      /\ thread \in [Ids -> Statuses \cup {"none"}] /\ told \in [Ids -> Statuses \cup {"none"}]
      /\ Raised \subseteq Ids
  BY DEF NumberInv, TicketTypeOK, TicketRow, Raised
<1>1. ASSUME NEW t \in Ids, LoadTicket(o, t) PROVE NumberInv'
  <2> DEFINE x == [Away EXCEPT !.stage = "save", !.id = t, !.row = ticket[t]]
  <2>1. x \in DeskRow /\ x.id = t /\ x.row = ticket[t]
    <3>1. t \in 0..MaxTickets /\ ticket[t] \in TicketRow
      BY <1>0, TicketAssumption DEF Ids
    <3> QED
      BY <3>1, AwayIsARow DEF DeskRow
  <2>2. t \in Raised /\ ticket[t].number = t
    BY <1>1 DEF LoadTicket, NumberInv, InOrder, Raised
  <2>3. desk' = [desk EXCEPT ![o] = x] /\ mixed' \subseteq Ids
        /\ UNCHANGED <<wants, ticket, thread, told, raise, beaten>>
    BY <1>0, <1>1 DEF LoadTicket
  <2> HIDE DEF x
  <2> QED
    BY <1>0, <2>1, <2>2, <2>3, DeskKeeps
<1>2. CASE SaveTicket(o)
  <2> DEFINE t == desk[o].id
  <2>1. PICK status \in Statuses :
          /\ ticket' = [ticket EXCEPT ![t] = [desk[o].row EXCEPT !.status = status]]
          /\ desk' = [desk EXCEPT ![o] =
               IF status = desk[o].row.status THEN Away
               ELSE [desk[o] EXCEPT !.stage = "stamp",
                       !.row = [desk[o].row EXCEPT !.status = status]]]
    BY <1>2 DEF SaveTicket
  <2>2. desk[o].stage = "save" /\ UNCHANGED <<wants, thread, told, raise, beaten, mixed>>
    BY <1>2 DEF SaveTicket
  <2>3. t \in Raised /\ desk[o].row.number = t /\ ticket[t].number = t /\ desk[o].row \in TicketRow
    BY <1>0, <2>2 DEF DeskIsRaised, DeskRow, NumberInv, InOrder, Raised
  <2> DEFINE saved == [desk[o].row EXCEPT !.status = status]
  <2>4. saved \in TicketRow /\ saved.number = t
    BY <2>3 DEF TicketRow
  <2> HIDE DEF saved
  <2>5. ticket' \in [Ids -> TicketRow] /\ \A u \in Ids : ticket'[u].number = ticket[u].number
    BY <1>0, <2>1, <2>3, <2>4 DEF saved
  <2> DEFINE x == IF status = desk[o].row.status THEN Away
                  ELSE [desk[o] EXCEPT !.stage = "stamp", !.row = saved]
  <2>6. desk' = [desk EXCEPT ![o] = x]
    BY <2>1 DEF saved
  <2>7. x \in DeskRow /\ (x.stage # "none" => x.id = t /\ x.row = saved)
    BY <1>0, <2>4, AwayIsARow DEF DeskRow
  <2> HIDE DEF x
  <2> QED
    BY <1>0, <2>2, <2>3, <2>4, <2>5, <2>6, <2>7, DeskKeeps
<1>3. CASE Stamp(o)
  <2> DEFINE t == desk[o].id
             b == desk[o].row.status = "resolved"
             x == [desk[o] EXCEPT !.stage = "log"]
  <2>1. /\ desk[o].stage = "stamp" /\ ticket' = [ticket EXCEPT ![t].stamped = b]
        /\ desk' = [desk EXCEPT ![o] = x]
        /\ UNCHANGED <<wants, thread, told, raise, beaten, mixed>>
    BY <1>0, <1>3 DEF Stamp
  <2>2. t \in Raised /\ b \in BOOLEAN
    BY <1>0, <2>1 DEF DeskIsRaised
  <2> HIDE DEF b
  <2>3. ticket' \in [Ids -> TicketRow] /\ \A u \in Ids : ticket'[u].number = ticket[u].number
    BY <1>0, <2>1, <2>2 DEF TicketRow
  <2>4. x \in DeskRow /\ x.stage = "log" /\ x.id = t
    BY <1>0 DEF DeskRow
  <2> HIDE DEF x
  <2> QED
    BY <1>0, <2>1, <2>2, <2>3, <2>4, DeskKeeps
<1>4. CASE LogStatus(o)
  <2> DEFINE t == desk[o].id
             x == [desk[o] EXCEPT !.stage = "tell"]
  <2>1. /\ desk[o].stage = "log" /\ thread' = [thread EXCEPT ![t] = desk[o].row.status]
        /\ desk' = [desk EXCEPT ![o] = x]
        /\ UNCHANGED <<wants, ticket, told, raise, beaten, mixed>>
    BY <1>0, <1>4 DEF LogStatus
  <2>2. t \in Raised /\ desk[o].row.status \in Statuses \cup {"none"}
    BY <1>0, <2>1 DEF DeskIsRaised, DeskRow, TicketRow
  <2>3. thread' \in [Ids -> Statuses \cup {"none"}]
    BY <1>0, <2>1, <2>2
  <2>4. x \in DeskRow /\ x.stage = "tell" /\ x.id = t
    BY <1>0 DEF DeskRow
  <2> HIDE DEF x
  <2> QED
    BY <1>0, <2>1, <2>2, <2>3, <2>4, DeskKeeps
<1>5. CASE TellStatus(o) \/ OfficerDies(o)
  <2>1. /\ desk' = [desk EXCEPT ![o] = Away] /\ desk[o].stage \in {"stamp", "log", "tell"}
        /\ UNCHANGED <<wants, ticket, thread, raise, beaten>>
    BY <1>5 DEF TellStatus, OfficerDies
  <2>2. desk[o].id \in Ids /\ desk[o].row.status \in Statuses \cup {"none"}
    BY <1>0, <2>1 DEF DeskIsRaised, DeskRow, TicketRow
  <2>3. told' \in [Ids -> Statuses \cup {"none"}] /\ mixed' \subseteq Ids
    BY <1>0, <1>5, <2>2 DEF TellStatus, OfficerDies, Tell
  <2> QED
    BY <1>0, <2>1, <2>3, AwayIsARow, DeskKeeps
<1> QED
  BY <1>1, <1>2, <1>3, <1>4, <1>5 DEF DeskStep

LEMMA NumberStep == NumberInv /\ [TicketNext]_ticketVars => NumberInv'
<1> SUFFICES ASSUME NumberInv, [TicketNext]_ticketVars PROVE NumberInv'
  OBVIOUS
<1>1. ASSUME NEW r \in Raisers, RaiseStep(r) PROVE NumberInv'
  BY <1>1, RaiseStepsKeep, CreateKeeps DEF RaiseStep
<1>2. CASE UNCHANGED ticketVars
  BY <1>2 DEF ticketVars, NumberInv, TicketTypeOK, InOrder, DeskIsRaised, RaiseIsCounted, Raised
<1> QED
  BY <1>1, <1>2, DeskStepsKeep DEF TicketNext
-----------------------------------------------------------------------------
(* Threads and notifications *)

Busy(o, t) == desk[o].stage # "none" /\ desk[o].id = t
Telling(r, t) == raise[r].stage = "tell" /\ raise[r].id = t

Agrees(t) ==
  /\ ticket[t].stamped = (ticket[t].status = "resolved")
  /\ thread[t] = ticket[t].status
  /\ told[t] = IF wants THEN ticket[t].status ELSE "none"

\* Of a ticket that no two requests have met at: one request at most is at work,
\* what it still has to write is all that disagrees, and it has loaded or written
\* the status itself.
Undisturbed(t) ==
  /\ \A o, p \in Officers : Busy(o, t) /\ Busy(p, t) => o = p
  /\ \A o \in Officers, r \in Raisers : ~(Busy(o, t) /\ Telling(r, t))
  /\ \A r, q \in Raisers : Telling(r, t) /\ Telling(q, t) => r = q
  /\ \A r \in Raisers : Telling(r, t) =>
       ticket[t].status = "open" /\ ~ticket[t].stamped /\ thread[t] = "open"
  /\ \A o \in Officers : Busy(o, t) =>
       /\ desk[o].stage = "save" => desk[o].row = ticket[t] /\ Agrees(t)
       /\ desk[o].stage # "save" => desk[o].row.status = ticket[t].status
       /\ desk[o].stage \in {"log", "tell"} =>
            ticket[t].stamped = (ticket[t].status = "resolved")
       /\ desk[o].stage = "tell" => thread[t] = ticket[t].status
  /\ (\A o \in Officers : ~Busy(o, t)) /\ (\A r \in Raisers : ~Telling(r, t)) => Agrees(t)

Untold == ~wants => \A t \in Ids : told[t] = "none"

ThreadInv ==
  NumberInv /\ Untold /\ \A t \in Raised \ mixed : Undisturbed(t)

LEMMA ThreadStarts == TicketInit => ThreadInv
BY NumberStarts DEF TicketInit, ThreadInv, Untold, Raised, NoTicket

\* A step that is not about a ticket does not disturb it.
LEMMA OthersRest ==
  ASSUME NEW u \in Raised, Undisturbed(u),
         ticket'[u] = ticket[u], thread'[u] = thread[u], told'[u] = told[u], wants' = wants,
         \A o \in Officers : Busy(o, u)' <=> Busy(o, u),
         \A o \in Officers : Busy(o, u) => desk'[o] = desk[o],
         \A r \in Raisers : Telling(r, u)' <=> Telling(r, u)
  PROVE  Undisturbed(u)'
BY DEF Undisturbed, Agrees

LEMMA RaisesRest ==
  ASSUME ThreadInv, NEW r \in Raisers,
         BeginRaise(r) \/ NextNumber(r) \/ NumberTaken(r) \/ LeaveRefused(r)
  PROVE  Untold' /\ \A u \in Raised' \ mixed' : Undisturbed(u)'
<1>1. /\ UNCHANGED <<wants, ticket, thread, told, desk, mixed>>
      /\ raise[r].stage # "tell" /\ raise'[r].stage # "tell"
      /\ \A q \in Raisers \ {r} : raise'[q] = raise[q]
  BY DEF BeginRaise, NextNumber, NumberTaken, LeaveRefused, AtRest, ThreadInv, NumberInv,
         TicketTypeOK
<1>2. Raised' = Raised
  BY <1>1 DEF Raised
<1>3. ASSUME NEW u \in Raised \ mixed PROVE Undisturbed(u)'
  <2>1. \A q \in Raisers : Telling(q, u)' <=> Telling(q, u)
    BY <1>1 DEF Telling
  <2>2. \A o \in Officers : Busy(o, u)' <=> Busy(o, u)
    BY <1>1 DEF Busy
  <2> QED
    BY <1>1, <2>1, <2>2, OthersRest DEF ThreadInv
<1> QED
  BY <1>1, <1>2, <1>3 DEF ThreadInv, Untold

LEMMA CreateRests ==
  ASSUME ThreadInv, NEW r \in Raisers, CreateTicket(r)
  PROVE  Untold' /\ \A u \in Raised' \ mixed' : Undisturbed(u)'
<1>1. PICK t \in Ids :
        /\ t \notin Raised
        /\ ticket' = [ticket EXCEPT ![t] =
             [number |-> t, status |-> "open", stamped |-> FALSE]]
        /\ thread' = [thread EXCEPT ![t] = "open"]
        /\ raise' = [raise EXCEPT ![r] = [AtRest EXCEPT !.stage = "tell", !.id = t]]
  BY CreateEffect DEF ThreadInv
<1>2. raise[r].stage = "create" /\ UNCHANGED <<wants, told, desk, mixed>>
  BY DEF CreateTicket
<1>3. /\ ticket \in [Ids -> TicketRow] /\ raise \in [Raisers -> RaiseRow]
      /\ thread \in [Ids -> Statuses \cup {"none"}]
  BY DEF ThreadInv, NumberInv, TicketTypeOK, RaiseRow, TicketRow
<1>4. /\ ticket'[t].number = t /\ ticket'[t].status = "open" /\ ~ticket'[t].stamped
      /\ thread'[t] = "open"
      /\ \A u \in Ids \ {t} : ticket'[u] = ticket[u] /\ thread'[u] = thread[u]
  BY <1>1, <1>3
<1>5. /\ raise'[r].stage = "tell" /\ raise'[r].id = t
      /\ \A q \in Raisers \ {r} : raise'[q] = raise[q]
  BY <1>1, <1>3 DEF AtRest
<1>6. Raised' \subseteq Raised \cup {t}
  BY <1>4 DEF Raised
<1>7. ASSUME NEW u \in Raised \ mixed PROVE Undisturbed(u)'
  <2>1. u # t /\ u \in Ids
    BY <1>1 DEF Raised
  <2>2. \A q \in Raisers : Telling(q, u)' <=> Telling(q, u)
    BY <1>2, <1>5, <2>1 DEF Telling
  <2>3. \A o \in Officers : Busy(o, u)' <=> Busy(o, u)
    BY <1>2 DEF Busy
  <2> QED
    BY <1>2, <1>4, <2>1, <2>2, <2>3, OthersRest DEF ThreadInv
<1>8. Undisturbed(t)'
  <2>1. \A o \in Officers : ~Busy(o, t)'
    BY <1>1, <1>2 DEF Busy, ThreadInv, NumberInv, DeskIsRaised
  <2>2. \A q \in Raisers : Telling(q, t)' <=> q = r
    BY <1>1, <1>5 DEF Telling, ThreadInv, NumberInv, RaiseIsCounted
  <2> QED
    BY <1>4, <2>1, <2>2 DEF Undisturbed
<1> QED
  BY <1>2, <1>6, <1>7, <1>8 DEF ThreadInv, Untold

LEMMA TellRests ==
  ASSUME ThreadInv, NEW r \in Raisers, TellRaised(r) \/ RaiserDies(r)
  PROVE  Untold' /\ \A u \in Raised' \ mixed' : Undisturbed(u)'
<1>0. PICK t : t = raise[r].id
  OBVIOUS
<1>1. /\ raise[r].stage = "tell" /\ raise' = [raise EXCEPT ![r] = AtRest]
      /\ UNCHANGED <<wants, ticket, thread, desk>> /\ mixed \subseteq mixed'
      /\ told' = [told EXCEPT ![t] = "open"] \/ told' = told
  BY <1>0 DEF TellRaised, RaiserDies, Tell
<1>2. /\ raise \in [Raisers -> RaiseRow] /\ t \in Raised
      /\ told \in [Ids -> Statuses \cup {"none"}]
  BY <1>0, <1>1 DEF ThreadInv, NumberInv, TicketTypeOK, RaiseRow, RaiseIsCounted
<1>3. raise'[r].stage = "none" /\ \A q \in Raisers \ {r} : raise'[q] = raise[q]
  BY <1>1, <1>2 DEF AtRest
<1>4. Raised' = Raised /\ Raised \subseteq Ids
  BY <1>1 DEF Raised
<1>5. ASSUME NEW u \in Raised \ mixed, u # t PROVE Undisturbed(u)'
  <2>1. \A q \in Raisers : Telling(q, u)' <=> Telling(q, u)
    BY <1>0, <1>3, <1>5 DEF Telling
  <2>2. \A o \in Officers : Busy(o, u)' <=> Busy(o, u)
    BY <1>1 DEF Busy
  <2>3. told'[u] = told[u]
    BY <1>1, <1>2, <1>4, <1>5
  <2> QED
    BY <1>1, <2>1, <2>2, <2>3, OthersRest DEF ThreadInv
<1>6. CASE TellRaised(r)
  <2>1. told' = IF wants THEN [told EXCEPT ![t] = "open"] ELSE told
    BY <1>0, <1>6 DEF TellRaised, Tell
  <2>2. Untold'
    BY <1>1, <2>1 DEF ThreadInv, Untold
  <2>3. ASSUME t \notin mixed PROVE Undisturbed(t)'
    <3>1. Undisturbed(t) /\ Telling(r, t)
      BY <1>0, <1>1, <1>2, <2>3 DEF ThreadInv, Telling
    <3>2. \A o \in Officers : ~Busy(o, t)'
      BY <1>1, <3>1 DEF Undisturbed, Busy
    <3>3. \A q \in Raisers : ~Telling(q, t)'
      BY <1>3, <3>1 DEF Undisturbed, Telling
    <3>4. ticket'[t].status = "open" /\ ticket'[t].stamped = FALSE /\ thread'[t] = "open"
      <4>1. ticket'[t].stamped \in BOOLEAN
        BY <1>1, <1>2, <1>4 DEF ThreadInv, NumberInv, TicketTypeOK
      <4> QED
        BY <1>1, <3>1, <4>1 DEF Undisturbed
    <3>5. told'[t] = IF wants' THEN "open" ELSE "none"
      BY <1>1, <1>2, <1>4, <2>1, <2>2 DEF Untold
    <3>6. Agrees(t)'
      <4>1. ticket'[t].stamped = (ticket'[t].status = "resolved")
        BY <3>4
      <4> QED
        BY <3>4, <3>5, <4>1 DEF Agrees
    <3> QED
      BY <3>2, <3>3, <3>6 DEF Undisturbed
  <2> QED
    BY <1>1, <1>4, <1>5, <2>2, <2>3
<1>7. CASE RaiserDies(r)
  <2>1. t \in mixed' /\ told' = told
    BY <1>0, <1>7 DEF RaiserDies
  <2> QED
    BY <1>1, <1>4, <1>5, <2>1 DEF ThreadInv, Untold
<1> QED
  BY <1>6, <1>7

\* What a step of a committee request leaves alone.
LEMMA DeskRests ==
  ASSUME ThreadInv, NEW o \in Officers, NEW t \in Raised,
         UNCHANGED <<wants, raise>>, mixed \subseteq mixed',
         \A u \in Ids \ {t} :
           ticket'[u] = ticket[u] /\ thread'[u] = thread[u] /\ told'[u] = told[u],
         \A u \in Ids : ticket'[u].number = ticket[u].number,
         \A p \in Officers \ {o} : desk'[p] = desk[p],
         desk[o].stage # "none" => desk[o].id = t,
         desk'[o].stage # "none" => desk'[o].id = t,
         wants \/ told' = told,
         t \notin mixed' => Undisturbed(t)'
  PROVE  Untold' /\ \A u \in Raised' \ mixed' : Undisturbed(u)'
<1>1. Raised' = Raised /\ Raised \subseteq Ids
  BY DEF Raised
<1>2. ASSUME NEW u \in Raised \ mixed, u # t PROVE Undisturbed(u)'
  <2>1. \A r \in Raisers : Telling(r, u)' <=> Telling(r, u)
    BY DEF Telling
  <2>2. \A p \in Officers : Busy(p, u)' <=> Busy(p, u)
    BY <1>2 DEF Busy
  <2>3. \A p \in Officers : Busy(p, u) => desk'[p] = desk[p]
    BY <1>2 DEF Busy
  <2> QED
    BY <1>1, <1>2, <2>1, <2>2, <2>3, OthersRest DEF ThreadInv
<1>3. Untold'
  BY DEF ThreadInv, Untold
<1> QED
  BY <1>1, <1>2, <1>3

\* What an officer alone at a ticket may rely on.
LEMMA Alone ==
  ASSUME ThreadInv, NEW o \in Officers, NEW t, t = desk[o].id,
         desk[o].stage # "none", t \notin mixed,
         UNCHANGED raise, \A p \in Officers \ {o} : desk'[p] = desk[p]
  PROVE  /\ t \in Raised /\ Undisturbed(t) /\ Busy(o, t)
         /\ \A p \in Officers \ {o} : ~Busy(p, t)'
         /\ \A r \in Raisers : ~Telling(r, t)'
<1>1. t \in Raised /\ Undisturbed(t) /\ Busy(o, t)
  BY DEF ThreadInv, NumberInv, DeskIsRaised, Busy
<1>2. \A p \in Officers \ {o} : ~Busy(p, t)
  BY <1>1 DEF Undisturbed
<1>3. \A r \in Raisers : ~Telling(r, t)
  BY <1>1 DEF Undisturbed
<1> QED
  BY <1>1, <1>2, <1>3 DEF Busy, Telling

LEMMA LoadRests ==
  ASSUME ThreadInv, NEW o \in Officers, NEW t \in Ids, LoadTicket(o, t)
  PROVE  Untold' /\ \A u \in Raised' \ mixed' : Undisturbed(u)'
<1>1. /\ desk \in [Officers -> DeskRow] /\ t \in Raised /\ desk[o].stage = "none"
      /\ UNCHANGED <<wants, ticket, thread, told, raise>> /\ mixed \subseteq mixed'
      /\ desk' = [desk EXCEPT ![o] = [Away EXCEPT !.stage = "save", !.id = t, !.row = ticket[t]]]
  BY DEF LoadTicket, ThreadInv, NumberInv
<1>2. /\ desk'[o].stage = "save" /\ desk'[o].id = t /\ desk'[o].row = ticket[t]
      /\ \A p \in Officers \ {o} : desk'[p] = desk[p]
  BY <1>1 DEF Away
<1>3. ASSUME t \notin mixed' PROVE Undisturbed(t)'
  <2>1. /\ BusyWith(t) = {} /\ ~\E r \in Raisers : raise[r].stage = "tell" /\ raise[r].id = t
        /\ t \notin mixed
    BY <1>1, <1>3 DEF LoadTicket
  <2>2. /\ \A p \in Officers : ~Busy(p, t)
        /\ \A r \in Raisers : ~Telling(r, t)
    BY <2>1 DEF BusyWith, Busy, Telling
  <2>3. Agrees(t)
    BY <1>1, <2>1, <2>2 DEF ThreadInv, Undisturbed
  <2>4. /\ \A p \in Officers : Busy(p, t)' => p = o
        /\ \A r \in Raisers : ~Telling(r, t)'
        /\ Agrees(t)'
    BY <1>1, <1>2, <2>2, <2>3 DEF Busy, Telling, Agrees
  <2> QED
    BY <1>1, <1>2, <2>4 DEF Undisturbed
<1> QED
  BY <1>1, <1>2, <1>3, DeskRests

LEMMA SaveRests ==
  ASSUME ThreadInv, NEW o \in Officers, SaveTicket(o)
  PROVE  Untold' /\ \A u \in Raised' \ mixed' : Undisturbed(u)'
<1>0. PICK t : t = desk[o].id
  OBVIOUS
<1>1. PICK status \in Statuses :
        /\ ticket' = [ticket EXCEPT ![t] = [desk[o].row EXCEPT !.status = status]]
        /\ desk' = [desk EXCEPT ![o] =
             IF status = desk[o].row.status THEN Away
             ELSE [desk[o] EXCEPT !.stage = "stamp",
                     !.row = [desk[o].row EXCEPT !.status = status]]]
  BY <1>0 DEF SaveTicket
<1>2. /\ desk[o].stage = "save" /\ UNCHANGED <<wants, thread, told, raise, mixed>>
      /\ desk \in [Officers -> DeskRow] /\ ticket \in [Ids -> TicketRow]
  BY DEF SaveTicket, ThreadInv, NumberInv, TicketTypeOK, TicketRow
<1>3. t \in Raised /\ t \in Ids /\ desk[o].row.number = t /\ ticket[t].number = t
      /\ desk[o].row \in TicketRow
  BY <1>0, <1>2 DEF ThreadInv, NumberInv, DeskIsRaised, InOrder, Raised, DeskRow
<1>4. /\ ticket'[t].status = status /\ ticket'[t].stamped = desk[o].row.stamped
      /\ ticket'[t].number = t /\ (status = desk[o].row.status => ticket'[t] = desk[o].row)
      /\ \A u \in Ids \ {t} : ticket'[u] = ticket[u]
  BY <1>1, <1>2, <1>3 DEF TicketRow
<1>5. \A p \in Officers \ {o} : desk'[p] = desk[p]
  BY <1>1, <1>2
<1>6. CASE status = desk[o].row.status
  <2>1. desk'[o].stage = "none"
    BY <1>1, <1>2, <1>6 DEF Away
  <2>2. ASSUME t \notin mixed' PROVE Undisturbed(t)'
    <3>1. /\ Undisturbed(t) /\ Busy(o, t) /\ \A p \in Officers \ {o} : ~Busy(p, t)'
          /\ \A r \in Raisers : ~Telling(r, t)'
      BY <1>0, <1>2, <1>5, <2>2, Alone
    <3>2. ticket'[t] = ticket[t] /\ Agrees(t)
      BY <1>2, <1>4, <1>6, <3>1 DEF Undisturbed
    <3>3. Agrees(t)' /\ ~Busy(o, t)'
      BY <1>2, <2>1, <3>2 DEF Agrees, Busy
    <3> QED
      BY <3>1, <3>3 DEF Undisturbed
  <2> QED
    BY <1>0, <1>2, <1>3, <1>4, <1>5, <2>1, <2>2, DeskRests
<1>7. CASE status # desk[o].row.status
  <2>1. desk'[o].stage = "stamp" /\ desk'[o].id = t /\ desk'[o].row.status = status
    BY <1>0, <1>1, <1>2, <1>3, <1>7 DEF DeskRow, TicketRow
  <2>2. ASSUME t \notin mixed' PROVE Undisturbed(t)'
    <3>1. /\ Undisturbed(t) /\ \A p \in Officers \ {o} : ~Busy(p, t)'
          /\ \A r \in Raisers : ~Telling(r, t)'
      BY <1>0, <1>2, <1>5, <2>2, Alone
    <3>2. Busy(o, t)'
      BY <2>1 DEF Busy
    <3> QED
      BY <1>4, <2>1, <3>1, <3>2 DEF Undisturbed
  <2> QED
    BY <1>0, <1>2, <1>3, <1>4, <1>5, <2>1, <2>2, DeskRests
<1> QED
  BY <1>6, <1>7

LEMMA WritesRest ==
  ASSUME ThreadInv, NEW o \in Officers,
         Stamp(o) \/ LogStatus(o) \/ TellStatus(o) \/ OfficerDies(o)
  PROVE  Untold' /\ \A u \in Raised' \ mixed' : Undisturbed(u)'
<1>0. PICK t, status : t = desk[o].id /\ status = desk[o].row.status
  OBVIOUS
<1>1. /\ desk \in [Officers -> DeskRow] /\ ticket \in [Ids -> TicketRow]
      /\ thread \in [Ids -> Statuses \cup {"none"}] /\ told \in [Ids -> Statuses \cup {"none"}]
      /\ desk[o].stage \in {"stamp", "log", "tell"}
  BY DEF Stamp, LogStatus, TellStatus, OfficerDies, ThreadInv, NumberInv, TicketTypeOK, TicketRow
<1>2. t \in Raised /\ t \in Ids
  BY <1>0, <1>1 DEF ThreadInv, NumberInv, DeskIsRaised, Raised
<1>3. UNCHANGED <<wants, raise>> /\ mixed \subseteq mixed'
  BY DEF Stamp, LogStatus, TellStatus, OfficerDies
<1>4. \A p \in Officers \ {o} : desk'[p] = desk[p]
  BY <1>1 DEF Stamp, LogStatus, TellStatus, OfficerDies
<1>5. ASSUME t \notin mixed
      PROVE  /\ Undisturbed(t) /\ Busy(o, t) /\ \A p \in Officers \ {o} : ~Busy(p, t)'
             /\ \A r \in Raisers : ~Telling(r, t)'
             /\ status = ticket[t].status
  <2>1. /\ Undisturbed(t) /\ Busy(o, t) /\ \A p \in Officers \ {o} : ~Busy(p, t)'
        /\ \A r \in Raisers : ~Telling(r, t)'
    BY <1>0, <1>1, <1>3, <1>4, <1>5, Alone
  <2> QED
    BY <1>0, <1>1, <2>1 DEF Undisturbed
<1>6. CASE Stamp(o)
  <2> DEFINE b == status = "resolved"
  <2>1. /\ ticket' = [ticket EXCEPT ![t].stamped = b] /\ b \in BOOLEAN
        /\ desk' = [desk EXCEPT ![o].stage = "log"]
        /\ UNCHANGED <<thread, told, mixed>>
    BY <1>0, <1>6 DEF Stamp
  <2> HIDE DEF b
  <2>2. /\ ticket'[t].status = ticket[t].status /\ ticket'[t].stamped = b
        /\ ticket'[t].number = ticket[t].number
        /\ \A u \in Ids \ {t} : ticket'[u] = ticket[u]
    BY <1>1, <1>2, <2>1 DEF TicketRow
  <2>3. desk'[o].stage = "log" /\ desk'[o].id = t /\ desk'[o].row = desk[o].row
    BY <1>0, <1>1, <2>1 DEF DeskRow
  <2>4. ASSUME t \notin mixed' PROVE Undisturbed(t)'
    <3>1. Busy(o, t)' /\ t \notin mixed
      BY <1>1, <2>1, <2>3, <2>4 DEF Busy
    <3>2. ticket'[t].stamped = (ticket'[t].status = "resolved")
      BY <1>5, <2>2, <3>1 DEF b
    <3> QED
      BY <1>5, <2>2, <2>3, <3>1, <3>2 DEF Undisturbed
  <2> QED
    BY <1>0, <1>1, <1>2, <1>3, <1>4, <2>1, <2>2, <2>3, <2>4, DeskRests
<1>7. CASE LogStatus(o)
  <2>1. /\ thread' = [thread EXCEPT ![t] = status] /\ desk[o].stage = "log"
        /\ desk' = [desk EXCEPT ![o].stage = "tell"]
        /\ UNCHANGED <<ticket, told, mixed>>
    BY <1>0, <1>7 DEF LogStatus
  <2>2. thread'[t] = status /\ \A u \in Ids \ {t} : thread'[u] = thread[u]
    BY <1>1, <1>2, <2>1
  <2>3. desk'[o].stage = "tell" /\ desk'[o].id = t /\ desk'[o].row = desk[o].row
    BY <1>0, <1>1, <2>1 DEF DeskRow
  <2>4. ASSUME t \notin mixed' PROVE Undisturbed(t)'
    <3>1. Busy(o, t)' /\ t \notin mixed
      BY <1>1, <2>1, <2>3, <2>4 DEF Busy
    <3>2. ticket'[t].stamped = (ticket'[t].status = "resolved")
      BY <1>5, <2>1, <3>1 DEF Undisturbed
    <3> QED
      BY <1>5, <2>1, <2>2, <2>3, <3>1, <3>2 DEF Undisturbed
  <2> QED
    BY <1>0, <1>1, <1>2, <1>3, <1>4, <2>1, <2>2, <2>3, <2>4, DeskRests
<1>8. CASE TellStatus(o)
  <2>1. /\ told' = IF wants THEN [told EXCEPT ![t] = status] ELSE told
        /\ desk[o].stage = "tell" /\ desk' = [desk EXCEPT ![o] = Away]
        /\ UNCHANGED <<ticket, thread, mixed>>
    BY <1>0, <1>8 DEF TellStatus, Tell
  <2>2. /\ told'[t] = IF wants THEN status ELSE "none"
        /\ \A u \in Ids \ {t} : told'[u] = told[u]
        /\ wants \/ told' = told
    BY <1>1, <1>2, <2>1 DEF ThreadInv, Untold
  <2>3. desk'[o].stage = "none"
    BY <1>1, <2>1 DEF Away
  <2>4. ASSUME t \notin mixed' PROVE Undisturbed(t)'
    <3>1. ~Busy(o, t)' /\ t \notin mixed
      BY <2>1, <2>3, <2>4 DEF Busy
    <3>2. Agrees(t)'
      BY <1>3, <1>5, <2>1, <2>2, <3>1 DEF Undisturbed, Agrees
    <3> QED
      BY <1>5, <3>1, <3>2 DEF Undisturbed
  <2> QED
    BY <1>0, <1>1, <1>2, <1>3, <1>4, <2>1, <2>2, <2>3, <2>4, DeskRests
<1>9. CASE OfficerDies(o)
  <2>1. t \in mixed' /\ desk'[o].stage = "none" /\ UNCHANGED <<ticket, thread, told>>
    BY <1>0, <1>1, <1>9 DEF OfficerDies, Away
  <2> QED
    BY <1>0, <1>1, <1>2, <1>3, <1>4, <2>1, DeskRests
<1> QED
  BY <1>6, <1>7, <1>8, <1>9

LEMMA ThreadStep == ThreadInv /\ [TicketNext]_ticketVars => ThreadInv'
<1> SUFFICES ASSUME ThreadInv, [TicketNext]_ticketVars PROVE ThreadInv'
  OBVIOUS
<1>1. NumberInv'
  BY NumberStep DEF ThreadInv
<1>2. CASE TicketNext
  <2>1. ASSUME NEW r \in Raisers, RaiseStep(r)
        PROVE  Untold' /\ \A u \in Raised' \ mixed' : Undisturbed(u)'
    BY <2>1, RaisesRest, CreateRests, TellRests DEF RaiseStep
  <2>2. ASSUME NEW o \in Officers, DeskStep(o)
        PROVE  Untold' /\ \A u \in Raised' \ mixed' : Undisturbed(u)'
    BY <2>2, LoadRests, SaveRests, WritesRest DEF DeskStep
  <2> QED
    BY <1>1, <1>2, <2>1, <2>2 DEF TicketNext, ThreadInv
<1>3. CASE UNCHANGED ticketVars
  <2>1. Raised' = Raised /\ Untold'
    BY <1>3 DEF ticketVars, ThreadInv, Untold, Raised
  <2>2. \A u \in Raised \ mixed : Undisturbed(u)'
    BY <1>3 DEF ticketVars, ThreadInv, Undisturbed, Agrees, Busy, Telling
  <2> QED
    BY <1>1, <1>3, <2>1, <2>2 DEF ticketVars, ThreadInv
<1> QED
  BY <1>2, <1>3

-----------------------------------------------------------------------------
(* The theorems *)

\* The invariant holds in every state.
THEOREM TicketInvariance == TicketSpec => []ThreadInv
BY ThreadStarts, ThreadStep, PTL DEF TicketSpec

\* Every variable keeps its type.
THEOREM TicketTypes == TicketSpec => []TicketTypeOK
<1>1. ThreadInv => TicketTypeOK
  BY DEF ThreadInv, NumberInv
<1> QED
  BY <1>1, TicketInvariance, PTL

\* The maximum plus one, the unique column and the saves of whole rows together
\* number the tickets in the order they are raised (_next_ticket_number).
THEOREM Numbering == TicketSpec => []NumberedInOrder
<1>1. ThreadInv => NumberedInOrder
  BY DEF ThreadInv, NumberInv, InOrder, NumberedInOrder, Raised
<1> QED
  BY <1>1, TicketInvariance, PTL

\* Each IntegrityError that raise_ticket catches is a ticket of somebody else.
THEOREM TriesAreSpent == TicketSpec => []TriesAreLostToOthers
<1>1. ThreadInv => TriesAreLostToOthers
  BY DEF ThreadInv, NumberInv, RaiseIsCounted, TriesAreLostToOthers
<1> QED
  BY <1>1, TicketInvariance, PTL

\* The separate saves of a PATCH leave a ticket whose parts agree
\* (TicketViewSet.partial_update).
THEOREM ThreadsAgree == TicketSpec => []ThreadTellsTheStatus
<1>1. ThreadInv => ThreadTellsTheStatus
  BY DEF ThreadInv, Undisturbed, Agrees, Busy, Telling, BusyWith, ThreadTellsTheStatus
<1> QED
  BY <1>1, TicketInvariance, PTL

-----------------------------------------------------------------------------
(* The services side by side *)

\* A step of the whole is a step of every component, or leaves it alone.
LEMMA ServicesSteps ==
  ASSUME [ServicesNext]_allVars
  PROVE  /\ [ViewsNext]_viewVars /\ [GrantNext]_grantVars /\ [TicketNext]_ticketVars
         /\ [ActivityNext]_activityVars /\ [AnalyticsNext]_booked
<1>1. CASE Raising
  <2>1. TicketNext
    BY <1>1, ServicesAssumption DEF Raising, TicketNext
  <2> QED
    BY <1>1, <2>1 DEF Raising, AlmostAll
<1>2. CASE Patching
  <2>1. TicketNext
    BY <1>2 DEF Patching, TicketNext
  <2> QED
    BY <1>2, <2>1 DEF Patching, AlmostAll
<1> QED
  BY <1>1, <1>2 DEF ServicesNext, Views, Granting, Happening, Counting, allVars

\* Where nobody looks at slots, there is no machine and stays none.
LEMMA NoMachinesStay ==
  ASSUME focus # "views" /\ NoMachines, [ServicesNext]_allVars
  PROVE  (focus # "views" /\ NoMachines)'
BY DEF ServicesNext, Views, Granting, Raising, Patching, Happening, Counting, AlmostAll,
       allVars, viewVars, NoMachines

\* The components are run side by side, one at a time: what is a behaviour of
\* them together is a behaviour of the grants, of the tickets, of the first page
\* and of the chart, and of the views where these are the one that is looked at, so that
\* what is proved of each holds where TLC checks them together.
THEOREM ServicesCompose ==
  ServicesSpec =>
    /\ GrantSpec /\ TicketSpec /\ ActivitySpec /\ AnalyticsSpec
    /\ ViewsSpec \/ [](focus # "views" /\ NoMachines)
<1>1. ServicesInit =>
        /\ GrantInit /\ TicketInit /\ ActivityInit /\ AnalyticsInit
        /\ ViewsInit \/ (focus # "views" /\ NoMachines)
  BY DEF ServicesInit
<1> QED
  BY <1>1, ServicesSteps, NoMachinesStay, PTL
     DEF ServicesSpec, ViewsSpec, GrantSpec, TicketSpec, ActivitySpec, AnalyticsSpec

\* Every variable of every component keeps its type while they run together.
THEOREM ServicesTypes == ServicesSpec => []ServicesTypeOK
<1>1. NoMachines => ViewsTypeOK
  <2>1. NoBooking \in [ status : {"free", "live", "cancelled"}, student : Students \cup {Nothing},
                        machine : Machines \cup {Nothing}, start : Nat, end : Nat,
                        counts : BOOLEAN ]
    BY DEF NoBooking
  <2> QED
    BY <2>1, ViewsAssumption, Rules DEF NoMachines, ViewsTypeOK, Installed, BookingTable
<1>2. ViewsTypeOK /\ GrantTypeOK /\ TicketTypeOK /\ ActivityTypeOK /\ AnalyticsTypeOK => ServicesTypeOK
  BY DEF ServicesTypeOK
<1> QED
  BY <1>1, <1>2, ServicesCompose, ViewsTyped, GrantTypes, TicketTypes, ActivityTypes,
     AnalyticsTypes, PTL
=============================================================================
