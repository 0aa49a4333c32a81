------------------------------ MODULE Tickets ------------------------------
(***************************************************************************)
(* Tickets: students report a machine, the committee answers               *)
(* (laundry/services/tickets.py, TicketViewSet of laundry/views/admin.py). *)
(* A ticket is numbered with the maximum plus one and a unique column, and *)
(* numbering is tried again on a clash; the committee's PATCH loads the    *)
(* ticket, saves all of its columns, and only then stamps, logs and tells  *)
(* what changed, each in a transaction of its own.                         *)
(*                                                                         *)
(* Of the event thread the last event about the status is kept, of the     *)
(* student's notifications the last about each ticket.  Machines, notes and*)
(* photos are valid or the request changes nothing, and are left out.      *)
(***************************************************************************)
EXTENDS Integers, FiniteSets

CONSTANTS
  Raisers,      \* requests of students that may be in flight
  Officers,     \* requests of the committee that may be in flight
  MaxTickets,   \* bound on the tickets ever raised
  MaxTries      \* range(5)

ASSUME TicketAssumption == MaxTickets \in Nat /\ MaxTries \in Nat \ {0}

VARIABLES
  wants,     \* NotificationPreference.ticket_update
  ticket,    \* Ticket, in the order of creation
  thread,    \* the title of the last TicketEvent about the status
  told,      \* the status in the last notification about the ticket
  raise,     \* what each student's request is doing
  desk,      \* what each committee request is doing and has loaded
  \* history variables, read by properties only
  beaten,    \* how many tickets others raised since each request came
  mixed      \* tickets with two PATCHes at once, or one that died half done

ticketVars == <<wants, ticket, thread, told, raise, desk, beaten, mixed>>

Ids == 1..MaxTickets
Statuses == {"open", "resolved"}

NoTicket == [number |-> 0, status |-> "none", stamped |-> FALSE]
Raised == {t \in Ids : ticket[t].number # 0}
Numbers == {ticket[t].number : t \in Raised}

AtRest == [stage |-> "none", number |-> 0, tries |-> 0, id |-> 0]
Away == [stage |-> "none", id |-> 0, row |-> NoTicket]

-----------------------------------------------------------------------------
(* raise_ticket *)

BeginRaise(r) ==
  /\ raise[r].stage = "none"
  /\ raise' = [raise EXCEPT ![r] = [AtRest EXCEPT !.stage = "number"]]
  /\ beaten' = [beaten EXCEPT ![r] = 0]
  /\ UNCHANGED <<wants, ticket, thread, told, desk, mixed>>

\* Fault: the tickets are counted, resolved ones left out.
NextNumberOfOpen(r) ==
  /\ raise[r].stage = "number"
  /\ raise' = [raise EXCEPT ![r].stage = "create",
                 ![r].number = Cardinality({t \in Raised : ticket[t].status = "open"}) + 1]
  /\ UNCHANGED <<wants, ticket, thread, told, desk, beaten, mixed>>

\* Fault: a second try skips a number.
NextNumberPlusTries(r) ==
  /\ raise[r].stage = "number"
  /\ raise' = [raise EXCEPT ![r].stage = "create",
                            ![r].number = Cardinality(Numbers) + 1 + raise[r].tries]
  /\ UNCHANGED <<wants, ticket, thread, told, desk, beaten, mixed>>

\* _next_ticket_number: the maximum plus one, which is above every number and
\* no higher than it must be.
NextNumber(r) ==
  /\ raise[r].stage = "number"
  /\ \E n \in 1..(MaxTickets + 1) :
       /\ \A m \in Numbers : m < n
       /\ n = 1 \/ n - 1 \in Numbers
       /\ raise' = [raise EXCEPT ![r].stage = "create", ![r].number = n]
  /\ UNCHANGED <<wants, ticket, thread, told, desk, beaten, mixed>>

\* IntegrityError: the number is taken by now.  Try again, or give up.
NumberTaken(r) ==
  /\ raise[r].stage = "create"
  /\ raise[r].number \in Numbers
  /\ raise' = [raise EXCEPT ![r].stage = IF raise[r].tries + 1 < MaxTries THEN "number" ELSE "refused",
                            ![r].tries = @ + 1]
  /\ UNCHANGED <<wants, ticket, thread, told, desk, beaten, mixed>>

\* The ticket and its first event, in one transaction.
CreateTicket(r) ==
  /\ raise[r].stage = "create"
  /\ raise[r].number \notin Numbers
  /\ \E t \in Ids :
       /\ Raised = 1..(t - 1)
       /\ ticket' = [ticket EXCEPT ![t] =
            [number |-> raise[r].number, status |-> "open", stamped |-> FALSE]]
       /\ thread' = [thread EXCEPT ![t] = "open"]
       /\ raise' = [raise EXCEPT ![r] = [AtRest EXCEPT !.stage = "tell", !.id = t]]
  /\ beaten' = [q \in Raisers |->
       IF q # r /\ raise[q].stage \in {"number", "create"} THEN beaten[q] + 1
       ELSE IF q = r THEN 0 ELSE beaten[q]]
  /\ UNCHANGED <<wants, told, desk, mixed>>

\* create_in_app_notification, unless the student does not want it.
Tell(t, status) == told' = IF wants THEN [told EXCEPT ![t] = status] ELSE told

TellRaised(r) ==
  /\ raise[r].stage = "tell"
  /\ Tell(raise[r].id, "open")
  /\ raise' = [raise EXCEPT ![r] = AtRest]
  /\ UNCHANGED <<wants, ticket, thread, desk, beaten, mixed>>

LeaveRefused(r) ==
  /\ raise[r].stage = "refused"
  /\ raise' = [raise EXCEPT ![r] = AtRest]
  /\ UNCHANGED <<wants, ticket, thread, told, desk, beaten, mixed>>

-----------------------------------------------------------------------------
(* TicketViewSet.partial_update *)

BusyWith(t) == {o \in Officers : desk[o].stage # "none" /\ desk[o].id = t}

\* get_object, and what the request asks for: a status, a note, or both.
LoadTicket(o, t) ==
  /\ desk[o].stage = "none"
  /\ t \in Raised
  /\ desk' = [desk EXCEPT ![o] = [Away EXCEPT !.stage = "save", !.id = t, !.row = ticket[t]]]
  /\ mixed' = IF BusyWith(t) # {} \/ \E r \in Raisers : raise[r].stage = "tell" /\ raise[r].id = t
              THEN mixed \cup {t} ELSE mixed
  /\ UNCHANGED <<wants, ticket, thread, told, raise, beaten>>

\* serializer.save() writes every column of the ticket that was loaded,
\* the one named among them.  (A note that changes leaves an event of its own.)
SaveTicket(o) ==
  LET t == desk[o].id IN
  /\ desk[o].stage = "save"
  /\ \E status \in Statuses :
       LET row == [desk[o].row EXCEPT !.status = status] IN
       /\ ticket' = [ticket EXCEPT ![t] = row]
       /\ desk' = [desk EXCEPT ![o] =
            IF status = desk[o].row.status THEN Away
            ELSE [desk[o] EXCEPT !.stage = "stamp", !.row = row]]
  /\ UNCHANGED <<wants, thread, told, raise, beaten, mixed>>

\* Fault: a ticket that is opened again keeps the time of its resolution.
StampResolved(o) ==
  LET t == desk[o].id IN
  /\ desk[o].stage = "stamp"
  /\ ticket' = [ticket EXCEPT ![t].stamped = TRUE]
  /\ desk' = [desk EXCEPT ![o].stage = "log"]
  /\ UNCHANGED <<wants, thread, told, raise, beaten, mixed>>

\* A status that has changed sets or clears the time of resolution,
Stamp(o) ==
  LET t == desk[o].id IN
  /\ desk[o].stage = "stamp"
  /\ ticket' = [ticket EXCEPT ![t].stamped = desk[o].row.status = "resolved"]
  /\ desk' = [desk EXCEPT ![o].stage = "log"]
  /\ UNCHANGED <<wants, thread, told, raise, beaten, mixed>>

\* adds an event,
LogStatus(o) ==
  /\ desk[o].stage = "log"
  /\ thread' = [thread EXCEPT ![desk[o].id] = desk[o].row.status]
  /\ desk' = [desk EXCEPT ![o].stage = "tell"]
  /\ UNCHANGED <<wants, ticket, told, raise, beaten, mixed>>

\* and tells the student.
TellStatus(o) ==
  /\ desk[o].stage = "tell"
  /\ Tell(desk[o].id, desk[o].row.status)
  /\ desk' = [desk EXCEPT ![o] = Away]
  /\ UNCHANGED <<wants, ticket, thread, raise, beaten, mixed>>

-----------------------------------------------------------------------------
(* The specification *)

\* A worker dies between two of its transactions.
RaiserDies(r) ==
  /\ raise[r].stage = "tell"
  /\ mixed' = mixed \cup {raise[r].id}
  /\ raise' = [raise EXCEPT ![r] = AtRest]
  /\ UNCHANGED <<wants, ticket, thread, told, desk, beaten>>

OfficerDies(o) ==
  /\ desk[o].stage \in {"stamp", "log", "tell"}
  /\ mixed' = mixed \cup {desk[o].id}
  /\ desk' = [desk EXCEPT ![o] = Away]
  /\ UNCHANGED <<wants, ticket, thread, told, raise, beaten>>

TicketInit ==
  /\ wants \in BOOLEAN
  /\ ticket = [t \in Ids |-> NoTicket]
  /\ thread = [t \in Ids |-> "none"] /\ told = [t \in Ids |-> "none"]
  /\ raise = [r \in Raisers |-> AtRest] /\ desk = [o \in Officers |-> Away]
  /\ beaten = [r \in Raisers |-> 0] /\ mixed = {}

RaiseStep(r) ==
  \/ BeginRaise(r) \/ NextNumber(r) \/ NumberTaken(r) \/ CreateTicket(r)
  \/ TellRaised(r) \/ LeaveRefused(r) \/ RaiserDies(r)

DeskStep(o) ==
  \/ \E t \in Ids : LoadTicket(o, t)
  \/ SaveTicket(o) \/ Stamp(o) \/ LogStatus(o) \/ TellStatus(o) \/ OfficerDies(o)

TicketNext == (\E r \in Raisers : RaiseStep(r)) \/ (\E o \in Officers : DeskStep(o))

TicketSpec == TicketInit /\ [][TicketNext]_ticketVars

-----------------------------------------------------------------------------
(* Properties *)

TicketTypeOK ==
  /\ wants \in BOOLEAN
  /\ ticket \in [Ids -> [number : 0..(MaxTickets + 1), status : Statuses \cup {"none"},
                         stamped : BOOLEAN]]
  /\ thread \in [Ids -> Statuses \cup {"none"}] /\ told \in [Ids -> Statuses \cup {"none"}]
  /\ raise \in [Raisers -> [stage : {"none", "number", "create", "tell", "refused"},
                            number : Nat, tries : 0..MaxTries,
                            id : 0..MaxTickets]]
  /\ \A o \in Officers :
       /\ desk[o].stage \in {"none", "save", "stamp", "log", "tell"}
       /\ desk[o].id \in 0..MaxTickets
  /\ beaten \in [Raisers -> Nat] /\ mixed \subseteq Ids

\* Tickets are numbered 1, 2, 3 in the order they were raised, whichever
\* requests clashed and whatever the committee saved meanwhile: a PATCH writes
\* back a number too, but it is always the one the ticket has.
NumberedInOrder == \A t \in Raised : ticket[t].number = t

\* "Could not allocate a ticket number" (tickets.py) is never said to a student
\* on a quiet day: each failed try is another ticket that was raised meanwhile.
TriesAreLostToOthers == \A r \in Raisers : raise[r].tries =< beaten[r]

\* Once nobody is at work on a ticket, its status, its time of resolution, its
\* thread and what the student was told agree, unless two PATCHes overlapped (the
\* later save writes back the status that it loaded) or one died half done.
ThreadTellsTheStatus ==
  \A t \in Raised \ mixed :
    \/ BusyWith(t) # {}
    \/ \E r \in Raisers : raise[r].stage = "tell" /\ raise[r].id = t
    \/ /\ ticket[t].stamped = (ticket[t].status = "resolved")
       /\ thread[t] = ticket[t].status
       /\ told[t] = IF wants THEN ticket[t].status ELSE "none"
=============================================================================
