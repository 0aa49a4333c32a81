----------------------------- MODULE SlotViews -----------------------------
(***************************************************************************)
(* What students and administrators are shown, next to what the requests   *)
(* they then send do: slot listings, the live status of a machine, options *)
(* for a move, the committee's grid and dashboard, and the preview of a    *)
(* change of hours.  A request is one step here; Booking and MachineAdmin  *)
(* interleave the same requests and keep their grids fixed sets.           *)
(***************************************************************************)
EXTENDS SlotGrid

CONSTANTS
  Students, Machines, BookingIds,
  Windows,     \* the windows an administrator may choose
  FirstHour,   \* the first hour of the committee's grid, 6
  LastInstant  \* bound on the clock

ASSUME ViewsAssumption ==
  /\ Windows \subseteq Window
  /\ Nothing \notin Students \cup Machines \cup BookingIds
  /\ LastInstant \in Nat /\ LastInstant >= DayLen /\ FirstHour \in Nat
  /\ Kind \in [Machines -> Kinds]

VARIABLES
  clock,   \* timezone.now()
  row,     \* the Machine table: window and is_offline
  table    \* the Booking table, as in FairnessRules

viewVars == <<clock, row, table>>

NoBooking ==
  [ status |-> "free", student |-> Nothing, machine |-> Nothing, start |-> 0, end |-> 0,
    counts |-> FALSE ]

BookingTable ==
  [BookingIds -> [ status : {"free", "live", "cancelled"}, student : Students \cup {Nothing},
                   machine : Machines \cup {Nothing}, start : Nat, end : Nat,
                   counts : BOOLEAN ]]

Today == Day(clock)

\* The machines there are.
Installed == DOMAIN row

-----------------------------------------------------------------------------
(* Live status *)

\* What machine_live_status loads: from midnight, two days.
LoadedToday(m) == LoadOverlapping(table, m, Midnight(Today), Midnight(Today + 2))

TodaysSlots(states, m, s) ==
  SlotsIn(states, table, LoadedToday(m), row[m], m, s, Today, clock)

AllStates == {"past", "running", "offline", "mine", "taken", "blocked", "free"}

OpenLater(m, s) == {slot \in TodaysSlots({"free"}, m, s) : slot.start > clock}

\* Busy while a slot runs, whether anybody has booked it or not.
Status(m, s) ==
  IF row[m].offline THEN "offline"
  ELSE IF TodaysSlots({"running"}, m, s) # {} THEN "busy" ELSE "free"

\* Fault: the end of the next open slot instead of the next taken one.
FreeUntilOpenEnd(m, s) ==
  LET open == OpenLater(m, s)
  IN IF Status(m, s) # "free" \/ open = {} THEN Nothing ELSE Max({slot.end : slot \in open})

\* machine_live_status: free until the next taken slot of today, or the end of
\* today's last slot.
FreeUntil(m, s) ==
  LET taken == {slot \in TodaysSlots({"taken", "mine"}, m, s) : slot.start > clock}
      ends  == {slot.end : slot \in TodaysSlots(AllStates, m, s)}
  IN IF Status(m, s) # "free" THEN Nothing
     ELSE IF taken # {} THEN First(taken).start
     ELSE IF ends # {} /\ Max(ends) > clock THEN Max(ends) ELSE Nothing

FreesAt(m, s) ==
  LET running == TodaysSlots({"running"}, m, s)
  IN IF running = {} THEN Nothing ELSE First(running).end

\* hostel_availability_now for the machines of one kind.
AvailabilityNow(k, s) ==
  LET group == {m \in Installed : Kind[m] = k}
      opens == UNION {{slot.start : slot \in OpenLater(m, s)} : m \in group}
  IN [ total    |-> Cardinality(group),
       freeNow  |-> Cardinality({m \in group : Status(m, s) = "free"}),
       nextFree |-> IF opens = {} THEN Nothing ELSE Min(opens),
       freeing  |-> {m \in group : Status(m, s) = "busy" /\ FreesAt(m, s) # Nothing} ]

-----------------------------------------------------------------------------
(* The committee's grid and dashboard *)

\* _hour_is_operable and build_booking_grid: a cell is closed, or shows the
\* booking of the day that starts in its hour (the last one of them), or is open.
\* The hours before FirstHour have no cells.
GridHours == FirstHour..(DayLen \div HourLen - 1)

StartingIn(m, day, hour) ==
  {b \in LiveRows(table, m) : Day(table[b].start) = day /\ HourOf(table[b].start) = hour}

\* Fault: a slot opens a cell only if it starts on the hour.
CellClosedOffTheHour(m, day, hour) ==
  \/ row[m].offline
  \/ \A slot \in OperatingSlots(row[m].window, day) :
       slot.start # Midnight(day) + hour * HourLen

CellClosed(m, day, hour) ==
  \/ row[m].offline
  \/ \A slot \in OperatingSlots(row[m].window, day) : HourOf(slot.start) # hour

Cell(m, day, hour) ==
  IF hour \notin GridHours \/ CellClosed(m, day, hour) THEN {}
  ELSE LET found == StartingIn(m, day, hour) IN IF found = {} THEN {} ELSE {CHOOSE b \in found : TRUE}

-----------------------------------------------------------------------------
(* Moves and hours *)

\* A claim finds the machine in service, its interval vacant and the rules on
\* its side; `moved` is the booking that moves, if one does.
Claimable(s, m, slot, moved) ==
  /\ ~row[m].offline
  /\ RulesAllow(table, s, m, slot.start, clock, moved)
  /\ \A b \in LiveRows(table, m) \ {moved} : ~Meets(table[b], slot.start, slot.end)

\* Fault: only the bookings of today are loaded.
MoveOptionsOfToday(b) ==
  LET s == table[b].student
      load(n) == LoadOverlapping(table, n, Midnight(Today), Midnight(Today + 1))
      alike == {n \in Installed : Kind[n] = Kind[table[b].machine] /\ ~row[n].offline}
  IN IF table[b].status # "live" \/ table[b].start =< clock THEN {}
     ELSE { o \in UNION {{n} \X UNION {SlotsIn({"free"}, table, load(n), row[n], n, s, d, clock) :
                                      d \in Today..(Today + AdvanceDays)} : n \in alike} :
              RulesAllow(table, s, o[1], o[2].start, clock, b) }

\* move_options: free slots of the days one may book on, on machines of the
\* booking's kind, that the rules allow when it is left out.  (The code returns
\* the first 40 of them.)
MoveOptions(b) ==
  LET s == table[b].student
      load(n) == LoadOverlapping(table, n, Midnight(Today), Midnight(Today + AdvanceDays + 1))
      alike == {n \in Installed : Kind[n] = Kind[table[b].machine] /\ ~row[n].offline}
  IN IF table[b].status # "live" \/ table[b].start =< clock THEN {}
     ELSE { o \in UNION {{n} \X UNION {SlotsIn({"free"}, table, load(n), row[n], n, s, d, clock) :
                                      d \in Today..(Today + AdvanceDays)} : n \in alike} :
              RulesAllow(table, s, o[1], o[2].start, clock, b) }

\* Fault: the preview derives the slots of the window there is.
HoursImpactOfOldWindow(m, w) ==
  {b \in UpcomingOf(table, m, clock) :
     \A d \in Today..(Today + Horizon - 1) :
       \A slot \in OperatingSlots(row[m].window, d) : slot.start # table[b].start}

\* hours_change_impact: upcoming bookings that start no slot of the new window,
\* cut into slots of the present length, from today to the horizon.
HoursImpact(m, w) ==
  LET probe == [w EXCEPT !.length = row[m].window.length]
  IN {b \in UpcomingOf(table, m, clock) :
        \A d \in Today..(Today + Horizon - 1) :
          \A slot \in OperatingSlots(probe, d) : slot.start # table[b].start}

\* Fault: cancelled rows are counted.
DriesShownWithCancelled(s) ==
  Cardinality({b \in BookingIds :
    /\ table[b].status # "free" /\ table[b].student = s
    /\ Kind[table[b].machine] = "dryer" /\ QuotaWeek(table[b].start) = QuotaWeek(clock)})

\* quota_status counts this week's washer rows by their flag, as the rules do,
\* but the dryer rows that are not cancelled.
DriesShown(s) ==
  Cardinality({b \in BookingIds :
    /\ table[b].status = "live" /\ table[b].student = s
    /\ Kind[table[b].machine] = "dryer" /\ QuotaWeek(table[b].start) = QuotaWeek(clock)})

\* _resolve_requested_slot for a date and an hour, which is what book_slot
\* sends for the tools of an assistant.
AskedFor(m, day, hour) == SlotFromDateHour(row[m].window, day, hour)

\* find_available_slots: each machine's free slots of the day that have not
\* begun, of three days' bookings.  (It shows the first forty.)
FindAvailableSlots(s, k, day) ==
  { found \in UNION {{m} \X DayListing({"free"}, table, row[m], m, s, day, clock) :
                      m \in {n \in Installed : Kind[n] = k}} : found[2].start > clock }

-----------------------------------------------------------------------------
(* Requests *)

ViewsInit ==
  /\ clock = DayLen
  /\ row \in [Machines -> [window : Windows, offline : {FALSE}]]
  /\ table = [b \in BookingIds |-> NoBooking]

\* _create_one for a slot that was resolved.
Insert(b, s, m, slot) ==
  /\ table[b].status = "free"
  /\ slot # Nothing
  /\ Claimable(s, m, slot, Nothing)
  /\ table' = [table EXCEPT ![b] =
       [ status |-> "live", student |-> s, machine |-> m, start |-> slot.start,
         end |-> slot.end, counts |-> CountsTowardQuota(m) ]]
  /\ UNCHANGED <<clock, row>>

Instants == clock..(LastInstant + (AdvanceDays + 1) * DayLen)

BookAt(b, s, m, t) == Insert(b, s, m, ResolveSlot(row[m].window, t))

BookHour(b, s, m, day, hour) == Insert(b, s, m, AskedFor(m, day, hour))

CanMove(b, m, slot) ==
  /\ table[b].status = "live" /\ table[b].start > clock
  /\ Kind[m] = Kind[table[b].machine]
  /\ slot # Nothing
  /\ Claimable(table[b].student, m, slot, b)

MoveTo(b, m, t) ==
  LET slot == ResolveSlot(row[m].window, t) IN
  /\ CanMove(b, m, slot)
  /\ table' = [table EXCEPT ![b].machine = m, ![b].start = slot.start, ![b].end = slot.end,
                            ![b].counts = CountsTowardQuota(m)]
  /\ UNCHANGED <<clock, row>>

CancelOwn(b) ==
  /\ table[b].status = "live" /\ table[b].start > clock
  /\ table' = [table EXCEPT ![b].status = "cancelled",
                            ![b].counts = @ /\ IsLateCancel(table[b].start, clock)]
  /\ UNCHANGED <<clock, row>>

\* The institute cancels those of the bookings that have not started.
ForcedOff(ids) ==
  [b \in BookingIds |->
     IF b \in ids /\ table[b].status = "live" /\ table[b].start > clock
     THEN [table[b] EXCEPT !.status = "cancelled", !.counts = FALSE] ELSE table[b]]

\* MachineViewSet.hours: the impact is found with the machine as it was, then
\* the hours are saved, and what was listed is cancelled only if asked for.
ChangeHours(m, w, cancelOutside) ==
  /\ row' = [row EXCEPT ![m].window = w]
  /\ table' = IF cancelOutside THEN ForcedOff(HoursImpact(m, w)) ELSE table
  /\ UNCHANGED clock

Toggle(m) ==
  /\ row' = [row EXCEPT ![m].offline = ~@]
  /\ table' = IF row[m].offline THEN table ELSE ForcedOff(LiveRows(table, m))
  /\ UNCHANGED clock

TimePasses ==
  /\ clock < LastInstant
  /\ clock' = clock + 1
  /\ UNCHANGED <<row, table>>

ViewsNext ==
  \/ \E b \in BookingIds, s \in Students, m \in Installed :
       \/ \E t \in Instants : BookAt(b, s, m, t)
       \/ \E d \in Today..(Today + AdvanceDays), h \in 0..(DayLen \div HourLen - 1) :
            BookHour(b, s, m, d, h)
  \/ \E b \in BookingIds : CancelOwn(b) \/ \E m \in Installed, t \in Instants : MoveTo(b, m, t)
  \/ \E m \in Installed :
       Toggle(m) \/ \E w \in Windows, cancel \in BOOLEAN : ChangeHours(m, w, cancel)
  \/ TimePasses

ViewsSpec == ViewsInit /\ [][ViewsNext]_viewVars

-----------------------------------------------------------------------------
(* Properties *)

ViewsTypeOK ==
  /\ clock \in DayLen..LastInstant
  /\ Installed \subseteq Machines
  /\ row \in [Installed -> [window : Windows, offline : BOOLEAN]]
  /\ table \in BookingTable

OnGrid(b) ==
  ResolveSlot(row[table[b].machine].window, table[b].start)
    = [start |-> table[b].start, end |-> table[b].end]

AllOnGrid(m) == \A b \in LiveRows(table, m) : OnGrid(b)

Bookable(s, m, slot) ==
  /\ ResolveSlot(row[m].window, slot.start) = slot
  /\ Claimable(s, m, slot, Nothing)

\* Listings and requests agree: a slot listed as free, on a day that may be
\* booked yet, is found again by its start and a request for it that comes at
\* once succeeds; and the next free slot that a hostel's availability names, from
\* bookings loaded for two days only, is one of some machine of that kind.  It
\* holds overnight, for bookings off the grid and at the limit of the quota.
FreeSlotsCanBeBooked ==
  \A s \in Students :
    /\ \A m \in Installed, d \in Today..(Today + AdvanceDays) :
         \A slot \in DayListing({"free"}, table, row[m], m, s, d, clock) :
           Day(slot.start) =< Today + AdvanceDays => Bookable(s, m, slot)
    /\ \A k \in Kinds :
         LET next == AvailabilityNow(k, s).nextFree IN
         (next # Nothing /\ Day(next) =< Today + AdvanceDays) =>
           \E m \in Installed :
             Kind[m] = k /\ \E slot \in OperatingSlots(row[m].window, Today) :
               slot.start = next /\ Bookable(s, m, slot)

\* What move_options offers can be moved to, where windows end by midnight.
\* After midnight of the last day it offers slots without their bookings.
MoveOptionsHonoured ==
  \A b \in BookingIds : \A o \in MoveOptions(b) :
    ~CrossesMidnight(row[o[1]].window) => CanMove(b, o[1], o[2])

\* A card that says "free until" is true for a machine whose bookings are all
\* on its grid and whose window ends by midnight: nobody holds it before then.
FreeUntilIsFree ==
  \A m \in Installed, s \in Students \cup {Nothing} :
    (~CrossesMidnight(row[m].window) /\ AllOnGrid(m) /\ FreeUntil(m, s) # Nothing) =>
      LoadOverlapping(table, m, clock, FreeUntil(m, s)) = {}

\* "A find_available_slots result can be fed straight into book_slot"
\* (mcp_server/tools.py), by machine and start hour: it is for windows that end
\* by midnight with slots of an hour at least, however the slots lie on the
\* hours.  In general a date and an hour name a slot of that hour of that date,
\* unless the window runs past midnight off the full hour.
FoundSlotsAreBooked ==
  \A m \in Installed, d \in Today..(Today + AdvanceDays), h \in 0..(DayLen \div HourLen - 1) :
    LET w == row[m].window
        slot == AskedFor(m, d, h)
    IN /\ (~CrossesMidnight(w) \/ (w.from % HourLen = 0 /\ w.length % HourLen = 0))
            /\ slot # Nothing
          => Day(slot.start) = d /\ HourOf(slot.start) = h
       /\ ~CrossesMidnight(w) /\ w.length >= HourLen =>
            \A s \in Students :
              \A found \in FindAvailableSlots(s, Kind[m], d) :
                found[1] = m /\ HourOf(found[2].start) = h => slot = found[2]

\* A change of hours that cancels what it strands, and keeps the slot length,
\* leaves no later booking off the new grid; and if the new window ends by
\* midnight it cancels no other within the horizon of the preview.  (Nothing
\* keeps the advance window below that horizon: bookings beyond it are cancelled
\* whatever grid they are on.)
HoursCancelTheStranded ==
  [][\A m \in Installed, w \in Windows :
       (ChangeHours(m, w, TRUE) /\ w.length = row[m].window.length) =>
         \A b \in LiveRows(table, m) :
           table[b].start > clock =>
             LET stays == ResolveSlot(w, table[b].start) # Nothing IN
             /\ table'[b].status = "live" => stays
             /\ stays /\ ~CrossesMidnight(w) /\ Day(table[b].start) < Today + Horizon
                  => table'[b].status = "live"]_viewVars

\* The committee's grid shows every booking, from its first hour on, of a machine
\* in service whose window ends by midnight, whose slots take an hour at least and
\* whose bookings are on them: none hides behind another.
GridShowsBookings ==
  \A b \in BookingIds :
    LET m == table[b].machine IN
    (table[b].status = "live" /\ ~row[m].offline /\ AllOnGrid(m)
       /\ ~CrossesMidnight(row[m].window) /\ row[m].window.length >= HourLen
       /\ HourOf(table[b].start) \in GridHours)
    => Cell(m, Day(table[b].start), HourOf(table[b].start)) = {b}

\* The profile never shows more dryer use than the rules charge; it may show
\* less, for a late cancellation is charged and not shown.
DriesShownAreCharged ==
  DryerCap => \A s \in Students :
    DriesShown(s) =< QuotaUsed(table, s, "dryer", QuotaWeek(clock), Nothing)
=============================================================================
