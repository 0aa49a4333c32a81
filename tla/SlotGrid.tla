------------------------------ MODULE SlotGrid ------------------------------
(***************************************************************************)
(* Slots are not stored: laundry/services/slots.py derives them from a     *)
(* machine's operating window and slot length, and the listings, the       *)
(* dashboards and the previews of the administration overlay them with     *)
(* bookings.  All of it is pure, so the module has operators only: over a  *)
(* window w, a machine row and a booking table as FairnessRules has them.  *)
(*                                                                         *)
(* A day has DayLen units, an hour HourLen of them.  The one time zone of  *)
(* the deployment has no daylight saving, so local time is the time.       *)
(***************************************************************************)
EXTENDS FairnessRules, FiniteSetsExt

CONSTANTS
  HourLen,     \* time units in an hour
  SafetyCap,   \* the most slots a day may have (512 in the code)
  Horizon,     \* days ahead the preview of an hours change looks, 30 + 2
  Nothing      \* NULL

ASSUME GridAssumption ==
  /\ HourLen \in Nat \ {0} /\ SafetyCap \in Nat /\ Horizon \in Nat
  /\ DayLen % HourLen = 0
  /\ Nothing \notin [start : Int, end : Int]

-----------------------------------------------------------------------------
(* Windows and slots *)

\* operating_window_start, operating_window_end and slot_length_minutes.  The
\* serializers keep the length above zero.
Window == [from : 0..(DayLen - 1), to : 0..(DayLen - 1), length : 1..DayLen]

CrossesMidnight(w) == w.to < w.from \/ (w.to = w.from /\ w.from # 0)

Midnight(day) == day * DayLen

HourOf(t) == (t % DayLen) \div HourLen

\* The end of the window that opens on a day: equal times mean 24 hours, and
\* an end before the start is on the next day.
Closing(w, day) ==
  Midnight(day) + (IF w.from < w.to THEN w.to
                   ELSE IF w.from = w.to THEN w.from + DayLen ELSE w.to + DayLen)

\* iter_operating_slots
OperatingSlots(w, day) ==
  LET nth(k) == [ start |-> Midnight(day) + w.from + k * w.length,
                  end   |-> Midnight(day) + w.from + (k + 1) * w.length ]
  IN { slot \in {nth(k) : k \in 0..(SafetyCap - 1)} : slot.end =< Closing(w, day) }

First(slots) == CHOOSE s \in slots : \A r \in slots : s.start =< r.start

FirstOrNothing(slots) == IF slots = {} THEN Nothing ELSE First(slots)

\* resolve_slot: the slot that starts at t, on the grid of the day before, of
\* the day or of the day after.
ResolveSlot(w, t) ==
  FirstOrNothing(
    {slot \in UNION {OperatingSlots(w, d) : d \in (Day(t) - 1)..(Day(t) + 1)} :
       slot.start = t})

\* Fault: the first slot of the day not before the hour.
SlotFromDateHourLater(w, day, hour) ==
  FirstOrNothing({slot \in OperatingSlots(w, day) : HourOf(slot.start) >= hour})

\* slot_from_date_hour: a slot at the full hour, or else the first one of that
\* day's grid that starts within such an hour.
SlotFromDateHour(w, day, hour) ==
  LET exact == ResolveSlot(w, Midnight(day) + hour * HourLen)
  IN IF exact # Nothing THEN exact
     ELSE FirstOrNothing({slot \in OperatingSlots(w, day) : HourOf(slot.start) = hour})

-----------------------------------------------------------------------------
(* Bookings over slots *)

LiveRows(table, m) ==
  {b \in DOMAIN table : table[b].status = "live" /\ table[b].machine = m}

Meets(row, from, to) == row.start < to /\ row.end > from

\* load_overlapping_bookings: the live bookings of a machine in a range.
LoadOverlapping(table, m, from, to) ==
  {b \in LiveRows(table, m) : Meets(table[b], from, to)}

\* _booking_covering: one of the bookings loaded that meets the slot.
Covering(table, loaded, slot) ==
  {b \in loaded : Meets(table[b], slot.start, slot.end)}

\* upcoming_bookings_for_machine: not finished yet.
UpcomingOf(table, m, at) == {b \in LiveRows(table, m) : table[b].end > at}

\* Only a quota colours a slot of a listing; the advance window and the start
\* of the slot do not (derive_slots looks at two rules of check_booking_rules).
QuotaBlocks(table, s, m, start, at) ==
  /\ s # Nothing
  /\ start > at
  /\ Day(start) =< Day(at) + AdvanceDays
  /\ ~RulesAllow(table, s, m, start, at, Nothing)

\* Fault: a slot is taken only by a booking that starts with it.
SlotStateSameStart(table, loaded, row, m, s, slot, at) ==
  IF at >= slot.end THEN "past"
  ELSE IF slot.start =< at THEN "running"
  ELSE IF row.offline THEN "offline"
  ELSE IF \E b \in loaded : table[b].start = slot.start THEN "taken"
  ELSE IF QuotaBlocks(table, s, m, slot.start, at) THEN "blocked" ELSE "free"

\* derive_slots: the state of one slot for student s (Nothing for a guest).  Of
\* several bookings that meet a slot the code looks at one, which makes it mine or
\* taken; nothing here depends on which.
SlotState(table, loaded, row, m, s, slot, at) ==
  LET covering == Covering(table, loaded, slot)
  IN IF at >= slot.end THEN "past"
     ELSE IF slot.start =< at THEN "running"
     ELSE IF row.offline THEN "offline"
     ELSE IF covering # {}
       THEN IF s # Nothing /\ \E b \in covering : table[b].student = s THEN "mine" ELSE "taken"
     ELSE IF QuotaBlocks(table, s, m, slot.start, at) THEN "blocked" ELSE "free"

SlotsIn(states, table, loaded, row, m, s, day, at) ==
  {slot \in OperatingSlots(row.window, day) :
     SlotState(table, loaded, row, m, s, slot, at) \in states}

\* MachineSlotListView: a day loads the bookings of the day before and after.
DayListing(states, table, row, m, s, day, at) ==
  SlotsIn(states, table,
          LoadOverlapping(table, m, Midnight(day - 1), Midnight(day + 2)),
          row, m, s, day, at)
=============================================================================
