---------------------------- MODULE FairnessRules ----------------------------
(***************************************************************************)
(* The fairness rules of one institute (laundry/services/rules.py) as pure *)
(* operators over a booking table.  Time is a natural number; a day and a  *)
(* week are DayLen and WeekLen units long.  The rules themselves are       *)
(* constants: an administrator who edits them is not modelled here.        *)
(***************************************************************************)
EXTENDS Integers, FiniteSets

CONSTANTS
  Kind,         \* the kind of each machine, "washer" or "dryer"
  DryerCap,     \* InstituteRule.dryer_cap_enabled
  QuotaLimit,   \* InstituteRule.quota_limit
  AdvanceDays,  \* InstituteRule.advance_window_days
  Cutoff,       \* InstituteRule.cancellation_cutoff_hours, in time units
  DayLen,       \* time units in a day
  WeekLen       \* time units in a quota week

ASSUME RulesAssumption ==
  /\ DryerCap \in BOOLEAN
  /\ QuotaLimit \in Nat /\ AdvanceDays \in Nat /\ Cutoff \in Nat
  /\ DayLen \in Nat \ {0} /\ WeekLen \in Nat \ {0}

Kinds == {"washer", "dryer"}

Day(t) == t \div DayLen

\* quota_week_bounds: the Monday-to-Monday week an instant falls in.
QuotaWeek(t) == t \div WeekLen

\* Washers always count; a dryer counts against its own cap when there is one.
CountsTowardQuota(m) == Kind[m] = "washer" \/ DryerCap

\* _quota_counting_starts and _starts_in_week: the rows of student s that
\* consume the quota of kind k in a week.  A cancelled row consumes it too as
\* long as its flag is set; `exclude` is the booking being moved, if any.
QuotaRows(table, s, k, week, exclude) ==
  { b \in DOMAIN table \ {exclude} :
      /\ table[b].status # "free"
      /\ table[b].student = s
      /\ table[b].counts
      /\ Kind[table[b].machine] = k
      /\ QuotaWeek(table[b].start) = week }

QuotaUsed(table, s, k, week, exclude) ==
  Cardinality(QuotaRows(table, s, k, week, exclude))

\* Fault: the quota of the present week instead of the week of the slot.
RulesAllowThisWeek(table, s, m, start, at, exclude) ==
  /\ start > at
  /\ Day(start) =< Day(at) + AdvanceDays
  /\ CountsTowardQuota(m) =>
       QuotaUsed(table, s, Kind[m], QuotaWeek(at), exclude) < QuotaLimit

\* check_booking_rules: past slot, advance window, then the weekly quota of the
\* machine's kind, which a dryer without a cap skips.
RulesAllow(table, s, m, start, at, exclude) ==
  /\ start > at
  /\ Day(start) =< Day(at) + AdvanceDays
  /\ CountsTowardQuota(m) =>
       QuotaUsed(table, s, Kind[m], QuotaWeek(start), exclude) < QuotaLimit

IsLateCancel(start, at) == start - at < Cutoff
=============================================================================
