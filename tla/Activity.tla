------------------------------ MODULE Activity ------------------------------
(***************************************************************************)
(* Two lists of the administrators' first page: recent_activity, which     *)
(* merges bookings, cancellations and audit entries into one timeline, and *)
(* needs_attention, which tells since when a machine is offline from the   *)
(* time its row was last saved (laundry/services/admin_ops.py).            *)
(*                                                                         *)
(* Every event takes one tick, so no two times are equal.  An audit entry  *)
(* is written after what it records and its failure is swallowed (record). *)
(* Open tickets and hostels are left out.                                  *)
(***************************************************************************)
EXTENDS Integers, FiniteSets

CONSTANTS
  Washer,       \* the machines
  FeedLimit,    \* items of the feed, 30 by default
  StaleOffline, \* STALE_OFFLINE_DAYS
  MaxEvents     \* bound on what happens

ASSUME ActivityAssumption ==
  FeedLimit \in Nat \ {0} /\ StaleOffline \in Nat \ {0} /\ MaxEvents \in Nat

VARIABLES
  tick,     \* the time
  made,     \* Booking: created_at -> cancelled_at, 0 while it stands
  logged,   \* AdminAuditLog.created_at
  gear,     \* Machine: is_offline and updated_at
  downFrom  \* history: when the machine last went offline

activityVars == <<tick, made, logged, gear, downFrom>>

Happens == tick < MaxEvents /\ tick' = tick + 1

\* created_at is now; cancelled_at is not set.
BookingMade ==
  /\ Happens
  /\ made' = [t \in DOMAIN made \cup {tick'} |-> IF t = tick' THEN 0 ELSE made[t]]
  /\ UNCHANGED <<logged, gear, downFrom>>

BookingCancelled(t) ==
  /\ Happens
  /\ t \in DOMAIN made /\ made[t] = 0
  /\ made' = [made EXCEPT ![t] = tick']
  /\ UNCHANGED <<logged, gear, downFrom>>

\* record: written, or the failure is logged and swallowed.
Recorded == logged' \in {logged, logged \cup {tick'}}

\* Fault: update_fields forgets updated_at.
SetOfflineUnstamped(m, off) ==
  /\ Happens
  /\ gear' = [gear EXCEPT ![m].offline = off]
  /\ downFrom' = IF off /\ ~gear[m].offline THEN [downFrom EXCEPT ![m] = tick'] ELSE downFrom
  /\ Recorded
  /\ UNCHANGED made

\* MachineViewSet.offline and .online, also when the machine is so already.
SetOffline(m, off) ==
  /\ Happens
  /\ gear' = [gear EXCEPT ![m] = [offline |-> off, saved |-> tick']]
  /\ downFrom' = IF off /\ ~gear[m].offline THEN [downFrom EXCEPT ![m] = tick'] ELSE downFrom
  /\ Recorded
  /\ UNCHANGED made

\* Any other save of the machine: hours, a name, a hostel.
EditMachine(m) ==
  /\ Happens
  /\ gear' = [gear EXCEPT ![m].saved = tick']
  /\ Recorded
  /\ UNCHANGED <<made, downFrom>>

TimeGoesBy == Happens /\ UNCHANGED <<made, logged, gear, downFrom>>

ActivityInit ==
  /\ tick = 0
  /\ made = [t \in {} |-> 0]
  /\ logged = {}
  /\ gear = [m \in Washer |-> [offline |-> FALSE, saved |-> 0]]
  /\ downFrom = [m \in Washer |-> 0]

ActivityNext ==
  \/ BookingMade
  \/ \E t \in 1..MaxEvents : BookingCancelled(t)
  \/ \E m \in Washer : EditMachine(m) \/ \E off \in BOOLEAN : SetOffline(m, off)
  \/ TimeGoesBy

ActivitySpec == ActivityInit /\ [][ActivityNext]_activityVars

-----------------------------------------------------------------------------
(* The lists *)

NewestOf(times, n) == {t \in times : Cardinality({u \in times : u > t}) < n}

CancellationsOf(bookings) == {made[t] : t \in {b \in bookings : made[b] # 0}}

\* Fault: the places are shared out between the sources first.
FeedShared(limit) ==
  LET bookings == NewestOf(DOMAIN made, (limit + 1) \div 2)
  IN NewestOf(bookings \cup CancellationsOf(bookings)
                \cup NewestOf(logged, limit \div 2), limit)

\* recent_activity: the newest bookings with their cancellations, and the
\* newest audit entries; of these the newest.
Feed(limit) ==
  LET bookings == NewestOf(DOMAIN made, limit)
  IN NewestOf(bookings \cup CancellationsOf(bookings) \cup NewestOf(logged, limit), limit)

\* needs_attention: "has been offline since" updated_at, once that is old.
LongOffline(m) == gear[m].offline /\ gear[m].saved =< tick - StaleOffline

-----------------------------------------------------------------------------
(* Properties *)

ActivityTypeOK ==
  /\ tick \in 0..MaxEvents
  /\ DOMAIN made \subseteq 1..tick
  /\ \A t \in DOMAIN made : made[t] = 0 \/ made[t] \in (t + 1)..tick
  /\ logged \subseteq 1..tick
  /\ gear \in [Washer -> [offline : BOOLEAN, saved : 0..tick]]
  /\ downFrom \in [Washer -> 0..tick]

\* A booking or an administrator's action is missing from the feed only behind
\* a full list of newer items.  (A cancellation may be missing otherwise: those
\* of bookings older than the newest ones are not looked for.)
FeedShowsTheNewest ==
  \A n \in 1..FeedLimit : \A t \in (DOMAIN made \cup logged) \ Feed(n) :
    Cardinality(Feed(n)) = n /\ \A u \in Feed(n) : u > t

\* A machine reported offline since a date has been offline ever since: the
\* date is that of the last save, and going offline is one.  (It may have been
\* offline for longer: every other save moves the date.)
OfflineSinceIsTrue ==
  \A m \in Washer : LongOffline(m) => downFrom[m] =< gear[m].saved
=============================================================================
