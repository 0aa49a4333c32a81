----------------------------- MODULE ViewProofs -----------------------------
(***************************************************************************)
(* Proofs about what is shown, for any windows, bookings, students and     *)
(* kinds of machines, any length of the feed and any number of bookings.   *)
(*                                                                         *)
(* SlotViews: a slot is found again by its start, and slots that overlap   *)
(* are the same; from this, and from the invariant that live bookings of a *)
(* machine do not overlap, follows what each view promises.                *)
(*                                                                         *)
(* Activity: the timeline of the first page leaves out nothing newer than  *)
(* what it shows, and a machine reported offline since a date has been so. *)
(*                                                                         *)
(* Analytics: rounding moves a count by half a point at most, so that what *)
(* the shares lack to 100 is small.                                        *)
(***************************************************************************)
EXTENDS SlotViews, Activity, Analytics, FiniteSetTheorems, WellFoundedInduction, TLAPS

-----------------------------------------------------------------------------
(* Least and largest *)

LEMMA Least ==
  ASSUME NEW D \in SUBSET Nat, NEW n \in D
  PROVE  \E d \in D : \A e \in D : d =< e
<1>1. PICK d \in D : \A e \in D : <<e, d>> \notin OpToRel(<, Nat)
  BY WFMin, NatLessThanWellFounded
<1>2. \A e \in D : ~(e < d)
  BY <1>1, Zenon DEF OpToRel
<1>3. \A e \in D : e \in Nat /\ d \in Nat
  OBVIOUS
<1> QED
  BY <1>2, <1>3

\* A bounded set of naturals that is not empty has a largest element.
LEMMA Largest ==
  ASSUME NEW B \in Nat, NEW T, \A u \in T : u \in 0..B, NEW t \in T
  PROVE  \E x \in T : \A y \in T : y =< x
<1> DEFINE D == {d \in Nat : B - d \in T}
<1>1. B - t \in D
  OBVIOUS
<1>2. PICK d \in D : \A e \in D : d =< e
  BY <1>1, Least
<1>3. \A y \in T : B - y \in D
  OBVIOUS
<1> QED
  BY <1>2, <1>3

LEMMA Smaller ==
  ASSUME NEW S, IsFiniteSet(S), NEW T, T \subseteq S
  PROVE  /\ IsFiniteSet(T)
         /\ Cardinality(S) \in Nat /\ Cardinality(T) \in Nat
         /\ Cardinality(T) =< Cardinality(S)
         /\ Cardinality(S) = Cardinality(T) => S = T
<1>1. T \in SUBSET S
  OBVIOUS
<1> QED
  BY <1>1, FS_Subset, FS_CardinalityType

-----------------------------------------------------------------------------
(* The newest of a set of times *)

\* What is later than a time.
Later(T, x) == {u \in T : u > x}

Rank(T, x) == Cardinality(Later(T, x))

LEMMA LaterMembers ==
  ASSUME NEW T, NEW x
  PROVE  \A u : u \in Later(T, x) <=> u \in T /\ u > x
BY DEF Later

LEMMA LaterIsFinite ==
  ASSUME NEW B \in Nat, NEW T, \A u \in T : u \in 0..B, NEW x
  PROVE  /\ IsFiniteSet(Later(T, x)) /\ Rank(T, x) \in Nat
         /\ Later(T, x) \subseteq T /\ IsFiniteSet(T) /\ Cardinality(T) \in Nat
<1>1. IsFiniteSet(0..B)
  BY FS_Interval
<1>2. Later(T, x) \subseteq 0..B /\ T \subseteq 0..B
  BY DEF Later, Rank
<1> QED
  BY <1>1, <1>2, Smaller DEF Later, Rank

\* The earlier of two times has more that is later.
LEMMA LaterFalls ==
  ASSUME NEW B \in Nat, NEW T, \A u \in T : u \in 0..B, NEW x \in T, NEW y \in Nat, y < x
  PROVE  Rank(T, x) < Rank(T, y)
<1>0. x \in Nat /\ \A u \in T : u \in Nat
  OBVIOUS
<1>a. (\A u \in T : u > x => u > y) /\ x > y /\ ~(x > x)
  BY <1>0
<1>1. Later(T, x) \subseteq Later(T, y) /\ x \in Later(T, y) /\ x \notin Later(T, x)
  BY <1>a DEF Later
<1>2. /\ IsFiniteSet(Later(T, x)) /\ Rank(T, x) \in Nat
      /\ IsFiniteSet(Later(T, y)) /\ Rank(T, y) \in Nat
  BY LaterIsFinite
<1> QED
  <2>1. Rank(T, x) =< Rank(T, y)
    BY <1>1, <1>2, Smaller DEF Rank
  <2>2. Rank(T, x) # Rank(T, y)
    BY <1>1, <1>2, Smaller DEF Rank
  <2> QED
    BY <2>1, <2>2, <1>2

\* If at least n times are later than some time t, then the n newest are n
\* in number and all later than t.
LEMMA NewestAreMany ==
  ASSUME NEW B \in Nat, NEW T, \A u \in T : u \in 0..B, NEW n \in Nat, NEW t \in Nat,
         Rank(T, t) >= n
  PROVE  Cardinality(NewestOf(T, n)) = n /\ \A u \in NewestOf(T, n) : u > t
<1> DEFINE N == NewestOf(T, n)
           rank == [x \in N |-> Rank(T, x)]
<1>1. N = {x \in T : Rank(T, x) < n} /\ N \subseteq 0..B
  BY DEF NewestOf, Later, Rank
<1>2. \A x \in T : x \in Nat /\ Rank(T, x) \in Nat
  BY LaterIsFinite
<1> HIDE DEF N
<1>0. Rank(T, t) \in Nat
  BY LaterIsFinite
<1>3. \A u \in N : u > t
  <2> SUFFICES ASSUME NEW u \in N, u =< t PROVE FALSE
    BY <1>1
  <2>1. u \in T /\ u \in Nat /\ Rank(T, u) < n
    BY <1>1
  <2>2. CASE u = t
    BY <2>1, <2>2, <1>2
  <2>3. CASE u < t
    <3>0. \A v \in T : v > t => v > u
      BY <2>3, <2>1, <1>2
    <3>1. Later(T, t) \subseteq Later(T, u)
      BY <3>0 DEF Later
    <3>2. Rank(T, t) =< Rank(T, u)
      BY <3>1, LaterIsFinite, Smaller DEF Rank
    <3> QED
      BY <3>2, <2>1, <1>2, <1>0
  <2> QED
    BY <2>2, <2>3, <2>1
<1>4. rank \in [N -> 0..(n - 1)]
  BY <1>1, <1>2
<1>5. \A x, y \in N : rank[x] = rank[y] => x = y
  <2> SUFFICES ASSUME NEW x \in N, NEW y \in N, rank[x] = rank[y], y < x PROVE FALSE
    BY <1>1
  <2>1. Rank(T, x) < Rank(T, y)
    BY <1>1, <1>2, LaterFalls
  <2> QED
    BY <2>1, <1>1, <1>2
<1>6. \A k \in 0..(n - 1) : \E x \in N : rank[x] = k
  <2> SUFFICES ASSUME NEW j \in 0..(n - 1), \A x \in N : rank[x] # j PROVE FALSE
    OBVIOUS
  <2> DEFINE Missed == {k \in 0..(n - 1) : \A x \in N : rank[x] # k}
  <2>1. PICK k \in Missed : \A i \in Missed : k =< i
    <3>1. j \in Missed
      OBVIOUS
    <3>2. Missed \in SUBSET Nat
      OBVIOUS
    <3> QED
      BY <3>1, <3>2, Least
  <2> HIDE DEF rank
  <2>2. k \in 0..(n - 1) /\ \A x \in N : Rank(T, x) # k
    BY <2>1 DEF rank
  <2>3. Later(T, t) # {}
    BY <2>2, <1>0, FS_EmptySet, LaterIsFinite DEF Rank
  <2>4. CASE k = 0
    <3>1. PICK x \in T : \A y \in T : y =< x
      BY <2>3, Largest, LaterMembers
    <3>2. Later(T, x) = {}
      BY <3>1, <1>2 DEF Later
    <3>3. Rank(T, x) = 0
      BY <3>2, FS_EmptySet DEF Rank
    <3> QED
      BY <3>3, <2>4, <2>2, <1>1
  <2>5. CASE k # 0
    <3>1. k - 1 \in 0..(n - 1) /\ k - 1 \notin Missed
      BY <2>5, <2>1
    <3>2. PICK x \in N : Rank(T, x) = k - 1
      BY <3>1 DEF rank
    <3>0. IsFiniteSet(Later(T, x))
      BY LaterIsFinite
    <3> DEFINE Before == {v \in T : v < x}
    <3>3. Before # {}
      <4> SUFFICES ASSUME Before = {} PROVE FALSE
        OBVIOUS
      <4>0. \A u \in T : u > x \/ u = x
        BY <1>1, <1>2
      <4>1. Later(T, t) \subseteq Later(T, x) \cup {x}
        BY <4>0 DEF Later
      <4>2. x \notin Later(T, x)
        BY <1>1, <1>2 DEF Later
      <4>3. Cardinality(Later(T, x) \cup {x}) = k /\ IsFiniteSet(Later(T, x) \cup {x})
        <5>1. Cardinality(Later(T, x)) = k - 1
          BY <3>2 DEF Rank
        <5>2. /\ IsFiniteSet(Later(T, x) \cup {x})
              /\ Cardinality(Later(T, x) \cup {x}) = Cardinality(Later(T, x)) + 1
          BY <4>2, <3>0, FS_AddElement
        <5> QED
          BY <5>1, <5>2, <2>2
      <4>4. Rank(T, t) =< k
        BY <4>1, <4>3, Smaller DEF Rank
      <4> QED
        BY <4>4, <2>2, <1>0
    <3>4. PICK y \in Before : \A v \in Before : v =< y
      BY <3>3, Largest
    <3>5. y \in T /\ y < x /\ y \in Nat
      BY <3>4
    <3>6. Later(T, y) = Later(T, x) \cup {x}
      <4>1. \A u \in T : u > y <=> (u > x \/ u = x)
        BY <3>4, <3>5, <1>1, <1>2
      <4>2. x \in T
        BY <1>1
      <4> QED
        BY <4>1, <4>2 DEF Later
    <3>7. x \notin Later(T, x)
      BY <1>1, <1>2 DEF Later
    <3>8. Rank(T, y) = k
      <4>1. Cardinality(Later(T, x) \cup {x}) = k
        <5>1. Cardinality(Later(T, x) \cup {x}) = Cardinality(Later(T, x)) + 1
          BY <3>7, <3>0, FS_AddElement
        <5> QED
          BY <5>1, <3>2, <2>2 DEF Rank
      <4> QED
        BY <4>1, <3>6 DEF Rank
    <3> QED
      BY <3>8, <3>5, <2>2, <1>1
  <2> QED
    BY <2>4, <2>5
<1>7. rank \in Bijection(N, 0..(n - 1))
  BY <1>4, <1>5, <1>6 DEF Bijection, Injection, Surjection, IsInjective
<1>8. IsFiniteSet(N)
  <2>1. IsFiniteSet(0..B) /\ N \subseteq 0..B
    BY <1>1, FS_Interval
  <2> QED
    BY <2>1, Smaller
<1>9. Cardinality(0..(n - 1)) = Cardinality(N)
  BY <1>7, <1>8, FS_Bijection DEF ExistsBijection
<1>10. Cardinality(0..(n - 1)) = n
  BY FS_Interval
<1> QED
  BY <1>9, <1>10, <1>3 DEF N

\* What is not among the n newest has n that are later.
LEMMA LeftOut ==
  ASSUME NEW B \in Nat, NEW T, \A u \in T : u \in 0..B, NEW n \in Nat,
         NEW t \in T, t \notin NewestOf(T, n)
  PROVE  Rank(T, t) >= n /\ t \in Nat
<1>1. Rank(T, t) \in Nat /\ t \in Nat
  BY LaterIsFinite
<1>2. ~(Rank(T, t) < n)
  BY DEF NewestOf, Rank, Later
<1> QED
  BY <1>1, <1>2

-----------------------------------------------------------------------------
(* The timeline and the machines *)

\* The date of a machine's last save is not before it went offline.
SavedSince == \A m \in Washer : downFrom[m] =< gear[m].saved

ActivityInv == ActivityTypeOK /\ SavedSince

LEMMA ActivityBegins == ActivityInit => ActivityInv
BY ActivityAssumption DEF ActivityInit, ActivityInv, ActivityTypeOK, SavedSince

LEMMA RowsStay ==
  ASSUME ActivityInv, Happens, UNCHANGED <<gear, downFrom>>
  PROVE  /\ gear' \in [Washer -> [offline : BOOLEAN, saved : 0..tick']]
         /\ downFrom' \in [Washer -> 0..tick'] /\ SavedSince'
BY DEF ActivityInv, ActivityTypeOK, SavedSince, Happens

LEMMA ActivityStep == ActivityInv /\ [ActivityNext]_activityVars => ActivityInv'
<1> SUFFICES ASSUME ActivityInv, [ActivityNext]_activityVars PROVE ActivityInv'
  OBVIOUS
<1> USE ActivityAssumption
<1>1. CASE BookingMade
  BY <1>1, RowsStay DEF BookingMade, Happens, ActivityInv, ActivityTypeOK
<1>2. ASSUME NEW t \in 1..MaxEvents, BookingCancelled(t) PROVE ActivityInv'
  BY <1>2, RowsStay DEF BookingCancelled, Happens, ActivityInv, ActivityTypeOK
<1>3. ASSUME NEW m \in Washer, EditMachine(m) PROVE ActivityInv'
  BY <1>3 DEF EditMachine, Recorded, Happens, ActivityInv, ActivityTypeOK, SavedSince
<1>4. ASSUME NEW m \in Washer, NEW off \in BOOLEAN, SetOffline(m, off) PROVE ActivityInv'
  BY <1>4 DEF SetOffline, Recorded, Happens, ActivityInv, ActivityTypeOK, SavedSince
<1>5. CASE TimeGoesBy
  BY <1>5, RowsStay DEF TimeGoesBy, Happens, ActivityInv, ActivityTypeOK
<1>6. CASE UNCHANGED activityVars
  BY <1>6 DEF activityVars, ActivityInv, ActivityTypeOK, SavedSince
<1> QED
  BY <1>1, <1>2, <1>3, <1>4, <1>5, <1>6 DEF ActivityNext

\* Every event's time, every machine's row.
THEOREM ActivityInvariance == ActivitySpec => []ActivityInv
BY ActivityBegins, ActivityStep, PTL DEF ActivitySpec

\* Every variable of the lists of the first page keeps its type.
THEOREM ActivityTypes == ActivitySpec => []ActivityTypeOK
<1>1. ActivityInv => ActivityTypeOK
  BY DEF ActivityInv
<1> QED
  BY <1>1, ActivityInvariance, PTL

\* The date that list_attention gives for a machine, that of its last save, is
\* never before the machine went offline.
THEOREM OfflineSinceThen == ActivitySpec => []OfflineSinceIsTrue
<1>1. ActivityInv => OfflineSinceIsTrue
  BY DEF ActivityInv, SavedSince, OfflineSinceIsTrue
<1> QED
  BY <1>1, ActivityInvariance, PTL

\* The items that the feed is chosen from.
Gathered(n) ==
  NewestOf(DOMAIN made, n) \cup CancellationsOf(NewestOf(DOMAIN made, n)) \cup NewestOf(logged, n)

LEMMA GatheredTimes ==
  ASSUME ActivityTypeOK, NEW n
  PROVE  /\ tick \in Nat
         /\ \A t \in Gathered(n) \cup DOMAIN made \cup logged : t \in 0..tick
<1>1. tick \in Nat
  BY ActivityAssumption DEF ActivityTypeOK
<1>2. \A t \in DOMAIN made \cup logged : t \in 0..tick
  <2>1. DOMAIN made \subseteq 1..tick /\ logged \subseteq 1..tick
    BY DEF ActivityTypeOK
  <2>2. \A t \in 1..tick : t \in 0..tick
    BY <1>1
  <2> QED
    BY <2>1, <2>2
<1>3. ASSUME NEW t \in CancellationsOf(NewestOf(DOMAIN made, n)) PROVE t \in 0..tick
  <2>1. PICK b \in DOMAIN made : made[b] # 0 /\ t = made[b]
    BY DEF CancellationsOf, NewestOf
  <2>2. made[b] \in (b + 1)..tick /\ b \in 0..tick
    BY <2>1, <1>2 DEF ActivityTypeOK
  <2> QED
    BY <2>1, <2>2, <1>1
<1> QED
  BY <1>1, <1>2, <1>3 DEF Gathered, NewestOf

\* A source is gathered whole as far as its n newest.
LEMMA ManyGathered ==
  ASSUME ActivityTypeOK, NEW n \in Nat, NEW S, S = DOMAIN made \/ S = logged,
         NEW t \in S, t \notin NewestOf(S, n)
  PROVE  Rank(Gathered(n), t) >= n /\ t \in Nat
<1>1. tick \in Nat /\ \A u \in S : u \in 0..tick
  BY GatheredTimes
<1>2. Rank(S, t) >= n /\ t \in Nat
  BY <1>1, LeftOut
<1>3. Cardinality(NewestOf(S, n)) = n /\ \A u \in NewestOf(S, n) : u > t
  BY <1>1, <1>2, NewestAreMany
<1>4. NewestOf(S, n) \subseteq Later(Gathered(n), t)
  BY <1>3 DEF Later, Gathered
<1>5. IsFiniteSet(Later(Gathered(n), t))
  BY GatheredTimes, LaterIsFinite
<1>6. n =< Rank(Gathered(n), t)
  BY <1>3, <1>4, <1>5, Smaller DEF Rank
<1> QED
  BY <1>6, <1>2

LEMMA FeedIsNewest == ActivityTypeOK => FeedShowsTheNewest
<1> SUFFICES ASSUME ActivityTypeOK, NEW n \in 1..FeedLimit,
                    NEW t \in (DOMAIN made \cup logged) \ Feed(n)
             PROVE  Cardinality(Feed(n)) = n /\ \A u \in Feed(n) : u > t
  BY DEF FeedShowsTheNewest
<1>1. n \in Nat /\ Feed(n) = NewestOf(Gathered(n), n)
  BY DEF Feed, Gathered
<1>2. tick \in Nat /\ \A u \in Gathered(n) : u \in 0..tick
  BY GatheredTimes
<1>3. Rank(Gathered(n), t) >= n /\ t \in Nat
  <2>1. CASE t \in Gathered(n)
    BY <2>1, <1>1, <1>2, LeftOut
  <2>2. CASE t \in DOMAIN made /\ t \notin NewestOf(DOMAIN made, n)
    BY <2>2, <1>1, ManyGathered
  <2>3. CASE t \in logged /\ t \notin NewestOf(logged, n)
    BY <2>3, <1>1, ManyGathered
  <2> QED
    BY <2>1, <2>2, <2>3 DEF Gathered
<1> QED
  BY <1>1, <1>2, <1>3, NewestAreMany

\* A booking made or an administrator's action is missing from recent_activity's
\* merge of its sources only behind a full list of newer items, whatever the limit.
\* Nothing is said of cancellations of bookings that are not among the newest.
THEOREM TimelineIsNewest == ActivitySpec => []FeedShowsTheNewest
BY FeedIsNewest, ActivityTypes, PTL

-----------------------------------------------------------------------------
(* Days and hours *)

LEMMA Rules == /\ DayLen \in Nat /\ DayLen > 0 /\ HourLen \in Nat /\ HourLen > 0
               /\ DayLen % HourLen = 0 /\ SafetyCap \in Nat /\ Horizon \in Nat
               /\ AdvanceDays \in Nat /\ LastInstant \in Nat /\ LastInstant >= DayLen
BY RulesAssumption, GridAssumption, ViewsAssumption

LEMMA NextMidnight ==
  ASSUME NEW d \in Int
  PROVE  /\ Midnight(d) \in Int /\ Midnight(d + 1) = Midnight(d) + DayLen
         /\ Midnight(d - 1) = Midnight(d) - DayLen
         /\ Midnight(d + 2) = Midnight(d) + DayLen + DayLen
BY Rules DEF Midnight

LEMMA LaterMidnight ==
  ASSUME NEW d \in Int, NEW e \in Int, d < e
  PROVE  Midnight(d) + DayLen =< Midnight(e)
<1>1. Midnight(e) = Midnight(d) + (e - d) * DayLen
  BY Rules DEF Midnight
<1>2. \A k \in Nat : k >= 1 => k * DayLen >= DayLen
  BY Rules
<1>3. e - d \in Nat /\ e - d >= 1
  OBVIOUS
<1>4. Midnight(d) \in Int /\ (e - d) * DayLen \in Int
  BY Rules DEF Midnight
<1> QED
  BY <1>1, <1>2, <1>3, <1>4, Rules

LEMMA InDay ==
  ASSUME NEW t \in Int
  PROVE  /\ Day(t) \in Int /\ Midnight(Day(t)) \in Int
         /\ Midnight(Day(t)) =< t /\ t < Midnight(Day(t)) + DayLen
BY Rules DEF Midnight, Day

LEMMA DayIs ==
  ASSUME NEW t \in Int, NEW d \in Int, Midnight(d) =< t, t < Midnight(d) + DayLen
  PROVE  Day(t) = d
<1>1. /\ Day(t) \in Int /\ Midnight(Day(t)) =< t /\ t < Midnight(Day(t)) + DayLen
      /\ Midnight(d) \in Int /\ Midnight(Day(t)) \in Int
  BY InDay, NextMidnight
<1>2. ~(d < Day(t))
  BY <1>1, LaterMidnight, Rules
<1>3. ~(Day(t) < d)
  BY <1>1, LaterMidnight, Rules
<1> QED
  BY <1>1, <1>2, <1>3

\* Later instants are not of earlier days.
LEMMA DayGrows ==
  ASSUME NEW t \in Int, NEW u \in Int, t =< u
  PROVE  Day(t) =< Day(u)
<1>1. ~(Day(u) < Day(t))
  BY InDay, LaterMidnight, Rules
<1> QED
  BY <1>1, InDay

LEMMA InHour ==
  ASSUME NEW t \in Int
  PROVE  /\ HourOf(t) \in Nat /\ HourOf(t) * HourLen \in Nat
         /\ HourOf(t) * HourLen =< t - Midnight(Day(t))
         /\ t - Midnight(Day(t)) < HourOf(t) * HourLen + HourLen
<1>1. t % DayLen = t - Midnight(Day(t)) /\ t % DayLen \in Nat
  BY Rules DEF Midnight, Day
<1>2. \A x \in Nat :
        /\ x \div HourLen \in Nat /\ (x \div HourLen) * HourLen \in Nat
        /\ (x \div HourLen) * HourLen =< x
        /\ x < (x \div HourLen) * HourLen + HourLen
  BY Rules
<1> QED
  BY <1>1, <1>2 DEF HourOf

LEMMA HourIs ==
  ASSUME NEW t \in Int, NEW h \in Nat, h * HourLen =< t - Midnight(Day(t)),
         t - Midnight(Day(t)) < h * HourLen + HourLen
  PROVE  HourOf(t) = h
<1>1. \A x, y \in Nat : x < y => x * HourLen + HourLen =< y * HourLen
  BY Rules
<1>2. /\ HourOf(t) \in Nat /\ Midnight(Day(t)) \in Int
      /\ HourOf(t) * HourLen =< t - Midnight(Day(t))
      /\ t - Midnight(Day(t)) < HourOf(t) * HourLen + HourLen
  BY InHour, InDay
<1>3. ~(h < HourOf(t))
  BY <1>1, <1>2, Rules
<1>4. ~(HourOf(t) < h)
  BY <1>1, <1>2, Rules
<1> QED
  BY <1>2, <1>3, <1>4

\* The full hours of a day are in the day.
LEMMA FullHour ==
  ASSUME NEW d \in Int, NEW h \in 0..(DayLen \div HourLen - 1), NEW t,
         t = Midnight(d) + h * HourLen
  PROVE  /\ h * HourLen \in Nat /\ t \in Int /\ Day(t) = d /\ HourOf(t) = h
         /\ h * HourLen + HourLen =< DayLen
<1>1. (DayLen \div HourLen) * HourLen = DayLen /\ DayLen \div HourLen \in Nat
  BY Rules
<1>2. h * HourLen + HourLen = (h + 1) * HourLen /\ h * HourLen \in Nat
  BY Rules
<1>3. h \in Nat /\ h + 1 =< DayLen \div HourLen
  BY <1>1
<1>4. \A x, y \in Nat : x =< y => x * HourLen =< y * HourLen
  BY Rules
<1>5. h * HourLen + HourLen =< DayLen
  BY <1>1, <1>2, <1>3, <1>4
<1>6. t \in Int /\ Midnight(d) \in Int /\ Midnight(d) =< t /\ t < Midnight(d) + DayLen
  <2>1. Midnight(d) \in Int
    BY NextMidnight
  <2> QED
    BY <2>1, <1>2, <1>5, Rules
<1>7. Day(t) = d
  BY <1>6, DayIs
<1>8. t - Midnight(Day(t)) = h * HourLen
  BY <1>6, <1>7, <1>2
<1> QED
  BY <1>2, <1>3, <1>5, <1>6, <1>7, <1>8, HourIs, Rules

-----------------------------------------------------------------------------
(* Slots *)

\* A window's times and the midnights about a day.
LEMMA WindowTimes ==
  ASSUME NEW w \in Window, NEW d \in Int
  PROVE  /\ w.from \in Nat /\ w.from < DayLen /\ w.to \in Nat /\ w.to < DayLen
         /\ w.length \in Nat /\ w.length > 0
         /\ Midnight(d) \in Int /\ Midnight(d - 1) = Midnight(d) - DayLen
<1>1. w.from \in 0..(DayLen - 1) /\ w.to \in 0..(DayLen - 1) /\ w.length \in 1..DayLen
  BY DEF Window
<1>2. Midnight(d) \in Int /\ Midnight(d - 1) = Midnight(d) - DayLen
  BY NextMidnight
<1> QED
  BY <1>1, <1>2, Rules

LEMMA Products ==
  \A k, n \in Nat : k * n \in Nat /\ (k + 1) * n \in Nat /\ (k + 1) * n = k * n + n
OBVIOUS

LEMMA SlotIs ==
  ASSUME NEW w \in Window, NEW d \in Int, NEW slot
  PROVE  slot \in OperatingSlots(w, d) <=>
           \E k \in 0..(SafetyCap - 1) :
             /\ slot = [ start |-> Midnight(d) + w.from + k * w.length,
                         end   |-> Midnight(d) + w.from + (k + 1) * w.length ]
             /\ slot.end =< Closing(w, d)
BY DEF OperatingSlots

LEMMA ClosingTime ==
  ASSUME NEW w \in Window, NEW d \in Int
  PROVE  /\ Closing(w, d) \in Int /\ Closing(w, d) =< Midnight(d) + w.from + DayLen
         /\ Closing(w, d - 1) = Closing(w, d) - DayLen
         /\ ~CrossesMidnight(w) => Closing(w, d) =< Midnight(d) + DayLen
<1>1. /\ w.from \in Nat /\ w.to \in Nat /\ w.from < DayLen /\ w.to < DayLen
      /\ Midnight(d) \in Int /\ Midnight(d - 1) = Midnight(d) - DayLen
  BY WindowTimes
<1> QED
  BY <1>1, Rules DEF Closing, CrossesMidnight

\* A slot is of its window's length and within it; one of a window that ends
\* by midnight is within its day.
LEMMA SlotTimes ==
  ASSUME NEW w \in Window, NEW d \in Int, NEW slot \in OperatingSlots(w, d)
  PROVE  /\ slot.start \in Int /\ slot.end \in Int /\ w.length \in Nat /\ w.length > 0
         /\ slot.end = slot.start + w.length /\ slot.start < slot.end
         /\ slot = [start |-> slot.start, end |-> slot.start + w.length]
         /\ Midnight(d) =< slot.start /\ slot.end < Midnight(d) + DayLen + DayLen
         /\ ~CrossesMidnight(w) => slot.end =< Midnight(d) + DayLen
<1>1. PICK k \in 0..(SafetyCap - 1) :
        /\ slot = [ start |-> Midnight(d) + w.from + k * w.length,
                    end   |-> Midnight(d) + w.from + (k + 1) * w.length ]
        /\ slot.end =< Closing(w, d)
  BY SlotIs
<1>2. /\ w.from \in Nat /\ w.from < DayLen /\ w.length \in Nat /\ w.length > 0
      /\ k \in Nat /\ Midnight(d) \in Int
  BY WindowTimes, Rules
<1>3. (k + 1) * w.length = k * w.length + w.length /\ k * w.length \in Nat
  BY <1>2, Products
<1>4. /\ slot.start = Midnight(d) + w.from + k * w.length
      /\ slot.end = Midnight(d) + w.from + k * w.length + w.length
      /\ slot = [start |-> slot.start, end |-> slot.end]
  BY <1>1, <1>2, <1>3
<1>5. /\ slot.start \in Int /\ slot.end \in Int /\ slot.end = slot.start + w.length
      /\ Midnight(d) =< slot.start
  BY <1>4, <1>2, <1>3
<1>6. slot.end < Midnight(d) + DayLen + DayLen
  BY <1>1, <1>2, <1>5, ClosingTime, Rules
<1>7. ~CrossesMidnight(w) => slot.end =< Midnight(d) + DayLen
  BY <1>1, <1>2, <1>5, ClosingTime, Rules
<1>8. slot = [start |-> slot.start, end |-> slot.start + w.length]
  BY <1>4, <1>5
<1> QED
  BY <1>2, <1>5, <1>6, <1>7, <1>8

LEMMA SlotDay ==
  ASSUME NEW w \in Window, NEW d \in Int, NEW slot \in OperatingSlots(w, d)
  PROVE  /\ Day(slot.start) = d \/ Day(slot.start) = d + 1
         /\ ~CrossesMidnight(w) => Day(slot.start) = d
<1>1. /\ slot.start \in Int /\ Midnight(d) \in Int /\ slot.end \in Int /\ slot.start < slot.end
      /\ Midnight(d) =< slot.start /\ slot.end < Midnight(d) + DayLen + DayLen
      /\ ~CrossesMidnight(w) => slot.end =< Midnight(d) + DayLen
      /\ Midnight(d + 1) = Midnight(d) + DayLen /\ d + 1 \in Int
  BY SlotTimes, NextMidnight
<1>2. CASE slot.start < Midnight(d) + DayLen
  BY <1>1, <1>2, DayIs
<1>3. CASE ~(slot.start < Midnight(d) + DayLen)
  <2>1. ~(~CrossesMidnight(w))
    BY <1>1, <1>3, Rules
  <2>2. Midnight(d + 1) =< slot.start /\ slot.start < Midnight(d + 1) + DayLen
    BY <1>1, <1>3, Rules
  <2> QED
    BY <2>1, <2>2, <1>1, DayIs
<1> QED
  BY <1>2, <1>3

\* What BookingAssumption requires of Grids holds of the grids that
\* iter_operating_slots derives, for every window and any set of days, an
\* unbounded one too: their slots are intervals of positive length.  So what is
\* proved of bookings on any grids holds of bookings on derived ones.
THEOREM DerivedGridsQualify ==
  ASSUME NEW w \in Window, NEW days \in SUBSET Nat
  PROVE  LET grid == UNION {OperatingSlots(w, d) : d \in days}
         IN /\ grid \subseteq [start : Nat, end : Nat]
            /\ \A slot \in grid : slot.start < slot.end
<1> SUFFICES ASSUME NEW d \in days, NEW slot \in OperatingSlots(w, d)
             PROVE  slot \in [start : Nat, end : Nat] /\ slot.start < slot.end
  OBVIOUS
<1>1. d \in Int /\ Midnight(d) \in Nat
  <2>1. d \in Nat
    OBVIOUS
  <2> QED
    BY <2>1, Rules, Products DEF Midnight
<1>2. /\ slot.start \in Int /\ w.length \in Nat /\ w.length > 0
      /\ slot.end = slot.start + w.length /\ slot.start < slot.end
      /\ slot = [start |-> slot.start, end |-> slot.start + w.length]
      /\ Midnight(d) =< slot.start
  BY <1>1, SlotTimes
<1>3. slot.start \in Nat /\ slot.start + w.length \in Nat
  BY <1>1, <1>2
<1> QED
  BY <1>2, <1>3

\* Slots of one day do not overlap.
LEMMA SlotsApart ==
  ASSUME NEW w \in Window, NEW d \in Int, NEW p \in OperatingSlots(w, d),
         NEW q \in OperatingSlots(w, d), p.start < q.start
  PROVE  p.start + w.length =< q.start
<1>1. PICK i \in 0..(SafetyCap - 1) :
        p = [ start |-> Midnight(d) + w.from + i * w.length,
              end   |-> Midnight(d) + w.from + (i + 1) * w.length ]
  BY SlotIs
<1>2. PICK k \in 0..(SafetyCap - 1) :
        q = [ start |-> Midnight(d) + w.from + k * w.length,
              end   |-> Midnight(d) + w.from + (k + 1) * w.length ]
  BY SlotIs
<1>3. /\ w.from \in Nat /\ w.length \in Nat /\ i \in Nat /\ k \in Nat /\ Midnight(d) \in Int
      /\ i * w.length \in Nat /\ k * w.length \in Nat
  <2>1. w.from \in Nat /\ w.length \in Nat /\ i \in Nat /\ k \in Nat /\ Midnight(d) \in Int
    BY WindowTimes, Rules
  <2> QED
    BY <2>1, Products
<1>4. \A x, y, z \in Nat : x < y => x * z + z =< y * z
  OBVIOUS
<1>5. \A x, y, z \in Nat : x =< y => x * z =< y * z
  OBVIOUS
<1>6. p.start = Midnight(d) + w.from + i * w.length /\ q.start = Midnight(d) + w.from + k * w.length
  BY <1>1, <1>2
<1>7. i * w.length < k * w.length
  BY <1>6, <1>3
<1>8. ~(k =< i)
  BY <1>5, <1>7, <1>3
<1>9. i * w.length + w.length =< k * w.length
  BY <1>4, <1>8, <1>3
<1> QED
  BY <1>9, <1>6, <1>3

\* Every day has the slots of the day before.
LEMMA SlotYesterday ==
  ASSUME NEW w \in Window, NEW d \in Int, NEW slot \in OperatingSlots(w, d)
  PROVE  \E q \in OperatingSlots(w, d - 1) : q.start = slot.start - DayLen
<1>1. PICK k \in 0..(SafetyCap - 1) :
        /\ slot = [ start |-> Midnight(d) + w.from + k * w.length,
                    end   |-> Midnight(d) + w.from + (k + 1) * w.length ]
        /\ slot.end =< Closing(w, d)
  BY SlotIs
<1> DEFINE q == [ start |-> Midnight(d - 1) + w.from + k * w.length,
                  end   |-> Midnight(d - 1) + w.from + (k + 1) * w.length ]
<1>2. /\ w.from \in Nat /\ w.length \in Nat /\ k \in Nat /\ Midnight(d) \in Int
      /\ k * w.length \in Nat /\ (k + 1) * w.length \in Nat
      /\ Midnight(d - 1) = Midnight(d) - DayLen
  <2>1. /\ w.from \in Nat /\ w.length \in Nat /\ k \in Nat /\ Midnight(d) \in Int
        /\ Midnight(d - 1) = Midnight(d) - DayLen
    BY WindowTimes, Rules
  <2> QED
    BY <2>1, Products
<1>3. q.start = slot.start - DayLen /\ q.end = slot.end - DayLen
  BY <1>1, <1>2, Rules
<1>4. q.end =< Closing(w, d - 1)
  BY <1>1, <1>2, <1>3, ClosingTime, SlotTimes, Rules
<1>5. d - 1 \in Int
  OBVIOUS
<1>6. q \in OperatingSlots(w, d - 1)
  BY <1>4, <1>5, SlotIs
<1> QED
  BY <1>6, <1>3

-----------------------------------------------------------------------------
(* Resolving *)

LEMMA FirstOfThem ==
  ASSUME NEW slots, slots # {}, \A s \in slots : s.start \in Nat
  PROVE  First(slots) \in slots /\ \A r \in slots : First(slots).start =< r.start
<1> DEFINE D == {s.start : s \in slots}
<1>1. PICK n \in D : TRUE
  OBVIOUS
<1>2. PICK m \in D : \A e \in D : m =< e
  BY <1>1, Least
<1>3. \E s \in slots : \A r \in slots : s.start =< r.start
  BY <1>2
<1> QED
  BY <1>3 DEF First

\* A slot starts at one instant only and is found again by it.
LEMMA Resolves ==
  ASSUME NEW w \in Window, NEW d \in Int, NEW slot \in OperatingSlots(w, d)
  PROVE  ResolveSlot(w, slot.start) = slot /\ slot # Nothing
<1> DEFINE t == slot.start
           found == {s \in UNION {OperatingSlots(w, e) : e \in (Day(t) - 1)..(Day(t) + 1)} :
                       s.start = t}
<1>1. t \in Int /\ Day(t) \in Int /\ (d = Day(t) \/ d = Day(t) - 1)
  BY SlotTimes, SlotDay, InDay
<1>2. slot \in found
  BY <1>1
<1>3. \A s \in found : s = slot
  <2> SUFFICES ASSUME NEW e \in Int, NEW s \in OperatingSlots(w, e), s.start = t PROVE s = slot
    BY <1>1
  <2>1. s = [start |-> t, end |-> t + w.length] /\ slot = [start |-> t, end |-> t + w.length]
    BY SlotTimes
  <2> QED
    BY <2>1
<1>4. found = {slot}
  BY <1>2, <1>3
<1>5. First({slot}) = slot
  BY DEF First
<1>6. FirstOrNothing(found) = slot
  BY <1>4, <1>5 DEF FirstOrNothing
<1>7. ResolveSlot(w, t) = slot
  BY <1>6 DEF ResolveSlot
<1>8. slot \in [start : Int, end : Int]
  BY SlotTimes
<1> QED
  BY <1>7, <1>8, GridAssumption

LEMMA Resolved ==
  ASSUME NEW w \in Window, NEW t \in Int, ResolveSlot(w, t) # Nothing
  PROVE  \E d \in Int :
           /\ ResolveSlot(w, t) \in OperatingSlots(w, d)
           /\ ResolveSlot(w, t).start = t
           /\ ~CrossesMidnight(w) => d = Day(t)
<1> DEFINE found == {s \in UNION {OperatingSlots(w, e) : e \in (Day(t) - 1)..(Day(t) + 1)} :
                       s.start = t}
<1>1. found # {}
  BY DEF ResolveSlot, FirstOrNothing
<1>2. PICK s \in found : TRUE
  BY <1>1
<1>3. PICK d \in Int : s \in OperatingSlots(w, d) /\ s.start = t
  BY <1>2, InDay
<1> QED
  BY <1>3, Resolves, SlotDay

\* Asking for a date and an hour is answered with a slot of the grid.
LEMMA AskedIsSlot ==
  ASSUME NEW w \in Window, NEW d \in Nat, NEW h \in 0..(DayLen \div HourLen - 1),
         SlotFromDateHour(w, d, h) # Nothing
  PROVE  LET slot == SlotFromDateHour(w, d, h)
             exact == ResolveSlot(w, Midnight(d) + h * HourLen)
         IN \/ exact # Nothing /\ slot = exact
            \/ /\ exact = Nothing /\ slot \in OperatingSlots(w, d) /\ HourOf(slot.start) = h
<1> DEFINE t == Midnight(d) + h * HourLen
           later == {s \in OperatingSlots(w, d) : HourOf(s.start) = h}
<1>1. CASE ResolveSlot(w, t) # Nothing
  BY <1>1 DEF SlotFromDateHour
<1>2. CASE ResolveSlot(w, t) = Nothing
  <2>1. SlotFromDateHour(w, d, h) = FirstOrNothing(later)
    BY <1>2 DEF SlotFromDateHour
  <2>2. later # {} /\ SlotFromDateHour(w, d, h) = First(later)
    BY <2>1 DEF FirstOrNothing
  <2>3. \A s \in later : s.start \in Nat
    <3>1. Midnight(d) \in Nat
      BY Rules DEF Midnight
    <3> QED
      BY <3>1, SlotTimes
  <2>4. First(later) \in later
    BY <2>2, <2>3, FirstOfThem
  <2> QED
    BY <1>2, <2>2, <2>4
<1> QED
  BY <1>1, <1>2

\* Whatever a request is answered with has a start before its end.
LEMMA ResolvedTimes ==
  ASSUME NEW w \in Window, NEW t \in Int, NEW slot, slot = ResolveSlot(w, t), slot # Nothing
  PROVE  slot.start \in Int /\ slot.end \in Int /\ slot.start < slot.end
<1>1. ResolveSlot(w, t) # Nothing
  OBVIOUS
<1>2. PICK d \in Int : ResolveSlot(w, t) \in OperatingSlots(w, d)
  BY <1>1, Resolved
<1> QED
  BY <1>2, SlotTimes

LEMMA AskedTimes ==
  ASSUME NEW w \in Window, NEW d \in Nat, NEW h \in 0..(DayLen \div HourLen - 1),
         NEW slot, slot = SlotFromDateHour(w, d, h), slot # Nothing
  PROVE  slot.start \in Int /\ slot.end \in Int /\ slot.start < slot.end
<1>1. PICK t : t = Midnight(d) + h * HourLen
  OBVIOUS
<1>2. t \in Int
  BY <1>1, FullHour
<1>3. \/ slot = ResolveSlot(w, t)
      \/ slot \in OperatingSlots(w, d)
  BY <1>1, AskedIsSlot
<1> QED
  BY <1>2, <1>3, ResolvedTimes, SlotTimes

-----------------------------------------------------------------------------
(* The invariant of bookings made one request at a time *)

\* Rows in use are whole; those that are live do not meet on a machine, lie on
\* a machine there is, and carry the flag of its kind.
LiveRow(b) ==
  table[b].status = "live" =>
    /\ table[b].machine \in Machines /\ table[b].student \in Students
    /\ table[b].start < table[b].end
    /\ table[b].counts = CountsTowardQuota(table[b].machine)

Disjoint(b, c) ==
  (/\ table[b].status = "live" /\ table[c].status = "live"
   /\ table[b].machine = table[c].machine /\ b # c)
  => ~Meets(table[b], table[c].start, table[c].end)

UsedRows == {b \in BookingIds : table[b].status # "free"}

ViewsInv ==
  /\ ViewsTypeOK /\ Installed = Machines
  /\ \A b \in BookingIds : LiveRow(b)
  /\ \A b, c \in BookingIds : Disjoint(b, c)
  /\ IsFiniteSet(UsedRows)

BookingRows ==
  [ status : {"free", "live", "cancelled"}, student : Students \cup {Nothing},
    machine : Machines \cup {Nothing}, start : Nat, end : Nat, counts : BOOLEAN ]

MachineRows == [window : Windows, offline : BOOLEAN]

LEMMA ViewsTypes ==
  ASSUME ViewsInv
  PROVE  /\ clock \in Nat /\ clock \in DayLen..LastInstant
         /\ DOMAIN row = Machines /\ row \in [Machines -> MachineRows]
         /\ \A m \in Machines : row[m] \in MachineRows /\ row[m].window \in Window
         /\ table \in [BookingIds -> BookingRows] /\ DOMAIN table = BookingIds
         /\ \A b \in BookingIds : /\ table[b] \in BookingRows
                                /\ table[b].start \in Nat /\ table[b].end \in Nat
<1>1. clock \in Nat /\ clock \in DayLen..LastInstant
  BY Rules DEF ViewsInv, ViewsTypeOK
<1>2. DOMAIN row = Machines /\ row \in [Machines -> MachineRows]
  BY DEF ViewsInv, ViewsTypeOK, Installed, MachineRows
<1>3. \A m \in Machines : row[m] \in MachineRows
  BY <1>2
<1>4. \A m \in Machines : row[m].window \in Window
  BY <1>3, ViewsAssumption DEF MachineRows
<1>5. table \in [BookingIds -> BookingRows]
  BY DEF ViewsInv, ViewsTypeOK, BookingTable, BookingRows
<1>6. \A b \in BookingIds : table[b] \in BookingRows
  BY <1>5
<1>7. \A b \in BookingIds : table[b].start \in Nat /\ table[b].end \in Nat
  BY <1>6 DEF BookingRows
<1> QED
  BY <1>1, <1>2, <1>3, <1>4, <1>5, <1>6, <1>7

LEMMA ViewsStart == ViewsInit => ViewsInv
<1> SUFFICES ASSUME ViewsInit PROVE ViewsInv
  OBVIOUS
<1>1. NoBooking \in [ status : {"free", "live", "cancelled"}, student : Students \cup {Nothing},
                      machine : Machines \cup {Nothing}, start : Nat, end : Nat,
                      counts : BOOLEAN ] /\ NoBooking.status = "free"
  BY DEF NoBooking
<1>2. \A b \in BookingIds : table[b] = NoBooking
  BY DEF ViewsInit
<1>3. table \in BookingTable
  BY <1>1, Zenon DEF ViewsInit, BookingTable
<1>4. Installed = Machines /\ row \in [Installed -> [window : Windows, offline : BOOLEAN]]
  BY DEF ViewsInit, Installed
<1>5. UsedRows = {}
  BY <1>1, <1>2 DEF UsedRows
<1>6. clock \in DayLen..LastInstant
  BY Rules DEF ViewsInit
<1> QED
  BY <1>1, <1>2, <1>3, <1>4, <1>5, <1>6, FS_EmptySet DEF ViewsInv, ViewsTypeOK, LiveRow, Disjoint

\* The types after a step, from those of the two tables.
LEMMA TypesAfter ==
  ASSUME clock' \in DayLen..LastInstant, row' \in [Machines -> MachineRows],
         table' \in [BookingIds -> BookingRows]
  PROVE  ViewsTypeOK' /\ (Installed = Machines)'
BY DEF ViewsTypeOK, Installed, MachineRows, BookingTable, BookingRows

\* One row is written.
LEMMA RowWritten ==
  ASSUME ViewsInv, NEW b \in BookingIds, NEW x \in BookingRows,
         table' = [table EXCEPT ![b] = x], UNCHANGED <<clock, row>>,
         x.status = "live", x.machine \in Machines, x.student \in Students,
         x.start < x.end, x.counts = CountsTowardQuota(x.machine),
         \A c \in LiveRows(table, x.machine) \ {b} : ~Meets(table[c], x.start, x.end)
  PROVE  ViewsInv'
<1>1. table' \in [BookingIds -> BookingRows] /\ row' \in [Machines -> MachineRows]
  BY ViewsTypes
<1>2. clock' \in DayLen..LastInstant
  BY ViewsTypes
<1>3. table'[b] = x /\ \A c \in BookingIds \ {b} : table'[c] = table[c]
  BY ViewsTypes
<1>4. \A c \in BookingIds : LiveRow(c)'
  BY <1>3 DEF ViewsInv, LiveRow, CountsTowardQuota
<1>5. x.start \in Nat /\ x.end \in Nat
  BY DEF BookingRows
<1>6. ASSUME NEW c \in BookingIds, c # b, table[c].status = "live", table[c].machine = x.machine
      PROVE  ~Meets(table[c], x.start, x.end) /\ ~Meets(x, table[c].start, table[c].end)
  <2>1. c \in LiveRows(table, x.machine) \ {b}
    BY <1>6, ViewsTypes DEF LiveRows
  <2> QED
    BY <2>1 DEF Meets
<1>7. ASSUME NEW c \in BookingIds, NEW d \in BookingIds PROVE Disjoint(c, d)'
  <2>1. CASE c # b /\ d # b
    BY <2>1, <1>3, Zenon DEF ViewsInv, Disjoint
  <2>2. CASE c = b /\ d # b
    BY <2>2, <1>3, <1>6, Zenon DEF Disjoint
  <2>3. CASE c # b /\ d = b
    BY <2>3, <1>3, <1>6, Zenon DEF Disjoint
  <2> QED
    BY <2>1, <2>2, <2>3, Zenon DEF Disjoint
<1>8. UsedRows' = UsedRows \cup {b}
  BY <1>3 DEF UsedRows
<1>9. IsFiniteSet(UsedRows')
  BY <1>8, FS_AddElement DEF ViewsInv
<1> QED
  BY <1>1, <1>2, <1>4, <1>7, <1>9, TypesAfter DEF ViewsInv

\* Live rows are cancelled, and machines edited.
LEMMA RowsCancelled ==
  ASSUME ViewsInv, row' \in [Machines -> MachineRows], UNCHANGED clock,
         table' \in [BookingIds -> BookingRows],
         \A b \in BookingIds : \/ table'[b] = table[b]
                               \/ table'[b].status = "cancelled" /\ table[b].status = "live"
  PROVE  ViewsInv'
<1>1. clock' \in DayLen..LastInstant
  BY ViewsTypes
<1>2. \A b \in BookingIds : table'[b].status = "live" => table'[b] = table[b]
  OBVIOUS
<1>3. \A c \in BookingIds : LiveRow(c)'
  BY <1>2 DEF ViewsInv, LiveRow, CountsTowardQuota
<1>4. \A c, d \in BookingIds : Disjoint(c, d)'
  <2> SUFFICES ASSUME NEW c \in BookingIds, NEW d \in BookingIds PROVE Disjoint(c, d)'
    OBVIOUS
  <2>1. Disjoint(c, d)
    BY DEF ViewsInv
  <2> QED
    BY <1>2, <2>1 DEF Disjoint, Meets
<1>5. UsedRows' = UsedRows
  BY DEF UsedRows
<1> QED
  BY <1>1, <1>3, <1>4, <1>5, TypesAfter DEF ViewsInv

LEMMA InsertKeeps ==
  ASSUME ViewsInv, NEW b \in BookingIds, NEW s \in Students, NEW m \in Machines, NEW slot,
         slot.start \in Int, slot.end \in Int, slot.start < slot.end, Insert(b, s, m, slot)
  PROVE  ViewsInv'
<1>1. PICK x : x = [ status |-> "live", student |-> s, machine |-> m, start |-> slot.start,
                     end |-> slot.end, counts |-> CountsTowardQuota(m) ]
  OBVIOUS
<1>2. Claimable(s, m, slot, Nothing) /\ table' = [table EXCEPT ![b] = x] /\ UNCHANGED <<clock, row>>
  BY <1>1, Zenon DEF Insert
<1>3. /\ x.status = "live" /\ x.student = s /\ x.machine = m /\ x.start = slot.start
      /\ x.end = slot.end /\ x.counts = CountsTowardQuota(m)
  BY <1>1
<1>4. slot.start > clock
  BY <1>2 DEF Claimable, RulesAllow
<1>5. slot.start \in Nat /\ slot.end \in Nat
  BY <1>4, ViewsTypes
<1>6. CountsTowardQuota(m) \in BOOLEAN
  BY RulesAssumption DEF CountsTowardQuota
<1>7. x \in BookingRows
  BY <1>1, <1>5, <1>6 DEF BookingRows
<1>8. Nothing \notin BookingIds
  BY ViewsAssumption
<1>9. \A c \in LiveRows(table, m) \ {b} : ~Meets(table[c], slot.start, slot.end)
  BY <1>2, <1>8, ViewsTypes DEF Claimable, LiveRows
<1> QED
  BY <1>2, <1>3, <1>7, <1>9, RowWritten

LEMMA MoveKeeps ==
  ASSUME ViewsInv, NEW b \in BookingIds, NEW m \in Machines, NEW t \in Int, MoveTo(b, m, t)
  PROVE  ViewsInv'
<1>1. PICK slot : slot = ResolveSlot(row[m].window, t)
  OBVIOUS
<1>2. /\ CanMove(b, m, slot)
      /\ table' = [table EXCEPT ![b].machine = m, ![b].start = slot.start, ![b].end = slot.end,
                                ![b].counts = CountsTowardQuota(m)]
      /\ UNCHANGED <<clock, row>>
  BY <1>1, Zenon DEF MoveTo
<1>3. PICK x : x = [table[b] EXCEPT !.machine = m, !.start = slot.start, !.end = slot.end,
                                    !.counts = CountsTowardQuota(m)]
  OBVIOUS
<1>4. table' = [table EXCEPT ![b] = x]
  BY <1>2, <1>3, ViewsTypes
<1>5. table[b].status = "live" /\ slot # Nothing /\ Claimable(table[b].student, m, slot, b)
  BY <1>2 DEF CanMove
<1>6. slot.start \in Int /\ slot.end \in Int /\ slot.start < slot.end
  BY <1>1, <1>5, ResolvedTimes, ViewsTypes
<1>7. slot.start > clock
  BY <1>5 DEF Claimable, RulesAllow
<1>8. slot.start \in Nat /\ slot.end \in Nat
  BY <1>6, <1>7, ViewsTypes
<1>9. CountsTowardQuota(m) \in BOOLEAN
  BY RulesAssumption DEF CountsTowardQuota
<1>10. x \in BookingRows
  BY <1>3, <1>8, <1>9, ViewsTypes DEF BookingRows
<1>11. /\ x.status = "live" /\ x.student = table[b].student /\ x.machine = m
       /\ x.start = slot.start /\ x.end = slot.end /\ x.counts = CountsTowardQuota(m)
  BY <1>3, <1>5, ViewsTypes DEF BookingRows
<1>12. x.student \in Students
  BY <1>11, <1>5 DEF ViewsInv, LiveRow
<1>13. \A c \in LiveRows(table, m) \ {b} : ~Meets(table[c], slot.start, slot.end)
  BY <1>5 DEF Claimable
<1> QED
  BY <1>2, <1>4, <1>6, <1>10, <1>11, <1>12, <1>13, RowWritten

LEMMA CancelKeeps ==
  ASSUME ViewsInv, NEW b \in BookingIds, CancelOwn(b)
  PROVE  ViewsInv'
<1>1. PICK x : x = [table[b] EXCEPT !.status = "cancelled",
                                    !.counts = @ /\ IsLateCancel(table[b].start, clock)]
  OBVIOUS
<1>2. table' = [table EXCEPT ![b] = x] /\ UNCHANGED <<clock, row>> /\ table[b].status = "live"
  BY <1>1, ViewsTypes DEF CancelOwn
<1>3. x \in BookingRows /\ x.status = "cancelled"
  BY <1>1, ViewsTypes DEF BookingRows
<1>4. table' \in [BookingIds -> BookingRows] /\ row' \in [Machines -> MachineRows]
  BY <1>2, <1>3, ViewsTypes
<1>5. table'[b] = x /\ \A c \in BookingIds \ {b} : table'[c] = table[c]
  BY <1>2, ViewsTypes
<1> QED
  BY <1>2, <1>3, <1>4, <1>5, RowsCancelled

\* What the institute cancels.
LEMMA ForcedRows ==
  ASSUME ViewsInv, NEW ids, NEW b \in BookingIds
  PROVE  /\ ForcedOff(ids)[b] \in BookingRows
         /\ \/ ForcedOff(ids)[b] = table[b]
            \/ ForcedOff(ids)[b].status = "cancelled" /\ table[b].status = "live"
         /\ table[b].status = "live" /\ table[b].start > clock =>
              (ForcedOff(ids)[b].status = "live" <=> b \notin ids)
<1>1. PICK x : x = [table[b] EXCEPT !.status = "cancelled", !.counts = FALSE]
  OBVIOUS
<1>2. x \in BookingRows /\ x.status = "cancelled"
  BY <1>1, ViewsTypes DEF BookingRows
<1>3. ForcedOff(ids)[b] =
        IF b \in ids /\ table[b].status = "live" /\ table[b].start > clock THEN x ELSE table[b]
  BY <1>1, Zenon DEF ForcedOff
<1> QED
  BY <1>2, <1>3, ViewsTypes

LEMMA ForcedKeeps ==
  ASSUME ViewsInv, NEW ids, table' = ForcedOff(ids) \/ table' = table,
         row' \in [Machines -> MachineRows], UNCHANGED clock
  PROVE  ViewsInv'
<1>1. CASE table' = table
  BY <1>1, ViewsTypes, RowsCancelled
<1>2. CASE table' = ForcedOff(ids)
  <2>1. table' \in [BookingIds -> BookingRows]
    <3>1. ForcedOff(ids) = [b \in BookingIds |-> ForcedOff(ids)[b]]
      BY DEF ForcedOff
    <3> QED
      BY <3>1, <1>2, ForcedRows
  <2> QED
    BY <2>1, <1>2, ForcedRows, RowsCancelled
<1> QED
  BY <1>1, <1>2

LEMMA ViewsStep == ViewsInv /\ [ViewsNext]_viewVars => ViewsInv'
<1> SUFFICES ASSUME ViewsInv, [ViewsNext]_viewVars PROVE ViewsInv'
  OBVIOUS
<1>a. Installed = Machines /\ Today \in Nat
  <2>1. Today \in Int /\ ~(Today < 0)
    BY ViewsTypes, Rules DEF Today, Day
  <2> QED
    BY <2>1 DEF ViewsInv
<1>1. ASSUME NEW b \in BookingIds, NEW s \in Students, NEW m \in Machines, NEW t \in Instants,
             BookAt(b, s, m, t)
      PROVE  ViewsInv'
  <2>1. PICK slot : slot = ResolveSlot(row[m].window, t)
    OBVIOUS
  <2>2. t \in Int
    BY ViewsTypes DEF Instants
  <2>3. slot # Nothing /\ Insert(b, s, m, slot)
    BY <1>1, <2>1 DEF BookAt, Insert
  <2>4. slot.start \in Int /\ slot.end \in Int /\ slot.start < slot.end
    BY <2>1, <2>2, <2>3, ResolvedTimes, ViewsTypes
  <2> QED
    BY <2>3, <2>4, InsertKeeps
<1>2. ASSUME NEW b \in BookingIds, NEW s \in Students, NEW m \in Machines,
             NEW d \in Today..(Today + AdvanceDays), NEW h \in 0..(DayLen \div HourLen - 1),
             BookHour(b, s, m, d, h)
      PROVE  ViewsInv'
  <2>1. PICK slot : slot = SlotFromDateHour(row[m].window, d, h)
    OBVIOUS
  <2>2. d \in Nat
    BY <1>a, Rules
  <2>3. slot # Nothing /\ Insert(b, s, m, slot)
    BY <1>2, <2>1 DEF BookHour, Insert, AskedFor
  <2>4. slot.start \in Int /\ slot.end \in Int /\ slot.start < slot.end
    BY <2>1, <2>2, <2>3, AskedTimes, ViewsTypes
  <2> QED
    BY <2>3, <2>4, InsertKeeps
<1>3. ASSUME NEW b \in BookingIds, CancelOwn(b) PROVE ViewsInv'
  BY <1>3, CancelKeeps
<1>4. ASSUME NEW b \in BookingIds, NEW m \in Machines, NEW t \in Instants, MoveTo(b, m, t)
      PROVE  ViewsInv'
  <2>1. t \in Int
    BY ViewsTypes DEF Instants
  <2> QED
    BY <2>1, <1>4, MoveKeeps
<1>5. ASSUME NEW m \in Machines, Toggle(m) PROVE ViewsInv'
  <2>1. row' \in [Machines -> MachineRows]
    BY <1>5, ViewsTypes DEF Toggle, MachineRows
  <2> QED
    BY <2>1, <1>5, ForcedKeeps DEF Toggle
<1>6. ASSUME NEW m \in Machines, NEW w \in Windows, NEW cancel \in BOOLEAN,
             ChangeHours(m, w, cancel)
      PROVE  ViewsInv'
  <2>1. row' \in [Machines -> MachineRows]
    BY <1>6, ViewsTypes DEF ChangeHours, MachineRows
  <2> QED
    BY <2>1, <1>6, ForcedKeeps DEF ChangeHours
<1>7. CASE TimePasses
  <2>1. clock' \in DayLen..LastInstant /\ UNCHANGED <<row, table>>
    BY <1>7, ViewsTypes, Rules DEF TimePasses
  <2> QED
    BY <2>1 DEF ViewsInv, ViewsTypeOK, Installed, LiveRow, Disjoint, UsedRows, Meets,
                CountsTowardQuota
<1>8. CASE UNCHANGED viewVars
  BY <1>8 DEF viewVars, ViewsInv, ViewsTypeOK, Installed, LiveRow, Disjoint, UsedRows, Meets,
              CountsTowardQuota
<1> QED
  BY <1>a, <1>1, <1>2, <1>3, <1>4, <1>5, <1>6, <1>7, <1>8 DEF ViewsNext

\* Bookings are made on live machines' slots, of positive length, and those of a
\* machine that are live do not overlap.
THEOREM ViewsInvariance == ViewsSpec => []ViewsInv
BY ViewsStart, ViewsStep, PTL DEF ViewsSpec

\* Every variable of the views keeps its type.
THEOREM ViewsTyped == ViewsSpec => []ViewsTypeOK
<1>1. ViewsInv => ViewsTypeOK
  BY DEF ViewsInv
<1> QED
  BY <1>1, ViewsInvariance, PTL

-----------------------------------------------------------------------------
(* What a state of a slot says *)

\* The bookings loaded for a range are all that matter to a slot within it.
LEMMA LoadedEnough ==
  ASSUME ViewsInv, NEW m \in Machines, NEW slot, slot.start \in Int, slot.end \in Int,
         NEW from \in Int, NEW to \in Int, from =< slot.start, slot.end =< to
  PROVE  Covering(table, LoadOverlapping(table, m, from, to), slot)
           = {b \in LiveRows(table, m) : Meets(table[b], slot.start, slot.end)}
<1>1. ASSUME NEW b \in LiveRows(table, m), Meets(table[b], slot.start, slot.end)
      PROVE  Meets(table[b], from, to)
  <2>1. table[b].start \in Nat /\ table[b].end \in Nat
    BY ViewsTypes DEF LiveRows
  <2> QED
    BY <2>1, <1>1 DEF Meets
<1> QED
  BY <1>1 DEF Covering, LoadOverlapping

LEMMA FreeSlot ==
  ASSUME ViewsInv, NEW m \in Machines, NEW s, NEW slot, slot.start \in Int, slot.end \in Int,
         NEW from \in Int, NEW to \in Int, from =< slot.start, slot.end =< to,
         SlotState(table, LoadOverlapping(table, m, from, to), row[m], m, s, slot, clock) = "free"
  PROVE  /\ slot.start > clock /\ ~row[m].offline
         /\ ~QuotaBlocks(table, s, m, slot.start, clock)
         /\ \A b \in LiveRows(table, m) : ~Meets(table[b], slot.start, slot.end)
<1>1. PICK covering : covering = Covering(table, LoadOverlapping(table, m, from, to), slot)
  OBVIOUS
<1>2. /\ ~(slot.start =< clock) /\ ~row[m].offline /\ covering = {}
      /\ ~QuotaBlocks(table, s, m, slot.start, clock)
  BY <1>1, Zenon DEF SlotState
<1>3. covering = {b \in LiveRows(table, m) : Meets(table[b], slot.start, slot.end)}
  BY <1>1, LoadedEnough
<1>4. slot.start > clock
  BY <1>2, ViewsTypes
<1> QED
  BY <1>2, <1>3, <1>4

LEMMA FreeIsBookable ==
  ASSUME ViewsInv, NEW m \in Machines, NEW s \in Students, NEW d \in Int,
         NEW slot \in OperatingSlots(row[m].window, d),
         NEW from \in Int, NEW to \in Int, from =< slot.start, slot.end =< to,
         SlotState(table, LoadOverlapping(table, m, from, to), row[m], m, s, slot, clock) = "free",
         Day(slot.start) =< Today + AdvanceDays
  PROVE  Bookable(s, m, slot)
<1>1. slot.start \in Int /\ slot.end \in Int
  BY SlotTimes, ViewsTypes
<1>2. /\ slot.start > clock /\ ~row[m].offline
      /\ ~QuotaBlocks(table, s, m, slot.start, clock)
      /\ \A b \in LiveRows(table, m) : ~Meets(table[b], slot.start, slot.end)
  BY <1>1, FreeSlot
<1>3. s # Nothing
  BY ViewsAssumption
<1>4. RulesAllow(table, s, m, slot.start, clock, Nothing)
  BY <1>2, <1>3 DEF QuotaBlocks, Today
<1>5. ResolveSlot(row[m].window, slot.start) = slot
  BY Resolves, ViewsTypes
<1> QED
  BY <1>2, <1>4, <1>5 DEF Bookable, Claimable

\* A slot of a day lies within the bookings loaded for its listings.
LEMMA WithinRange ==
  ASSUME NEW w \in Window, NEW d \in Int, NEW slot \in OperatingSlots(w, d)
  PROVE  /\ Midnight(d - 1) \in Int /\ Midnight(d) \in Int /\ Midnight(d + 2) \in Int
         /\ Midnight(d - 1) =< slot.start /\ Midnight(d) =< slot.start
         /\ slot.end =< Midnight(d + 2)
<1>1. /\ slot.start \in Int /\ slot.end \in Int /\ Midnight(d) =< slot.start
      /\ slot.end < Midnight(d) + DayLen + DayLen
  BY SlotTimes
<1>2. /\ Midnight(d) \in Int /\ Midnight(d - 1) = Midnight(d) - DayLen
      /\ Midnight(d + 2) = Midnight(d) + DayLen + DayLen
  BY NextMidnight
<1> QED
  BY <1>1, <1>2, Rules

LEMMA TodayIs ==
  ASSUME ViewsInv
  PROVE  /\ Today \in Nat /\ Midnight(Today) \in Nat
         /\ Midnight(Today) =< clock /\ clock < Midnight(Today) + DayLen
<1>1. Today \in Nat
  BY ViewsTypes, Rules DEF Today, Day
<1>2. Midnight(Today) \in Nat
  BY <1>1, Rules DEF Midnight
<1> QED
  BY <1>1, <1>2, InDay, ViewsTypes DEF Today

-----------------------------------------------------------------------------
(* Free slots *)

LEMMA ListedIsBookable ==
  ASSUME ViewsInv, NEW s \in Students, NEW m \in Machines, NEW d \in Int,
         NEW slot \in DayListing({"free"}, table, row[m], m, s, d, clock),
         Day(slot.start) =< Today + AdvanceDays
  PROVE  Bookable(s, m, slot)
<1>1. /\ slot \in OperatingSlots(row[m].window, d)
      /\ SlotState(table, LoadOverlapping(table, m, Midnight(d - 1), Midnight(d + 2)),
                   row[m], m, s, slot, clock) = "free"
  BY DEF DayListing, SlotsIn
<1>2. /\ Midnight(d - 1) \in Int /\ Midnight(d + 2) \in Int
      /\ Midnight(d - 1) =< slot.start /\ slot.end =< Midnight(d + 2)
  BY <1>1, WithinRange, ViewsTypes
<1> QED
  BY <1>1, <1>2, FreeIsBookable

LEMMA OpenIsBookable ==
  ASSUME ViewsInv, NEW s \in Students, NEW m \in Machines, NEW slot \in OpenLater(m, s),
         Day(slot.start) =< Today + AdvanceDays
  PROVE  slot \in OperatingSlots(row[m].window, Today) /\ Bookable(s, m, slot)
<1>1. /\ slot \in OperatingSlots(row[m].window, Today)
      /\ SlotState(table, LoadOverlapping(table, m, Midnight(Today), Midnight(Today + 2)),
                   row[m], m, s, slot, clock) = "free"
  BY DEF OpenLater, TodaysSlots, LoadedToday, SlotsIn
<1>2. Today \in Int
  BY TodayIs
<1>3. /\ Midnight(Today) \in Int /\ Midnight(Today + 2) \in Int
      /\ Midnight(Today) =< slot.start /\ slot.end =< Midnight(Today + 2)
  BY <1>1, <1>2, WithinRange, ViewsTypes
<1> QED
  BY <1>1, <1>2, <1>3, FreeIsBookable

LEMMA NextFreeIsOpen ==
  ASSUME ViewsInv, NEW s \in Students, NEW k \in Kinds, AvailabilityNow(k, s).nextFree # Nothing
  PROVE  \E m \in Machines : Kind[m] = k /\ \E slot \in OpenLater(m, s) :
           slot.start = AvailabilityNow(k, s).nextFree
<1>1. PICK group : group = {m \in Installed : Kind[m] = k}
  OBVIOUS
<1>2. PICK opens : opens = UNION {{slot.start : slot \in OpenLater(m, s)} : m \in group}
  OBVIOUS
<1>3. AvailabilityNow(k, s).nextFree = IF opens = {} THEN Nothing ELSE Min(opens)
  BY <1>1, <1>2, Zenon DEF AvailabilityNow
<1>4. opens # {}
  BY <1>3
<1>5. ASSUME NEW t \in opens
      PROVE  /\ t \in Nat
             /\ \E m \in Machines : Kind[m] = k /\ \E slot \in OpenLater(m, s) : slot.start = t
  <2>1. PICK m \in group : t \in {slot.start : slot \in OpenLater(m, s)}
    BY <1>2
  <2>2. PICK slot \in OpenLater(m, s) : t = slot.start
    BY <2>1
  <2>3. m \in Machines /\ Kind[m] = k
    BY <1>1 DEF ViewsInv
  <2>4. slot \in OperatingSlots(row[m].window, Today) /\ slot.start > clock
    BY DEF OpenLater, TodaysSlots, SlotsIn
  <2>5. slot.start \in Int
    BY <2>3, <2>4, SlotTimes, TodayIs, ViewsTypes
  <2>6. t \in Nat
    BY <2>2, <2>4, <2>5, ViewsTypes
  <2> QED
    BY <2>2, <2>3, <2>6
<1>6. PICK t \in opens : \A e \in opens : t =< e
  BY <1>4, <1>5, Least
<1>7. Min(opens) \in opens
  BY <1>6 DEF Min
<1> QED
  BY <1>3, <1>4, <1>5, <1>7

LEMMA FreeSlotsBookable == ViewsInv => FreeSlotsCanBeBooked
<1> SUFFICES ASSUME ViewsInv, NEW s \in Students
             PROVE
               /\ \A m \in Installed, d \in Today..(Today + AdvanceDays) :
                    \A slot \in DayListing({"free"}, table, row[m], m, s, d, clock) :
                      Day(slot.start) =< Today + AdvanceDays => Bookable(s, m, slot)
               /\ \A k \in Kinds :
                    LET next == AvailabilityNow(k, s).nextFree IN
                    (next # Nothing /\ Day(next) =< Today + AdvanceDays) =>
                      \E m \in Installed :
                        Kind[m] = k /\ \E slot \in OperatingSlots(row[m].window, Today) :
                          slot.start = next /\ Bookable(s, m, slot)
  BY DEF FreeSlotsCanBeBooked
<1>1. Installed = Machines
  BY DEF ViewsInv
<1>2. ASSUME NEW m \in Machines, NEW d \in Today..(Today + AdvanceDays),
             NEW slot \in DayListing({"free"}, table, row[m], m, s, d, clock),
             Day(slot.start) =< Today + AdvanceDays
      PROVE  Bookable(s, m, slot)
  <2>1. d \in Int
    BY TodayIs
  <2> QED
    BY <2>1, <1>2, ListedIsBookable
<1>3. ASSUME NEW k \in Kinds, NEW next, next = AvailabilityNow(k, s).nextFree,
             next # Nothing, Day(next) =< Today + AdvanceDays
      PROVE  \E m \in Machines :
               Kind[m] = k /\ \E slot \in OperatingSlots(row[m].window, Today) :
                 slot.start = next /\ Bookable(s, m, slot)
  <2>1. PICK m \in Machines :
          Kind[m] = k /\ \E slot \in OpenLater(m, s) : slot.start = next
    BY <1>3, NextFreeIsOpen
  <2>2. PICK slot \in OpenLater(m, s) : slot.start = next
    BY <2>1
  <2>3. slot \in OperatingSlots(row[m].window, Today) /\ Bookable(s, m, slot)
    BY <2>2, <1>3, OpenIsBookable
  <2> QED
    BY <2>1, <2>2, <2>3
<1> QED
  BY <1>1, <1>2, <1>3

\* What a listing shows as free can be booked, and the next free slot of a
\* hostel's availability is one of some machine.
THEOREM ListedFreeIsFree == ViewsSpec => []FreeSlotsCanBeBooked
BY FreeSlotsBookable, ViewsInvariance, PTL

-----------------------------------------------------------------------------
(* Options for a move *)

RangeLoaded(n) ==
  LoadOverlapping(table, n, Midnight(Today), Midnight(Today + AdvanceDays + 1))

OptionsOn(n, s) ==
  UNION {SlotsIn({"free"}, table, RangeLoaded(n), row[n], n, s, d, clock) :
           d \in Today..(Today + AdvanceDays)}

Alike(b) == {n \in Installed : Kind[n] = Kind[table[b].machine] /\ ~row[n].offline}

\* A slot of a machine of the booking's kind, free among the bookings loaded.
LEMMA AnOption ==
  ASSUME ViewsInv, NEW b \in BookingIds, NEW o \in MoveOptions(b)
  PROVE  /\ table[b].status = "live" /\ table[b].start > clock
         /\ o[1] \in Machines /\ Kind[o[1]] = Kind[table[b].machine]
         /\ RulesAllow(table, table[b].student, o[1], o[2].start, clock, b)
         /\ \E d \in Today..(Today + AdvanceDays) :
              /\ o[2] \in OperatingSlots(row[o[1]].window, d)
              /\ SlotState(table, RangeLoaded(o[1]), row[o[1]], o[1], table[b].student, o[2], clock)
                   = "free"
<1>1. MoveOptions(b) =
        IF table[b].status # "live" \/ table[b].start =< clock THEN {}
        ELSE { p \in UNION {{n} \X OptionsOn(n, table[b].student) : n \in Alike(b)} :
                 RulesAllow(table, table[b].student, p[1], p[2].start, clock, b) }
  BY Zenon DEF MoveOptions, OptionsOn, RangeLoaded, Alike
<1>2. /\ ~(table[b].status # "live" \/ table[b].start =< clock)
      /\ o \in UNION {{n} \X OptionsOn(n, table[b].student) : n \in Alike(b)}
      /\ RulesAllow(table, table[b].student, o[1], o[2].start, clock, b)
  BY <1>1
<1>3. PICK n \in Alike(b) : o \in {n} \X OptionsOn(n, table[b].student)
  BY <1>2
<1>4. o[1] = n /\ o[2] \in OptionsOn(n, table[b].student)
  BY <1>3
<1>5. PICK d \in Today..(Today + AdvanceDays) :
        o[2] \in SlotsIn({"free"}, table, RangeLoaded(n), row[n], n, table[b].student, d, clock)
  BY <1>4 DEF OptionsOn
<1>6. /\ o[2] \in OperatingSlots(row[n].window, d)
      /\ SlotState(table, RangeLoaded(n), row[n], n, table[b].student, o[2], clock) = "free"
  BY <1>5 DEF SlotsIn
<1>7. n \in Machines /\ Kind[n] = Kind[table[b].machine]
  BY <1>3 DEF Alike, ViewsInv
<1>8. table[b].status = "live" /\ table[b].start > clock
  BY <1>2, ViewsTypes
<1> QED
  BY <1>2, <1>4, <1>6, <1>7, <1>8

LEMMA OptionsHonoured == ViewsInv => MoveOptionsHonoured
<1> SUFFICES ASSUME ViewsInv, NEW b \in BookingIds, NEW o \in MoveOptions(b),
                    ~CrossesMidnight(row[o[1]].window)
             PROVE  CanMove(b, o[1], o[2])
  BY DEF MoveOptionsHonoured
<1>1. PICK m, slot : m = o[1] /\ slot = o[2]
  OBVIOUS
<1>2. PICK from, to : from = Midnight(Today) /\ to = Midnight(Today + AdvanceDays + 1)
  OBVIOUS
<1>3. /\ table[b].status = "live" /\ table[b].start > clock
      /\ m \in Machines /\ Kind[m] = Kind[table[b].machine]
      /\ RulesAllow(table, table[b].student, m, slot.start, clock, b)
  BY <1>1, AnOption
<1>4. PICK d \in Today..(Today + AdvanceDays) :
        /\ slot \in OperatingSlots(row[m].window, d)
        /\ SlotState(table, LoadOverlapping(table, m, from, to),
                     row[m], m, table[b].student, slot, clock) = "free"
  BY <1>1, <1>2, AnOption DEF RangeLoaded
<1>5. d \in Int /\ Today \in Int /\ Today =< d /\ d =< Today + AdvanceDays
  BY TodayIs, Rules
<1>6. row[m].window \in Window
  BY <1>3, ViewsTypes
<1>7. /\ slot.start \in Int /\ slot.end \in Int
      /\ Midnight(d) =< slot.start /\ slot.end =< Midnight(d) + DayLen
  BY <1>1, <1>4, <1>5, <1>6, SlotTimes
<1>8. from \in Int /\ to \in Int /\ from =< slot.start /\ slot.end =< to
  <2>1. /\ Midnight(d) \in Int /\ Midnight(Today) \in Int
        /\ Today + AdvanceDays + 1 \in Int /\ Midnight(Today + AdvanceDays + 1) \in Int
    BY <1>5, NextMidnight, Rules
  <2>2. Midnight(Today) =< Midnight(d)
    BY <1>5, <2>1, LaterMidnight, Rules
  <2>3. Midnight(d) + DayLen =< Midnight(Today + AdvanceDays + 1)
    BY <1>5, <2>1, LaterMidnight, Rules
  <2> QED
    BY <1>2, <1>7, <2>1, <2>2, <2>3, Rules
<1>9. /\ ~row[m].offline
      /\ \A c \in LiveRows(table, m) : ~Meets(table[c], slot.start, slot.end)
  BY <1>3, <1>4, <1>7, <1>8, FreeSlot
<1>10. slot # Nothing
  BY <1>4, <1>5, <1>6, Resolves
<1> QED
  BY <1>1, <1>3, <1>9, <1>10 DEF CanMove, Claimable

\* What move_options offers can be moved to, where windows end by midnight.
THEOREM OptionsCanBeTaken == ViewsSpec => []MoveOptionsHonoured
BY OptionsHonoured, ViewsInvariance, PTL

-----------------------------------------------------------------------------
(* The preview of a change of hours *)

\* A live booking that lies ahead keeps its place if its start is on the new
\* grid within the horizon of the preview.
LEMMA StrandedOnly ==
  ASSUME ViewsInv, NEW m \in Machines, NEW w \in Windows, ChangeHours(m, w, TRUE),
         w.length = row[m].window.length,
         NEW b \in LiveRows(table, m), table[b].start > clock
  PROVE  LET stays == ResolveSlot(w, table[b].start) # Nothing IN
         /\ table'[b].status = "live" => stays
         /\ stays /\ ~CrossesMidnight(w) /\ Day(table[b].start) < Today + Horizon
              => table'[b].status = "live"
<1>1. /\ b \in BookingIds /\ table[b].status = "live" /\ table[b].machine = m
      /\ table[b].start \in Nat /\ table[b].end \in Nat /\ table[b].start < table[b].end
  BY ViewsTypes DEF LiveRows, ViewsInv, LiveRow
<1>2. w \in Window
  BY ViewsAssumption
<1>3. [w EXCEPT !.length = row[m].window.length] = w
  BY <1>2 DEF Window
<1>4. HoursImpact(m, w) =
        {c \in UpcomingOf(table, m, clock) :
           \A d \in Today..(Today + Horizon - 1) :
             \A slot \in OperatingSlots(w, d) : slot.start # table[c].start}
  BY <1>3, Zenon DEF HoursImpact
<1>5. b \in UpcomingOf(table, m, clock)
  BY <1>1, ViewsTypes DEF UpcomingOf
<1>6. table' = ForcedOff(HoursImpact(m, w))
  BY Zenon DEF ChangeHours
<1>7. table'[b].status = "live" <=> b \notin HoursImpact(m, w)
  BY <1>1, <1>6, ForcedRows
<1>8. ASSUME table'[b].status = "live" PROVE ResolveSlot(w, table[b].start) # Nothing
  <2>1. PICK d \in Today..(Today + Horizon - 1) :
          \E slot \in OperatingSlots(w, d) : slot.start = table[b].start
    BY <1>4, <1>5, <1>7, <1>8
  <2>2. d \in Int
    BY TodayIs, Rules
  <2> QED
    BY <1>2, <2>1, <2>2, Resolves
<1>9. ASSUME ResolveSlot(w, table[b].start) # Nothing, ~CrossesMidnight(w),
             Day(table[b].start) < Today + Horizon
      PROVE  table'[b].status = "live"
  <2>1. PICK t : t = table[b].start
    OBVIOUS
  <2>2. t \in Int /\ ResolveSlot(w, t) # Nothing
    BY <1>1, <1>9, <2>1
  <2>3. Day(t) \in Int /\ ResolveSlot(w, t) \in OperatingSlots(w, Day(t)) /\ ResolveSlot(w, t).start = t
    BY <1>2, <1>9, <2>2, Resolved, InDay
  <2>4. Today =< Day(t)
    BY <2>1, <2>2, DayGrows, ViewsTypes DEF Today
  <2>5. Day(t) \in Today..(Today + Horizon - 1)
    BY <2>1, <2>3, <2>4, <1>9, TodayIs, Rules
  <2> QED
    BY <1>4, <1>7, <2>1, <2>3, <2>5
<1> QED
  BY <1>8, <1>9

\* What every step keeps to, HoursCancelTheStranded without its box.
HoursStep ==
  \A m \in Installed, w \in Windows :
    (ChangeHours(m, w, TRUE) /\ w.length = row[m].window.length) =>
      \A b \in LiveRows(table, m) :
        table[b].start > clock =>
          LET stays == ResolveSlot(w, table[b].start) # Nothing IN
          /\ table'[b].status = "live" => stays
          /\ stays /\ ~CrossesMidnight(w) /\ Day(table[b].start) < Today + Horizon
               => table'[b].status = "live"

\* A change of hours cancels the bookings it strands, and no others within the
\* horizon of its preview.
THEOREM StrandedAreCancelled == ViewsSpec => HoursCancelTheStranded
<1>1. ViewsInv => HoursStep
  <2> SUFFICES ASSUME ViewsInv PROVE HoursStep
    OBVIOUS
  <2>1. Installed = Machines
    BY DEF ViewsInv
  <2> QED
    BY <2>1, StrandedOnly DEF HoursStep
<1>2. ViewsInv => [HoursStep]_viewVars
  BY <1>1
<1>3. HoursCancelTheStranded <=> [][HoursStep]_viewVars
  BY PTL DEF HoursCancelTheStranded, HoursStep
<1> QED
  BY <1>2, <1>3, ViewsInvariance, PTL

-----------------------------------------------------------------------------
(* The profile and the committee's grid *)

LEMMA DriesCharged == ViewsInv => DriesShownAreCharged
<1> SUFFICES ASSUME ViewsInv, DryerCap, NEW s \in Students
             PROVE  DriesShown(s) =< QuotaUsed(table, s, "dryer", QuotaWeek(clock), Nothing)
  BY DEF DriesShownAreCharged
<1> DEFINE shown == {b \in BookingIds :
                       /\ table[b].status = "live" /\ table[b].student = s
                       /\ Kind[table[b].machine] = "dryer"
                       /\ QuotaWeek(table[b].start) = QuotaWeek(clock)}
           rows == QuotaRows(table, s, "dryer", QuotaWeek(clock), Nothing)
<1>1. DOMAIN table = BookingIds /\ Nothing \notin BookingIds
  BY ViewsTypes, ViewsAssumption
<1>2. \A b \in BookingIds : table[b].status = "live" => table[b].counts
  BY DEF ViewsInv, LiveRow, CountsTowardQuota
<1>3. shown \subseteq rows
  BY <1>1, <1>2 DEF QuotaRows
<1>4. rows \subseteq UsedRows
  BY <1>1 DEF QuotaRows, UsedRows
<1>5. IsFiniteSet(rows)
  BY <1>4, Smaller DEF ViewsInv
<1>6. Cardinality(shown) =< Cardinality(rows)
  BY <1>3, <1>5, Smaller
<1> QED
  BY <1>6 DEF DriesShown, QuotaUsed

\* The profile's count of dryer slots is never above what the quota charges.
THEOREM ShownIsCharged == ViewsSpec => []DriesShownAreCharged
BY DriesCharged, ViewsInvariance, PTL

\* A booking on the grid of a window that ends by midnight is a slot of its day.
LEMMA OnGridIsSlot ==
  ASSUME ViewsInv, NEW b \in BookingIds, table[b].machine \in Machines, OnGrid(b),
         ~CrossesMidnight(row[table[b].machine].window)
  PROVE  \E slot \in OperatingSlots(row[table[b].machine].window, Day(table[b].start)) :
           slot.start = table[b].start /\ slot.end = table[b].end
<1>1. PICK w, t, slot :
        /\ w = row[table[b].machine].window /\ t = table[b].start
        /\ slot = [start |-> table[b].start, end |-> table[b].end]
  OBVIOUS
<1>2. w \in Window /\ t \in Int
  BY <1>1, ViewsTypes
<1>3. slot \in [start : Int, end : Int] /\ slot.start = t /\ slot.end = table[b].end
  BY <1>1, ViewsTypes
<1>4. ResolveSlot(w, t) = slot
  BY <1>1 DEF OnGrid
<1>5. ResolveSlot(w, t) # Nothing
  BY <1>3, <1>4, GridAssumption
<1>6. slot \in OperatingSlots(w, Day(t))
  BY <1>1, <1>2, <1>4, <1>5, Resolved
<1> QED
  BY <1>1, <1>3, <1>6

\* Two slots of one day that start within one hour are one, where slots take
\* an hour at least.
LEMMA OneSlotAnHour ==
  ASSUME NEW w \in Window, ~CrossesMidnight(w), w.length >= HourLen, NEW d \in Int,
         NEW p \in OperatingSlots(w, d), NEW q \in OperatingSlots(w, d),
         HourOf(p.start) = HourOf(q.start)
  PROVE  p = q
<1>1. /\ p.start \in Int /\ q.start \in Int /\ w.length \in Nat
      /\ p = [start |-> p.start, end |-> p.start + w.length]
      /\ q = [start |-> q.start, end |-> q.start + w.length]
  BY SlotTimes
<1>2. PICK x, y : x = p.start /\ y = q.start
  OBVIOUS
<1>3. Day(x) = d /\ Day(y) = d /\ x \in Int /\ y \in Int /\ HourOf(x) = HourOf(y)
  BY <1>1, <1>2, SlotDay
<1>4. PICK n \in Nat : n = HourOf(x) * HourLen
  BY <1>3, InHour
<1>5. /\ Midnight(d) \in Int /\ n =< x - Midnight(d) /\ x - Midnight(d) < n + HourLen
      /\ n =< y - Midnight(d) /\ y - Midnight(d) < n + HourLen
  BY <1>3, <1>4, InHour, NextMidnight
<1>6. ~(x < y)
  <2> SUFFICES ASSUME x < y PROVE FALSE
    OBVIOUS
  <2>1. x + w.length =< y
    BY <1>2, SlotsApart
  <2> QED
    BY <2>1, <1>1, <1>3, <1>5, Rules
<1>7. ~(y < x)
  <2> SUFFICES ASSUME y < x PROVE FALSE
    OBVIOUS
  <2>1. y + w.length =< x
    BY <1>2, SlotsApart
  <2> QED
    BY <2>1, <1>1, <1>3, <1>5, Rules
<1>8. x = y
  BY <1>3, <1>6, <1>7
<1> QED
  BY <1>1, <1>2, <1>8

LEMMA GridShows == ViewsInv => GridShowsBookings
<1> SUFFICES ASSUME ViewsInv, NEW b \in BookingIds, NEW m, m = table[b].machine,
                    table[b].status = "live", ~row[m].offline, AllOnGrid(m),
                    ~CrossesMidnight(row[m].window), row[m].window.length >= HourLen,
                    HourOf(table[b].start) \in GridHours
             PROVE  Cell(m, Day(table[b].start), HourOf(table[b].start)) = {b}
  BY DEF GridShowsBookings
<1>1. PICK w, d, h : w = row[m].window /\ d = Day(table[b].start) /\ h = HourOf(table[b].start)
  OBVIOUS
<1>2. m \in Machines
  BY DEF ViewsInv, LiveRow
<1>3. w \in Window /\ table[b].start \in Int /\ d \in Int
  BY <1>1, <1>2, ViewsTypes, InDay
<1>4. \A c \in LiveRows(table, m) : c \in BookingIds /\ table[c].machine = m /\ OnGrid(c)
  BY ViewsTypes DEF LiveRows, AllOnGrid
<1>5. b \in LiveRows(table, m)
  BY ViewsTypes DEF LiveRows
<1>6. ASSUME NEW c \in LiveRows(table, m), Day(table[c].start) = d
      PROVE  \E slot \in OperatingSlots(w, d) :
               slot.start = table[c].start /\ slot.end = table[c].end
  BY <1>1, <1>2, <1>4, <1>6, OnGridIsSlot
<1>7. PICK p \in OperatingSlots(w, d) : p.start = table[b].start /\ p.end = table[b].end
  BY <1>1, <1>5, <1>6
<1>8. ~CellClosed(m, d, h)
  BY <1>1, <1>7 DEF CellClosed
<1>9. ASSUME NEW c \in StartingIn(m, d, h) PROVE c = b
  <2>1. c \in LiveRows(table, m) /\ Day(table[c].start) = d /\ HourOf(table[c].start) = h
    BY DEF StartingIn
  <2>2. PICK q \in OperatingSlots(w, d) : q.start = table[c].start /\ q.end = table[c].end
    BY <2>1, <1>6
  <2>3. p = q
    BY <1>1, <1>3, <1>7, <2>1, <2>2, OneSlotAnHour
  <2>4. table[c].start = table[b].start /\ table[c].end = table[b].end
    BY <1>7, <2>2, <2>3
  <2>5. table[b].start < table[b].end /\ table[b].machine = m
    BY DEF ViewsInv, LiveRow
  <2>6. table[c].status = "live" /\ table[c].machine = m /\ c \in BookingIds
    BY <2>1, <1>4 DEF LiveRows
  <2>7. Meets(table[c], table[b].start, table[b].end)
    BY <2>4, <2>5 DEF Meets
  <2> QED
    BY <2>5, <2>6, <2>7 DEF ViewsInv, Disjoint
<1>10. b \in StartingIn(m, d, h)
  BY <1>1, <1>5 DEF StartingIn
<1>11. StartingIn(m, d, h) = {b}
  BY <1>9, <1>10
<1>12. h \in GridHours
  BY <1>1
<1> QED
  BY <1>1, <1>8, <1>11, <1>12 DEF Cell

\* Each cell of the committee's grid shows the booking that starts in it, and none
\* hides behind another, on machines in service with slots of an hour at least, a
\* window that ends by midnight, and all bookings on their grid.
THEOREM GridShowsAll == ViewsSpec => []GridShowsBookings
BY GridShows, ViewsInvariance, PTL

-----------------------------------------------------------------------------
(* Free until *)

\* A booking on a slot of today that is not over yet makes it run or be taken.
LEMMA HeldSlotShows ==
  ASSUME ViewsInv, NEW m \in Machines, NEW s, ~row[m].offline,
         NEW b \in LiveRows(table, m), table[b].end > clock,
         NEW slot \in OperatingSlots(row[m].window, Today),
         slot.start = table[b].start, slot.end = table[b].end
  PROVE  \/ slot \in TodaysSlots({"running"}, m, s)
         \/ slot \in TodaysSlots({"taken", "mine"}, m, s) /\ slot.start > clock
<1>1. PICK covering : covering = Covering(table, LoadedToday(m), slot)
  OBVIOUS
<1>2. Today \in Int
  BY TodayIs
<1>3. /\ slot.start \in Int /\ slot.end \in Int /\ slot.start < slot.end
      /\ Midnight(Today) \in Int /\ Midnight(Today + 2) \in Int
      /\ Midnight(Today) =< slot.start /\ slot.end =< Midnight(Today + 2)
  BY <1>2, WithinRange, SlotTimes, ViewsTypes
<1>4. covering = {c \in LiveRows(table, m) : Meets(table[c], slot.start, slot.end)}
  BY <1>1, <1>3, LoadedEnough DEF LoadedToday
<1>5. b \in covering
  BY <1>3, <1>4 DEF Meets
<1>6. ~(clock >= slot.end)
  BY <1>3, ViewsTypes
<1>7. CASE slot.start =< clock
  <2>1. SlotState(table, LoadedToday(m), row[m], m, s, slot, clock) = "running"
    BY <1>6, <1>7 DEF SlotState
  <2> QED
    BY <2>1 DEF TodaysSlots, SlotsIn
<1>8. CASE ~(slot.start =< clock)
  <2>1. SlotState(table, LoadedToday(m), row[m], m, s, slot, clock) \in {"taken", "mine"}
    BY <1>1, <1>5, <1>6, <1>8 DEF SlotState
  <2>2. slot.start > clock
    BY <1>8, <1>3, ViewsTypes
  <2> QED
    BY <2>1, <2>2 DEF TodaysSlots, SlotsIn
<1> QED
  BY <1>7, <1>8

\* What "free until" names: the start of a slot of today that is not before the
\* first one taken, or the end of one.
LEMMA FreeUntilIs ==
  ASSUME ViewsInv, NEW m \in Machines, NEW s, ~CrossesMidnight(row[m].window),
         FreeUntil(m, s) # Nothing
  PROVE  /\ ~row[m].offline /\ TodaysSlots({"running"}, m, s) = {}
         /\ FreeUntil(m, s) \in Int /\ FreeUntil(m, s) =< Midnight(Today) + DayLen
         /\ \A slot \in TodaysSlots({"taken", "mine"}, m, s) :
              slot.start > clock => FreeUntil(m, s) =< slot.start
<1>1. PICK taken : taken = {slot \in TodaysSlots({"taken", "mine"}, m, s) : slot.start > clock}
  OBVIOUS
<1>2. PICK ends : ends = {slot.end : slot \in TodaysSlots(AllStates, m, s)}
  OBVIOUS
<1>3. FreeUntil(m, s) =
        IF Status(m, s) # "free" THEN Nothing
        ELSE IF taken # {} THEN First(taken).start
        ELSE IF ends # {} /\ Max(ends) > clock THEN Max(ends) ELSE Nothing
  BY <1>1, <1>2, Zenon DEF FreeUntil
<1>4. Status(m, s) = "free"
  BY <1>3
<1>5. ~row[m].offline /\ TodaysSlots({"running"}, m, s) = {}
  BY <1>4 DEF Status
<1>6. \A states : \A slot \in TodaysSlots(states, m, s) :
        slot \in OperatingSlots(row[m].window, Today)
  BY DEF TodaysSlots, SlotsIn
<1>7. Today \in Nat /\ Midnight(Today) \in Nat /\ row[m].window \in Window
  BY TodayIs, ViewsTypes
<1>8. \A slot \in OperatingSlots(row[m].window, Today) :
        /\ slot.start \in Nat /\ slot.end \in Nat /\ slot.start < slot.end
        /\ slot.end =< Midnight(Today) + DayLen
  <2> SUFFICES ASSUME NEW slot \in OperatingSlots(row[m].window, Today)
               PROVE  /\ slot.start \in Nat /\ slot.end \in Nat /\ slot.start < slot.end
                      /\ slot.end =< Midnight(Today) + DayLen
    OBVIOUS
  <2>1. /\ slot.start \in Int /\ slot.end \in Int /\ slot.start < slot.end
        /\ Midnight(Today) =< slot.start /\ slot.end =< Midnight(Today) + DayLen
    BY <1>7, SlotTimes
  <2> QED
    BY <2>1, <1>7
<1>9. CASE taken # {}
  <2>1. \A slot \in taken :
          /\ slot.start \in Nat /\ slot.end \in Nat /\ slot.start < slot.end
          /\ slot.end =< Midnight(Today) + DayLen
    BY <1>1, <1>6, <1>8
  <2>2. First(taken) \in taken /\ \A r \in taken : First(taken).start =< r.start
    BY <1>9, <2>1, FirstOfThem
  <2>3. FreeUntil(m, s) = First(taken).start
    BY <1>3, <1>4, <1>9
  <2>4. FreeUntil(m, s) \in Int /\ FreeUntil(m, s) =< Midnight(Today) + DayLen
    BY <2>1, <2>2, <2>3, <1>7, Rules
  <2> QED
    BY <1>1, <1>5, <2>2, <2>3, <2>4
<1>10. CASE taken = {}
  <2>1. ends # {} /\ FreeUntil(m, s) = Max(ends)
    BY <1>3, <1>4, <1>10
  <2>2. PICK B : B = Midnight(Today) + DayLen
    OBVIOUS
  <2>3. B \in Nat
    BY <2>2, <1>7, Rules
  <2>4. \A t \in ends : t \in 0..B
    BY <1>2, <1>6, <1>8, <2>2
  <2>5. PICK t \in ends : \A u \in ends : u =< t
    BY <2>1, <2>3, <2>4, Largest
  <2>6. \A u \in ends : t >= u
    BY <2>5, <2>4
  <2>7. Max(ends) \in ends
    BY <2>6 DEF Max
  <2> QED
    BY <1>1, <1>5, <1>10, <2>1, <2>2, <2>4, <2>7
<1> QED
  BY <1>9, <1>10

LEMMA UntilIsFree == ViewsInv => FreeUntilIsFree
<1> SUFFICES ASSUME ViewsInv, NEW m \in Machines, NEW s \in Students \cup {Nothing},
                    ~CrossesMidnight(row[m].window), AllOnGrid(m), FreeUntil(m, s) # Nothing,
                    NEW b \in LoadOverlapping(table, m, clock, FreeUntil(m, s))
             PROVE  FALSE
  BY DEF FreeUntilIsFree, ViewsInv
<1>1. PICK u : u = FreeUntil(m, s)
  OBVIOUS
<1>2. /\ ~row[m].offline /\ TodaysSlots({"running"}, m, s) = {}
      /\ u \in Int /\ u =< Midnight(Today) + DayLen
      /\ \A slot \in TodaysSlots({"taken", "mine"}, m, s) : slot.start > clock => u =< slot.start
  BY <1>1, FreeUntilIs
<1>3. /\ b \in LiveRows(table, m) /\ b \in BookingIds /\ table[b].machine = m
      /\ table[b].start < u /\ table[b].end > clock
  BY <1>1, ViewsTypes DEF LoadOverlapping, LiveRows, Meets
<1>4. PICK d : d = Day(table[b].start)
  OBVIOUS
<1>5. d \in Int /\ row[m].window \in Window
  BY <1>3, <1>4, InDay, ViewsTypes
<1>6. PICK slot \in OperatingSlots(row[m].window, d) :
        slot.start = table[b].start /\ slot.end = table[b].end
  BY <1>3, <1>4, OnGridIsSlot DEF AllOnGrid
<1>7. /\ slot.start \in Int /\ slot.end \in Int
      /\ Midnight(d) =< slot.start /\ slot.end =< Midnight(d) + DayLen
  BY <1>5, SlotTimes
<1>8. /\ Today \in Int /\ Midnight(Today) \in Int /\ Midnight(d) \in Int
      /\ Midnight(Today) =< clock /\ clock < Midnight(Today) + DayLen /\ clock \in Int
  BY TodayIs, NextMidnight, <1>5, ViewsTypes
<1>9. ~(d < Today)
  <2> SUFFICES ASSUME d < Today PROVE FALSE
    OBVIOUS
  <2>1. Midnight(d) + DayLen =< Midnight(Today)
    BY <1>5, <1>8, LaterMidnight
  <2> QED
    BY <2>1, <1>3, <1>6, <1>7, <1>8, Rules
<1>10. ~(Today < d)
  <2> SUFFICES ASSUME Today < d PROVE FALSE
    OBVIOUS
  <2>1. Midnight(Today) + DayLen =< Midnight(d)
    BY <1>5, <1>8, LaterMidnight
  <2> QED
    BY <2>1, <1>2, <1>3, <1>6, <1>7, <1>8, Rules
<1>11. d = Today
  BY <1>5, <1>8, <1>9, <1>10
<1>12. \/ slot \in TodaysSlots({"running"}, m, s)
       \/ slot \in TodaysSlots({"taken", "mine"}, m, s) /\ slot.start > clock
  BY <1>2, <1>3, <1>6, <1>11, HeldSlotShows
<1> QED
  BY <1>2, <1>3, <1>6, <1>7, <1>12

\* Until the time that a machine's card gives nobody holds the machine, if its
\* window ends by midnight and its bookings are all on its grid.
THEOREM FreeUntilThen == ViewsSpec => []FreeUntilIsFree
BY UntilIsFree, ViewsInvariance, PTL

-----------------------------------------------------------------------------
(* Asking for a date and an hour *)

\* Of a grid that lies on the full hours, a slot starts on a full hour.
LEMMA OnTheHour ==
  ASSUME NEW w \in Window, w.from % HourLen = 0, w.length % HourLen = 0, NEW d \in Int,
         NEW slot \in OperatingSlots(w, d)
  PROVE  slot.start = Midnight(Day(slot.start)) + HourOf(slot.start) * HourLen
<1>1. PICK k \in 0..(SafetyCap - 1) :
        slot = [ start |-> Midnight(d) + w.from + k * w.length,
                 end   |-> Midnight(d) + w.from + (k + 1) * w.length ]
  BY SlotIs
<1>2. PICK x : x = slot.start
  OBVIOUS
<1>3. /\ x = Midnight(d) + w.from + k * w.length /\ k \in Nat
      /\ w.from \in Nat /\ w.length \in Nat
  BY <1>1, <1>2, Rules DEF Window
<1>a. \A f \in Nat : f % HourLen = 0 =>
        f = (f \div HourLen) * HourLen /\ f \div HourLen \in Int
  BY Rules
<1>4. PICK i \in Int : DayLen = i * HourLen
  <2>1. DayLen = (DayLen \div HourLen) * HourLen /\ DayLen \div HourLen \in Int
    BY Rules
  <2> QED
    BY <2>1
<1>5. PICK j \in Int : w.from = j * HourLen
  <2>1. w.from = (w.from \div HourLen) * HourLen /\ w.from \div HourLen \in Int
    BY <1>3, <1>a
  <2> QED
    BY <2>1
<1>6. PICK n \in Int : w.length = n * HourLen
  <2>1. w.length = (w.length \div HourLen) * HourLen /\ w.length \div HourLen \in Int
    BY <1>3, <1>a
  <2> QED
    BY <2>1
<1>7. PICK e \in Int : e = Day(x)
  BY <1>1, <1>2, SlotTimes, InDay
<1>8. x - Midnight(e) = (d * i + j + k * n - e * i) * HourLen
  BY <1>3, <1>4, <1>5, <1>6, <1>7, Rules DEF Midnight
<1>9. PICK z \in Int : z = d * i + j + k * n - e * i
  BY <1>3, <1>4, <1>5, <1>6, <1>7
<1>10. PICK h \in Nat : h = HourOf(x)
  BY <1>2, SlotTimes, InHour
<1>11. h * HourLen =< z * HourLen /\ z * HourLen < h * HourLen + HourLen
  BY <1>2, <1>7, <1>8, <1>9, <1>10, SlotTimes, InHour
<1>12. z = h
  <2>1. \A p, q \in Int : p < q => p * HourLen + HourLen =< q * HourLen
    BY Rules
  <2>2. z * HourLen \in Int /\ h * HourLen \in Int
    BY Rules
  <2>3. ~(z < h)
    BY <2>1, <2>2, <1>11, Rules
  <2>4. ~(h < z)
    BY <2>1, <2>2, <1>11, Rules
  <2> QED
    BY <2>3, <2>4
<1>13. x = Midnight(e) + h * HourLen
  <2>1. x \in Int /\ Midnight(e) \in Int
    BY <1>2, SlotTimes, NextMidnight
  <2> QED
    BY <2>1, <1>8, <1>9, <1>12, Rules
<1> QED
  BY <1>2, <1>7, <1>10, <1>13

\* The slot that a date and an hour name.
LEMMA AskedIsOfTheHour ==
  ASSUME NEW w \in Window, NEW d \in Nat, NEW h \in 0..(DayLen \div HourLen - 1),
         ~CrossesMidnight(w) \/ (w.from % HourLen = 0 /\ w.length % HourLen = 0),
         NEW slot, slot = SlotFromDateHour(w, d, h), slot # Nothing
  PROVE  /\ Day(slot.start) = d /\ HourOf(slot.start) = h
         /\ ~CrossesMidnight(w) => slot \in OperatingSlots(w, d)
<1>1. PICK t : t = Midnight(d) + h * HourLen
  OBVIOUS
<1>2. t \in Int /\ Day(t) = d /\ HourOf(t) = h /\ d \in Int
  BY <1>1, FullHour
<1>3. \/ ResolveSlot(w, t) # Nothing /\ slot = ResolveSlot(w, t)
      \/ ResolveSlot(w, t) = Nothing /\ slot \in OperatingSlots(w, d) /\ HourOf(slot.start) = h
  BY <1>1, AskedIsSlot
<1>4. CASE ResolveSlot(w, t) # Nothing
  <2>1. PICK e \in Int :
          /\ slot \in OperatingSlots(w, e) /\ slot.start = t
          /\ ~CrossesMidnight(w) => e = Day(t)
    BY <1>2, <1>3, <1>4, Resolved
  <2> QED
    BY <2>1, <1>2
<1>5. CASE ResolveSlot(w, t) = Nothing
  <2>1. slot \in OperatingSlots(w, d) /\ HourOf(slot.start) = h
    BY <1>3, <1>5
  <2>2. CASE ~CrossesMidnight(w)
    BY <2>1, <2>2, <1>2, SlotDay
  <2>3. CASE CrossesMidnight(w) /\ Day(slot.start) # d
    <3>1. Day(slot.start) = d + 1
      BY <2>1, <2>3, <1>2, SlotDay
    <3>2. slot.start = Midnight(d + 1) + h * HourLen
      BY <2>1, <2>3, <3>1, <1>2, OnTheHour
    <3>3. PICK q \in OperatingSlots(w, d - 1) : q.start = slot.start - DayLen
      BY <2>1, <1>2, SlotYesterday
    <3>4. Midnight(d + 1) = Midnight(d) + DayLen /\ Midnight(d) \in Int /\ h * HourLen \in Int
      BY <1>2, NextMidnight, Rules
    <3>5. q.start = t
      BY <3>2, <3>3, <3>4, <1>1, Rules
    <3>6. d - 1 \in Int
      BY <1>2
    <3>7. ResolveSlot(w, t) # Nothing
      BY <3>3, <3>5, <3>6, Resolves
    <3> QED
      BY <3>7, <1>5
  <2> QED
    BY <2>1, <2>2, <2>3
<1> QED
  BY <1>4, <1>5

\* What a search finds is a slot of the day of that machine.
LEMMA FoundIsSlot ==
  ASSUME ViewsInv, NEW s, NEW k, NEW d, NEW found \in FindAvailableSlots(s, k, d)
  PROVE  found[2] \in OperatingSlots(row[found[1]].window, d)
<1>1. PICK m \in {n \in Installed : Kind[n] = k} :
        found \in {m} \X DayListing({"free"}, table, row[m], m, s, d, clock)
  BY DEF FindAvailableSlots
<1>2. found[1] = m /\ found[2] \in DayListing({"free"}, table, row[m], m, s, d, clock)
  BY <1>1
<1> QED
  BY <1>2 DEF DayListing, SlotsIn

LEMMA FoundIsBooked == ViewsInv => FoundSlotsAreBooked
<1> SUFFICES ASSUME ViewsInv, NEW m \in Machines, NEW d \in Today..(Today + AdvanceDays),
                    NEW h \in 0..(DayLen \div HourLen - 1),
                    NEW w, w = row[m].window, NEW slot, slot = SlotFromDateHour(w, d, h)
             PROVE  /\ (~CrossesMidnight(w) \/ (w.from % HourLen = 0 /\ w.length % HourLen = 0))
                         /\ slot # Nothing
                       => Day(slot.start) = d /\ HourOf(slot.start) = h
                    /\ ~CrossesMidnight(w) /\ w.length >= HourLen =>
                         \A s \in Students :
                           \A found \in FindAvailableSlots(s, Kind[m], d) :
                             found[1] = m /\ HourOf(found[2].start) = h => slot = found[2]
  BY DEF FoundSlotsAreBooked, AskedFor, ViewsInv
<1>1. w \in Window /\ d \in Nat /\ d \in Int
  BY ViewsTypes, TodayIs, Rules
<1>2. ASSUME ~CrossesMidnight(w) \/ (w.from % HourLen = 0 /\ w.length % HourLen = 0),
             slot # Nothing
      PROVE  Day(slot.start) = d /\ HourOf(slot.start) = h
  BY <1>1, <1>2, AskedIsOfTheHour
<1>3. ASSUME ~CrossesMidnight(w), w.length >= HourLen, NEW s \in Students,
             NEW found \in FindAvailableSlots(s, Kind[m], d), found[1] = m,
             HourOf(found[2].start) = h
      PROVE  slot = found[2]
  <2>1. PICK p : p = found[2]
    OBVIOUS
  <2>2. p \in OperatingSlots(w, d) /\ HourOf(p.start) = h
    BY <1>3, <2>1, FoundIsSlot
  <2>3. slot # Nothing
    <3> SUFFICES ASSUME slot = Nothing PROVE FALSE
      OBVIOUS
    <3> DEFINE later == {q \in OperatingSlots(w, d) : HourOf(q.start) = h}
    <3>1. later # {} /\ \A q \in later : q.start \in Nat /\ q # Nothing
      <4>1. p \in later
        BY <2>2
      <4>2. Midnight(d) \in Nat
        BY <1>1, Rules DEF Midnight
      <4>3. \A q \in OperatingSlots(w, d) : q.start \in Int /\ Midnight(d) =< q.start /\ q # Nothing
        BY <1>1, SlotTimes, Resolves
      <4> QED
        BY <4>1, <4>2, <4>3
    <3>2. ResolveSlot(w, Midnight(d) + h * HourLen) = Nothing /\ FirstOrNothing(later) = Nothing
      BY DEF SlotFromDateHour
    <3>3. First(later) \in later
      BY <3>1, FirstOfThem
    <3> QED
      BY <3>1, <3>2, <3>3 DEF FirstOrNothing
  <2>4. slot \in OperatingSlots(w, d) /\ HourOf(slot.start) = h
    BY <1>1, <1>3, <2>3, AskedIsOfTheHour
  <2> QED
    BY <1>1, <1>3, <2>1, <2>2, <2>4, OneSlotAnHour
<1> QED
  BY <1>2, <1>3

\* A date and an hour, of which the assistants' tools make a slot, name the slot
\* that was found to be free.
THEOREM FoundCanBeBooked == ViewsSpec => []FoundSlotsAreBooked
BY FoundIsBooked, ViewsInvariance, PTL

-----------------------------------------------------------------------------
(* The chart *)

LEMMA BookedSum ==
  ASSUME AnalyticsTypeOK
  PROVE  /\ \A c \in Stored : booked[c] \in Nat
         /\ LiveBookings \in Nat
BY AnalyticsAssumption DEF AnalyticsTypeOK, LiveBookings, Stored, Declarable

LEMMA Counts ==
  ASSUME AnalyticsTypeOK
  PROVE  /\ \A name \in Palette : CountOf(name) \in Nat
         /\ CountOf("Android") + CountOf("iOS") + CountOf("WhatsApp")
              + CountOf("Website") + CountOf("Assistant") = LiveBookings
<1>1. /\ DisplayName["app"] = "Android" /\ DisplayName["android"] = "Android"
      /\ DisplayName["ios"] = "iOS" /\ DisplayName["whatsapp"] = "WhatsApp"
      /\ DisplayName["website"] = "Website" /\ DisplayName["mcp"] = "Assistant"
  BY DEF DisplayName, Stored, Declarable
<1>2. /\ booked["app"] \in Nat /\ booked["android"] \in Nat /\ booked["ios"] \in Nat
      /\ booked["website"] \in Nat /\ booked["mcp"] \in Nat /\ booked["whatsapp"] \in Nat
  BY BookedSum DEF Stored, Declarable
<1>3. /\ CountOf("Android") = booked["app"] + booked["android"]
      /\ CountOf("iOS") = booked["ios"] /\ CountOf("WhatsApp") = booked["whatsapp"]
      /\ CountOf("Website") = booked["website"] /\ CountOf("Assistant") = booked["mcp"]
  BY <1>1, <1>2 DEF CountOf, ShownAs
<1> QED
  <2>1. \A name \in Palette : CountOf(name) \in Nat
    BY <1>2, <1>3 DEF Palette
  <2> QED
    BY <2>1, <1>2, <1>3 DEF LiveBookings

\* Rounding is off by half a point at most.
LEMMA Rounding ==
  ASSUME NEW n \in Nat, NEW total \in Nat, total > 0
  PROVE  /\ Percent(n, total) \in Nat
         /\ 2 * (Percent(n, total) * total - 100 * n) =< total
         /\ 2 * (100 * n - Percent(n, total) * total) =< total
<1>1. PICK m \in Nat : m = 100 * n
  OBVIOUS
<1>2. PICK q \in Nat, r \in Nat : q = m \div total /\ r = m % total
  OBVIOUS
<1>3. m = q * total + r /\ r < total
  BY <1>2
<1>4. (q + 1) * total = q * total + total /\ q * total \in Nat
  OBVIOUS
<1>5. \/ Percent(n, total) = q /\ 2 * r =< total
      \/ Percent(n, total) = q + 1 /\ 2 * r >= total
  BY <1>1, <1>2 DEF Percent, HalfGoesUp
<1> QED
  BY <1>1, <1>3, <1>4, <1>5

LEMMA AnalyticsStart == AnalyticsInit => AnalyticsTypeOK
BY AnalyticsAssumption DEF AnalyticsInit, AnalyticsTypeOK, LiveBookings, Stored, Declarable

\* One channel's count changes.
LEMMA CountChanges ==
  ASSUME AnalyticsTypeOK, NEW c \in Declarable, NEW n \in Nat, booked' = [booked EXCEPT ![c] = n],
         LiveBookings - booked[c] + n =< MaxBooked
  PROVE  AnalyticsTypeOK'
<1>1. \A d \in Stored : booked[d] \in Nat
  BY BookedSum
<1>2. /\ booked["app"] \in Nat /\ booked["android"] \in Nat /\ booked["ios"] \in Nat
      /\ booked["website"] \in Nat /\ booked["mcp"] \in Nat /\ booked["whatsapp"] \in Nat
  BY <1>1 DEF Stored, Declarable
<1>3. \A d \in Stored : booked'[d] = IF d = c THEN n ELSE booked[d]
  BY DEF AnalyticsTypeOK
<1>4. booked'["whatsapp"] = 0 /\ DOMAIN booked' = Stored /\ booked' = [d \in Stored |-> booked'[d]]
  BY <1>3 DEF AnalyticsTypeOK, Stored, Declarable
<1>5. LiveBookings' = LiveBookings - booked[c] + n
  <2>1. /\ booked'["app"] = IF c = "app" THEN n ELSE booked["app"]
        /\ booked'["android"] = IF c = "android" THEN n ELSE booked["android"]
        /\ booked'["ios"] = IF c = "ios" THEN n ELSE booked["ios"]
        /\ booked'["website"] = IF c = "website" THEN n ELSE booked["website"]
        /\ booked'["mcp"] = IF c = "mcp" THEN n ELSE booked["mcp"]
        /\ booked'["whatsapp"] = booked["whatsapp"]
    BY <1>3 DEF Stored, Declarable
  <2> QED
    BY <2>1, <1>2 DEF LiveBookings, Declarable
<1>6. \A d \in Stored : booked'[d] \in Nat
  BY <1>1, <1>3
<1>7. \A d \in Stored : booked'[d] =< LiveBookings'
  <2>1. /\ booked'["app"] \in Nat /\ booked'["android"] \in Nat /\ booked'["ios"] \in Nat
        /\ booked'["website"] \in Nat /\ booked'["mcp"] \in Nat /\ booked'["whatsapp"] \in Nat
    BY <1>6 DEF Stored, Declarable
  <2> QED
    BY <2>1 DEF LiveBookings, Stored, Declarable
<1>8. LiveBookings' =< MaxBooked /\ LiveBookings' \in Int
  BY <1>1, <1>5, BookedSum DEF Stored
<1>9. \A d \in Stored : booked'[d] \in 0..MaxBooked
  BY <1>6, <1>7, <1>8, AnalyticsAssumption
<1> QED
  BY <1>4, <1>8, <1>9 DEF AnalyticsTypeOK

LEMMA AnalyticsStep == AnalyticsTypeOK /\ [AnalyticsNext]_booked => AnalyticsTypeOK'
<1> SUFFICES ASSUME AnalyticsTypeOK, [AnalyticsNext]_booked PROVE AnalyticsTypeOK'
  OBVIOUS
<1>1. ASSUME NEW byToken \in BOOLEAN, NEW claimed \in Said, NEW header \in Said,
             NEW agent \in Said, BookThrough(byToken, claimed, header, agent)
      PROVE  AnalyticsTypeOK'
  <2>1. PICK c : c = ResolveChannel(byToken, claimed, header, agent)
    OBVIOUS
  <2>2. c \in Declarable
    BY <2>1 DEF ResolveChannel, Said, Declarable
  <2>3. booked[c] \in Nat /\ LiveBookings \in Nat
    BY <2>2, BookedSum DEF Stored
  <2>4. LiveBookings < MaxBooked /\ booked' = [booked EXCEPT ![c] = booked[c] + 1]
    BY <1>1, <2>1 DEF BookThrough
  <2>5. PICK n \in Nat : n = booked[c] + 1
    BY <2>3
  <2>6. booked' = [booked EXCEPT ![c] = n] /\ LiveBookings - booked[c] + n =< MaxBooked
    BY <2>3, <2>4, <2>5, AnalyticsAssumption
  <2> QED
    BY <2>2, <2>6, CountChanges
<1>2. ASSUME NEW c \in Stored, Unbook(c) PROVE AnalyticsTypeOK'
  <2>1. c \in Declarable /\ booked[c] \in Nat /\ booked[c] > 0 /\ LiveBookings \in Nat
    BY <1>2, BookedSum DEF Unbook, Stored, AnalyticsTypeOK
  <2>2. LiveBookings =< MaxBooked /\ booked' = [booked EXCEPT ![c] = booked[c] - 1]
    BY <1>2 DEF Unbook, AnalyticsTypeOK
  <2>3. PICK n \in Nat : n = booked[c] - 1
    BY <2>1
  <2>4. booked' = [booked EXCEPT ![c] = n] /\ LiveBookings - booked[c] + n =< MaxBooked
    BY <2>1, <2>2, <2>3, AnalyticsAssumption
  <2> QED
    BY <2>1, <2>4, CountChanges
<1>3. CASE UNCHANGED booked
  BY <1>3 DEF AnalyticsTypeOK, LiveBookings
<1> QED
  BY <1>1, <1>2, <1>3 DEF AnalyticsNext

\* The counts of bookings by channel keep their types.
THEOREM AnalyticsTypes == AnalyticsSpec => []AnalyticsTypeOK
BY AnalyticsStart, AnalyticsStep, PTL DEF AnalyticsSpec

\* Shares of which one is corrected by what is missing.
LEMMA Corrected ==
  ASSUME NEW pct, pct \in [Palette -> Nat], NEW name \in Palette, NEW fixed,
         NEW x, x = pct[name] + (100 - SumOf(pct)),
         \A other \in Palette : fixed[other] = IF other = name THEN x ELSE pct[other]
  PROVE  /\ SumOf(fixed) = 100 /\ fixed[name] = pct[name] + (100 - SumOf(pct))
         /\ \A other \in Palette \ {name} : fixed[other] = pct[other]
<1>1. /\ pct["Android"] \in Nat /\ pct["iOS"] \in Nat /\ pct["WhatsApp"] \in Nat
      /\ pct["Website"] \in Nat /\ pct["Assistant"] \in Nat
  BY DEF Palette
<1>2. \A other \in Palette : fixed[other] = IF other = name THEN x ELSE pct[other]
  OBVIOUS
<1>3. /\ "Android" \in Palette /\ "iOS" \in Palette /\ "WhatsApp" \in Palette
      /\ "Website" \in Palette /\ "Assistant" \in Palette
  BY DEF Palette
<1>4. SumOf(fixed) = 100
  BY <1>1, <1>2, <1>3 DEF SumOf, Palette
<1> QED
  BY <1>2, <1>4

\* What the one takes that the rounding of four others leaves over.
LEMMA Drift ==
  ASSUME NEW a \in Nat, NEW b \in Nat, NEW c \in Nat, NEW d \in Nat, NEW e \in Nat,
         NEW j \in Nat, NEW k \in Nat, NEW l \in Nat, NEW m \in Nat, NEW n \in Nat,
         NEW total \in Nat, j + k + l + m + n = total, NEW sum \in Nat, sum = a + b + c + d + e,
         2 * (b * total - 100 * k) =< total, 2 * (100 * k - b * total) =< total,
         2 * (c * total - 100 * l) =< total, 2 * (100 * l - c * total) =< total,
         2 * (d * total - 100 * m) =< total, 2 * (100 * m - d * total) =< total,
         2 * (e * total - 100 * n) =< total, 2 * (100 * n - e * total) =< total
  PROVE  /\ (a + (100 - sum)) * total - 100 * j =< 2 * total
         /\ -((a + (100 - sum)) * total - 100 * j) =< 2 * total
<1>1. (a + (100 - sum)) * total
        = 100 * total - b * total - c * total - d * total - e * total
  OBVIOUS
<1>2. /\ b * total \in Nat /\ c * total \in Nat /\ d * total \in Nat /\ e * total \in Nat
  OBVIOUS
<1> QED
  BY <1>1, <1>2

LEMMA SharesRight == AnalyticsTypeOK => SharesAddUp
<1> SUFFICES ASSUME AnalyticsTypeOK PROVE SharesAddUp
  OBVIOUS
<1>1. \A c \in Stored : DisplayName[c] \in Palette
  BY DEF DisplayName, Palette, Stored, Declarable
<1>2. PICK total : total = LiveBookings
  OBVIOUS
<1>3. total \in Nat
  BY <1>2, BookedSum
<1>4. ASSUME total > 0
      PROVE  /\ SumOf(Shares) = 100
             /\ \A name \in Palette :
                  /\ Shares[name] * total - 100 * CountOf(name) =< 2 * total
                  /\ -(Shares[name] * total - 100 * CountOf(name)) =< 2 * total
  <2>1. PICK pct : pct = [name \in Palette |-> Percent(CountOf(name), total)]
    OBVIOUS
  <2>2. \A name \in Palette :
          /\ pct[name] \in Nat /\ CountOf(name) \in Nat
          /\ 2 * (pct[name] * total - 100 * CountOf(name)) =< total
          /\ 2 * (100 * CountOf(name) - pct[name] * total) =< total
    BY <2>1, <1>3, <1>4, Counts, Rounding
  <2>3. pct \in [Palette -> Nat]
    BY <2>1, <2>2
  <2>4. PICK largest : largest = CHOOSE name \in Palette : \A other \in Palette : pct[other] =< pct[name]
    OBVIOUS
  <2>5. largest \in Palette
    <3>1. \E name \in Palette : \A other \in Palette : pct[other] =< pct[name]
      BY <2>2 DEF Palette
    <3> QED
      BY <3>1, <2>4
  <2>0. PICK x : x = pct[largest] + (100 - SumOf(pct))
    OBVIOUS
  <2>10. PICK shares : shares = Shares
    OBVIOUS
  <2>6. shares = [pct EXCEPT ![largest] = x]
    <3>1. pct = [name \in Palette |-> IF total = 0 THEN 0 ELSE Percent(CountOf(name), total)]
      BY <2>1, <1>4, <1>3
    <3>2. Shares = IF total = 0 THEN pct
                   ELSE [pct EXCEPT ![largest] = @ + (100 - SumOf(pct))]
      BY <3>1, <2>4, <1>2 DEF Shares
    <3>3. [pct EXCEPT ![largest] = @ + (100 - SumOf(pct))] = [pct EXCEPT ![largest] = x]
      BY <2>0
    <3> QED
      BY <3>2, <3>3, <2>10, <1>3, <1>4
  <2>7. /\ SumOf(shares) = 100 /\ shares[largest] = pct[largest] + (100 - SumOf(pct))
        /\ \A other \in Palette \ {largest} : shares[other] = pct[other]
    <3>1. \A other \in Palette : shares[other] = IF other = largest THEN x ELSE pct[other]
      BY <2>3, <2>5, <2>6
    <3> QED
      BY <2>0, <2>3, <2>5, <3>1, Corrected
  <2>8. ASSUME NEW name \in Palette, name # largest
        PROVE  /\ shares[name] * total - 100 * CountOf(name) =< 2 * total
               /\ -(shares[name] * total - 100 * CountOf(name)) =< 2 * total
    <3>1. PICK y \in Int : y = pct[name] * total - 100 * CountOf(name)
      BY <2>2, <1>3
    <3>2. 2 * y =< total /\ 2 * (-y) =< total
      BY <2>2, <3>1, <1>3
    <3> QED
      BY <2>7, <2>8, <3>1, <3>2, <1>3
  <2>9. /\ pct[largest] \in Nat /\ SumOf(pct) \in Nat
        /\ (pct[largest] + (100 - SumOf(pct))) * total - 100 * CountOf(largest) =< 2 * total
        /\ -((pct[largest] + (100 - SumOf(pct))) * total - 100 * CountOf(largest)) =< 2 * total
    <3>1. PICK a \in Nat, b \in Nat, c \in Nat, d \in Nat, e \in Nat :
            /\ a = pct["Android"] /\ b = pct["iOS"] /\ c = pct["WhatsApp"]
            /\ d = pct["Website"] /\ e = pct["Assistant"]
      BY <2>2 DEF Palette
    <3>2. PICK j \in Nat, k \in Nat, l \in Nat, m \in Nat, n \in Nat :
            /\ j = CountOf("Android") /\ k = CountOf("iOS") /\ l = CountOf("WhatsApp")
            /\ m = CountOf("Website") /\ n = CountOf("Assistant")
      BY <2>2 DEF Palette
    <3>3. PICK sum \in Nat : sum = SumOf(pct) /\ sum = a + b + c + d + e
      BY <3>1 DEF SumOf
    <3>4. j + k + l + m + n = total
      BY <3>2, <1>2, Counts
    <3>5. /\ 2 * (a * total - 100 * j) =< total /\ 2 * (100 * j - a * total) =< total
          /\ 2 * (b * total - 100 * k) =< total /\ 2 * (100 * k - b * total) =< total
          /\ 2 * (c * total - 100 * l) =< total /\ 2 * (100 * l - c * total) =< total
          /\ 2 * (d * total - 100 * m) =< total /\ 2 * (100 * m - d * total) =< total
          /\ 2 * (e * total - 100 * n) =< total /\ 2 * (100 * n - e * total) =< total
      BY <2>2, <3>1, <3>2 DEF Palette
    <3>a. \/ largest = "Android" \/ largest = "iOS" \/ largest = "WhatsApp"
          \/ largest = "Website" \/ largest = "Assistant"
      BY <2>5 DEF Palette
    <3>6. \/ pct[largest] = a /\ CountOf(largest) = j
          \/ pct[largest] = b /\ CountOf(largest) = k
          \/ pct[largest] = c /\ CountOf(largest) = l
          \/ pct[largest] = d /\ CountOf(largest) = m
          \/ pct[largest] = e /\ CountOf(largest) = n
      BY <3>a, <3>1, <3>2, Zenon
    <3>7. PICK x1 \in Nat, y1 \in Nat : x1 = pct[largest] /\ y1 = CountOf(largest)
      BY <2>2, <2>5
    <3>8. /\ (x1 + (100 - sum)) * total - 100 * y1 =< 2 * total
          /\ -((x1 + (100 - sum)) * total - 100 * y1) =< 2 * total
      <4>1. CASE x1 = a /\ y1 = j
        BY <4>1, <3>3, <3>4, <3>5, <1>3, Drift
      <4>2. CASE x1 = b /\ y1 = k
        BY <4>2, <3>3, <3>4, <3>5, <1>3, Drift
      <4>3. CASE x1 = c /\ y1 = l
        BY <4>3, <3>3, <3>4, <3>5, <1>3, Drift
      <4>4. CASE x1 = d /\ y1 = m
        BY <4>4, <3>3, <3>4, <3>5, <1>3, Drift
      <4>5. CASE x1 = e /\ y1 = n
        BY <4>5, <3>3, <3>4, <3>5, <1>3, Drift
      <4> QED
        BY <3>6, <3>7, <4>1, <4>2, <4>3, <4>4, <4>5
    <3> QED
      BY <3>3, <3>7, <3>8
  <2> QED
    BY <2>10, <2>7, <2>8, <2>9
<1> QED
  BY <1>1, <1>2, <1>4 DEF SharesAddUp

\* The shares add up to 100 and none is further than 2 points from the truth.
THEOREM SharesRightly == AnalyticsSpec => []SharesAddUp
BY SharesRight, AnalyticsTypes, PTL
=============================================================================
