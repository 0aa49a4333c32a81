# Lundrii backend: TLA+ models, checks and proofs

The Lundrii backend lets the students of an institute book the washers and
dryers of their hostels, and a laundry committee run the machines and the
residents.  This directory models what the program decides and what can cross
while it decides it: bookings, the fairness rules they obey, the administration
of machines, exchanges of bookings, the derivation of slots and every view of
them, sign-in and sessions, the assistants' grants, tickets, the administration
of students and hostels, the lists of the administrators' first page, and the
move to another database.  TLC checks small instances, and TLAPS proves the main
results for every value of the constants.

Paths below are relative to `src/`.

## 1. Inventory

### How the system runs

Django requests served by gunicorn (`start.sh`: `WEB_CONCURRENCY` workers, each
killed after 60 s) against PostgreSQL at its default isolation, READ COMMITTED
(`core/settings/base.py`).  There is no `ATOMIC_REQUESTS`: outside an explicit
`transaction.atomic()` every statement is its own transaction, and what a
request has read may be stale when it writes.  `select_for_update()` and every
`UPDATE` take the row lock.  The cache that holds one-time codes is a table of the
same database, shared by the workers (`core/settings/`); a development worker has
one in its memory.  Development and tests use SQLite with
`transaction_mode IMMEDIATE`, which runs a whole transaction alone; its
behaviours are a subset of those modelled.  There is no background scheduler
that changes state; expiry is lazy, done by the requests that notice it.

### Components

| Component | State | Operations | Interacts with | What is hard | What makes it correct |
|---|---|---|---|---|---|
| Fairness rules (`laundry/services/rules.py`) | none (the institute's rules are a row) | advance window, weekly quota, dryer cap, late cancellation | read by bookings and exchanges | week boundaries; quota read without a lock | a student stays within the weekly quota of a kind |
| Booking service (`laundry/services/booking.py`, `views/student.py`) | Booking table: student, machine, interval, cancelled_at, two flags | create (a batch), move, cancel | locks machine rows; reads machines, rules, suspension | check-then-act races, stale rows written back, requests that die | no machine is held twice at once; cancellations are final |
| Committee cancellation (`laundry/views/admin_bookings.py`) | Booking table | cancel one booking | races with the student's own requests | the row checked is not the row written | never counts against quota |
| Machine administration (`views/admin.py` MachineViewSet, `services/machines.py`, `services/admin_ops.py`, `serializers/admin.py`) | Machine table: is_active, is_offline, window and slot length | offline, online, PATCH, hours, DELETE, previews | cancels bookings; its updates compete for the row lock of a claim | stale full-row saves; re-cut grids under live bookings | going offline strands no booking; previews tell the truth |
| Student administration (`views/admin.py` StudentViewSet) | suspension, strikes, verification | suspend, unsuspend, strike, disable | read by `assert_can_mutate` | gate is checked once per request | a suspended student starts nothing |
| Exchanges (`laundry/services/exchanges.py`) | Exchange table: kind, status, the two bookings | create, approve, reject, withdraw, lazy expiry | rewrites the student of bookings | a row lock PostgreSQL refuses; expiry without a lock; answers that cross each other and the booking service | a swap is all or nothing; an exchange is concluded once; both quotas are kept |
| Slot grid and live status (`laundry/services/slots.py`, `views/student.py`) | none | derive, resolve and list slots; status of a machine; availability of a hostel | read by every claim, preview and tool | overnight windows, windows off the full hour, bookings off the grid, ranges of bookings loaded too short | what is listed as free can be booked; "free until" is true |
| Tickets (`services/tickets.py`, `views/tickets.py`, `views/admin.py` TicketViewSet) | Ticket table, events, the student's notification | raise with retries, PATCH | notification preferences | number = max + 1; a PATCH is four transactions | numbers in order; status, time, thread and notification agree |
| Registration, codes and links (`authentication/services/`, `authentication/views.py`) | cache: codes, attempts, rate, cooldown, reset links; accounts | register, send, verify, reset | mail | get-then-set on a shared cache, `incr` that shortens a life, expiry | a secret works once; guesses are bounded; an address has one account |
| Sessions (`authentication/views.py`, `authentication/permissions.py`, `mcp_server/models.py`) | refresh tokens (blacklist), pasted tokens, the student's two flags and suspension | login, refresh, logout, mint and revoke a pasted token, every request's check | student administration | access tokens cannot be taken back; a logout that fails is answered like one that does not | a login ends |
| OAuth server (`mcp_server/oauth_views.py`, `oauth_models.py`, `providers.py`) | clients, codes, refresh tokens, access tokens | register, approve, redeem, rotate, replay, disconnect | sessions, MCP | unlocked check, then retire and issue; revocation row by row | codes and refresh tokens are single-use; a cut grant stays cut |
| MCP tools (`mcp_server/tools.py`, `views.py`) | none | find slots, book, move, cancel | calls the booking service | a date and an hour stand for a slot | what is found can be booked |
| Residents and hostels (`views/admin.py` HostelViewSet, StudentViewSet; `serializers/`; `MeView.patch`) | Student, BaseUser.is_active, Hostel | create, import, assign, suspend, disable, enable, profile edit, move and close a hostel | sign-up, sessions, `assert_can_mutate` | rows loaded at authentication and saved whole; two tables in two saves | home in the own institute; suspensions are served; scopes hold |
| Activity feed and attention list (`laundry/services/admin_ops.py`, `services/audit.py`) | audit entries | merge three sources; offline since | everything that is recorded | limits per source before the merge; a time stamp that any save moves | the newest are shown; "since" is true |
| Analytics (`laundry/services/analytics.py`, `base/clients.py`) | the channel of a booking | resolve, count, shares | bookings | rounding | shares add up to 100 |
| Database copy (`base/management/commands/copy_sqlite_to_postgres.py`) | a file and a target database | copy table by table in one transaction | the program, which may be writing | references within and between tables, rows whose numbers differ, time stamps set on insert | all or nothing, and every row with what it refers to and holds, dated by the copy |
| Other CRUD, notifications, serializers, mail, throttling, seeding, settings | rows nobody's guard reads, or none | – | – | – | see section 6 |

`PROJECT.json` lists the same components with their status, and the hazards
with the line at which each of them bites.

## 2. What is modelled now

Bookings and everything that competes with them:

```
FairnessRules            pure operators: the rules over a booking table
   ^
Booking                  students' and the committee's requests, row locks
   ^
MachineAdmin             administration requests on the same tables; Spec, FairSpec
   ^
BookingProperties  --->  SlotClaims     the abstract specification it implements
   ^            ^
MCBooking    BookingProofs  <---  QuotaProofs

MachineAdmin  <---  Exchanges           calls of the exchange API on the same bookings
                        ^
BookingProperties <--- ExchangeProperties  --->  BookingDeals   abstract specification
                        ^              ^
MCBooking     <---  MCExchanges    ExchangeProofs  --->  QuotaProofs  --->  BookingProofs
```

What is shown of slots, and the components that share no state with bookings:

```
FairnessRules <--- SlotGrid <--- SlotViews   derived slots, and the views and requests over them
                                     ^
OAuthGrants   Tickets   Activity   Analytics  <---  MCServices
     ^                                                 ^
GrantProofs            <---                      ServiceProofs  --->  ViewProofs

OAuthGrants  --->  GrantKeys     the abstract specification it implements
ViewProofs   --->  SlotViews, Activity, Analytics

SignIn   Sessions   Residents   DatabaseCopy  <---  MCAccounts
                       ^                                ^
                ResidentProofs           <---     AccountProofs
```

**FairnessRules** turns `rules.py` into operators over a booking table.  Time is
a natural number; a day and a week are `DayLen` and `WeekLen` units, a slot's
week is the week of its *start* (`quota_week_bounds`), a cancelled row keeps
using quota while its flag is set (`_quota_counting_starts` does not look at
`cancelled_at`), and a dryer without a cap skips the quota.

**Booking** has the tables (`machine`, `bookings`), the row locks (`lock`), the
students the gate refuses (`barred`), and for each worker the request it serves
with the values it has read (`job`).  A request goes through these stages:

| Stage reached | Action | Code |
|---|---|---|
| `batch` | `BeginCreate` | `assert_can_mutate`, once for the whole batch |
| `claim` | `CheckItem`, `BeginMove` | everything before `transaction.atomic()`: visible, not offline, on the grid, rules |
| `write` | `LockAndCheck` | `_lock_machine` and the overlap query |
| (settled) | `SlotTaken`, `WriteCreate`, `WriteMove` | SLOT_TAKEN, INSERT or UPDATE, COMMIT |
| `cancel`, `committee` | `BeginCancel`, `BeginCommitteeCancel` | load, checks, flags computed from the row read |
| (done) | `SaveCancel`, `SaveCommitteeCancel` | the UPDATE by primary key |

A claim keeps the row lock from `LockAndCheck` to its write, and any other
request may step in between where the lock does not forbid it.  `WriteMove`
writes its five columns into the row *as it is then*, cancelled or not, because
`save(update_fields=...)` does.  `WriteCreate` and `WriteMove` consult the
partial unique index.  `Crash` ends a request at any stage: the transaction
rolls back and its locks are freed.  An item of a batch that is refused changes
nothing and needs no step.

**MachineAdmin** adds the administration requests.  Each first loads the row
(`Begin...`), then saves it: a PATCH writes every column it loaded
(`SavePatch`), the hours action writes the hours alone (`SaveHours`), DELETE
clears `is_active` (`SaveRetired`), and `set_machine_offline` either just saves
(`SaveToggle`) or, from online to offline *as loaded*, saves and lists the
future bookings under the row lock (`TakeOffline`) and cancels them and commits
(`Drop`).  `is_offline` becomes visible at that commit.  DELETE of an offline
machine and the hours action list and cancel without the machine's lock
(`ListFuture`, `ListStranded`, `Drop`).  A grid is a member of `Grids`: a change
of window or slot length replaces a machine's grid by another one and leaves
existing bookings where they are.

**SlotClaims** is the abstract specification: claims that take, shift to and
release a place (a machine and a slot) atomically and never share one, without
requests, locks or stale reads.  `ClaimView` in **BookingProperties** is the
refinement mapping.

**Exchanges** adds the exchange table and the calls of its API, next to all the
steps above.  Every call begins with the lazy expiry: one query for the
student's stale exchanges (`BeginCall`) and then one unlocked UPDATE for each
(`ExpireNext`); an answer does it twice, in the view and in the service
(`Revisit`).  An offer is checked (`CheckOffer`) and inserted (`InsertOffer`)
in separate statements.  An answer reads the exchange again inside its
transaction and finds it settled (`AlreadySettled`) or stale (`FoundStale`),
declines it (`Decline`), or judges both sides by the rules as they are now
(`FailApproval`, `HandOver`).

That transaction depends on the database.  Its first query joins
`offered_booking`, a nullable column, and asks for `FOR UPDATE` on all the rows
joined; PostgreSQL refuses that for the nullable side of an outer join, so there
every answer ends in an error (`LockingRefused`).  SQLite, on which the tests
run, has no `FOR UPDATE` and runs the transaction alone (`Alone`), so one step
stands for it.  `Databases` lists the engines of an instance.  The booking
service keeps its PostgreSQL interleavings in both cases, which on SQLite is a
superset of what can happen.

**BookingDeals** is the abstract specification: the owner of a booking changes
only when an open deal is concluded, which moves everything it names in one step
from the students who agreed to it, and a deal is closed once.  `Owner` and
`DealState` and `DealTerms` in **ExchangeProperties** are the refinement mapping.

**SlotGrid** has the pure functions of `slots.py` as operators over a window, a
machine row and a booking table: `OperatingSlots` (`iter_operating_slots`: equal
times are 24 hours, an end before the start is on the next day), `ResolveSlot`,
`SlotFromDateHour`, `LoadOverlapping`, and `SlotState` (`derive_slots`, with the
two rules that colour a slot and without those that do not).

**SlotViews** puts the views next to the requests that follow them: live status
and `FreeUntil` (`machine_live_status`), `AvailabilityNow`, `MoveOptions`, the
committee's grid (`Cell`, `build_booking_grid`), the preview of an hours change
(`HoursImpact`), `DriesShown` (`quota_status`) and the assistants'
`FindAvailableSlots`.  Its actions are whole requests (`BookAt`, `BookHour`,
`MoveTo`, `CancelOwn`, `ChangeHours`, `Toggle`): how they interleave is
`Booking`'s and `MachineAdmin`'s business, and here grids are derived, which
there they are not.

**OAuthGrants** has the rows of `oauth_models.py` and, per request in flight, what
it has read.  Looking a code or a refresh token up (`ResolveCode`,
`ResolveRefresh`) and using it (`RedeemCode`, `Rotate`, one transaction each) are
separate steps.  A replay or a disconnect lists the refresh tokens (`ReplayCode`,
`Disconnect`, `ListClients`), then revokes row after row and follows what was
rotated from each (`Walk`, `revoke_chain`), and last revokes the access tokens
(`CutAccess`).  A process may die on the way (`Abort`), and rows expire.

**GrantKeys** is the abstract specification: a grant is carried on by a key, at
first its code and then each refresh token, which is presented, given up for the
next one in a single step and never comes back; a closed grant has no key and no
access token, and never gets another.  Only a key that was presented before it was
given up or taken away, and is used after, forks a grant, and of a forked grant
nothing more is promised: that is the unlocked check of the code, and the module
says it in one action.  `Known`, `Unspent`, `Valid`, `Usable` and `InHand` in
`OAuthGrants` are the refinement mapping: rows, states and stages of requests on
one side, sets of keys on the other.

**Tickets** follows `raise_ticket` (`BeginRaise`, `NextNumber`, then
`CreateTicket` or `NumberTaken` and another try, `TellRaised`) and the committee's
PATCH, each of whose writes is a transaction: `SaveTicket` (all columns of the row
that was loaded), `Stamp`, `LogStatus`, `TellStatus`.

**SignIn** takes every cache call for a step.  A send looks at the cooldown and the
rate, counts, and only then looks the user up and issues a code, and for a
forgotten password a link; a verification looks at the attempts, compares,
deletes the code, and clears or counts.  `backend = "db"` is the deployed cache,
whose `incr` is a get and a set with the default timeout (`IncrGet`, `IncrSet`);
`"locmem"` is a single worker's memory, empty again when the worker dies (`Die`).
The database may refuse a query or a save (`Refused`), which ends the request and
leaves what it has done to the cache.  Resets (`FindOwner`, `SavePassword`),
registration, and an administrator who closes an account, are there as well.

**Sessions** has the pairs of tokens, refresh and logout, pasted tokens, and the
check of every request apart from what the request does after it (`LetIn`,
`Resolve`, `AnswerRequest`), next to disable, enable and suspend.  `LogoutView`
swallows every exception, so next to the logout that blacklists (`Logout`) there is
one that does not and is answered 204 just the same (`LogoutFails`); the refresh
token then still works until it runs out, where `SMOKE.md` lists signing out as
"Blacklist refresh".  An access token is dated from when its
refresh token was checked (`CheckRefresh`), not from the answer.

**Residents** has the student and hostel rows and, per request, the row it loaded.
Sign-up, creation, import (row by row, with the hostels read once), assignment,
suspension, disable and enable (two saves) and the profile edit (one save of every
column loaded at authentication) run at once, for a scope: an institute or a
platform operator.

**Activity** is `recent_activity` and the offline part of `needs_attention` over
events with time stamps; **Analytics** is `resolve_channel` and `channel_shares`.

**DatabaseCopy** is the command of that name, a table per step in `CopyOrder`,
with permissions matched by name, refresh tokens inserted without and then updated
with what they were rotated from, and deferred foreign keys at the commit.  Five
tables stand for all; meanwhile the program writes to the file and somebody
registers at the target.  `bulk_create` gives `created_at` and `updated_at`
(`auto_now_add`, `auto_now` in `base/models.py`) the time of the copy in every row
but links, which `Inserted` says: the field `dated` of a row is `"written"` for the
program's own time and `"copied"` for that one.  After a copy the activity feed,
"offline since" and the order of tickets read times that are no longer those of
the file.

### Abstractions

* What a request reads before its transaction is one step.  The values it keeps
  may still be stale at every later step, which is where the races are.
* `barred` stands for "unverified or `now < suspension_ends`"; `Unsuspend` covers
  the end of a suspension as well as the endpoint.
* `MoveOptions` is all the options; the code returns the first 40.
* Machine kind, the institute's rules and hostel visibility are constants.
  Editing them while requests run is not modelled.
* In the booking modules notifications, tasks, the channel of a booking and responses are left out: no
  guard reads them.
* `forced` and `overlapped` are history variables: the bookings the institute
  cancelled, and the students who ever had two requests in flight at once.  No
  action's guard reads them.  `crossed` is another: the students who were handed
  a booking while a request of theirs, or for that booking, was in flight.
  Every other module names its history variables where it declares them, and no
  guard reads one there either.
* A secret, a token or a hash is a number or a state of its row; whoever presents
  one presents the right one or `0`.  The proof key, the redirect address and the
  form of a request are right, or the request changes nothing.
* Time in `SignIn` and `OAuthGrants` is the order in which things expire; in the
  other modules it is a small counter.

## 3. What the runs check

The first six runs use `MCBooking`, the next four `MCExchanges`.  In those of
`MCBooking` slots are two units long; `Even` has slots at 2 and 4
and `Odd` one at 3, so that a booking of one grid straddles two slots of the
other.  With `MaxTime = 3`, or 2 in `machines`, the clock reaches the start of the first slot,
so refusals of past slots, late cancellations (`Cutoff = 2`) and bookings
in progress all occur.  Two bookings suffice for every property, each of which
relates at most two rows; `RowLeft` stops claims for which no row is left.

| Run | Instance | Properties | What it shows |
|---|---|---|---|
| `claims` | 2 students, 2 machines, 2 bookings, 2 requests; weeks of 4 units, so the two slots are in different weeks; quota 1 | `IndexNeverFires`, `QuotaHeldWithoutOverlap`, `ImplementsSlotClaims` | Creates, moves, cancellations and crashes of two requests at once implement exclusive claims, of which a cancelled one never comes back; the unique index is never reached; quota is exact for whoever sends one request at a time. |
| `machines` | 1 student, 1 request of the student or the committee, 2 administrators who toggle and change hours, 1 machine, 2 grids, 2 bookings | `NoDoubleBooking`, `CancelledCountsOnlyIfLate`, `OfflineCancelsAll` | Re-cut grids never make bookings overlap; a cancelled booking counts only if the student was late; and the step that turns the machine offline leaves no live future booking on it, unless its request had loaded the machine offline before the other administrator brought it back. |
| `progress` | 1 student, 2 requests, 1 administrator who also edits and removes, 1 machine, 1 booking, frozen clock, crashes; `FairSpec` | `ClaimsSettle`, `AdminRequestsEnd` | Whoever waits for the row lock gets it, although holders may die. |
| `quota_race` | 1 student, 2 requests, 2 machines, quota 1 | `QuotaHeld` *(violated)* | Two requests of one student both read the quota before either writes. |
| `offline_race` | 1 request, 1 administrator | `OfflineRefusesClaims` *(violated)* | A claim checked before the machine went offline is written afterwards. |
| `forced_move` | 1 request, 1 administrator changing hours | `ForcedNeverCounts` *(violated)* | A move that read a booking before the institute cancelled it charges the cancelled booking to the student's quota. |
| `exchanges` | 2 students, 1 machine with 2 slots of one week, quota 1; 2 exchanges, 1 call and 1 booking request; SQLite | `QuotaHeldUnlessCrossed`, `ImplementsBookingDeals` | Exchanges that compete for the same bookings, while bookings are made, moved and cancelled, implement deals, and keep both students within their quota. |
| `answers` | the same with 1 exchange and 2 calls that may die; both databases | `ImplementsBookingDeals` | Approval, refusal, withdrawal and the expiry every call begins with of one exchange may cross in any way: it is concluded once or not at all. |
| `answer_lock` | 1 exchange, 1 call; PostgreSQL | `AnswersSettle` *(violated)* | No exchange can be approved, rejected or withdrawn on the production database. |
| `exchange_race` | 1 exchange, 1 call, 1 request; SQLite | `OwnBookingsOnly` *(violated)* | A cancellation that read its booking before an exchange gave it away cancels the other student's booking. |
| `services` | `MCServices`: slots of 5 windows (by day, 24 hours, overnight on and off the hour, shorter than an hour), 2 students, 1 dryer, 2 bookings, 8 time units; 2 raisers, 2 officers, 2 tickets, 2 tries; 6 events; 8 bookings by channel; 2 connectors, 2 codes, 3 pairs, 4 rows in all, 2 requests for tokens that may die or take for ever | 19, see below | Views agree with the requests they lead to, tickets are numbered and told right, and the lists and the chart count right.  Codes and refresh tokens are single-use, what was cut stays cut, and redemptions, replays, disconnects and expiries that cross implement `GrantKeys`. |
| `accounts` | `MCAccounts`: 1 address, 2 clients, 3 secrets, both caches; 1 login, 1 pasted token, 2 requests, 3 ticks; 1 person, 2 hostels, 2 institutes, 2 requests; 5 tables with up to 4 writes during a copy | 10, see below | Secrets work once and guesses are bounded, logins end, residents stay consistent under crossing requests, and a copy is all or nothing. |

The violated properties are disagreements between the code and its documentation
or tests; `PROJECT.json` quotes the sentences under "findings".  `answer_lock`
needs a single call; the others need two requests at once.

The exception in `OfflineCancelsAll` is one more, and `machines` has the states in
which it applies: `set_machine_offline` compares with the row its caller loaded, so
a second "offline" of a machine that another administrator brought back in between
turns it offline and cancels nothing of what was booked meanwhile, where its
docstring (`laundry/services/machines.py:14`) promises to cancel on every
transition.

In the exchange runs (`Short`) slots are one unit long and the first starts at
1 = `MaxTime`, so exchanges go stale by the clock as well as by cancellation and
by change of owner.  Two calls with two exchanges at once exceed what TLC can
explore; `exchanges` and `answers` have two of one kind each.

The components of `MCServices`, and those of `MCAccounts`, share no variable, so
that interleaving them would multiply their states and show nothing: `focus`,
chosen at the start, names the component that moves, and the run explores the
union.  `services` has about 690 000 distinct states, a third of them of the grants,
and `accounts` 1.8 million, the largest parts of which are sign-in and the residents.

| Property | States of |
|---|---|
| `FreeSlotsCanBeBooked` | a slot listed as free, or named as the next free one, is found by its start and can be booked at once, overnight and with bookings off the grid |
| `MoveOptionsHonoured`, `FreeUntilIsFree`, `GridShowsBookings`, `FoundSlotsAreBooked` | what the move options, a machine's card, the committee's grid and the assistants' search show is so; each names the windows for which the code gets it right (ending by midnight, full hours), and beyond them it does not |
| `HoursCancelTheStranded` | an hours change that cancels what it strands cancels that and, by day and within the horizon of its preview, nothing else |
| `DriesShownAreCharged` | the profile's count of dryers never exceeds what the rules charge |
| `YieldsOnePair`, `CutGrantsStayCut`, `ConnectedWhileUsable`, `OthersAreSpared` | the promises of `oauth_models.py` and `providers.py`, each with the crossing or the death under which the code breaks it named in the property |
| `ImplementsGrantKeys` | all of them as one behaviour, and more: which step may end a key's validity, that a new key comes only in exchange for one that was there, and that a closed grant is never opened again |
| `NumberedInOrder`, `TriesAreLostToOthers`, `ThreadTellsTheStatus` | numbering with retries; the four saves of a PATCH |
| `FeedShowsTheNewest`, `OfflineSinceIsTrue`, `SharesAddUp` | the lists and the chart of the first page; rounding leaves each share within 2 points of the truth |
| `SecretsWorkOnce`, `GuessesAreBounded`, `AccountsAreKept` | codes and links over the cache; on the database cache guesses are *not* bounded, since `incr` shortens the counter's life, and the property is about the other one |
| `SessionsEnd` | how long after its end, or after a logout that blacklisted its refresh token, a login may let anybody in; a logout that could not blacklist ends nothing |
| `AccountsAgree`, `SuspensionsAreServed`, `HomesAreOwn`, `RequestsStayInScope` | the two flags of a disabled student, suspensions against the profile edit, homes and scopes against everything at once |
| `CopiesAreWhole` | the target changes as a whole, keeps what it had, and has the rows of the file if nobody wrote to it, with their keys, references and contents but dated by the copy |
| `ServicesTypeOK`, `AccountsTypeOK` | the types of all the modules of the run |

Bounds: two of whatever competes (requests, clients, officers, calls) and the
fewest rows for each case to occur: three pairs for a chain with a rotation on
each side of a walk, two tickets and two tries for a lost number, two tries at a
code before it is used up, so that a counter forgotten in between shows, three days of slots (`AdvanceDays` and overnight
windows), two permissions of which one is unknown to the target.  All of them are
constants of the configurations.

`CHECK_DEADLOCK FALSE` in every configuration: when the clock or a table
is at its bound and no request is in flight, the system may rest.

Symmetry is used in the runs without liveness properties only, over students,
bookings, workers and the like, none of which is named by a property.

### Fairness

`FairSpec` assumes that a request in flight goes on (weak fairness of the steps
that wait for nobody) and that PostgreSQL, which queues the waiters of a row
lock, does not pass one over for ever (strong fairness of `LockAndCheck`,
`SlotTaken`, the machine saves and `TakeOffline`).  Nothing obliges a request to
arrive, a batch to have a next item, or a worker to die.  With weak fairness
alone `ClaimsSettle` fails: other claims can take the lock again and again.

### Faults

Every property has a fault that breaks it, an operator defined just before the
one it replaces and marked "Fault": a claim without `select_for_update`
(`CheckWithoutLock`), an overlap test on equal starts only
(`OverlappingSameStart`), a quota for the present week (`RulesAllowThisWeek`), a
save without `update_fields` (`ClaimedRowInFull`), a cancellation that keeps its
flag (`CancelledRowStillCounting`), locks that are never freed
(`ReleasedNever`), listing bookings before the lock is held
(`TakeOfflineListingFirst`), an approval that trusts the rules or the status of an
earlier time (`MayTakeByGate`, `OpenWithoutRecheck`), and a swap saved by half
(`HandedOverTargetOnly`).

Of slots: a slot taken only by a booking that starts with it
(`SlotStateSameStart`), too few bookings loaded (`MoveOptionsOfToday`), the wrong
end (`FreeUntilOpenEnd`), the first slot after the hour (`SlotFromDateHourLater`),
cells that open on the hour only (`CellClosedOffTheHour`), cancelled rows counted
(`DriesShownWithCancelled`), a preview of the old window
(`HoursImpactOfOldWindow`).  Of grants: a rotated token that keeps working
(`IssueBeside`), a walk without descendants (`WalkWithoutDescendants`), access
tokens left alone (`CutAccessLater`) or all revoked (`CutAccessOfAll`), a revoked
refresh token that is still accepted (`ResolveRefreshUnrevoked`), a token's row taken
for its code's (`ResolveRefreshAsGrant`).  Of
tickets: numbers that skip (`NextNumberPlusTries`) or repeat
(`NextNumberOfOpen`), a time of resolution that stays (`StampResolved`).  Of the
first page: limits shared out before the merge (`FeedShared`), a save without its
time (`SetOfflineUnstamped`), rounding unchecked (`SharesDrifting`), a booking
taken off twice (`UnbookTwice`).  Of sign-in and sessions: a code that stays
(`SpendCodeLater`), failures soon forgotten (`CountFailureBriefly`), an account
taken over (`CreateAccountAnyway`), a refresh that does not look at the blacklist
(`CheckRefreshUnlisted`).  Of residents: enabling that lifts a suspension
(`SaveActiveAnew`) or forgets the account (`SaveAccountDisabled`), any hostel in
an import (`BeginImportAnyHostel`), detail actions without the scope
(`LoadStudentAnywhere`), a student without a home (`CreateStudentUnhoused`).  Of
the copy: permissions by number (`PermissionsByNumber`).  No specification uses
them.

### Disagreements without a run

Read in the code and its documentation, too plain to need a model, and kept here
for whoever maintains it:

* The preview of going offline selects bookings that have not *ended*
  (`laundry/services/admin_ops.py:52`), the cancellation those that have not
  *started* (`services/machines.py:30`); `views/admin_ops.py:198` says they run
  the same query.
* `LoginRequestOtpView` says it answers alike for known and unknown addresses, and
  answers ACCOUNT_NOT_FOUND.
* `LoginView` refuses a suspended or disabled student, `LoginVerifyOtpView` lets
  the same student in (`authentication/views.py`); every request checks again, so
  nothing is gained by it.
* `copy_sqlite_to_postgres` looks for users in the target before it migrates it, so
  it fails on an empty database it was meant for unless that was migrated.
* A password reset does not end the sessions and the pasted tokens there are.
* The preview of an hours change derives slots for 32 days
  (`laundry/services/admin_ops.py:89-113`), and nothing keeps an institute's
  advance window below that: a booking further ahead is called stranded, and
  cancelled, whatever the new grid is.  `HoursCancelTheStranded` is about the days
  of the horizon.

## 4. What is proved

| Module | Theorem | Statement |
|---|---|---|
| `BookingProofs` | `Invariance`, `TypeCorrect` | `Spec => []IInv`, `Spec => []TypeOK` |
| | `Exclusive` | `Spec => []NoDoubleBooking` |
| | `IndexIdle` | `Spec => []IndexNeverFires` |
| | `CancelledStays` | `Spec => CancelledIsFinal` |
| | `OfflineComplete` | `Spec => OfflineCancelsAll` |
| | `Implements` | `Spec => ImplementsSlotClaims` |
| `QuotaProofs` | `QuotaInvariance` | `Spec => []QuotaInv` |
| | `QuotaHeldAlone` | `Spec => []QuotaHeldWithoutOverlap` |
| | `OnlyLateOnesCount` | `Spec => []CancelledCountsOnlyIfLate` |
| `ExchangeProofs` | `ExchangeInvariance`, `ExchangeTypes` | `ExchangeSpec => []ExchangeInv`, `[]ExchangeTypeOK` |
| | `ExclusiveWithExchanges` | `ExchangeSpec => []NoDoubleBooking` |
| | `DealsImplemented` | `ExchangeSpec => ImplementsBookingDeals` |
| | `CrossInvariance` | `ExchangeSpec => []CrossInv` |
| | `QuotaHeldAcrossDeals` | `ExchangeSpec => []QuotaHeldUnlessCrossed` |
| `GrantProofs` | `GrantInvariance`, `GrantTypes` | `GrantSpec => []GrantInv`, `[]GrantTypeOK` |
| | `SingleUse`, `CutsArePermanent`, `UsableIsConnected` | `GrantSpec => []YieldsOnePair`, `[]CutGrantsStayCut`, `[]ConnectedWhileUsable` |
| | `OthersStay` | `GrantSpec => OthersAreSpared` |
| | `KeysImplemented` | `GrantSpec => ImplementsGrantKeys` |
| `ServiceProofs` | `TicketInvariance`, `TicketTypes` | `TicketSpec => []ThreadInv`, `[]TicketTypeOK` |
| | `Numbering`, `TriesAreSpent`, `ThreadsAgree` | `TicketSpec => []NumberedInOrder`, `[]TriesAreLostToOthers`, `[]ThreadTellsTheStatus` |
| | `ServicesCompose` | `ServicesSpec` implies `GrantSpec`, `TicketSpec`, `ActivitySpec` and `AnalyticsSpec`, and `ViewsSpec` unless there are no machines |
| | `ServicesTypes` | `ServicesSpec => []ServicesTypeOK` |
| `AccountProofs` | `SignInInvariance`, `SignInTypes` | `SignInSpec => [](SignInShape /\ OnceInv)`, `[]SignInTypeOK` |
| | `SecretsAdmitOnce`, `GuessesRunOut` | `SignInSpec => []SecretsWorkOnce`, `[]GuessesAreBounded` |
| | `OnlyResetsChangePasswords` | `SignInSpec => AccountsAreKept` |
| | `SessionInvariance`, `SessionTypes`, `LoginsEnd` | `SessionSpec => []SessionInv`, `[]SessionTypeOK`, `SessionsEnd` |
| | `CopyInvariance`, `CopiesComeWhole` | `CopySpec => []CopyInv`, `CopiesAreWhole` |
| | `AccountsCompose` | `AccountsSpec => SignInSpec /\ SessionSpec /\ ResidentsSpec /\ CopySpec` |
| | `AccountsTypes` | `AccountsSpec => []AccountsTypeOK` |
| `ResidentProofs` | `ResidentInvariance`, `ResidentTypes` | `ResidentsSpec => []ResidentInv`, `[]ResidentTypeOK` |
| | `HomesStayOwn`, `ScopesHold`, `SuspensionsHold` | `ResidentsSpec => []HomesAreOwn`, `[]RequestsStayInScope`, `SuspensionsAreServed` |
| | `DisabledTogether` | `ResidentsSpec => []AccountsAgree` |
| `ViewProofs` | `ViewsInvariance`, `ViewsTyped` | `ViewsSpec => []ViewsInv`, `[]ViewsTypeOK` |
| | `ListedFreeIsFree`, `OptionsCanBeTaken` | `ViewsSpec => []FreeSlotsCanBeBooked`, `[]MoveOptionsHonoured` |
| | `FreeUntilThen`, `FoundCanBeBooked` | `ViewsSpec => []FreeUntilIsFree`, `[]FoundSlotsAreBooked` |
| | `GridShowsAll`, `ShownIsCharged` | `ViewsSpec => []GridShowsBookings`, `[]DriesShownAreCharged` |
| | `StrandedAreCancelled` | `ViewsSpec => HoursCancelTheStranded` |
| | `ActivityInvariance`, `ActivityTypes` | `ActivitySpec => []ActivityInv`, `[]ActivityTypeOK` |
| | `DerivedGridsQualify` | of every window and any set of days: what `BookingAssumption` requires of `Grids` |
| | `TimelineIsNewest`, `OfflineSinceThen` | `ActivitySpec => []FeedShowsTheNewest`, `[]OfflineSinceIsTrue` |
| | `AnalyticsTypes`, `SharesRightly` | `AnalyticsSpec => []AnalyticsTypeOK`, `[]SharesAddUp` |

They hold for all values of the constants that satisfy the `...Assumption` of the
modules; the sets of students, machines, bookings, requests, people and the like may be
infinite, and grids are any sets of non-empty intervals of naturals, which may
overlap each other: `DerivedGridsQualify` shows that those which the code derives
are among them.  The runs evaluate the same assumptions.

### Bookings

`NoDoubleBooking` is not inductive: a claim between its overlap query and its
write could destroy it in one step.  `IInv` therefore adds

* `WritersHoldTheSlot`: such a claim holds the row lock of its machine and
  what its query found free is still free.  Two writers are then on different
  machines, and an administrator cannot save the machine meanwhile;
* `SlotsOnGrids`: live bookings and claims have intervals of positive length,
  wherever the present grid of their machine has gone.  `IndexIdle` needs it: two
  bookings with equal starts overlap only if they are not empty;
* `RequestsNameRows` and `RowsExist`: a request past its first step names a
  machine or a booking that is in the tables, so a cancellation never touches a
  row that was never inserted (which the refinement could not explain);
* `OfflineListsAll`: the transaction that takes a machine offline holds the
  row and has listed every live future booking.  It stays true because no worker
  can write to a locked machine and the clock only shortens the list;
* `AdminsLockToTakeOffline`: administration holds a row for nothing else.  A step
  that turns a machine offline is then either the commit of that transaction, with
  the whole list, or the save of a row that was loaded offline (`TurnsOffline`),
  and this is all that `OfflineComplete` needs.

The proof follows `Next`: lemmas `BookingTyped` and `AdminTyped`,
`WorkersNameRows` and `AdminsNameRows`, `RowsExistStep`, `GridsStep`,
`ExclusionStep`, `OfflineStep` and `AdminLocksStep` each take one conjunct through every action;
`AdminKeepsJobs` and `QuietStep` collect what the steps that claim nothing leave
alone.  For the refinement, `WriteTakes` maps the write of a claim to `Take` or
`Shift`, `CancelsRelease` maps every other step to a `Release`, of the empty set
when nothing is cancelled.

### Exchanges

`ExchangeInv` is `IInv` with what exchanges read of bookings: a row that was
inserted has a student and keeps one (`RowsAreOwned`, `ClaimsHaveStudents`), and
an exchange that was inserted has terms, two different students and a booking,
which the calls at work on it know (`Agreed`, `CallKnows`).  Booking steps keep it
by `NextPreserves` and `RowsKeepStudents`; calls that hand nothing over leave the
booking variables alone (`CallStepKeeps`); a hand-over changes students and flags
only, of which no conjunct of `IInv` speaks (`SameClaims`).  For `DealsImplemented`
an insertion of a booking is `Acquire` (`InsertsOwnedRow`), of an exchange
`Propose`; settling an exchange is `CallOff` if it was pending and nothing
otherwise, which is how the unlocked expiry of an exchange that was approved
meanwhile is harmless (`SettledDeal`); and a hand-over is `Conclude`, because the
swapped bookings are different ones: they belong to different students
(`HandOverEffect`).

### Quotas

The quota check reads the table without a lock and long before the write, so the
proof is about what that verdict is still worth at the write.  `QuotaInv` and
`CrossInv` say the same of different sets of students who are set aside (`Sound`):
those in `overlapped`, and next to exchanges those in `crossed` as well.

* Only finitely many rows are in use (`Tables`), since every step inserts at most
  one; otherwise `Cardinality` would say nothing.
* A student not in `overlapped` has one request in flight (`Solo`).
* That request finds its booking as it read it, or cancelled by the institute;
  what it found below the limit is still below it; and a cancellation that counts
  was late (`JobOwned`, `JobExact`).  Every step but the student's own leaves the
  student's rows alone or only gives quota back (`AdminSpares`, `OthersWait`,
  `WorkerSpares`, and `SparedUseNoMore` and `SparedKeepsExact` for what follows).
* A write then adds one row to a count below the limit, or replaces a row that was
  left out of the count (`RoomForOne`, `RoomForItself`, `CommitSound`).

An approval of an exchange counts both sides' rows as they are in the transaction,
each without the booking that side gives away, so each has room for the one it
receives (`HandOverKeepsQuota`).  The requests of the two sides, and requests on
the bookings handed over, are the ones it can invalidate, and their students are in
`crossed` (`HandOverKeepsJobs`).  Together with `QuotaInv`'s lemmas, which hold for
any set of students set aside, this gives `CrossStep`.

### Grants, tickets, sessions, residents

* `GrantInv`: in a grant in which no retired row was used, the pairs form one
  chain, of which only the last may be unrevoked (`Chains`).  While a walk is under
  way some pair of the chain is before it as long as one is unrevoked
  (`WalksReach`): it cannot miss the last pair, because rotation adds behind the
  last one and a walk that passes a pair takes what was rotated from it along.
  `UsableFollowed` gives the connection behind a usable access token: the row
  expires after it, and rotation moves it down the chain.
* `KeysImplemented` maps each step of `OAuthGrants` to one of `GrantKeys`.  An
  approval is `Open`, a lookup that accepts is `Present`, a redemption is `Exchange`
  if its row is still unretired and `Fork` if it is not.  Everything else takes keys
  and access tokens away, in any number and order, and is `Fade`: what has to be
  shown is that nothing of it adds a key, and that a grant a walk has answered for
  has none left, which is `CutGrantsStayCut` with `Chains`.
* `ThreadInv`: tickets are numbered from one without a gap (`InOrder`), so the
  maximum plus one is the next free number, and a number held by a request is
  either still free or was taken by a ticket that is counted (`RaiseIsCounted`).  A
  PATCH carries the number of its own ticket.  For a ticket that two PATCHes did
  not cross, the parts agree up to the step the one at work has come to.
* `SessionInv`: an access token ends no later than one dated from now, than one dated
  from the end of its refresh token, and, if that is blacklisted, than one dated from
  then (`AccessEnds`).  The same holds of the token that a checked refresh has yet to
  be answered with (`AnswersEnd`), which is why crossing a logout or an end gains
  nothing.  Blacklisting dates the end at the clock, which no token exceeds by more
  than its life; a logout that fails changes no token.
* `ResidentInv`: what a request has loaded still holds (`Loaded`), because nothing
  moves a student to another institute and a hostel leaves one only by a platform
  operator's move, which the property sets aside.  `DisabledTogether` follows each
  of the two saves: whoever is between them works alone on the student or the
  student is in `crossed`, and every other save of the row keeps its flag.

### Sign-in

The lemmas about the cache (`CodeDoes`, `StartFits` and others) first say what each
call does to the codes, the counters, the links and the stage of its request; the
two invariants are then proved from that alone.

* `OnceInv`, for a code or a link that two requests never presented at once: it is
  in one entry of the cache only (`CodesApart`), in none before it is issued
  (`Unissued`) and in none once it has let somebody in (`Spent`), and a request
  that has compared it and not yet let anybody in is the only one that holds it
  (`Once`, `Placed`).  A step either makes entries disappear (`Fading`) or stores a
  secret that was not there.
* `GuessInv`, for the cache in a worker's memory, which serves one request at a
  time: the wrong guesses at a code are at most what its counter says, and the
  counter lives as long as the code does (`Watched`), but for the moment between a
  new code and the deletion of the old counter, and between a wrong guess and its
  count (`Guessing`).  It needs that the death of a worker empties that cache: a
  new code with the counter of the old one would outlive it.

### The move to another database

`CopyInv`: as long as the program has not written, what was copied of each table is
what a fresh copy would be (`UpToDate`).  At the commit, `TokensComeWhole` says that
the insertion without references and the update that restores them give the file's
rows back, dated by the copy (`Inserted`), because keys are unique there, and
`PermissionsKeepNames` that matching
permissions by name leaves what is allowed as it was, as far as the target has the
name.

### What is shown

Windows, slot lengths and the lengths of hours and days are any naturals that obey
`GridAssumption`, and the proofs are arithmetic of them.

* A slot of a day begins at the opening plus a multiple of the slot's length
  (`SlotIs`), and slots of one day do not overlap (`SlotsApart`); a day has the slots
  of the day before, a day later (`SlotYesterday`).  What `ResolveSlot` finds
  starts at the time asked for, and a slot is found by its start (`Resolved`,
  `Resolves`, with `FirstOfThem` for what the code takes the first of).
* `ViewsInv`: live bookings of a machine do not overlap (`InsertKeeps`,
  `MoveKeeps`), have positive length and the flag their machine gives them, and
  finitely many rows are in use.
* A listing loads every booking that may overlap its slots (`LoadedEnough`), so what
  it shows as free meets none and can be booked (`FreeIsBookable`); and an option of
  `move_options` is such a slot (`AnOption`).  Slots of an hour or more begin in
  different hours (`OneSlotAnHour`), so that a cell has one booking, and slots of
  full hours begin on the hour that names them (`OnTheHour`).  A booking on the grid
  is on a slot that the card's scan saw as held (`HeldSlotShows`), and the card's
  time is no later than that slot.
* The timeline takes the newest `n` of each source and then the newest `n` of all.
  The newest `n` of a set are those with fewer than `n` later ones, and there are
  `n` of them if the set has as many (`NewestAreMany`, by the rank of a time), so an
  item that is left out has `n` newer ones in the feed (`LeftOut`).
* Rounding moves a count by half a point at most (`Rounding`), wherever the
  floating-point product puts a half.  The corrected share is what the four others
  leave, so it is off by what they are off together (`Drift`).

### Only model-checked

Liveness (`ClaimsSettle`, `AdminRequestsEnd`) is out of the prover's reach: these
two are checked under `FairSpec` on the small instance and nothing is claimed
beyond it.  Every other property of a passing run is a theorem.  The properties
that are violated have their counterexamples.

## 5. What could follow

1. Replies to tickets, promotion and strikes, and the remaining aggregations of
   the dashboards.
2. The fields of a machine that `Booking` takes for constants, its kind and hostel,
   as variables of `MachineAdmin`.

An abstract specification of a login is not among them: it would be the formula of
`SessionsEnd` written as an action, since a login has one thing to promise, when it
ends.

## 6. Not modelled, and why

* Replies and photos of tickets: they append to the thread and change nothing
  that is read back.  Other notifications than a ticket's, and availability
  misses: written with the state they report, and read by nobody's guard.  The PUT
  of preferences is a single row's.
* CRUD of institutes, domains, rules and administrators: single-row edits behind
  the scope checks that `Residents` has for students and hostels.  Rules and kinds
  of machines are constants of the booking modules.
* promote and strikes: one column each, read by no guard but `CanMutate`'s
  verification, which `barred` stands for.
* Proof key, redirect addresses, resources and metadata of the OAuth server, and
  the JSON-RPC envelope: checks of the form of one request.
* The overview counts, utilisation, peak hours, leaders and misses: queries that
  only count.
* Student and admin serializers as far as they format.  Mail, photo upload and
  throttling: best-effort output, or counters outside the state modelled.
* `seed_pilot` fills an empty database, the other commands try out mail and photo
  storage, migrations are generated, and settings are read once.
