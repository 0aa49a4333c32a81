------------------------- MODULE ExchangeProperties -------------------------
(***************************************************************************)
(* What exchanges guarantee next to bookings, and what the documentation   *)
(* and the tests say of them that does not hold on every database or for   *)
(* calls that cross.                                                       *)
(***************************************************************************)
EXTENDS Exchanges, BookingProperties

\* Every variable of Exchanges holds a value of its type.
ExchangeTypeOK ==
  /\ exchange \in [ExchangeIds -> ExchangeRow]
  /\ call \in [Callers -> Call]
  /\ crossed \subseteq Students

\* Exchanges keep the weekly quota of both sides: a student exceeds it only by
\* having had two booking requests in flight at once, or by receiving a booking
\* while a request of theirs or for that booking was in flight.
QuotaHeldUnlessCrossed ==
  \A s \in Students \ (overlapped \cup crossed), k \in Kinds, week \in Weeks :
    (k = "washer" \/ DryerCap) =>
      QuotaUsed(bookings, s, k, week, None) =< QuotaLimit

Owner == [b \in BookingIds |-> bookings[b].student]

TermsOf(e) ==
  [requester |-> e.requester, holder |-> e.holder, target |-> e.target, offered |-> e.offered]

\* However an exchange was settled its deal is closed, so an approval that is
\* overwritten as expired stays closed.
DealState ==
  [x \in ExchangeIds |->
    CASE exchange[x].status = "free" -> "none"
      [] exchange[x].status = "pending" -> "open"
      [] OTHER -> "closed"]

DealTerms ==
  [x \in ExchangeIds |-> IF exchange[x].status = "free" THEN None ELSE TermsOf(exchange[x])]

Dealt ==
  INSTANCE BookingDeals WITH
    Bookings <- BookingIds, Deals <- ExchangeIds,
    owner <- Owner, state <- DealState, terms <- DealTerms

\* Bookings change hands through deals that are concluded once and as a whole,
\* whatever calls of the two sides, expiries and cancellations cross.
ImplementsBookingDeals == Dealt!Spec

-----------------------------------------------------------------------------
(* What the documentation and the tests say, and the code does not do *)

\* tests/test_exchanges.py:123-124 (on SQLite): approving a pending exchange
\* settles it.  On PostgreSQL the transaction of an answer cannot lock the
\* exchange and leaves it pending.
AnswersSettle ==
  [][\A c \in Callers :
       AtTransaction(c) /\ call'[c] = NoCall => exchange'[call[c].exchange].status # "pending"
    ]_allVars

\* base/apidocs.py:160: every tool acts only on the student's own data.  A
\* cancellation or a move that read the student's booking before an exchange gave
\* it away is written to what is somebody else's booking by then.
OwnBookingsOnly ==
  [][\A w \in Workers, b \in BookingIds :
       /\ job[w].booking = b /\ job[w].student # None
       /\ job'[w] # job[w] /\ bookings'[b] # bookings[b]
       => job[w].student = bookings[b].student]_allVars
=============================================================================
