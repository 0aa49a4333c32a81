---------------------------- MODULE BookingDeals ----------------------------
(***************************************************************************)
(* What exchanges promise, without calls, staleness or a database: a       *)
(* booking changes hands only when a deal about it is concluded, a deal    *)
(* moves everything it names in one step, from the students who agreed to  *)
(* it, and a deal is concluded or called off once.  The module models no   *)
(* code; Exchanges is shown to implement it.                               *)
(***************************************************************************)
CONSTANTS Bookings, Students, Deals, None

VARIABLES owner, state, terms

Terms ==
  [ requester : Students, holder : Students,
    target : Bookings, offered : Bookings \cup {None} ]

\* Both sides still have what they agreed to give.
Keepable(t) ==
  owner[t.target] = t.holder /\ (t.offered # None => owner[t.offered] = t.requester)

Traded(t) ==
  [b \in Bookings |->
    CASE b = t.target -> t.requester
      [] b = t.offered -> t.holder
      [] OTHER -> owner[b]]

Init ==
  /\ owner = [b \in Bookings |-> None]
  /\ state = [d \in Deals |-> "none"]
  /\ terms = [d \in Deals |-> None]

\* A booking is made.  Cancelling it leaves its owner alone.
Acquire(b, s) ==
  /\ owner[b] = None
  /\ owner' = [owner EXCEPT ![b] = s]
  /\ UNCHANGED <<state, terms>>

Propose(d, t) ==
  /\ state[d] = "none"
  /\ t.requester # t.holder
  /\ state' = [state EXCEPT ![d] = "open"]
  /\ terms' = [terms EXCEPT ![d] = t]
  /\ UNCHANGED owner

Close(d) ==
  /\ state[d] = "open"
  /\ state' = [state EXCEPT ![d] = "closed"]
  /\ UNCHANGED terms

CallOff(d) == Close(d) /\ UNCHANGED owner

Conclude(d) ==
  /\ Close(d)
  /\ Keepable(terms[d])
  /\ owner' = Traded(terms[d])

Next ==
  \/ \E b \in Bookings, s \in Students : Acquire(b, s)
  \/ \E d \in Deals : CallOff(d) \/ Conclude(d) \/ \E t \in Terms : Propose(d, t)

Spec == Init /\ [][Next]_<<owner, state, terms>>
=============================================================================
