----------------------------- MODULE SlotClaims -----------------------------
(***************************************************************************)
(* What the booking service promises about machines, without requests,     *)
(* locks or stale reads: a claim holds one machine for one interval, taking*)
(* a place and shifting to another one are atomic and need a vacant place, *)
(* and a claim that is released never comes back.  The module models no    *)
(* code; the booking modules are shown to implement it.                    *)
(***************************************************************************)
EXTENDS Integers

CONSTANTS Claims, Machines, Slots, None

VARIABLE claim

Place == [machine : Machines, slot : Slots]

Fresh == [state |-> "fresh", place |-> None]
Gone == [state |-> "gone", place |-> None]
Held(p) == [state |-> "held", place |-> p]

IsHeld(c) == claim[c].state = "held"

Intersect(s, t) == s.start < t.end /\ s.end > t.start

\* No claim other than c holds any part of place p.
Vacant(p, c) ==
  \A d \in Claims \ {c} :
    IsHeld(d) /\ claim[d].place.machine = p.machine
      => ~Intersect(claim[d].place.slot, p.slot)

Init == claim = [c \in Claims |-> Fresh]

Take(c, p) ==
  /\ claim[c] = Fresh
  /\ Vacant(p, c)
  /\ claim' = [claim EXCEPT ![c] = Held(p)]

Shift(c, p) ==
  /\ IsHeld(c)
  /\ Vacant(p, c)
  /\ claim' = [claim EXCEPT ![c] = Held(p)]

\* One administrator's action may release many claims at once.
Release(S) ==
  /\ \A c \in S : IsHeld(c)
  /\ claim' = [c \in Claims |-> IF c \in S THEN Gone ELSE claim[c]]

Next ==
  \/ \E c \in Claims, p \in Place : Take(c, p) \/ Shift(c, p)
  \/ \E S \in SUBSET Claims : Release(S)

Spec == Init /\ [][Next]_claim
=============================================================================
