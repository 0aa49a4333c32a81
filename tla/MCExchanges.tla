----------------------------- MODULE MCExchanges -----------------------------
(* Instances of exchanges next to the booking service for TLC. *)
EXTENDS MCBooking, ExchangeProperties

CONSTANTS x1, x2, c1, c2

\* Two slots of one week; the first starts within the bound of the clock.
Short == {{[start |-> 1, end |-> 2], [start |-> 2, end |-> 3]}}

ExchangeSymmetry ==
  Permutations(Students) \cup Permutations(BookingIds) \cup Permutations(ExchangeIds)
    \cup Permutations(Callers)
=============================================================================
