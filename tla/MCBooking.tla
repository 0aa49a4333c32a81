------------------------------ MODULE MCBooking ------------------------------
(***************************************************************************)
(* Instances of the booking service and of machine administration for TLC. *)
(***************************************************************************)
EXTENDS BookingProperties, TLC

CONSTANTS s1, s2, m1, m2, b1, b2, w1, w2, a1, a2

\* Slots of length two and slots one unit later: a booking on one grid
\* straddles two slots of the other.
Even == {[start |-> 2, end |-> 4], [start |-> 4, end |-> 6]}
Odd == {[start |-> 3, end |-> 5]}

OneGrid == {Even}
TwoGrids == {Even, Odd}

OneWasher == m1 :> "washer"
TwoWashers == m1 :> "washer" @@ m2 :> "washer"

Symmetric == Permutations(Students) \cup Permutations(BookingIds) \cup Permutations(Workers)
  \cup Permutations(Admins)
=============================================================================
