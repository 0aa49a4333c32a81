----------------------------- MODULE GrantKeys ------------------------------
(***************************************************************************)
(* What the authorization server promises about grants, without rows,      *)
(* walks or stale reads: a grant is carried on by a key, at first its code *)
(* and then each refresh token, which is valid until it runs out, is given *)
(* up for the next one in a single step, and never comes back; and a grant *)
(* that is closed has no key and no access token, and never gets another.  *)
(*                                                                         *)
(* A key is presented before it is given up.  Only if it was given up or   *)
(* taken away in between is the grant forked, and then nothing more is     *)
(* promised of it.  The module models no code; OAuthGrants is shown to     *)
(* implement it.                                                           *)
(***************************************************************************)
CONSTANTS
  Grants,
  Tokens,     \* a refresh token, and the access token issued with it
  TheCode,    \* the key that a grant begins with
  Hands,      \* in which a key can be, and
  Empty       \* the hand that has none

VARIABLES
  known,    \* the keys that a grant has ever had
  unspent,  \* those neither given up nor taken away, and
  valid,    \* those of them that have not run out
  usable,   \* the access tokens of a grant that still work
  hand,     \* the grant and the key that have been presented
  closed,
  forked

vars == <<known, unspent, valid, usable, hand, closed, forked>>

Init ==
  /\ known = [g \in Grants |-> {}] /\ unspent = known
  /\ valid = known /\ usable = known
  /\ hand = [h \in Hands |-> Empty]
  /\ closed = {} /\ forked = {}

\* The student approves.
Open(g) ==
  /\ known[g] = {}
  /\ known' = [known EXCEPT ![g] = {TheCode}]
  /\ unspent' = [unspent EXCEPT ![g] = {TheCode}]
  /\ valid' = [valid EXCEPT ![g] = {TheCode}]
  /\ UNCHANGED <<usable, hand, closed, forked>>

Present(h, g, k) ==
  /\ hand[h] = Empty
  /\ k \in valid[g] \/ g \in forked
  /\ hand' = [hand EXCEPT ![h] = <<g, k>>]
  /\ UNCHANGED <<known, unspent, valid, usable, closed, forked>>

\* A key that is still there is given up for a new one of the same grant.
Exchange(h, g, k, new) ==
  /\ hand[h] = <<g, k>> /\ k \in unspent[g]
  /\ \A f \in Grants : new \notin known[f]
  /\ known' = [known EXCEPT ![g] = @ \cup {new}]
  /\ unspent' = [unspent EXCEPT ![g] = (@ \ {k}) \cup {new}]
  /\ valid' = [valid EXCEPT ![g] = (@ \ {k}) \cup {new}]
  /\ usable' = [usable EXCEPT ![g] = @ \cup {new}]
  /\ hand' = [hand EXCEPT ![h] = Empty]
  /\ UNCHANGED <<closed, forked>>

\* One that is not any more is used all the same.
Fork(h, g, k) ==
  /\ hand[h] = <<g, k>> /\ k \notin unspent[g]
  /\ forked' = forked \cup {g}
  /\ known' = [known EXCEPT ![g] = {}] /\ unspent' = [unspent EXCEPT ![g] = {}]
  /\ valid' = [valid EXCEPT ![g] = {}] /\ usable' = [usable EXCEPT ![g] = {}]
  /\ closed' = closed \ {g}
  /\ hand' = [hand EXCEPT ![h] = Empty]

\* Keys and access tokens run out or are taken away, and grants are closed that
\* have none left.
Fade ==
  /\ \A g \in Grants :
       /\ unspent'[g] \subseteq unspent[g] /\ usable'[g] \subseteq usable[g]
       /\ valid'[g] \subseteq valid[g] /\ valid'[g] \subseteq unspent'[g]
  /\ closed \subseteq closed'
  /\ \A g \in closed' : unspent'[g] = {} /\ usable'[g] = {}
  /\ UNCHANGED <<known, hand, forked>>

Next ==
  \/ Fade
  \/ \E g \in Grants : Open(g)
  \/ \E h \in Hands, g \in Grants, k \in Tokens \cup {TheCode} :
       \/ Present(h, g, k)
       \/ \E new \in Tokens : Exchange(h, g, k, new)
       \/ Fork(h, g, k)

Spec == Init /\ [][Next]_vars
=============================================================================
