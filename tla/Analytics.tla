----------------------------- MODULE Analytics -----------------------------
(***************************************************************************)
(* Through which client bookings come, and the shares the administrators'  *)
(* chart shows of it: resolve_channel (base/clients.py) decides what is    *)
(* stored with a booking, channel_shares (laundry/services/analytics.py)   *)
(* collapses channels that share a name, rounds to whole percentages and   *)
(* gives the largest what is missing to 100.                               *)
(*                                                                         *)
(* Bookings are counted by channel; which ones they are does not matter.   *)
(***************************************************************************)
EXTENDS Integers

CONSTANTS
  MaxBooked,    \* bound on the live bookings
  NoChannel     \* a client that does not say what it is

ASSUME AnalyticsAssumption == MaxBooked \in Nat

VARIABLES booked   \* live bookings by channel

\* VALID_CHANNELS, and the one no request resolves to.
Declarable == {"app", "android", "ios", "website", "mcp"}
Stored == Declarable \cup {"whatsapp"}

\* CHANNEL_DISPLAY, its names shortened, and the palette of channel_shares.
DisplayName ==
  [c \in Stored |->
     CASE c \in {"app", "android"} -> "Android"
       [] c = "ios"                -> "iOS"
       [] c = "whatsapp"           -> "WhatsApp"
       [] c = "website"            -> "Website"
       [] c = "mcp"                -> "Assistant"]

Palette == {"Android", "iOS", "WhatsApp", "Website", "Assistant"}

-----------------------------------------------------------------------------
(* Bookings *)

\* resolve_channel: a request of an assistant is one whatever it claims, then
\* the claim signed at login counts, then what the request says of itself (its
\* header, else its agent), and otherwise it is the app.
ResolveChannel(byToken, claimed, header, agent) ==
  IF byToken THEN "mcp"
  ELSE IF claimed # NoChannel THEN claimed
  ELSE IF header # NoChannel THEN header
  ELSE IF agent # NoChannel THEN agent ELSE "app"

LiveBookings ==
  booked["app"] + booked["android"] + booked["ios"] + booked["website"] + booked["mcp"]
    + booked["whatsapp"]

\* A booking through any client: what the request carries decides.
BookThrough(byToken, claimed, header, agent) ==
  /\ LiveBookings < MaxBooked
  /\ booked' = [booked EXCEPT ![ResolveChannel(byToken, claimed, header, agent)] = @ + 1]

\* Fault: a booking that is cancelled already is taken off again.
UnbookTwice(c) == booked' = [booked EXCEPT ![c] = @ - 1]

Unbook(c) ==
  /\ booked[c] > 0
  /\ booked' = [booked EXCEPT ![c] = @ - 1]

Said == Declarable \cup {NoChannel}

AnalyticsInit == booked = [c \in Stored |-> 0]

AnalyticsNext ==
  \/ \E byToken \in BOOLEAN, claimed \in Said, header \in Said, agent \in Said :
       BookThrough(byToken, claimed, header, agent)
  \/ \E c \in Stored : Unbook(c)

AnalyticsSpec == AnalyticsInit /\ [][AnalyticsNext]_booked

-----------------------------------------------------------------------------
(* channel_shares *)

ShownAs(name, c) == IF DisplayName[c] = name THEN booked[c] ELSE 0

CountOf(name) ==
  ShownAs(name, "app") + ShownAs(name, "android") + ShownAs(name, "ios")
    + ShownAs(name, "website") + ShownAs(name, "mcp") + ShownAs(name, "whatsapp")

SumOf(pct) ==
  pct["Android"] + pct["iOS"] + pct["WhatsApp"] + pct["Website"] + pct["Assistant"]

\* round(): to the nearest whole percentage, halves to the even one; but the
\* floating-point product by 100 is above 54.5 and below 57.5.
HalfGoesUp(q) == q = 54 \/ (q % 2 = 1 /\ q # 57)

Percent(n, total) ==
  LET q == (100 * n) \div total
      r == 2 * ((100 * n) % total)
  IN IF r > total \/ (r = total /\ HalfGoesUp(q)) THEN q + 1 ELSE q

\* Fault: what is missing is taken from the largest.
SharesDrifting ==
  LET total   == LiveBookings
      pct     == [name \in Palette |-> IF total = 0 THEN 0 ELSE Percent(CountOf(name), total)]
      largest == CHOOSE name \in Palette : \A other \in Palette : pct[other] =< pct[name]
      drift   == 100 - SumOf(pct)
  IN IF total = 0 THEN pct ELSE [pct EXCEPT ![largest] = @ - drift]

Shares ==
  LET total   == LiveBookings
      pct     == [name \in Palette |-> IF total = 0 THEN 0 ELSE Percent(CountOf(name), total)]
      largest == CHOOSE name \in Palette : \A other \in Palette : pct[other] =< pct[name]
      drift   == 100 - SumOf(pct)
  IN IF total = 0 THEN pct ELSE [pct EXCEPT ![largest] = @ + drift]

-----------------------------------------------------------------------------
(* Properties *)

AnalyticsTypeOK ==
  /\ booked \in [Stored -> 0..MaxBooked]
  /\ LiveBookings =< MaxBooked
  /\ booked["whatsapp"] = 0

\* The shares of the chart add up to 100 as soon as there is a booking, every
\* booking is in one of them, and what rounding adds to the largest does not
\* take any share further than 2 points from the truth, half a point for each of
\* the others.
SharesAddUp ==
  LET total == LiveBookings IN
  /\ \A c \in Stored : DisplayName[c] \in Palette
  /\ total > 0 =>
       /\ SumOf(Shares) = 100
       /\ \A name \in Palette :
            LET off == Shares[name] * total - 100 * CountOf(name)
            IN off =< 2 * total /\ -off =< 2 * total
=============================================================================
