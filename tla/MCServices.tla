----------------------------- MODULE MCServices -----------------------------
(***************************************************************************)
(* An instance for TLC of what is shown of slots, the grants of assistants,*)
(* tickets, the lists of the first page and the chart.  The modules share  *)
(* no variable, and interleaving them would only multiply their states: a  *)
(* behaviour is one component's, named by focus, and the others stay as    *)
(* they start.                                                             *)
(*                                                                         *)
(* Interchangeable values of different components have the same names (x1, *)
(* x2 and y1, y2): it keeps the symmetry group at four.                    *)
(***************************************************************************)
EXTENDS SlotViews, OAuthGrants, Tickets, Activity, Analytics, TLC

CONSTANTS x1, x2, y1, y2, m1, o1, o2

\* The one of the committee who is at work while students raise tickets.
ASSUME ServicesAssumption == o1 \in Officers

VARIABLE focus

Symmetric == Permutations({x1, x2}) \cup Permutations({y1, y2})

Hours(from, to, length) == [from |-> from, to |-> to, length |-> length]

\* By day, 24 hours, past midnight on the full hour and off it, and slots
\* shorter than an hour.
SomeWindows ==
  {Hours(1, 5, 2), Hours(0, 0, 2), Hours(4, 2, 2), Hours(3, 1, 2), Hours(0, 5, 1)}

OneDryer == [m \in Machines |-> "dryer"]

EachItsProduct == [k \in Connectors |-> k]

-----------------------------------------------------------------------------

\* How the components that are not looked at start.
NoMachines == clock = DayLen /\ row = <<>> /\ table = [b \in BookingIds |-> NoBooking]

ServicesInit ==
  /\ focus \in {"views", "grants", "raising", "patching", "activity", "analytics"}
  /\ IF focus = "views" THEN ViewsInit ELSE NoMachines
  /\ GrantInit
  /\ TicketInit /\ (focus = "patching" \/ wants)
  /\ ActivityInit
  /\ AnalyticsInit

Views ==
  /\ focus = "views"
  /\ ViewsNext
  /\ UNCHANGED <<focus, grantVars, ticketVars, activityVars, booked>>

Granting ==
  /\ focus = "grants"
  /\ GrantNext
  /\ UNCHANGED <<focus, viewVars, ticketVars, activityVars, booked>>

AlmostAll == <<focus, viewVars, grantVars, activityVars, booked>>

\* Two students at once, and one of the committee.
Raising ==
  /\ focus = "raising"
  /\ \/ \E r \in Raisers : RaiseStep(r)
     \/ DeskStep(o1)
  /\ UNCHANGED AlmostAll

\* Two PATCHes at once, of one ticket.
Patching ==
  /\ focus = "patching"
  /\ \/ \E r \in Raisers :
          /\ \A q \in Raisers \ {r} : raise[q].stage = "none"
          /\ raise[r].stage = "none" => Raised = {}
          /\ RaiseStep(r)
     \/ \E o \in Officers : DeskStep(o)
  /\ UNCHANGED AlmostAll

Happening ==
  /\ focus = "activity"
  /\ ActivityNext
  /\ UNCHANGED <<focus, viewVars, grantVars, ticketVars, booked>>

Counting ==
  /\ focus = "analytics"
  /\ AnalyticsNext
  /\ UNCHANGED <<focus, viewVars, grantVars, ticketVars, activityVars>>

ServicesNext ==
  Views \/ Granting \/ Raising \/ Patching \/ Happening \/ Counting

allVars == <<focus, viewVars, grantVars, ticketVars, activityVars, booked>>

ServicesSpec == ServicesInit /\ [][ServicesNext]_allVars

\* Every variable of every component stays in its type.
ServicesTypeOK ==
  ViewsTypeOK /\ GrantTypeOK /\ TicketTypeOK /\ ActivityTypeOK /\ AnalyticsTypeOK
=============================================================================
